------------------------------ MODULE MCWaits ------------------------------
(***************************************************************************)
(* Where the control thread waits for another: for the console's reader in *)
(* the broker, and for the executor in the machine's requests (Lifecycle). *)
(* Here they share no state, and each behaviour is one of theirs.          *)
(***************************************************************************)
EXTENDS ConsoleBroker, TLC

MCMode == ("monitor" :> "cooked") @@ ("vm" :> "raw")

MCCalls(replace, request, cancel, destroy) ==
  [c \in Calls |-> CASE c = "replace" -> replace [] c = "request" -> request
                     [] c = "cancel" -> cancel [] c = "destroy" -> destroy]

Script(calls, types, writes, faults, failing, detached) ==
  [calls |-> calls, types |-> types, writes |-> writes, faults |-> faults,
   failing |-> failing, detached |-> detached]

MCScripts == {
  \* handovers, lines and writes with a native console that works
  Script(MCCalls(3, 2, 1, 1), 3, 2, 0, {}, {}),
  \* every step of a handover may fail, twice
  Script(MCCalls(3, 1, 0, 1), 2, 2, 2, Failures \ {"read"}, {}),
  \* the VM Console's component goes away under its reader
  Script(MCCalls(3, 0, 0, 1), 2, 1, 0, {}, {"vm"}),
  \* lines requested and cancelled
  Script(MCCalls(0, 3, 2, 1), 3, 0, 1, Failures \ {"read"}, {}),
  \* a read that fails while nobody retires its reader
  Script(MCCalls(0, 2, 0, 0), 1, 0, 1, {"read"}, {}),
  Script(MCCalls(1, 0, 0, 0), 1, 0, 1, {"read"}, {})}

CONSTANTS Capacity, RequestPlans   \* of MCLifecycle

VARIABLES
  state, runGen, pubGen, lease, req, ev, inq, open, drv, restore, status, w, c,
  events, faults, monitor, pending, cooked, due, debugging, uiGen, used, scenario,
  part    \* whose behaviour this is

Requests == INSTANCE MCLifecycle WITH Plans <- RequestPlans, fifo <- events, line <- cooked, plan <- scenario

Instances == INSTANCE MCLifecycle WITH Plans <- {}, fifo <- events, line <- cooked, plan <- scenario
MCRequestPlans == Instances!LivePlans

requestVars ==
  <<state, runGen, pubGen, lease, req, ev, inq, open, drv, restore, status, w, c, events,
    faults, monitor, pending, cooked, due, debugging, uiGen, used, scenario>>
all == <<brokerVars, requestVars, part>>

(* The other part stays in one of its initial states.                      *)
InitEach ==
  /\ BrokerInit /\ Requests!Init
  /\ \/ part = "broker" /\ scenario = CHOOSE p \in RequestPlans : TRUE
     \/ part = "requests" /\ script = CHOOSE p \in BrokerPlans : TRUE

BrokerTurn == part = "broker" /\ BrokerNext /\ UNCHANGED <<requestVars, part>>
RequestStep == part = "requests" /\ Requests!Next /\ UNCHANGED <<brokerVars, part>>

(* The fairness of Lifecycle, owed only where its part moves; the broker's *)
(* steps are not enabled where it does not.                                *)
Owed(step) == part = "requests" /\ step /\ UNCHANGED scenario
RequestFairness ==
  /\ WF_requestVars(Owed(Requests!ExecutorStep /\ UNCHANGED faults))
  /\ WF_requestVars(Owed(Requests!CallStep /\ UNCHANGED faults))
  /\ WF_requestVars(Owed(Requests!Session))
  /\ SF_requestVars(Owed(Requests!RunCapture
       /\ UNCHANGED <<monitor, pending, cooked, due, debugging, uiGen, used>>))

SpecEach ==
  /\ InitEach /\ [][BrokerTurn \/ RequestStep]_all
  /\ BrokerFairness /\ RequestFairness

(* Requests return and dispatched ones end: see Lifecycle.                 *)
RequestsComplete == Requests!RequestsComplete

(* Leaving the session joins the executor: see Lifecycle.                  *)
ShutdownCompletes == Requests!ShutdownCompletes
=============================================================================
