----------------------------- MODULE Lifecycle -----------------------------
(***************************************************************************)
(* The session's control thread (src/emulator/session/session.c) driving   *)
(* the machine executor: one FIFO of completed facts, monitor lines,       *)
(* hotkeys and guest input; one lifecycle request in flight; one cooked    *)
(* monitor line; the product's command table (src/emulator/product/        *)
(* monitor.c, x86-ibmpc/product, app-softpc/product/extensions.c).         *)
(*                                                                         *)
(* The display is the Window, so the monitor console is always current;    *)
(* the switching of consoles is the subject of another module.             *)
(***************************************************************************)
EXTENDS Machine

CONSTANT
  Plans   \* what may happen from outside in one behaviour: the monitor
          \* commands typed, the Window events caused, how many of both, and
          \* how many native synchronization calls fail

Lifecycles == {"start", "pause", "resume", "stop", "reset"}
DebugCommands == {"peek", "go", "quit"}
AllCommands == Lifecycles \cup DebugCommands \cup
               {"save", "load", "floppy", "debug", "exit", "help"}
AllInputs == {"pauseToggle", "close", "key"}

ASSUME LifecycleAssumption ==
  Plans \subseteq [commands : SUBSET AllCommands, inputs : SUBSET AllInputs,
                   events : Nat, failures : Nat]

VARIABLES
  monitor,   \* state.monitor_actual
  pending,   \* pending_request
  line,      \* the cooked line: none, armed at the console, typed (in the FIFO)
  due,       \* prompt_due
  debugging, \* the debugger owns the monitor line
  uiGen,     \* the run generation the UI stamps on Window events
  used,      \* lines and Window events so far
  plan       \* the plan of this behaviour

sessionVars == <<monitor, pending, line, due, debugging, uiGen, used>>
vars == <<machineVars, sessionVars, plan>>

Live == c.then \notin {"exit", "shutdown"}   \* the session loop still runs

Init ==
  /\ MachineInit
  /\ c = [pc |-> "idle", op |-> "none", then |-> "none", ok |-> TRUE,
          cold |-> FALSE, gen |-> 0]
  /\ fifo = <<[kind |-> "fact", val |-> "STOPPED", gen |-> 0]>>
  /\ monitor = "INIT" /\ pending = "none" /\ line = "armed" /\ due = FALSE
  /\ debugging = FALSE /\ uiGen = 0 /\ used = 0
  /\ plan \in Plans /\ faults = plan.failures

(***************************************************************************)
(* What ends the handling of one event.                                    *)
(***************************************************************************)

(* Text on the monitor takes an armed line back; a line that was already   *)
(* typed stays in the FIFO.                                                *)
Interrupted == IF line = "armed" THEN "none" ELSE line

(* emulator_session_drive refreshes the generation the UI stamps, then     *)
(* emulator_session_arm_if_ready asks for the next line.                   *)
Settle(l, d, p) ==
  LET arm == p = "none" /\ d /\ l = "none"
  IN /\ line' = IF arm THEN "armed" ELSE l
     /\ due' = (d /\ ~arm)
     /\ pending' = p
     /\ uiGen' = runGen

Idle == c' = [c EXCEPT !.pc = "idle", !.op = "none", !.then = "none",
                       !.ok = TRUE, !.cold = FALSE, !.gen = 0]
Call(op, pc, then) == c' = [c EXCEPT !.pc = pc, !.op = op, !.then = then]

(* A result that arms the prompt, the cooked line being l.                 *)
Prompt(l) == Idle /\ Settle(l, TRUE, pending)

(* emulator_session_apply_result for a lifecycle request: only one may be  *)
(* in flight.                                                              *)
Request(op, l) ==
  \/ /\ pending = "none" /\ Call(op, "check", "dispatch")
     /\ line' = l /\ UNCHANGED <<due, pending, uiGen>>
  \/ /\ pending # "none" /\ Idle
     /\ Settle(IF l = "armed" THEN "none" ELSE l, due, pending)

(* emulator_product_monitor_request_lifecycle: the states (as the monitor  *)
(* last heard of them) in which a command becomes a request.               *)
Permits(cmd) == CASE cmd = "start" -> {"STOPPED"}
                  [] cmd = "pause" -> {"RUNNING"}
                  [] cmd = "resume" -> {"PAUSED"}
                  [] cmd = "stop" -> {"RUNNING", "PAUSED"}
                  [] cmd = "reset" -> {"STOPPED", "RUNNING", "PAUSED"}

RequestLifecycle(cmd, l) ==
  IF monitor \in Permits(cmd) THEN Request(cmd, l)
  ELSE Prompt(IF l = "armed" THEN "none" ELSE l)

(***************************************************************************)
(* Events.                                                                 *)
(***************************************************************************)

Taking(kind) ==
  /\ c.pc = "idle" /\ fifo # <<>> /\ Head(fifo).kind = kind
  /\ fifo' = Tail(fifo)

(* emulator_session_process_completed for a runtime fact: one of an older  *)
(* run is dropped; a current one moves the monitor, ends the pending       *)
(* request and is announced.                                               *)
Announced(s) ==
  \/ s \in {"RESET_COMPLETED", "ERROR"}
  \/ s = "PAUSED" /\ monitor = "RUNNING"
  \/ s = "RUNNING" /\ monitor \in {"STOPPED", "PAUSED"}
  \/ s = "STOPPED" /\ monitor \notin {"STOPPED", "INIT"}

StaleFact ==
  /\ Taking("fact")
  /\ Head(fifo).gen \notin {0, runGen}
  /\ UNCHANGED <<sessionVars, state, runGen, pubGen, lease, req, ev, inq, open,
                 drv, restore, status, w, c, faults>>

RuntimeFact ==
  /\ Taking("fact")
  /\ Head(fifo).gen \in {0, runGen}
  /\ LET s == Head(fifo).val
     IN /\ monitor' = IF s = "RESET_COMPLETED" THEN "PAUSED" ELSE s
        /\ IF debugging /\ s = "PAUSED"
           THEN /\ Call("debug", "acquire", "observe") /\ pending' = "none"
                /\ UNCHANGED <<line, due, uiGen>>
           ELSE /\ Idle
                /\ IF Announced(s) THEN Settle(Interrupted, TRUE, "none")
                   ELSE Settle(line, due, "none")
  /\ UNCHANGED <<state, runGen, pubGen, lease, req, ev, inq, open, drv, restore,
                 status, w, faults, debugging, used>>

(* A monitor line; its cooked request is no longer outstanding.            *)
MonitorLine(cmds) == Taking("line") /\ Head(fifo).val \in cmds

LifecycleLine ==
  /\ ~debugging /\ MonitorLine(Lifecycles)
  /\ RequestLifecycle(Head(fifo).val, "none")
  /\ UNCHANGED <<state, runGen, pubGen, lease, req, ev, inq, open, drv, restore,
                 status, w, faults, monitor, debugging, used>>

(* save, load and floppy block the control thread in the machine call.     *)
StateLine ==
  /\ ~debugging /\ MonitorLine({"save", "load", "floppy"})
  /\ LET cmd == Head(fifo).val
         op == CASE cmd = "save" -> "read" [] cmd = "load" -> "write"
                 [] cmd = "floppy" -> "media"
         fits == CASE cmd = "save" -> monitor \in {"RUNNING", "PAUSED"}
                   [] cmd = "load" -> monitor \in {"INIT", "STOPPED"}
                   [] cmd = "floppy" -> monitor # "RUNNING"
     IN IF fits /\ (cmd = "floppy" \/ monitor # "ERROR")
        THEN /\ Call(op, "submit", "message") /\ line' = "none"
             /\ UNCHANGED <<due, pending, uiGen>>
        ELSE Prompt("none")
  /\ UNCHANGED <<state, runGen, pubGen, lease, req, ev, inq, open, drv, restore,
                 status, w, faults, monitor, debugging, used>>

(* The debugger takes over the line; other text only brings the prompt     *)
(* back.                                                                   *)
OpenDebugger ==
  /\ ~debugging /\ MonitorLine({"debug"}) /\ Prompt("none")
  /\ debugging' = (monitor # "ERROR")
  /\ UNCHANGED <<state, runGen, pubGen, lease, req, ev, inq, open, drv, restore,
                 status, w, faults, monitor, used>>

OtherLine ==
  /\ MonitorLine(IF debugging THEN AllCommands \ DebugCommands
                 ELSE DebugCommands \cup {"help"})
  /\ Prompt("none")
  /\ UNCHANGED <<state, runGen, pubGen, lease, req, ev, inq, open, drv, restore,
                 status, w, faults, monitor, debugging, used>>

DebugLine ==
  /\ debugging /\ MonitorLine(DebugCommands)
  /\ IF Head(fifo).val = "quit" THEN Call("none", "debugCancel", "quit")
     ELSE Call("debug", "acquire", Head(fifo).val)
  /\ line' = "none"
  /\ UNCHANGED <<state, runGen, pubGen, lease, req, ev, inq, open, drv, restore,
                 status, w, faults, monitor, pending, due, debugging, uiGen, used>>

(* exit dispatches a stop, leaves the loop and destroys the product.       *)
ExitLine ==
  /\ ~debugging /\ MonitorLine({"exit"})
  /\ Call("stop", "check", "exit") /\ line' = "none"
  /\ UNCHANGED <<state, runGen, pubGen, lease, req, ev, inq, open, drv, restore,
                 status, w, faults, monitor, pending, due, debugging, uiGen, used>>

(* Window events of the current run (emulator_session_accept_kvm_event).   *)
Accepted == Head(fifo).gen \in {0, runGen} /\ monitor \in {"RUNNING", "PAUSED"}

DropWindowEvent ==
  /\ Taking("window")
  /\ ~Accepted \/ (Head(fifo).val = "key" /\ monitor # "RUNNING")
  /\ UNCHANGED <<sessionVars, state, runGen, pubGen, lease, req, ev, inq, open,
                 drv, restore, status, w, c, faults>>

PauseToggle ==
  /\ Taking("window") /\ Head(fifo).val = "pauseToggle" /\ Accepted
  /\ RequestLifecycle(IF monitor = "RUNNING" THEN "pause" ELSE "resume", line)
  /\ UNCHANGED <<state, runGen, pubGen, lease, req, ev, inq, open, drv, restore,
                 status, w, faults, monitor, debugging, used>>

WindowClose ==
  /\ Taking("window") /\ Head(fifo).val = "close" /\ Accepted
  /\ IF monitor = "RUNNING" /\ pending = "none" THEN Request("pause", line)
     ELSE Idle /\ Settle(line, due, pending)
  /\ UNCHANGED <<state, runGen, pubGen, lease, req, ev, inq, open, drv, restore,
                 status, w, faults, monitor, debugging, used>>

GuestKey ==
  /\ Taking("window") /\ Head(fifo).val = "key" /\ Accepted
  /\ monitor = "RUNNING"
  /\ c' = [c EXCEPT !.pc = "push", !.op = "key", !.then = "key",
                    !.gen = Head(fifo).gen]
  /\ UNCHANGED <<sessionVars, state, runGen, pubGen, lease, req, ev, inq, open,
                 drv, restore, status, w, faults>>

(***************************************************************************)
(* What the session does with the result of a machine call.                *)
(***************************************************************************)

(* Any failure that returns FALSE from the loop destroys the product, whose *)
(* first step is emulator_machine_shutdown.                                *)
Leave == /\ c' = [c EXCEPT !.pc = "check", !.op = "stop", !.then = "shutdown"]
         /\ UNCHANGED <<line, due, pending, uiGen>>

(* A debugger run: set up the plan, then ask for the resume.               *)
ResumeRun == IF monitor = "PAUSED" THEN Request("resume", line)
             ELSE Prompt(Interrupted)

Returned ==
  /\ c.pc = "ret"
  /\ CASE c.then = "dispatch" -> IF c.ok THEN Idle /\ Settle(line, FALSE, c.op)
                                 ELSE Leave
       [] c.then = "key" -> IF c.ok THEN Idle /\ Settle(line, due, pending)
                            ELSE Leave
       [] c.then \in {"message", "peek", "quit"} -> Prompt(Interrupted)
       [] c.then = "go" -> IF c.ok THEN ResumeRun ELSE Prompt(Interrupted)
       [] c.then = "observe" -> \/ Prompt(Interrupted)
                                \/ c.ok /\ ResumeRun
       [] c.then = "exit" -> Leave
       [] c.then = "shutdown" -> /\ Step("terminate")
                                 /\ UNCHANGED <<line, due, pending, uiGen>>
  /\ debugging' = (debugging /\ c.then # "quit")
  /\ UNCHANGED <<state, runGen, pubGen, lease, req, ev, inq, open, drv, restore,
                 status, w, fifo, faults, monitor, used>>

(***************************************************************************)
(* The operator.                                                           *)
(***************************************************************************)

TypeLine ==
  /\ line = "armed" /\ Live /\ used < plan.events
  /\ \E cmd \in plan.commands :
       fifo' = Append(fifo, [kind |-> "line", val |-> cmd, gen |-> 0])
  /\ line' = "typed" /\ used' = used + 1
  /\ UNCHANGED <<state, runGen, pubGen, lease, req, ev, inq, open, drv, restore,
                 status, w, c, faults, monitor, pending, due, debugging, uiGen>>

UseWindow ==
  /\ monitor \in {"RUNNING", "PAUSED"} /\ Live /\ used < plan.events
  /\ \E i \in plan.inputs :
       fifo' = Append(fifo, [kind |-> "window", val |-> i, gen |-> uiGen])
  /\ used' = used + 1
  /\ UNCHANGED <<state, runGen, pubGen, lease, req, ev, inq, open, drv, restore,
                 status, w, c, faults, monitor, pending, line, due, debugging,
                 uiGen>>

Session ==
  \/ StaleFact \/ RuntimeFact \/ LifecycleLine \/ StateLine \/ OpenDebugger
  \/ OtherLine \/ DebugLine \/ ExitLine \/ DropWindowEvent \/ PauseToggle
  \/ WindowClose \/ GuestKey \/ Returned

ExecutorStep == Executor /\ UNCHANGED sessionVars
GuestFails == RunFails /\ UNCHANGED sessionVars
CallStep == Calls /\ UNCHANGED sessionVars

(* Nothing is left to do once the product is destroyed.                    *)
Finished == c.pc = "over" /\ UNCHANGED vars

Next == /\ \/ ExecutorStep \/ GuestFails \/ CallStep \/ Session
           \/ TypeLine \/ UseWindow \/ Finished
        /\ UNCHANGED plan

(* Both threads keep running; no step is owed to a failure or to the       *)
(* operator.  The guest reaches a checkpoint after every instruction, so a *)
(* requested capture is not passed over for ever.                          *)
Fairness ==
  /\ WF_vars(ExecutorStep /\ UNCHANGED <<faults, plan>>)
  /\ WF_vars(CallStep /\ UNCHANGED <<faults, plan>>)
  /\ WF_vars(Session /\ UNCHANGED plan)
  /\ SF_vars(RunCapture /\ UNCHANGED <<sessionVars, plan>>)

Spec == Init /\ [][Next]_vars
FairSpec == Spec /\ Fairness

(***************************************************************************)
(* Properties.                                                             *)
(***************************************************************************)

(* Every variable keeps its type and the input ring its capacity.          *)
TypeOK ==
  /\ state \in States /\ runGen \in Nat /\ pubGen \in Nat
  /\ lease \in BOOLEAN /\ open \in BOOLEAN
  /\ req \subseteq Flags /\ ev \subseteq Events /\ drv \subseteq Driver
  /\ inq \in Seq(Nat) /\ Len(inq) <= Capacity
  /\ restore \in {"none", "staged", "live"}
  /\ status \in {"none", "ok", "failed"}
  /\ w.pc \in WorkerPCs /\ c.pc \in ControlPCs
  /\ monitor \in States \cup {"INIT"}
  /\ pending \in Lifecycles \cup {"none"}
  /\ line \in {"none", "armed", "typed"}

(* A blocked caller that wakes on its completion event reads the result of *)
(* its own request: the slot was written after the request was registered  *)
(* and the executor has let go of the request (wait_request against        *)
(* submit_request, the services and finish_requests).                      *)
ResultIsFresh ==
  c.pc = "await" /\ Completion(c.op) \in ev /\ "cancel" \notin ev
    => status # "none" /\ c.op \notin req

(* Nothing queued for the guest was meant for an earlier run: the          *)
(* generation check of accept_kvm_event and the clearing of the ring at    *)
(* every cold run leave no gap between them.                               *)
InputBelongsToRun == \A i \in DOMAIN inq : inq[i] = runGen

(* While the machine says PAUSED the guest executes only for a state save  *)
(* that asked it to go on to a checkpoint.                                 *)
PausedGuestIsParked ==
  state = "PAUSED" /\ w.pc = "run" /\ "stop" \notin req => "continuing" \in req

(* Between the finished capture of a save in flight and its rendezvous no  *)
(* input reaches the devices (the comment before the state read in         *)
(* executor_event).                                                        *)
NoInputAfterCapture ==
  [][{"result"} \subseteq drv \cap drv' /\ "armed" \in req
       => Len(inq') >= Len(inq)]_vars

(* The session has handled every event and no transition is in flight.     *)
Quiet == c.pc = "idle" /\ fifo = <<>> /\ pending = "none"

(* An idle session has a monitor line outstanding, whichever events        *)
(* cancelled, consumed or delayed the one before; a transition the         *)
(* executor has still to finish will bring one back.  And once both        *)
(* threads are idle the monitor shows the machine's state: no fact was     *)
(* lost, reordered or dropped as stale.  It is checked for five events of  *)
(* a cold reset under the debugger: a sixth acts on the RESET_COMPLETED    *)
(* that is announced too early there (ResetFactIsTrue), and breaks it.     *)
IdleSessionIsCurrent ==
  /\ Quiet /\ req \cap {"stop", "reset", "resetActive", "start"} = {} => line # "none"
  /\ Quiet /\ w.pc \in {"wait", "parkWait", "gone"}
       /\ ev \cap {"command", "resume", "cancel"} = {}
     => monitor = state

(* RESET_COMPLETED is announced only when the cold reset it reports is     *)
(* done: none is still asked for.                                          *)
ResetFactIsTrue ==
  [][fifo' = Append(fifo, [kind |-> "fact", val |-> "RESET_COMPLETED", gen |-> runGen])
      => "reset" \notin req /\ c.pc # "resetFlag"]_vars

(* The driver has no capture to finish but the one of the save in flight:  *)
(* once finish_requests has let a caller go, the writer the caller lent    *)
(* for its request is no longer used (the comment before it).              *)
BorrowedWriterIsReturned ==
  w.pc = "run" /\ "capture" \in drv => "armed" \in req

(* A request the session dispatches is refused only by a failed machine:   *)
(* the state it was permitted in is the state the machine is in.           *)
RefusedOnlyByError ==
  c.pc = "ret" /\ c.then = "dispatch" /\ ~c.ok => state = "ERROR"

(* A blocked request returns to the control thread (wait_request), and a   *)
(* dispatched lifecycle request ends with a fact that clears it.           *)
RequestsComplete ==
  /\ c.pc \in {"await", "join"} ~> c.pc \notin {"await", "join"}
  /\ pending # "none" ~> (pending = "none" \/ ~Live)

(* Leaving the session joins the executor, wherever it is.                 *)
ShutdownCompletes == ~Live ~> c.pc = "over"

=============================================================================
