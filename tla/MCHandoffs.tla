----------------------------- MODULE MCHandoffs -----------------------------
(***************************************************************************)
(* The three structures that hand something from one thread to another     *)
(* under a lock: the session's control queue, the machine's input queue    *)
(* and the frame exchange.  They share no state; each behaviour is one of  *)
(* theirs.                                                                 *)
(***************************************************************************)
EXTENDS SessionQueue, InputQueue, FrameExchange

VARIABLE part    \* whose behaviour this is

all == <<vars, ringVars, exchangeVars, part>>

InitEach ==
  /\ Init /\ RingInit /\ ExchangeInit
  /\ part \in {"control", "input", "frames"}

ControlStep == part = "control" /\ Next /\ UNCHANGED <<ringVars, exchangeVars, part>>
InputStep == part = "input" /\ RingNext /\ UNCHANGED <<vars, exchangeVars, part>>
FrameStep == part = "frames" /\ ExchangeNext /\ UNCHANGED <<vars, ringVars, part>>

SpecEach ==
  /\ InitEach /\ [][ControlStep \/ InputStep \/ FrameStep]_all
  /\ Fairness /\ ExchangeFairness
=============================================================================
