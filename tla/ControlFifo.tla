---------------------------- MODULE ControlFifo ----------------------------
(***************************************************************************)
(* What the session's control queue promises its one consumer              *)
(* (src/emulator/session/control.h): the events of all producers in one    *)
(* unbounded FIFO, and for an event that could not be retained a fault of  *)
(* its class, kept once per class and delivered after the FIFO.            *)
(***************************************************************************)
EXTENDS Naturals, Sequences

CONSTANTS Event, Producer, Status

Class == {0, 1}      \* 0: keyboard and mouse input, 1: lines and facts

VARIABLES
  queue,   \* the retained events, oldest first
  fault,   \* per class the status of the first loss not yet taken, or "none"
  owed,    \* per producer the loss it has not reported yet
  got      \* what the consumer took last

fifoVars == <<queue, fault, owed, got>>

NoLoss == [class |-> 1, status |-> "none"]

FifoInit ==
  /\ queue = <<>> /\ got = <<"nothing">>
  /\ fault = [class \in Class |-> "none"]
  /\ owed = [p \in Producer |-> NoLoss]

Accept(event) == queue' = Append(queue, event) /\ UNCHANGED <<fault, owed, got>>

Lose(p, class, status) ==
  /\ owed[p] = NoLoss
  /\ owed' = [owed EXCEPT ![p] = [class |-> class, status |-> status]]
  /\ UNCHANGED <<queue, fault, got>>

Report(p) ==
  /\ owed[p] # NoLoss /\ owed' = [owed EXCEPT ![p] = NoLoss]
  /\ fault' = IF fault[owed[p].class] = "none"
              THEN [fault EXCEPT ![owed[p].class] = owed[p].status] ELSE fault
  /\ UNCHANGED <<queue, got>>

TakeEvent ==
  /\ queue # <<>> /\ got' = <<"event", Head(queue)>> /\ queue' = Tail(queue)
  /\ UNCHANGED <<fault, owed>>

TakeFault(class) ==
  /\ queue = <<>> /\ fault[class] # "none"
  /\ \A earlier \in Class : earlier < class => fault[earlier] = "none"
  /\ got' = <<"fault", class, fault[class]>>
  /\ fault' = [fault EXCEPT ![class] = "none"]
  /\ UNCHANGED <<queue, owed>>

FifoNext ==
  \/ \E event \in Event : Accept(event)
  \/ \E p \in Producer : \/ Report(p)
                         \/ \E class \in Class, status \in Status : Lose(p, class, status)
  \/ TakeEvent
  \/ \E class \in Class : TakeFault(class)

FifoSpec == FifoInit /\ [][FifoNext]_fifoVars

=============================================================================
