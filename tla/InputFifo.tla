----------------------------- MODULE InputFifo -----------------------------
(***************************************************************************)
(* What the machine's input queue promises (src/emulator/machine/          *)
(* input_queue.h): a bounded FIFO behind a gate.  Closing the gate keeps   *)
(* what was accepted, a new run forgets it, and the answer to a call says  *)
(* what happened.                                                          *)
(***************************************************************************)
EXTENDS Naturals, Sequences

CONSTANTS
  Event,     \* kvm_input_event
  Room       \* how many events are retained

VARIABLES
  queue,     \* the events accepted and not yet delivered, oldest first
  gate,      \* whether events are accepted
  answer     \* what the last call answered

fifoVars == <<queue, gate, answer>>

FifoInit == queue = <<>> /\ gate = FALSE /\ answer = <<"none">>

FifoAdmit(accepting) ==
  gate' = accepting /\ answer' = <<"admit">> /\ UNCHANGED queue

FifoPush(event) ==
  /\ answer' = IF ~gate THEN <<"invalid_state">>
               ELSE IF Len(queue) = Room THEN <<"limit_exceeded">>
               ELSE <<"ok">>
  /\ queue' = IF gate /\ Len(queue) < Room THEN Append(queue, event) ELSE queue
  /\ UNCHANGED gate

FifoPop ==
  /\ IF queue = <<>>
     THEN answer' = <<"empty">> /\ UNCHANGED queue
     ELSE answer' = <<"popped", Head(queue)>> /\ queue' = Tail(queue)
  /\ UNCHANGED gate

FifoPending ==
  answer' = <<"pending", queue # <<>> >> /\ UNCHANGED <<queue, gate>>

FifoClear == queue' = <<>> /\ answer' = <<"cleared">> /\ UNCHANGED gate

FifoNext ==
  \/ \E accepting \in BOOLEAN : FifoAdmit(accepting)
  \/ \E event \in Event : FifoPush(event)
  \/ FifoPop \/ FifoPending \/ FifoClear

FifoSpec == FifoInit /\ [][FifoNext]_fifoVars

=============================================================================
