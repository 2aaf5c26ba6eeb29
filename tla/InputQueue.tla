----------------------------- MODULE InputQueue -----------------------------
(***************************************************************************)
(* The machine's input queue: the ring of src/emulator/machine/            *)
(* input_queue.c.  The control thread pushes, the executor pops, polls,    *)
(* opens and closes; each call holds the queue's mutex throughout, so a    *)
(* call is one step.                                                       *)
(***************************************************************************)
EXTENDS Naturals, Sequences

CONSTANTS
  Capacity,    \* EMULATOR_MACHINE_INPUT_QUEUE_CAPACITY
  InputEvent,  \* kvm_input_event
  NoInput      \* the zeroed contents of a slot never written

ASSUME CapacityAssumption == Capacity \in Nat \ {0}

Slot == 0..(Capacity - 1)

VARIABLES entries, head, tail, accepting,
          answer    \* what the last call answered

ringVars == <<entries, head, tail, accepting, answer>>

RingInit ==
  /\ entries = [slot \in Slot |-> NoInput]
  /\ head = 0 /\ tail = 0
  /\ accepting = FALSE
  /\ answer = <<"none">>

Admit(value) ==
  accepting' = value /\ answer' = <<"admit">> /\ UNCHANGED <<entries, head, tail>>

(* Mutant: a full ring takes one event more.                               *)
EnqueueUnchecked(event) ==
  IF ~accepting
  THEN answer' = <<"invalid_state">> /\ UNCHANGED <<entries, head, tail, accepting>>
  ELSE /\ answer' = <<"ok">>
       /\ entries' = [entries EXCEPT ![head] = event]
       /\ head' = (head + 1) % Capacity
       /\ UNCHANGED <<tail, accepting>>

Enqueue(event) ==
  LET next == (head + 1) % Capacity IN
  IF ~accepting
  THEN answer' = <<"invalid_state">> /\ UNCHANGED <<entries, head, tail, accepting>>
  ELSE IF next = tail
  THEN answer' = <<"limit_exceeded">> /\ UNCHANGED <<entries, head, tail, accepting>>
  ELSE /\ answer' = <<"ok">>
       /\ entries' = [entries EXCEPT ![head] = event]
       /\ head' = next
       /\ UNCHANGED <<tail, accepting>>

Pop ==
  /\ IF tail = head
     THEN answer' = <<"empty">> /\ UNCHANGED tail
     ELSE answer' = <<"popped", entries[tail]>> /\ tail' = (tail + 1) % Capacity
  /\ UNCHANGED <<entries, head, accepting>>

Pending ==
  answer' = <<"pending", tail # head>> /\ UNCHANGED <<entries, head, tail, accepting>>

Clear ==
  /\ head' = 0 /\ tail' = 0 /\ answer' = <<"cleared">>
  /\ UNCHANGED <<entries, accepting>>

RingNext ==
  \/ \E value \in BOOLEAN : Admit(value)
  \/ \E event \in InputEvent : Enqueue(event)
  \/ Pop \/ Pending \/ Clear

RingSpec == RingInit /\ [][RingNext]_ringVars

(***************************************************************************)
(* Properties.                                                             *)
(***************************************************************************)

(* The indices stay inside the ring.                                       *)
RingTypeOK ==
  /\ entries \in [Slot -> InputEvent \cup {NoInput}]
  /\ head \in Slot /\ tail \in Slot
  /\ accepting \in BOOLEAN

(* The slots between tail and head hold what was accepted, oldest first.   *)
Length == IF tail <= head THEN head - tail ELSE head + Capacity - tail
RingContents == [i \in 1..Length |-> entries[(tail + i - 1) % Capacity]]

(* The ring is the FIFO its interface promises, with room for one event    *)
(* less than it has slots: every answer of every call agrees.              *)
BoundedFifo == INSTANCE InputFifo WITH queue <- RingContents, gate <- accepting,
                                       Event <- InputEvent, Room <- Capacity - 1
IsFifo == BoundedFifo!FifoSpec

(* Only a slot that was written is ever delivered: input_queue_pop hands   *)
(* the executor no zeroed event.                                           *)
WrittenSlots == RingContents \in Seq(InputEvent)

=============================================================================
