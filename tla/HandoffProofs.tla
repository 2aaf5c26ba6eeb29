--------------------------- MODULE HandoffProofs ---------------------------
(***************************************************************************)
(* Proofs about the three structures that hand something from one thread   *)
(* to another: the machine's input ring, the session's control queue and   *)
(* the frame exchange, each for every value of its constants.              *)
(***************************************************************************)
EXTENDS InputQueue, SessionQueue, FrameExchange, TLAPS

(***************************************************************************)
(* How a remainder behaves on sums of fewer than two laps.                 *)
(***************************************************************************)

(* A sum below two laps is brought back by one lap at most.                *)
LEMMA OneLap ==
  ASSUME NEW c \in Nat \ {0}, NEW n \in Nat, n < 2 * c
  PROVE  n % c = IF n < c THEN n ELSE n - c
BY SMT

(* A slot is its own remainder.                                            *)
LEMMA SlotItself ==
  ASSUME NEW c \in Nat \ {0}, NEW n \in 0..(c - 1)
  PROVE  n % c = n
BY SMT

(* The slot i places after slot f.                                         *)
LEMMA SlotAfter ==
  ASSUME NEW c \in Nat \ {0}, NEW f \in 0..(c - 1), NEW i \in 0..c
  PROVE  /\ (f + i) % c = IF f + i < c THEN f + i ELSE f + i - c
         /\ (f + i) % c \in 0..(c - 1)
<1> DEFINE n == f + i
<1>1. n \in Nat /\ n < 2 * c /\ n = f + i
  BY SMT
<1> HIDE DEF n
<1>2. n % c = IF n < c THEN n ELSE n - c
  BY <1>1, OneLap, Zenon
<1>3. n % c \in 0..(c - 1)
  BY <1>1, <1>2, SMT
<1> QED
  BY <1>1, <1>2, <1>3, SMT

(* Different places within a lap are different slots.                      *)
LEMMA SlotsDiffer ==
  ASSUME NEW c \in Nat \ {0}, NEW f \in 0..(c - 1),
         NEW i \in 0..(c - 1), NEW j \in 0..(c - 1), i # j
  PROVE  (f + i) % c # (f + j) % c
<1>1. i \in 0..c /\ j \in 0..c
  BY SMT
<1>2. (f + i) % c = IF f + i < c THEN f + i ELSE f + i - c
  BY <1>1, SlotAfter, Zenon
<1>3. (f + j) % c = IF f + j < c THEN f + j ELSE f + j - c
  BY <1>1, SlotAfter, Zenon
<1> QED
  BY <1>2, <1>3, SMT

(* The slot i places after the next slot is the one i + 1 places on.       *)
LEMMA SlotOfNext ==
  ASSUME NEW c \in Nat \ {0}, NEW f \in 0..(c - 1), NEW i \in 0..(c - 1)
  PROVE  /\ (f + 1) % c \in 0..(c - 1)
         /\ (((f + 1) % c) + i) % c = (f + (i + 1)) % c
<1> DEFINE g == (f + 1) % c
           j == i + 1
<1>1. 1 \in 0..c /\ j \in 0..c /\ i \in 0..c /\ j = i + 1
  BY SMT
<1>2. g \in 0..(c - 1) /\ g = IF f + 1 < c THEN f + 1 ELSE f + 1 - c
  BY <1>1, SlotAfter, Zenon
<1> HIDE DEF g, j
<1>3. (f + j) % c = IF f + j < c THEN f + j ELSE f + j - c
  BY <1>1, SlotAfter, Zenon
<1>4. (g + i) % c = IF g + i < c THEN g + i ELSE g + i - c
  BY <1>1, <1>2, SlotAfter, Zenon
<1>5. (g + i) % c = (f + j) % c
  BY <1>1, <1>2, <1>3, <1>4, SMT
<1> QED
  BY <1>2, <1>5, Zenon DEF g, j

(***************************************************************************)
(* The ring of module InputQueue is the bounded FIFO of module InputFifo   *)
(* for every capacity. An index is brought back by at most one lap, so the *)
(* slot of the i-th event is a difference (SlotAt), a push writes the one  *)
(* slot that RingContents does not use, and a pop moves tail past the slot *)
(* of the first event.                                                     *)
(***************************************************************************)

(* The slot after a slot.                                                  *)
LEMMA Following ==
  ASSUME NEW slot \in Slot
  PROVE  (slot + 1) % Capacity = IF slot + 1 = Capacity THEN 0 ELSE slot + 1
<1> DEFINE n == slot + 1
<1>1. n \in Nat /\ n < 2 * Capacity /\ n <= Capacity
  BY CapacityAssumption, SMTT(60) DEF Slot
<1> HIDE DEF n
<1>2. n % Capacity = IF n < Capacity THEN n ELSE n - Capacity
  BY <1>1, OneLap, CapacityAssumption, Zenon
<1>3. n % Capacity = IF n = Capacity THEN 0 ELSE n
  BY <1>1, <1>2, CapacityAssumption, SMT
<1> QED
  BY <1>3, Zenon DEF n

(* The number of events is below the number of slots.                      *)
LEMMA LengthBound ==
  ASSUME RingTypeOK
  PROVE  Length \in Nat /\ Length < Capacity
BY CapacityAssumption, SMTT(60) DEF RingTypeOK, Length, Slot

(* Where the i-th event is.                                                *)
LEMMA SlotAt ==
  ASSUME RingTypeOK, NEW i \in 1..(Length + 1)
  PROVE  /\ (tail + i - 1) % Capacity =
              IF tail + i - 1 < Capacity THEN tail + i - 1
              ELSE tail + i - 1 - Capacity
         /\ (tail + i - 1) % Capacity \in Slot
<1> DEFINE n == tail + i - 1
<1>1. n \in Nat /\ n < 2 * Capacity
  BY LengthBound, CapacityAssumption, SMTT(60) DEF RingTypeOK, Slot
<1> HIDE DEF n
<1>2. n % Capacity = IF n < Capacity THEN n ELSE n - Capacity
  BY <1>1, OneLap, CapacityAssumption, Zenon
<1>3. n % Capacity \in Slot
  BY <1>1, <1>2, CapacityAssumption, SMTT(60) DEF Slot
<1>4. (tail + i - 1) % Capacity =
        IF tail + i - 1 < Capacity THEN tail + i - 1 ELSE tail + i - 1 - Capacity
  <2>1. n = tail + i - 1
    BY DEF n
  <2> QED
    BY <1>1, <1>2, <2>1, LengthBound, CapacityAssumption, SMTT(60) DEF RingTypeOK, Slot
<1>5. (tail + i - 1) % Capacity \in Slot
  BY <1>3, Zenon DEF n
<1> QED
  BY <1>4, <1>5, Zenon

(* The ring's indices and slots keep their types.                          *)
THEOREM InputTypeCorrect == RingSpec => []RingTypeOK
<1>1. RingInit => RingTypeOK
  <2>1. 0 \in Slot
    BY CapacityAssumption, SMTT(60) DEF Slot
  <2> QED
    BY <2>1, Zenon DEF RingInit, RingTypeOK
<1>2. RingTypeOK /\ [RingNext]_ringVars => RingTypeOK'
  <2> SUFFICES ASSUME RingTypeOK, [RingNext]_ringVars PROVE RingTypeOK'
    OBVIOUS
  <2>1. (head + 1) % Capacity \in Slot /\ (tail + 1) % Capacity \in Slot
    BY CapacityAssumption, SMTT(60) DEF RingTypeOK, Slot
  <2>2. ASSUME NEW value \in BOOLEAN, Admit(value) PROVE RingTypeOK'
    BY <2>2 DEF RingTypeOK, Admit
  <2>3. ASSUME NEW event \in InputEvent, Enqueue(event) PROVE RingTypeOK'
    BY <2>1, <2>3, SMT DEF RingTypeOK, Enqueue
  <2>4. CASE Pop
    BY <2>1, <2>4, SMT DEF RingTypeOK, Pop
  <2>5. CASE Pending
    BY <2>5 DEF RingTypeOK, Pending
  <2>6. CASE Clear
    BY <2>6, CapacityAssumption, SMTT(60) DEF RingTypeOK, Clear, Slot
  <2>7. CASE UNCHANGED ringVars
    BY <2>7 DEF RingTypeOK, ringVars
  <2> QED
    BY <2>2, <2>3, <2>4, <2>5, <2>6, <2>7 DEF RingNext
<1> QED
  BY <1>1, <1>2, PTL DEF RingSpec

(* What Append makes of a sequence that is given by its elements.          *)
LEMMA AppendedMap ==
  ASSUME NEW n \in Nat, NEW s, s = [i \in 1..n |-> s[i]], NEW e
  PROVE  Append(s, e) = [i \in 1..(n + 1) |-> IF i = n + 1 THEN e ELSE s[i]]
BY SMT

(* The ring's steps are steps of the FIFO. *)
LEMMA PushStep ==
  ASSUME RingTypeOK, NEW event \in InputEvent, Enqueue(event)
  PROVE  BoundedFifo!FifoPush(event)
<1>1. Length \in Nat /\ Length < Capacity /\ Len(RingContents) = Length
  BY LengthBound DEF RingContents
<1>2. (head + 1) % Capacity = IF head + 1 = Capacity THEN 0 ELSE head + 1
  BY Following DEF RingTypeOK
<1>3. ((head + 1) % Capacity = tail) <=> (Length = Capacity - 1)
  BY <1>2, CapacityAssumption, SMTT(60) DEF RingTypeOK, Slot, Length
<1>4. CASE ~accepting \/ (head + 1) % Capacity = tail
  BY <1>1, <1>3, <1>4 DEF Enqueue, BoundedFifo!FifoPush, RingContents, Length
<1>5. CASE accepting /\ (head + 1) % Capacity # tail
  <2>1. /\ entries' = [entries EXCEPT ![head] = event]
        /\ head' = (head + 1) % Capacity /\ tail' = tail
        /\ answer' = <<"ok">> /\ accepting' = accepting
    BY <1>5 DEF Enqueue
  <2>2. Length' = Length + 1
    <3>1. CASE head + 1 = Capacity
      BY <3>1, <1>2, <1>5, <2>1, CapacityAssumption, SMTT(60) DEF RingTypeOK, Slot, Length
    <3>2. CASE head + 1 # Capacity
      BY <3>2, <1>2, <1>5, <2>1, CapacityAssumption, SMTT(60) DEF RingTypeOK, Slot, Length
    <3> QED
      BY <3>1, <3>2
  <2>3. ASSUME NEW i \in 1..(Length + 1)
        PROVE  entries'[(tail + i - 1) % Capacity] =
                 IF i = Length + 1 THEN event ELSE entries[(tail + i - 1) % Capacity]
    <3>1. ((tail + i - 1) % Capacity = head) <=> (i = Length + 1)
      BY SlotAt, <1>1, CapacityAssumption, SMTT(60) DEF RingTypeOK, Slot, Length
    <3> QED
      BY <3>1, <2>1, SlotAt DEF RingTypeOK
  <2>4. RingContents' = [i \in 1..(Length + 1) |-> entries'[(tail + i - 1) % Capacity]]
    BY <2>1, <2>2 DEF RingContents
  <2>5. Append(RingContents, event) = [i \in 1..(Length + 1) |->
           IF i = Length + 1 THEN event ELSE entries[(tail + i - 1) % Capacity]]
    <3>1. RingContents = [i \in 1..Length |-> RingContents[i]]
      BY DEF RingContents
    <3>2. Append(RingContents, event) =
            [i \in 1..(Length + 1) |-> IF i = Length + 1 THEN event ELSE RingContents[i]]
      BY <1>1, <3>1, AppendedMap
    <3>3. ASSUME NEW i \in 1..(Length + 1), i # Length + 1
          PROVE  RingContents[i] = entries[(tail + i - 1) % Capacity]
      BY <1>1, <3>3 DEF RingContents
    <3> QED
      BY <3>2, <3>3
  <2>6. RingContents' = Append(RingContents, event)
    BY <2>3, <2>4, <2>5
  <2>7. accepting = TRUE /\ Len(RingContents) # Capacity - 1 /\ Len(RingContents) < Capacity - 1
    BY <1>1, <1>3, <1>5, CapacityAssumption, SMTT(60) DEF RingTypeOK
  <2> QED
    BY <2>1, <2>6, <2>7 DEF BoundedFifo!FifoPush
<1> QED
  BY <1>4, <1>5 DEF RingTypeOK

LEMMA PopStep ==
  ASSUME RingTypeOK, Pop
  PROVE  BoundedFifo!FifoPop
<1>1. Length \in Nat /\ Length < Capacity /\ Len(RingContents) = Length
  BY LengthBound DEF RingContents
<1>2. (tail + 1) % Capacity = IF tail + 1 = Capacity THEN 0 ELSE tail + 1
  BY Following DEF RingTypeOK
<1>3. (tail = head) <=> (RingContents = <<>>)
  BY <1>1, CapacityAssumption, SMTT(60) DEF RingTypeOK, Slot, Length, RingContents
<1>4. CASE tail = head
  BY <1>3, <1>4 DEF Pop, BoundedFifo!FifoPop, RingContents, Length
<1>5. CASE tail # head
  <2>1. /\ answer' = <<"popped", entries[tail]>> /\ tail' = (tail + 1) % Capacity
        /\ entries' = entries /\ head' = head /\ accepting' = accepting
    BY <1>5 DEF Pop
  <2>2. Length' = Length - 1 /\ Length >= 1
    BY <1>2, <1>5, <2>1, CapacityAssumption, SMTT(60) DEF RingTypeOK, Slot, Length
  <2>3. Head(RingContents) = entries[tail]
    <3>1. (tail + 1 - 1) % Capacity = tail
      BY SlotAt, <1>1, <2>2, CapacityAssumption, SMTT(60) DEF RingTypeOK, Slot
    <3> QED
      BY <3>1, <1>1, <2>2, SMT DEF RingContents
  <2>4. ASSUME NEW i \in 1..(Length - 1)
        PROVE  (tail' + i - 1) % Capacity = (tail + (i + 1) - 1) % Capacity
    <3> DEFINE here == tail + (i + 1) - 1
               next == tail' + i - 1
    <3>1. /\ here \in Nat /\ here < 2 * Capacity
          /\ next \in Nat /\ next < 2 * Capacity
      BY <1>1, <1>2, <2>1, CapacityAssumption, SMTT(60) DEF RingTypeOK, Slot
    <3>2. next = here \/ (next = here - Capacity /\ here >= Capacity)
      BY <1>1, <1>2, <2>1, CapacityAssumption, SMTT(60) DEF RingTypeOK, Slot
    <3> HIDE DEF here, next
    <3>3. here % Capacity = IF here < Capacity THEN here ELSE here - Capacity
      BY <3>1, OneLap, CapacityAssumption, Zenon
    <3>4. next % Capacity = IF next < Capacity THEN next ELSE next - Capacity
      BY <3>1, OneLap, CapacityAssumption, Zenon
    <3>5. next % Capacity = here % Capacity
      BY <3>1, <3>2, <3>3, <3>4, CapacityAssumption, SMT
    <3> QED
      BY <3>5, Zenon DEF here, next
  <2>5. RingContents' = [i \in 1..(Length - 1) |-> entries[(tail' + i - 1) % Capacity]]
    BY <2>1, <2>2 DEF RingContents
  <2>6. Tail(RingContents) = [i \in 1..(Length - 1) |-> entries[(tail + (i + 1) - 1) % Capacity]]
    BY <1>1, <2>2, SMT DEF RingContents
  <2>7. RingContents' = Tail(RingContents)
    BY <2>4, <2>5, <2>6
  <2> QED
    BY <1>3, <1>5, <2>1, <2>3, <2>7 DEF BoundedFifo!FifoPop
<1> QED
  BY <1>4, <1>5

(* The ring implements the FIFO: every call of input_queue.c answers what  *)
(* the interface promises and leaves the promised contents.                *)
THEOREM InputIsFifo == RingSpec => IsFifo
<1>1. RingInit => BoundedFifo!FifoInit
  BY SMT DEF RingInit, BoundedFifo!FifoInit, RingContents, Length
<1>2. RingTypeOK /\ [RingNext]_ringVars => [BoundedFifo!FifoNext]_(BoundedFifo!fifoVars)
  <2> SUFFICES ASSUME RingTypeOK, [RingNext]_ringVars
               PROVE  BoundedFifo!FifoNext \/ UNCHANGED BoundedFifo!fifoVars
    OBVIOUS
  <2>1. ASSUME NEW value \in BOOLEAN, Admit(value) PROVE BoundedFifo!FifoAdmit(value)
    BY <2>1 DEF Admit, BoundedFifo!FifoAdmit, RingContents, Length
  <2>2. ASSUME NEW event \in InputEvent, Enqueue(event) PROVE BoundedFifo!FifoPush(event)
    BY <2>2, PushStep
  <2>3. CASE Pop
    BY <2>3, PopStep DEF BoundedFifo!FifoNext
  <2>4. ASSUME Pending PROVE BoundedFifo!FifoPending
    <3>1. (tail = head) <=> (RingContents = <<>>)
      BY LengthBound, CapacityAssumption, SMTT(60) DEF RingTypeOK, Slot, Length, RingContents
    <3> QED
      BY <2>4, <3>1 DEF Pending, BoundedFifo!FifoPending, RingContents, Length
  <2>5. ASSUME Clear PROVE BoundedFifo!FifoClear
    BY <2>5, SMT DEF Clear, BoundedFifo!FifoClear, RingContents, Length
  <2>6. CASE UNCHANGED ringVars
    BY <2>6 DEF ringVars, BoundedFifo!fifoVars, RingContents, Length
  <2> QED
    BY <2>1, <2>2, <2>3, <2>4, <2>5, <2>6 DEF RingNext, BoundedFifo!FifoNext
<1> QED
  BY <1>1, <1>2, InputTypeCorrect, PTL DEF RingSpec, IsFifo, BoundedFifo!FifoSpec

(* The executor is handed only events that were pushed: the contents are   *)
(* a sequence of events, which pushes extend and pops shorten.             *)
THEOREM OnlyWrittenSlots == RingSpec => []WrittenSlots
<1>1. RingInit => WrittenSlots
  BY SMT DEF RingInit, WrittenSlots, RingContents, Length
<1>2. RingTypeOK /\ WrittenSlots /\ [RingNext]_ringVars => WrittenSlots'
  <2> SUFFICES ASSUME RingTypeOK, WrittenSlots, [RingNext]_ringVars
               PROVE  RingContents' \in Seq(InputEvent)
    BY DEF WrittenSlots
  <2>1. ASSUME NEW event \in InputEvent, Enqueue(event) PROVE RingContents' \in Seq(InputEvent)
    <3>1. RingContents' = Append(RingContents, event) \/ RingContents' = RingContents
      BY <2>1, PushStep DEF BoundedFifo!FifoPush
    <3> QED
      BY <3>1, SMT DEF WrittenSlots
  <2>2. CASE Pop
    <3>1. (RingContents # <<>> /\ RingContents' = Tail(RingContents)) \/ RingContents' = RingContents
      BY <2>2, PopStep DEF BoundedFifo!FifoPop
    <3> QED
      BY <3>1, SMT DEF WrittenSlots
  <2>3. CASE Clear
    BY <2>3, SMT DEF Clear, RingContents, Length
  <2>4. CASE (\E value \in BOOLEAN : Admit(value)) \/ Pending \/ UNCHANGED ringVars
    BY <2>4, Zenon DEF Admit, Pending, ringVars, RingContents, Length, WrittenSlots
  <2> QED
    BY <2>1, <2>2, <2>3, <2>4 DEF RingNext
<1> QED
  BY <1>1, <1>2, InputTypeCorrect, PTL DEF RingSpec

(***************************************************************************)
(* The control queue of module SessionQueue, for any number of producers,  *)
(* any initial capacity and any number of failing native calls: no wakeup  *)
(* is lost, none is spurious while every reset works, and the growing ring *)
(* is the unbounded FIFO of module ControlFifo.  The inductive invariant   *)
(* is the type invariant with the wakeup invariant: that the consumer is   *)
(* woken only for something survives the other threads' steps because they *)
(* never take.                                                             *)
(***************************************************************************)

(* The ring a push stores into is a well-formed ring with a free slot.     *)
LEMMA ExpandedRing ==
  ASSUME TypeOK
  PROVE  LET q == Expanded IN
         /\ q.capacity \in Nat \ {0} /\ q.first \in 0..(q.capacity - 1)
         /\ count \in 0..(q.capacity - 1)
         /\ q.events \in [0..(q.capacity - 1) -> Event \cup {NoEvent}]
         /\ (q.first + count) % q.capacity \in 0..(q.capacity - 1)
<1> DEFINE q == Expanded
<1>1. CASE Full
  <2>1. /\ q.capacity = 2 * capacity /\ q.first = 0
        /\ q.events = [slot \in 0..(2 * capacity - 1) |->
                         IF slot < count THEN events[(first + slot) % capacity]
                         ELSE NoEvent]
    BY <1>1 DEF Expanded
  <2>2. ASSUME NEW slot \in 0..(2 * capacity - 1), slot < count
        PROVE  (first + slot) % capacity \in 0..(capacity - 1)
    <3>1. slot \in 0..capacity
      BY <2>2, SMT DEF TypeOK
    <3> QED
      BY <3>1, SlotAfter, Zenon DEF TypeOK
  <2>3. q.events \in [0..(2 * capacity - 1) -> Event \cup {NoEvent}]
    BY <2>1, <2>2 DEF TypeOK
  <2>4. /\ q.capacity \in Nat \ {0} /\ q.first \in 0..(q.capacity - 1)
        /\ count \in 0..(q.capacity - 1)
    BY <2>1, <1>1, SMT DEF TypeOK, Full
  <2> HIDE DEF q
  <2>5. count \in 0..q.capacity
    BY <2>4, SMT
  <2>6. (q.first + count) % q.capacity \in 0..(q.capacity - 1)
    BY <2>4, <2>5, SlotAfter, Zenon
  <2> QED
    BY <2>1, <2>3, <2>4, <2>6 DEF q
<1>2. CASE ~Full
  <2>1. q.capacity = capacity /\ q.first = first /\ q.events = events
    BY <1>2 DEF Expanded
  <2>2. count \in 0..(capacity - 1)
    BY <1>2, SMT DEF TypeOK, Full
  <2>3. (first + count) % capacity \in 0..(capacity - 1)
    BY SlotAfter, Zenon DEF TypeOK
  <2> QED
    BY <2>1, <2>2, <2>3 DEF TypeOK
<1> QED
  BY <1>1, <1>2

ControlInv == TypeOK /\ SignalIsExact

(* Initially nothing is queued and nobody is woken.                        *)
LEMMA ControlInitially == Init => ControlInv
<1> SUFFICES ASSUME Init PROVE ControlInv
  OBVIOUS
<1>1. 0 \in 0..(InitialCapacity - 1) /\ 0 \in 0..InitialCapacity
  BY SessionQueueAssumption, SMT
<1>2. TypeOK
  BY <1>1, SessionQueueAssumption, Zenon DEF Init, TypeOK, NoLoss
<1>3. SignalIsExact
  BY DEF Init, SignalIsExact
<1> QED
  BY <1>2, <1>3 DEF ControlInv

(* Whatever is left to take, a reset leaves flags.                         *)
LEMMA ResetTypes ==
  ASSUME TypeOK, NEW left \in BOOLEAN, Reset(left)
  PROVE  available' \in BOOLEAN /\ failures' \in Nat /\ unreset' \in BOOLEAN
<1>1. available' \in BOOLEAN /\ unreset' \in BOOLEAN
  BY Zenon DEF TypeOK, Reset
<1>2. failures' \in Nat
  BY SMT DEF TypeOK, Reset, Fails
<1> QED
  BY <1>1, <1>2

(* Every step keeps the types.                                             *)
LEMMA ControlTypeStep == TypeOK /\ [Next]_vars => TypeOK'
<1> SUFFICES ASSUME TypeOK, [Next]_vars PROVE TypeOK'
  OBVIOUS
<1>1. ASSUME NEW p \in Producer, NEW event \in Event, Push(p, event) PROVE TypeOK'
  <2> DEFINE q == Expanded
  <2>1. /\ q.capacity \in Nat \ {0} /\ q.first \in 0..(q.capacity - 1)
        /\ count \in 0..(q.capacity - 1)
        /\ q.events \in [0..(q.capacity - 1) -> Event \cup {NoEvent}]
    BY ExpandedRing
  <2>2. /\ events' = [q.events EXCEPT ![(q.first + count) % q.capacity] = event]
        /\ first' = q.first /\ capacity' = q.capacity /\ count' = count + 1
        /\ available' = TRUE
        /\ UNCHANGED <<faults, producer, consumer, taken, failures, unreset>>
    BY <1>1 DEF Push
  <2> HIDE DEF q
  <2>3. events' \in [0..(q.capacity - 1) -> Event \cup {NoEvent}]
    BY <2>1, <2>2, Zenon
  <2>4. count' \in 0..capacity'
    BY <2>1, <2>2, SMT
  <2> QED
    BY <2>1, <2>2, <2>3, <2>4 DEF TypeOK
<1>2. ASSUME NEW p \in Producer, NEW class \in {0, 1}, PushNoMemory(p, class)
      PROVE  TypeOK'
  BY <1>2, SMT DEF TypeOK, PushNoMemory, Fails, Lost, ring, Status
<1>3. ASSUME NEW p \in Producer, NEW class \in {0, 1}, PushNoSignal(p, class)
      PROVE  TypeOK'
  <2> DEFINE q == Expanded
  <2>1. /\ q.capacity \in Nat \ {0} /\ q.first \in 0..(q.capacity - 1)
        /\ count \in 0..(q.capacity - 1)
        /\ q.events \in [0..(q.capacity - 1) -> Event \cup {NoEvent}]
    BY ExpandedRing
  <2>2. /\ events' = q.events /\ first' = q.first /\ capacity' = q.capacity
        /\ UNCHANGED <<count, available, faults, consumer, taken, unreset>>
        /\ Fails /\ Lost(p, class, "io_error")
    BY <1>3 DEF PushNoSignal
  <2> HIDE DEF q
  <2>3. count' \in 0..capacity'
    BY <2>1, <2>2, SMT
  <2> QED
    BY <2>1, <2>2, <2>3 DEF TypeOK, Fails, Lost, Status
<1>4. ASSUME NEW p \in Producer, Latch(p) PROVE TypeOK'
  <2>1. producer[p] \in [class : {0, 1}, status : Status]
    BY <1>4 DEF TypeOK, Latch
  <2>2. faults' \in [{0, 1} -> Status \cup {"none"}]
    BY <1>4, <2>1 DEF TypeOK, Latch
  <2>3. producer' \in [Producer -> [class : {0, 1}, status : Status] \cup {NoLoss}]
    BY <1>4 DEF TypeOK, Latch
  <2>4. failures' \in Nat
    BY <1>4, SMT DEF TypeOK, Latch, Fails
  <2>5. available' \in BOOLEAN
    BY <1>4, Zenon DEF TypeOK, Latch
  <2> QED
    BY <1>4, <2>2, <2>3, <2>4, <2>5 DEF TypeOK, Latch, ring
<1>5. CASE Wait
  BY <1>5, SMT DEF TypeOK, Wait, Fails, ring
<1>6. CASE Take
  <2>1. (first + 1) % capacity \in 0..(capacity - 1)
    <3>1. 1 \in 0..capacity
      BY SMT DEF TypeOK
    <3> QED
      BY <3>1, SlotAfter, Zenon DEF TypeOK
  <2>2. count' \in 0..capacity
    BY <1>6, SMT DEF TypeOK, Take
  <2>3. available' \in BOOLEAN /\ failures' \in Nat /\ unreset' \in BOOLEAN
    BY <1>6, ResetTypes, Zenon DEF Take
  <2> QED
    BY <1>6, <2>1, <2>2, <2>3 DEF TypeOK, Take
<1>7. CASE TakeFault
  <2>1. available' \in BOOLEAN /\ failures' \in Nat /\ unreset' \in BOOLEAN
    BY <1>7, ResetTypes, Zenon DEF TakeFault
  <2> QED
    BY <1>7, <2>1 DEF TypeOK, TakeFault, ring
<1>8. CASE UNCHANGED vars
  BY <1>8 DEF TypeOK, vars, ring
<1> QED
  BY <1>1, <1>2, <1>3, <1>4, <1>5, <1>6, <1>7, <1>8 DEF Next, Consume

(* Every step keeps the two wakeup invariants.                             *)
LEMMA WakeStep ==
  ASSUME ControlInv, [Next]_vars
  PROVE  SignalIsExact'
<1> USE DEF ControlInv, SignalIsExact
<1>1. ASSUME NEW p \in Producer, NEW event \in Event, Push(p, event)
      PROVE  SignalIsExact'
  <2>1. count' # 0
    BY <1>1, SMT DEF Push, TypeOK
  <2> QED
    BY <1>1, <2>1 DEF Push, NoFault
<1>2. ASSUME NEW p \in Producer, NEW class \in {0, 1},
             PushNoMemory(p, class) \/ PushNoSignal(p, class)
      PROVE  SignalIsExact'
  BY <1>2 DEF PushNoMemory, PushNoSignal, ring, NoFault
<1>3. ASSUME NEW p \in Producer, Latch(p)
      PROVE  SignalIsExact'
  <2>1. producer[p] \in [class : {0, 1}, status : Status]
    BY <1>3 DEF TypeOK, Latch
  <2>2. ~NoFault(faults')
    BY <1>3, <2>1 DEF Latch, NoFault, Status, TypeOK
  <2> QED
    BY <1>3, <2>2 DEF Latch, ring, TypeOK
<1>4. CASE Wait
  BY <1>4 DEF Wait, ring, NoFault
<1>5. CASE Take
  BY <1>5, Zenon DEF Take, Reset, TypeOK, NoFault
<1>6. CASE TakeFault
  <2>1. count' = 0 /\ consumer' # "woken"
    BY <1>6, Zenon DEF TakeFault, ring
  <2>2. ~unreset' => ~unreset /\ (available' => ~NoFault(faults'))
    BY <1>6, Zenon DEF TakeFault, Reset, TypeOK
  <2>3. ~unreset => consumer' # "spurious"
    BY <1>6, Zenon DEF TakeFault
  <2> QED
    BY <2>1, <2>2, <2>3, Zenon
<1>7. CASE UNCHANGED vars
  BY <1>7 DEF vars, ring, NoFault
<1> QED
  BY <1>1, <1>2, <1>3, <1>4, <1>5, <1>6, <1>7 DEF Next, Consume

LEMMA ControlInvHolds == Spec => []ControlInv
<1>1. ControlInv /\ [Next]_vars => ControlInv'
  BY ControlTypeStep, WakeStep DEF ControlInv
<1> QED
  BY <1>1, ControlInitially, PTL DEF Spec

(* The queue keeps its types.                                              *)
THEOREM ControlTypeCorrect == Spec => []TypeOK
<1>1. ControlInv => TypeOK
  BY DEF ControlInv
<1> QED
  BY <1>1, ControlInvHolds, PTL

(* A retained event keeps the queue signalled, so the consumer's wait in   *)
(* emulator_session_queue_take returns whatever calls have failed; and     *)
(* while every reset has worked it never returns nothing after a wait that *)
(* was signalled, so it never ends the session by itself.                  *)
THEOREM NoWakeupIsLostOrSpurious == Spec => []SignalIsExact
<1>1. ControlInv => SignalIsExact
  BY DEF ControlInv
<1> QED
  BY <1>1, ControlInvHolds, PTL

(* A push, into a ring that grew or not, appends to the contents.          *)
LEMMA PushAppends ==
  ASSUME TypeOK, NEW p \in Producer, NEW event \in Event, Push(p, event)
  PROVE  Contents' = Append(Contents, event)
<1> DEFINE q == Expanded
<1>1. /\ q.capacity \in Nat \ {0} /\ q.first \in 0..(q.capacity - 1)
      /\ count \in 0..(q.capacity - 1)
      /\ q.events \in [0..(q.capacity - 1) -> Event \cup {NoEvent}]
      /\ (q.first + count) % q.capacity \in 0..(q.capacity - 1)
  BY ExpandedRing
<1>2. /\ events' = [q.events EXCEPT ![(q.first + count) % q.capacity] = event]
      /\ first' = q.first /\ capacity' = q.capacity /\ count' = count + 1
  BY DEF Push
<1>3. ASSUME NEW j \in 0..(count - 1)
      PROVE  q.events[(q.first + j) % q.capacity] = events[(first + j) % capacity]
  <2>1. CASE Full
    <3>1. /\ q.capacity = 2 * capacity /\ q.first = 0
          /\ q.events = [slot \in 0..(2 * capacity - 1) |->
                           IF slot < count THEN events[(first + slot) % capacity]
                           ELSE NoEvent]
      BY <2>1 DEF Expanded
    <3>2. j \in 0..(2 * capacity - 1) /\ j < count /\ j < 2 * capacity
      BY SMT DEF TypeOK
    <3>3. (0 + j) % (2 * capacity) = j
      <4> DEFINE c == 2 * capacity
      <4>1. c \in Nat \ {0} /\ j \in 0..(c - 1) /\ 0 + j = j
        BY <3>2, SMT DEF TypeOK
      <4> HIDE DEF c
      <4>2. j % c = j
        BY <4>1, SlotItself, Zenon
      <4> QED
        BY <4>1, <4>2 DEF c
    <3> QED
      BY <3>1, <3>2, <3>3
  <2>2. CASE ~Full
    BY <2>2 DEF Expanded
  <2> QED
    BY <2>1, <2>2
<1> HIDE DEF q
<1>4. ASSUME NEW i \in 1..(count + 1)
      PROVE  events'[(q.first + i - 1) % q.capacity] =
               IF i = count + 1 THEN event ELSE events[(first + i - 1) % capacity]
  <2> DEFINE j == i - 1
  <2>1. j \in 0..(q.capacity - 1) /\ j \in 0..q.capacity /\ j \in Nat
    BY <1>1, SMT DEF TypeOK
  <2>2. /\ q.first + i - 1 = q.first + j /\ first + i - 1 = first + j
        /\ i # count + 1 => j \in 0..(count - 1) /\ j # count
        /\ i = count + 1 => j = count
    BY <1>1, SMT DEF TypeOK
  <2> HIDE DEF j
  <2>3. (q.first + j) % q.capacity \in 0..(q.capacity - 1)
    BY <1>1, <2>1, SlotAfter, Zenon
  <2>4. CASE i = count + 1
    BY <1>1, <1>2, <2>2, <2>4, Zenon
  <2>5. CASE i # count + 1
    <3>1. (q.first + j) % q.capacity # (q.first + count) % q.capacity
      BY <1>1, <2>1, <2>2, <2>5, SlotsDiffer, Zenon
    <3>2. events'[(q.first + j) % q.capacity] = q.events[(q.first + j) % q.capacity]
      BY <1>1, <1>2, <2>3, <3>1
    <3> QED
      BY <1>3, <2>2, <2>5, <3>2
  <2> QED
    BY <2>4, <2>5
<1>5. Contents' = [i \in 1..(count + 1) |-> events'[(q.first + i - 1) % q.capacity]]
  BY <1>2 DEF Contents
<1>6. Append(Contents, event) = [i \in 1..(count + 1) |->
         IF i = count + 1 THEN event ELSE events[(first + i - 1) % capacity]]
  BY SMT DEF Contents, TypeOK
<1> QED
  BY <1>4, <1>5, <1>6

(* Growing without a store, when the signal fails, keeps the contents.     *)
LEMMA GrowthKeeps ==
  ASSUME TypeOK, NEW p \in Producer, NEW class \in {0, 1}, PushNoSignal(p, class)
  PROVE  Contents' = Contents
<1>1. CASE Full
  <2>1. /\ capacity' = 2 * capacity /\ first' = 0 /\ count' = count
        /\ events' = [slot \in 0..(2 * capacity - 1) |->
                        IF slot < count THEN events[(first + slot) % capacity]
                        ELSE NoEvent]
    BY <1>1 DEF Expanded, PushNoSignal
  <2>2. ASSUME NEW i \in 1..count
        PROVE  events'[(0 + i - 1) % (2 * capacity)] = events[(first + i - 1) % capacity]
    <3> DEFINE c == 2 * capacity
               j == i - 1
    <3>1. /\ c \in Nat \ {0} /\ j \in 0..(c - 1) /\ j < count
          /\ 0 + i - 1 = j /\ first + i - 1 = first + j
      BY SMT DEF TypeOK
    <3>2. events'[j] = events[(first + j) % capacity]
      BY <2>1, <3>1
    <3> HIDE DEF c, j
    <3>3. j % c = j
      BY <3>1, SlotItself, Zenon
    <3> QED
      BY <3>1, <3>2, <3>3 DEF c
  <2> QED
    BY <2>1, <2>2 DEF Contents
<1>2. CASE ~Full
  BY <1>2 DEF Expanded, PushNoSignal, Contents
<1> QED
  BY <1>1, <1>2

(* Taking an event takes the oldest one.                                   *)
LEMMA TakeTakesHead ==
  ASSUME TypeOK, Take
  PROVE  /\ Contents # <<>>
         /\ Head(Contents) = events[first] /\ Contents' = Tail(Contents)
<1>1. count \in Nat \ {0} /\ count <= capacity /\ Len(Contents) = count
  BY SMT DEF TypeOK, Take, Contents
<1>2. (first + 1 - 1) % capacity = first
  BY SMT DEF TypeOK
<1>3. Head(Contents) = events[first] /\ Contents # <<>>
  BY <1>1, <1>2, SMT DEF Contents
<1>4. ASSUME NEW i \in 1..(count - 1)
      PROVE  (((first + 1) % capacity) + i - 1) % capacity = (first + (i + 1) - 1) % capacity
  <2> DEFINE j == i - 1
             g == (first + 1) % capacity
  <2>1. j \in 0..(capacity - 1)
    BY <1>1, SMT DEF TypeOK
  <2>2. g \in 0..(capacity - 1) /\ (g + j) % capacity = (first + (j + 1)) % capacity
    BY <2>1, SlotOfNext, Zenon DEF TypeOK
  <2>3. g + i - 1 = g + j /\ first + (i + 1) - 1 = first + (j + 1)
    BY <2>2, SMT DEF TypeOK
  <2> QED
    BY <2>2, <2>3
<1>5. Contents' = [i \in 1..(count - 1) |->
                     events[(((first + 1) % capacity) + i - 1) % capacity]]
  BY DEF Take, Contents
<1>6. Tail(Contents) = [i \in 1..(count - 1) |-> events[(first + (i + 1) - 1) % capacity]]
  BY <1>1, SMT DEF Contents
<1> QED
  BY <1>3, <1>4, <1>5, <1>6

(* The growing ring implements the unbounded FIFO: control.c loses, keeps  *)
(* and orders events as control.h says.                                    *)
THEOREM ControlIsFifo == Spec => IsControlFifo
<1> USE DEF NoLoss, Fifo!NoLoss, Fifo!Class
<1>1. Init => Fifo!FifoInit
  BY SMT DEF Init, Fifo!FifoInit, Contents
<1>2. ControlInv /\ [Next]_vars => [Fifo!FifoNext]_(Fifo!fifoVars)
  <2> SUFFICES ASSUME ControlInv, [Next]_vars
               PROVE  Fifo!FifoNext \/ UNCHANGED Fifo!fifoVars
    OBVIOUS
  <2> USE DEF ControlInv
  <2>1. ASSUME NEW p \in Producer, NEW event \in Event, Push(p, event)
        PROVE  Fifo!Accept(event)
    BY <2>1, PushAppends DEF Push, Fifo!Accept
  <2>2. ASSUME NEW p \in Producer, NEW class \in {0, 1}, PushNoMemory(p, class)
        PROVE  Fifo!Lose(p, class, "no_memory")
    BY <2>2 DEF PushNoMemory, Fifo!Lose, Lost, Idle, ring, Contents
  <2>3. ASSUME NEW p \in Producer, NEW class \in {0, 1}, PushNoSignal(p, class)
        PROVE  Fifo!Lose(p, class, "io_error")
    BY <2>3, GrowthKeeps, Zenon DEF PushNoSignal, Fifo!Lose, Lost, Idle
  <2>4. ASSUME NEW p \in Producer, Latch(p) PROVE Fifo!Report(p)
    BY <2>4 DEF Latch, Fifo!Report, ring, Contents
  <2>5. CASE Take
    BY <2>5, TakeTakesHead DEF Take, Fifo!TakeEvent, Fifo!FifoNext
  <2>6. CASE TakeFault /\ ~NoFault(faults)
    <3> DEFINE class == IF faults[0] # "none" THEN 0 ELSE 1
    <3>1. /\ taken' = <<"fault", class, faults[class]>>
          /\ faults' = [faults EXCEPT ![class] = "none"]
          /\ UNCHANGED ring /\ producer' = producer /\ count = 0
      BY <2>6 DEF TakeFault
    <3>2. Contents = <<>> /\ Contents' = Contents
      BY <3>1, SMT DEF Contents, ring
    <3>3. /\ class \in {0, 1} /\ faults[class] # "none"
          /\ \A earlier \in {0, 1} : earlier < class => faults[earlier] = "none"
      BY <2>6 DEF NoFault
    <3>4. Fifo!TakeFault(class)
      BY <3>1, <3>2, <3>3 DEF Fifo!TakeFault
    <3> QED
      BY <3>3, <3>4 DEF Fifo!FifoNext
  <2>7. CASE Wait \/ UNCHANGED vars
    BY <2>7 DEF Wait, vars, ring, Fifo!fifoVars, Contents
  <2>8. CASE TakeFault /\ NoFault(faults)
    BY <2>8 DEF TakeFault, ring, Fifo!fifoVars, Contents
  <2> QED
    BY <2>1, <2>2, <2>3, <2>4, <2>5, <2>6, <2>7, <2>8
       DEF Next, Consume, Fifo!FifoNext, Status
<1> QED
  BY <1>1, <1>2, ControlInvHolds, PTL DEF Spec, IsControlFifo, Fifo!FifoSpec

(***************************************************************************)
(* The frame exchange for every set of pictures and specifications. The    *)
(* inductive invariant adds to the properties the order of the roles a     *)
(* slot may have: without it a failed draw could requeue a slot that is no *)
(* longer the newest.                                                      *)
(***************************************************************************)

\* Where the latest publication is: waiting, or being drawn, or drawn.  This is
\* what makes PendingIsLatest and LatestIsHeld inductive: a redraw or a failed
\* draw requeues the slot that this order names.
RoleOrder ==
  latest # NoSlot =>
    \/ pending = latest
    \/ pending = NoSlot /\ processing = latest
    \/ pending = NoSlot /\ processing = NoSlot /\ displayed = latest

ExchangeInv ==
  /\ ExchangeTypeOK
  /\ WriterIsPrivate
  /\ HeldFramesAreComplete
  /\ PendingIsLatest
  /\ RoleOrder

\* publish always finds a slot: three roles cannot occupy four slots.
LEMMA FirstFreeIsFree ==
  ASSUME NEW p, NEW q, NEW d
  PROVE  FirstFree(p, q, d) \in Slots /\ FirstFree(p, q, d) \notin {p, q, d}
<1>1. \E s \in Slots : s \notin {p, q, d} /\ \A t \in Slots : t \notin {p, q, d} => s <= t
  <2>1. CASE 1 \notin {p, q, d}
    BY <2>1 DEF Slots
  <2>2. CASE 1 \in {p, q, d} /\ 2 \notin {p, q, d}
    BY <2>2 DEF Slots
  <2>3. CASE 1 \in {p, q, d} /\ 2 \in {p, q, d} /\ 3 \notin {p, q, d}
    BY <2>3 DEF Slots
  <2>4. CASE 1 \in {p, q, d} /\ 2 \in {p, q, d} /\ 3 \in {p, q, d}
    BY <2>4 DEF Slots
  <2>5. QED
    BY <2>1, <2>2, <2>3, <2>4
<1>2. QED
  BY <1>1 DEF FirstFree

\* retire_free leaves the payload of every held slot alone and never invents one.
LEMMA RetireFreeKeepsHeld ==
  ASSUME ExchangeTypeOK, NEW w, NEW p, NEW q, NEW d, NEW l \in Slots \cup {NoSlot}
  PROVE  /\ RetireFree(w, p, q, d, l) \in [Slots -> Frames \cup {Empty, Torn}]
         /\ \A s \in Slots : s \in {w, p, q, d} => RetireFree(w, p, q, d, l)[s] = buf[s]
  BY DEF ExchangeTypeOK, RetireFree

LEMMA ExchangeInitially == ExchangeInit => ExchangeInv
<1> SUFFICES ASSUME ExchangeInit PROVE ExchangeInv
  OBVIOUS
<1>1. ExchangeTypeOK
  <2>1. buf \in [Slots -> Frames \cup {Empty, Torn}]
    BY DEF ExchangeInit
  <2>2. writer \in Slots
    BY DEF ExchangeInit, Slots
  <2>3. QED
    BY <2>1, <2>2, Zenon DEF ExchangeInit, ExchangeTypeOK
<1>2. WriterIsPrivate
  BY DEF ExchangeInit, WriterIsPrivate, Slots, NoSlot
<1>3. HeldFramesAreComplete /\ PendingIsLatest /\ RoleOrder
  BY DEF ExchangeInit, HeldFramesAreComplete, PendingIsLatest, RoleOrder
<1>4. QED
  BY <1>1, <1>2, <1>3 DEF ExchangeInv

LEMMA ExchangePreserves == ExchangeInv /\ [ExchangeNext]_exchangeVars => ExchangeInv'
<1> SUFFICES ASSUME ExchangeInv, [ExchangeNext]_exchangeVars PROVE ExchangeInv'
  OBVIOUS
<1> USE DEF NoSlot
<1>0. /\ ExchangeTypeOK /\ WriterIsPrivate /\ HeldFramesAreComplete /\ PendingIsLatest /\ RoleOrder
  BY DEF ExchangeInv
<1>1. CASE BeginWrite
  <2>1. ExchangeTypeOK'
    BY <1>0, <1>1 DEF BeginWrite, ExchangeTypeOK, Slots
  <2>2. HeldFramesAreComplete'
    BY <1>0, <1>1 DEF BeginWrite, ExchangeTypeOK, HeldFramesAreComplete, WriterIsPrivate
  <2>3. QED
    BY <1>0, <1>1, <2>1, <2>2 DEF BeginWrite, ExchangeInv, WriterIsPrivate, PendingIsLatest, RoleOrder
<1>2. CASE AbandonWrite
  BY <1>0, <1>2, Zenon DEF AbandonWrite, ExchangeInv, ExchangeTypeOK, WriterIsPrivate, HeldFramesAreComplete,
                    PendingIsLatest, RoleOrder
<1>3. CASE EndWrite
  <2>1. ExchangeTypeOK'
    BY <1>0, <1>3 DEF EndWrite, ExchangeTypeOK, Slots
  <2>2. HeldFramesAreComplete'
    BY <1>0, <1>3 DEF EndWrite, ExchangeTypeOK, HeldFramesAreComplete, WriterIsPrivate
  <2>3. QED
    BY <1>0, <1>3, <2>1, <2>2 DEF EndWrite, ExchangeInv, WriterIsPrivate, PendingIsLatest, RoleOrder
<1>4. CASE Publish
  <2>1. writer' \in Slots /\ writer' \notin {writer, processing, displayed}
    BY <1>4, FirstFreeIsFree DEF Publish
  <2>2. /\ buf' \in [Slots -> Frames \cup {Empty, Torn}]
        /\ \A s \in Slots : s \in {writer, processing, displayed} => buf'[s] = buf[s]
    BY <1>0, <1>4, RetireFreeKeepsHeld DEF Publish, ExchangeTypeOK
  <2>3. ExchangeTypeOK'
    BY <1>0, <1>4, <2>1, <2>2, Zenon DEF Publish, ExchangeTypeOK
  <2>4. HeldFramesAreComplete'
    BY <1>0, <1>4, <2>2 DEF Publish, ExchangeTypeOK, HeldFramesAreComplete
  <2>5. WriterIsPrivate' /\ PendingIsLatest' /\ RoleOrder'
    BY <1>0, <1>4, <2>1 DEF Publish, WriterIsPrivate, PendingIsLatest, RoleOrder
  <2>6. QED
    BY <2>3, <2>4, <2>5 DEF ExchangeInv
<1>5. CASE Invalidate
  <2>1. /\ buf' \in [Slots -> Frames \cup {Empty, Torn}]
        /\ \A s \in Slots : s \in {writer, processing, displayed} => buf'[s] = buf[s]
    BY <1>0, <1>5, RetireFreeKeepsHeld DEF Invalidate
  <2>2. ExchangeTypeOK'
    BY <1>0, <1>5, <2>1 DEF Invalidate, ExchangeTypeOK
  <2>3. HeldFramesAreComplete'
    BY <1>0, <1>5, <2>1 DEF Invalidate, ExchangeTypeOK, HeldFramesAreComplete
  <2>4. WriterIsPrivate' /\ PendingIsLatest' /\ RoleOrder'
    BY <1>0, <1>5 DEF Invalidate, ExchangeTypeOK, Slots, WriterIsPrivate, PendingIsLatest, RoleOrder
  <2>5. QED
    BY <2>2, <2>3, <2>4 DEF ExchangeInv
<1>6. CASE TakeFrame
  BY <1>0, <1>6 DEF TakeFrame, ExchangeInv, ExchangeTypeOK, Slots, WriterIsPrivate, HeldFramesAreComplete,
                    PendingIsLatest, RoleOrder
<1>7. ASSUME NEW success \in BOOLEAN, Finish(success) PROVE ExchangeInv'
  <2>0. /\ pending' \in Slots \cup {NoSlot} /\ displayed' \in Slots \cup {NoSlot}
        /\ pending' \in {pending, processing} /\ displayed' \in {displayed, processing}
    BY <1>0, <1>7 DEF Finish, ExchangeTypeOK
  <2>1. /\ buf' \in [Slots -> Frames \cup {Empty, Torn}]
        /\ \A s \in Slots : s \in {writer, pending', displayed'} => buf'[s] = buf[s]
    BY <1>0, <1>7, RetireFreeKeepsHeld DEF Finish, ExchangeTypeOK
  <2>2. ExchangeTypeOK'
    BY <1>0, <1>7, <2>0, <2>1 DEF Finish, ExchangeTypeOK
  <2>3. WriterIsPrivate' /\ PendingIsLatest' /\ RoleOrder'
    BY <1>0, <1>7, <2>0 DEF Finish, ExchangeTypeOK, Slots, WriterIsPrivate, PendingIsLatest, RoleOrder
  <2>4. HeldFramesAreComplete'
    <3> SUFFICES ASSUME NEW s \in {pending', displayed', latest'} \ {NoSlot}
                 PROVE  buf'[s] \in Frames
      BY <1>7 DEF Finish, HeldFramesAreComplete
    <3>1. s \in {pending', displayed'} /\ s \in Slots
      BY <1>7, <2>0, <2>2, <2>3 DEF Finish, RoleOrder, ExchangeTypeOK
    <3>2. s \in {pending, processing, displayed} \ {NoSlot}
      BY <2>0, <3>1
    <3>3. QED
      BY <1>0, <2>1, <3>1, <3>2 DEF HeldFramesAreComplete
  <2>5. QED
    BY <2>2, <2>3, <2>4 DEF ExchangeInv
<1>8. CASE Redraw
  BY <1>0, <1>8 DEF Redraw, ExchangeInv, ExchangeTypeOK, Slots, WriterIsPrivate, HeldFramesAreComplete,
                    PendingIsLatest, RoleOrder
<1>9. CASE Detach
  <2>1. /\ buf' \in [Slots -> Frames \cup {Empty, Torn}]
        /\ \A s \in Slots : s \in {writer, latest} => buf'[s] = buf[s]
    BY <1>0, <1>9, RetireFreeKeepsHeld DEF Detach, ExchangeTypeOK
  <2>2. ExchangeTypeOK'
    BY <1>0, <1>9, <2>1 DEF Detach, ExchangeTypeOK
  <2>3. HeldFramesAreComplete'
    BY <1>0, <1>9, <2>1 DEF Detach, ExchangeTypeOK, HeldFramesAreComplete
  <2>4. WriterIsPrivate' /\ PendingIsLatest' /\ RoleOrder'
    BY <1>0, <1>9 DEF Detach, ExchangeTypeOK, Slots, WriterIsPrivate, PendingIsLatest, RoleOrder
  <2>5. QED
    BY <2>2, <2>3, <2>4 DEF ExchangeInv
<1>10. CASE UNCHANGED exchangeVars
  BY <1>0, <1>10, Zenon DEF exchangeVars, ExchangeInv, ExchangeTypeOK, WriterIsPrivate, HeldFramesAreComplete,
                     PendingIsLatest, RoleOrder
<1>11. QED
  BY <1>1, <1>2, <1>3, <1>4, <1>5, <1>6, <1>7, <1>8, <1>9, <1>10, Zenon DEF ExchangeNext

LEMMA ExchangeInvHolds == ExchangeSpec => []ExchangeInv
  BY ExchangeInitially, ExchangePreserves, PTL DEF ExchangeSpec

\* Types of the exchange's roles and slot payloads, for every frame set.
THEOREM ExchangeTypeCorrect == ExchangeSpec => []ExchangeTypeOK
<1>1. ExchangeInv => ExchangeTypeOK
  BY DEF ExchangeInv
<1>2. QED
  BY <1>1, ExchangeInvHolds, PTL

\* The producer never waits: publish always leaves it a slot that no consumer,
\* observer or replacement consumer can reach.
THEOREM WriterAlwaysPrivate == ExchangeSpec => []WriterIsPrivate
<1>1. ExchangeInv => WriterIsPrivate
  BY DEF ExchangeInv
<1>2. QED
  BY <1>1, ExchangeInvHolds, PTL

\* What readers outside the lock reach is complete and protected by a role.
THEOREM ReadersSeeCompleteFrames == ExchangeSpec => [](HeldFramesAreComplete /\ LatestIsHeld)
<1>1. ExchangeInv => HeldFramesAreComplete /\ LatestIsHeld
  BY DEF ExchangeInv, RoleOrder, LatestIsHeld
<1>2. QED
  BY <1>1, ExchangeInvHolds, PTL

\* redraw, a failed finish and detach never requeue a superseded frame.
THEOREM OnlyLatestIsQueued == ExchangeSpec => []PendingIsLatest
<1>1. ExchangeInv => PendingIsLatest
  BY DEF ExchangeInv
<1>2. QED
  BY <1>1, ExchangeInvHolds, PTL

\* "Both the returned input and optional previous displayed input remain immutable
\* until finish": the payloads the consumer keeps across a step do not change.
THEOREM ConsumerInputStable == ExchangeSpec => ConsumerInputImmutable
<1>1. ASSUME ExchangeInv, [ExchangeNext]_exchangeVars
      PROVE  [/\ processing # NoSlot /\ processing' = processing =>
                   buf'[processing] = buf[processing]
              /\ displayed # NoSlot /\ displayed' = displayed =>
                   buf'[displayed] = buf[displayed]]_exchangeVars
  <2>0. /\ ExchangeTypeOK /\ WriterIsPrivate
        /\ processing \in Slots \cup {NoSlot} /\ displayed \in Slots \cup {NoSlot}
    BY <1>1 DEF ExchangeInv, ExchangeTypeOK
  <2>1. CASE BeginWrite \/ EndWrite
    BY <2>0, <2>1 DEF BeginWrite, EndWrite, ExchangeTypeOK, WriterIsPrivate
  <2>2. CASE AbandonWrite \/ TakeFrame \/ Redraw
    BY <2>2 DEF AbandonWrite, TakeFrame, Redraw
  <2>3. CASE Publish
    BY <2>0, <2>3, RetireFreeKeepsHeld DEF Publish, ExchangeTypeOK
  <2>4. CASE Invalidate
    BY <2>0, <2>4, RetireFreeKeepsHeld DEF Invalidate, ExchangeTypeOK
  <2>5. ASSUME NEW success \in BOOLEAN, Finish(success)
        PROVE  /\ processing' = NoSlot
               /\ displayed # NoSlot /\ displayed' = displayed =>
                    buf'[displayed] = buf[displayed]
    <3>1. latest \in Slots \cup {NoSlot}
      BY <2>0 DEF ExchangeTypeOK
    <3>2. \A s \in Slots : s \in {writer, pending', NoSlot, displayed'} => buf'[s] = buf[s]
      BY <2>0, <2>5, <3>1, RetireFreeKeepsHeld DEF Finish
    <3>3. QED
      BY <2>0, <2>5, <3>2 DEF Finish
  <2>6. CASE Detach
    BY <2>0, <2>6 DEF Detach
  <2>7. CASE UNCHANGED exchangeVars
    BY <2>7 DEF exchangeVars
  <2>8. QED
    BY <1>1, <2>1, <2>2, <2>3, <2>4, <2>5, <2>6, <2>7, ZenonT(30) DEF ExchangeNext
<1>2. QED
  BY <1>1, ExchangeInvHolds, PTL DEF ExchangeSpec, ConsumerInputImmutable

\* The exchange implements the slot-free specification: each call is one abstract
\* step or invisible.  TakeFrame hands over the newest publication because pending is
\* never anything else; publishing and retiring touch no slot the mapping reads.
THEOREM ExchangeIsLatestFrame == ExchangeSpec => ImplementsLatestFrame
<1>1. ExchangeInit => LF!Init
  BY DEF ExchangeInit, LF!Init, Content
<1>2. ASSUME ExchangeInv, [ExchangeNext]_exchangeVars PROVE [LF!Next]_LF!lvars
  <2> USE DEF NoSlot
  <2>0. /\ ExchangeTypeOK /\ WriterIsPrivate /\ HeldFramesAreComplete /\ PendingIsLatest /\ RoleOrder
    BY <1>2 DEF ExchangeInv
  <2>t. /\ latest \in Slots \cup {NoSlot} /\ processing \in Slots \cup {NoSlot}
        /\ displayed \in Slots \cup {NoSlot} /\ NoSlot \notin Slots
    BY <2>0 DEF ExchangeTypeOK, Slots
  <2>1. CASE BeginWrite \/ EndWrite
    <3>1. /\ Content(latest)' = Content(latest) /\ Content(processing)' = Content(processing)
          /\ Content(displayed)' = Content(displayed)
      BY <2>0, <2>t, <2>1 DEF BeginWrite, EndWrite, ExchangeTypeOK, WriterIsPrivate, Content
    <3>2. QED
      BY <3>1 DEF LF!lvars
  <2>2. CASE AbandonWrite \/ Redraw
    BY <2>2 DEF AbandonWrite, Redraw, LF!lvars, Content
  <2>3. CASE Publish
    <3>1. \A s \in Slots : s \in {writer, processing, displayed} => buf'[s] = buf[s]
      BY <2>0, <2>3, RetireFreeKeepsHeld DEF Publish, ExchangeTypeOK
    <3>2. /\ Content(latest)' \in Frames /\ Content(processing)' = Content(processing)
          /\ Content(displayed)' = Content(displayed)
      BY <2>0, <2>t, <2>3, <3>1 DEF Publish, ExchangeTypeOK, Content
    <3>3. QED
      BY <3>2 DEF LF!Next, LF!Publish
  <2>4. CASE Invalidate
    <3>1. \A s \in Slots : s \in {writer, processing, displayed} => buf'[s] = buf[s]
      BY <2>0, <2>4, RetireFreeKeepsHeld DEF Invalidate, ExchangeTypeOK
    <3>2. /\ Content(latest)' = Empty /\ Content(processing)' = Content(processing)
          /\ Content(displayed)' = Content(displayed)
      BY <2>0, <2>t, <2>4, <3>1 DEF Invalidate, Content
    <3>3. QED
      BY <3>2 DEF LF!Next, LF!Invalidate
  <2>5. CASE TakeFrame
    <3>1. pending = latest /\ latest # NoSlot /\ buf[latest] # Empty
      BY <2>0, <2>5, ContentAssumption DEF TakeFrame, PendingIsLatest, HeldFramesAreComplete
    <3>2. /\ Content(processing) = Empty /\ Content(latest) # Empty
          /\ Content(processing)' = Content(latest)
          /\ Content(latest)' = Content(latest) /\ Content(displayed)' = Content(displayed)
      BY <2>5, <3>1 DEF TakeFrame, Content
    <3>3. QED
      BY <3>2 DEF LF!Next, LF!Begin
  <2>6. ASSUME NEW success \in BOOLEAN, Finish(success) PROVE LF!Next
    <3>1. \A s \in Slots : s \in {writer, pending', NoSlot, displayed'} => buf'[s] = buf[s]
      BY <2>0, <2>t, <2>6, RetireFreeKeepsHeld DEF Finish
    <3>2. latest # NoSlot => latest \in {pending', displayed'}
      BY <2>0, <2>6 DEF Finish, RoleOrder
    <3>3. Content(latest)' = Content(latest)
      BY <2>t, <2>6, <3>1, <3>2 DEF Finish, Content
    <3>4. Content(processing) # Empty /\ Content(processing)' = Empty
      BY <2>0, <2>6, ContentAssumption DEF Finish, Content, HeldFramesAreComplete
    <3>5. Content(displayed)' \in {Content(displayed), Content(processing)}
      BY <2>t, <2>6, <3>1 DEF Finish, Content
    <3>6. QED
      BY <3>3, <3>4, <3>5 DEF LF!Next, LF!End
  <2>7. CASE Detach
    <3>1. \A s \in Slots : s \in {writer, latest} => buf'[s] = buf[s]
      BY <2>0, <2>t, <2>7, RetireFreeKeepsHeld DEF Detach
    <3>2. /\ Content(latest)' = Content(latest)
          /\ Content(processing)' = Empty /\ Content(displayed)' = Empty
      BY <2>t, <2>7, <3>1 DEF Detach, Content
    <3>3. QED
      BY <3>2 DEF LF!Next, LF!Detach
  <2>8. CASE UNCHANGED exchangeVars
    BY <2>8 DEF exchangeVars, LF!lvars, Content
  <2>9. QED
    BY <1>2, <2>1, <2>2, <2>3, <2>4, <2>5, <2>6, <2>7, <2>8, Zenon DEF ExchangeNext
<1>3. QED
  BY <1>1, <1>2, ExchangeInvHolds, PTL DEF ExchangeSpec, ImplementsLatestFrame, LF!Spec

=============================================================================
