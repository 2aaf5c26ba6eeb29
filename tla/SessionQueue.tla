---------------------------- MODULE SessionQueue ----------------------------
(***************************************************************************)
(* The session's control queue (src/emulator/session/control.c): a ring    *)
(* that doubles when it is full, a manual-reset event that says whether    *)
(* there is something to take, and two fixed slots for losses.             *)
(*                                                                         *)
(* A producer pushes under the lock; when that fails it latches the loss   *)
(* in a second critical section.  The consumer (emulator_session_run)      *)
(* waits for the event without the lock and takes under it.  Allocation    *)
(* and native signals, waits and resets may fail.                          *)
(***************************************************************************)
EXTENDS Naturals, Sequences

CONSTANTS
  Event, NoEvent,    \* emulator_session_event, and a zeroed slot
  Producer,          \* the threads that push
  InitialCapacity,   \* EMULATOR_SESSION_EVENT_QUEUE_INITIAL_CAPACITY
  MaxCapacity,       \* bound on the ring: producers wait when it is full
  MaxFailures        \* how many allocations and native calls fail

ASSUME SessionQueueAssumption ==
  /\ InitialCapacity \in Nat \ {0} /\ MaxCapacity \in Nat /\ MaxFailures \in Nat

VARIABLES
  events, first, count, capacity,
  available,     \* whether the event is signalled
  faults,        \* faults and fault_pending, by class
  producer,      \* per producer the loss it is about to latch
  consumer,      \* "waiting", "woken", or how emulator_session_run ended
  taken,         \* what emulator_session_queue_take returned last
  failures,      \* allocations and native calls that have failed
  unreset        \* history: whether a reset of the event has failed

ring == <<events, first, count, capacity>>
vars == <<ring, available, faults, producer, consumer, taken, failures, unreset>>

Status == {"no_memory", "io_error"}
NoLoss == [class |-> 1, status |-> "none"]

Init ==
  /\ events = [slot \in 0..(InitialCapacity - 1) |-> NoEvent]
  /\ first = 0 /\ count = 0 /\ capacity = InitialCapacity
  /\ available = FALSE
  /\ faults = [class \in {0, 1} |-> "none"]
  /\ producer = [p \in Producer |-> NoLoss]
  /\ consumer = "waiting" /\ taken = <<"nothing">>
  /\ failures = 0 /\ unreset = FALSE

Fails == failures < MaxFailures /\ failures' = failures + 1

(***************************************************************************)
(* emulator_session_queue_push and its callers.                            *)
(***************************************************************************)

Full == count = capacity

(* The ring a push stores into: a full one is copied to the front of one   *)
(* twice as large.                                                         *)
Expanded ==
  IF Full
  THEN [events |-> [slot \in 0..(2 * capacity - 1) |->
                      IF slot < count THEN events[(first + slot) % capacity]
                      ELSE NoEvent],
        first |-> 0, capacity |-> 2 * capacity]
  ELSE [events |-> events, first |-> first, capacity |-> capacity]

CanGrow == Full => 2 * capacity <= MaxCapacity
Idle(p) == producer[p] = NoLoss /\ consumer \in {"waiting", "woken"}
Lost(p, class, status) ==
  producer' = [producer EXCEPT ![p] = [class |-> class, status |-> status]]

(* Mutant: the larger ring keeps the old first index.                      *)
PushKeepsFirst(p, event) ==
  LET q == Expanded IN
  /\ Idle(p) /\ CanGrow
  /\ available' = TRUE
  /\ events' = [q.events EXCEPT ![(first + count) % q.capacity] = event]
  /\ first' = first /\ capacity' = q.capacity /\ count' = count + 1
  /\ UNCHANGED <<faults, producer, consumer, taken, failures, unreset>>

(* Mutant: only the first event of an empty queue is signalled, on the     *)
(* count as it is after the store.                                         *)
PushSignalsOnce(p, event) ==
  LET q == Expanded IN
  /\ Idle(p) /\ CanGrow
  /\ available' = (available \/ count = 1)
  /\ events' = [q.events EXCEPT ![(q.first + count) % q.capacity] = event]
  /\ first' = q.first /\ capacity' = q.capacity /\ count' = count + 1
  /\ UNCHANGED <<faults, producer, consumer, taken, failures, unreset>>

Push(p, event) ==
  LET q == Expanded IN
  /\ Idle(p) /\ CanGrow
  /\ available' = TRUE
  /\ events' = [q.events EXCEPT ![(q.first + count) % q.capacity] = event]
  /\ first' = q.first /\ capacity' = q.capacity /\ count' = count + 1
  /\ UNCHANGED <<faults, producer, consumer, taken, failures, unreset>>

(* No larger ring can be allocated.                                        *)
PushNoMemory(p, class) ==
  /\ Idle(p) /\ Full /\ Fails /\ Lost(p, class, "no_memory")
  /\ UNCHANGED <<ring, available, faults, consumer, taken, unreset>>

(* The signal fails: a ring that grew stays large, the event is not kept.  *)
PushNoSignal(p, class) ==
  LET q == Expanded IN
  /\ Idle(p) /\ CanGrow
  /\ Fails /\ Lost(p, class, "io_error")
  /\ events' = q.events /\ first' = q.first /\ capacity' = q.capacity
  /\ UNCHANGED <<count, available, faults, consumer, taken, unreset>>

(* emulator_session_queue_latch_failure keeps the first fault of a class   *)
(* and ignores what its own signal answers.                                *)
Latch(p) ==
  LET loss == producer[p] IN
  /\ loss # NoLoss
  /\ faults' = IF faults[loss.class] = "none"
               THEN [faults EXCEPT ![loss.class] = loss.status] ELSE faults
  /\ producer' = [producer EXCEPT ![p] = NoLoss]
  /\ \/ available' = TRUE /\ UNCHANGED failures
     \/ Fails /\ UNCHANGED available
  /\ UNCHANGED <<ring, consumer, taken, unreset>>

(***************************************************************************)
(* emulator_session_queue_take, called by emulator_session_run.            *)
(***************************************************************************)

Wait ==
  /\ consumer = "waiting"
  /\ \/ available /\ consumer' = "woken" /\ UNCHANGED failures
     \/ Fails /\ consumer' = "wait_failed"
  /\ UNCHANGED <<ring, available, faults, producer, taken, unreset>>

NoFault(f) == \A class \in {0, 1} : f[class] = "none"

(* When nothing is left to take the event is reset; what the reset answers *)
(* is ignored.                                                             *)
Reset(left) ==
  \/ available' = (available /\ left) /\ UNCHANGED <<failures, unreset>>
  \/ ~left /\ Fails /\ unreset' = TRUE /\ UNCHANGED available

(* Mutant: the event is reset when the FIFO is empty, faults or not.       *)
TakeForgetsFaults ==
  /\ consumer = "woken" /\ count # 0
  /\ taken' = <<"event", events[first]>> /\ consumer' = "waiting"
  /\ first' = (first + 1) % capacity /\ count' = count - 1
  /\ Reset(count' # 0)
  /\ UNCHANGED <<events, capacity, faults, producer>>

Take ==
  /\ consumer = "woken" /\ count # 0
  /\ taken' = <<"event", events[first]>> /\ consumer' = "waiting"
  /\ first' = (first + 1) % capacity /\ count' = count - 1
  /\ Reset(count' # 0 \/ ~NoFault(faults))
  /\ UNCHANGED <<events, capacity, faults, producer>>

(* With the FIFO empty a fault is taken, input before facts, and ends      *)
(* emulator_session_run; with no fault either it ends without a word.      *)
TakeFault ==
  /\ consumer = "woken" /\ count = 0
  /\ IF NoFault(faults)
     THEN consumer' = "spurious" /\ UNCHANGED <<taken, faults>>
     ELSE LET class == IF faults[0] # "none" THEN 0 ELSE 1 IN
          /\ consumer' = "told" /\ taken' = <<"fault", class, faults[class]>>
          /\ faults' = [faults EXCEPT ![class] = "none"]
  /\ Reset(~NoFault(faults'))
  /\ UNCHANGED <<ring, producer>>

Consume == Wait \/ Take \/ TakeFault

Next ==
  \/ \E p \in Producer :
       \/ \E event \in Event : Push(p, event)
       \/ \E class \in {0, 1} : PushNoMemory(p, class) \/ PushNoSignal(p, class)
       \/ Latch(p)
  \/ Consume

Spec == Init /\ [][Next]_vars

(* A producer inside push_required finishes it, and the consumer runs on;  *)
(* no step is owed to a failure.                                           *)
Fairness ==
  /\ WF_vars(Consume /\ UNCHANGED failures)
  /\ \A p \in Producer : WF_vars(Latch(p) /\ UNCHANGED failures)

(***************************************************************************)
(* Properties.                                                             *)
(***************************************************************************)

(* The ring's indices are inside it and the flags have their types.        *)
TypeOK ==
  /\ capacity \in Nat \ {0} /\ first \in 0..(capacity - 1) /\ count \in 0..capacity
  /\ events \in [0..(capacity - 1) -> Event \cup {NoEvent}]
  /\ available \in BOOLEAN
  /\ faults \in [{0, 1} -> Status \cup {"none"}]
  /\ producer \in [Producer -> [class : {0, 1}, status : Status] \cup {NoLoss}]
  /\ consumer \in {"waiting", "woken", "told", "wait_failed", "spurious"}
  /\ failures \in Nat /\ unreset \in BOOLEAN

(* No wakeup is lost: a retained event keeps the event signalled, whatever *)
(* native calls have failed, so the wait of queue_take returns.  None is   *)
(* spurious either, unless a reset has failed (control.c:198 ignores it):  *)
(* a signalled queue has something to take, so queue_take never ends the   *)
(* session by returning nothing.                                           *)
SignalIsExact ==
  /\ count # 0 => available
  /\ ~unreset => /\ available \/ consumer = "woken" => count # 0 \/ ~NoFault(faults)
                 /\ consumer # "spurious"

(* The ring is the unbounded FIFO its header promises, growth included.    *)
Contents == [i \in 1..count |-> events[(first + i - 1) % capacity]]
Fifo == INSTANCE ControlFifo WITH
          queue <- Contents, fault <- faults, owed <- producer, got <- taken
IsControlFifo == Fifo!FifoSpec

(* An event that could not be retained is not silently lost: once the      *)
(* producers fall silent long enough for the FIFO to drain, the fault is   *)
(* taken and ends the session, if no second call fails after it.           *)
LossIsHeard ==
  <>[](count = 0) /\ [](failures <= 1) =>
    \A p \in Producer :
      (producer[p] # NoLoss) ~> (consumer \in {"told", "wait_failed"})

=============================================================================
