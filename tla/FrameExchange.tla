--------------------------- MODULE FrameExchange ---------------------------
(***************************************************************************)
(* lib/kvm-base/frame_exchange.c: four reusable slots between the machine  *)
(* executor (producer) and one Window or Console worker (consumer).        *)
(*                                                                         *)
(* Every exchange call runs under exchange->lock and is one action.  The   *)
(* producer fills writer() outside the lock, so a write is two steps, and  *)
(* the consumer reads processing and displayed outside the lock between    *)
(* take and finish.                                                        *)
(***************************************************************************)
EXTENDS Integers

CONSTANTS Pictures,  \* what frames show
          Specs,     \* their allocation specification (columns, rows, stride)
          Empty,     \* a slot whose payload is released
          Torn       \* a slot the producer is in the middle of filling

Frames == Pictures \X Specs

ASSUME ContentAssumption == Empty \notin Frames /\ Torn \notin Frames /\ Empty # Torn

\* kvm_window_frame_same_spec: a released slot has no payload and matches none.
SameSpec(a, b) == a \in Frames /\ b \in Frames /\ a[2] = b[2]

VARIABLES buf,         \* the payload of every slot
          writer, pending, processing, displayed, latest,
          writing      \* the producer is between writer() and its decision

exchangeVars == <<buf, writer, pending, processing, displayed, latest, writing>>

NoSlot == 0
Slots == 1..4

\* Mutant: the frame on the screen is not counted as held.
RetireFreeIgnoringDisplayed(w, p, q, d, l) ==
  [s \in Slots |->
     IF s \notin {w, p, q} /\ (l = NoSlot \/ ~SameSpec(buf[s], buf[l]))
       THEN Empty ELSE buf[s]]

\* kvm_frame_exchange_retire_free, with the roles the call leaves behind: every
\* unheld slot gives up a payload that does not fit the latest publication.
RetireFree(w, p, q, d, l) ==
  [s \in Slots |->
     IF s \notin {w, p, q, d} /\ (l = NoSlot \/ ~SameSpec(buf[s], buf[l]))
       THEN Empty ELSE buf[s]]

\* Mutant: forget that the consumer may still be drawing.
FirstFreeIgnoringProcessing(p, q, d) ==
  CHOOSE s \in Slots : s \notin {p, d} /\ \A t \in Slots : t \notin {p, d} => s <= t

\* The loop of publish: the first slot in none of the three other roles.
FirstFree(p, q, d) ==
  CHOOSE s \in Slots : s \notin {p, q, d} /\ \A t \in Slots : t \notin {p, q, d} => s <= t

ExchangeInit ==
  /\ buf = [s \in Slots |-> Empty]
  /\ writer = 1
  /\ pending = NoSlot /\ processing = NoSlot /\ displayed = NoSlot /\ latest = NoSlot
  /\ writing = FALSE

-----------------------------------------------------------------------------
(* Producer.  emulator_machine_publish fills writer() through the driver and  *)
(* either publishes it or, on failure or when nothing was produced, keeps it. *)

BeginWrite ==
  /\ ~writing
  /\ writing' = TRUE
  /\ buf' = [buf EXCEPT ![writer] = Torn]
  /\ UNCHANGED <<writer, pending, processing, displayed, latest>>

AbandonWrite ==
  /\ writing
  /\ writing' = FALSE
  /\ UNCHANGED <<buf, writer, pending, processing, displayed, latest>>

EndWrite ==
  /\ writing
  /\ buf[writer] = Torn
  /\ \E f \in Frames : buf' = [buf EXCEPT ![writer] = f]
  /\ UNCHANGED <<writer, pending, processing, displayed, latest, writing>>

Publish ==
  /\ writing
  /\ buf[writer] \in Frames
  /\ writing' = FALSE
  /\ latest' = writer
  /\ pending' = writer
  /\ buf' = RetireFree(NoSlot, writer, processing, displayed, writer)
  /\ writer' = FirstFree(writer, processing, displayed)
  /\ UNCHANGED <<processing, displayed>>

Invalidate ==
  /\ ~writing
  /\ pending' = NoSlot
  /\ latest' = NoSlot
  /\ buf' = RetireFree(writer, NoSlot, processing, displayed, NoSlot)
  /\ UNCHANGED <<writer, processing, displayed, writing>>

-----------------------------------------------------------------------------
(* Consumer. *)

TakeFrame ==
  /\ processing = NoSlot
  /\ pending # NoSlot
  /\ processing' = pending
  /\ pending' = NoSlot
  /\ UNCHANGED <<buf, writer, displayed, latest, writing>>

\* Mutant: a failed draw is dropped.
FinishDropsFailure(success) ==
  /\ processing # NoSlot
  /\ displayed' = IF success THEN processing ELSE displayed
  /\ processing' = NoSlot
  /\ buf' = RetireFree(writer, pending, NoSlot, displayed', latest)
  /\ UNCHANGED <<pending, writer, latest, writing>>

Finish(success) ==
  /\ processing # NoSlot
  /\ displayed' = IF success THEN processing ELSE displayed
  /\ pending' = IF ~success /\ latest = processing THEN processing ELSE pending
  /\ processing' = NoSlot
  /\ buf' = RetireFree(writer, pending', NoSlot, displayed', latest)
  /\ UNCHANGED <<writer, latest, writing>>

\* Mutant: redraw without asking whether the generation was invalidated.
RedrawStale ==
  /\ pending = NoSlot
  /\ pending' = IF processing # NoSlot THEN processing ELSE displayed
  /\ UNCHANGED <<buf, writer, processing, displayed, latest, writing>>

Redraw ==
  /\ pending = NoSlot
  /\ latest # NoSlot
  /\ pending' = IF processing # NoSlot THEN processing ELSE displayed
  /\ UNCHANGED <<buf, writer, processing, displayed, latest, writing>>

\* After the consumer has stopped: a replacement starts from the latest frame.
Detach ==
  /\ processing' = NoSlot
  /\ displayed' = NoSlot
  /\ pending' = latest
  /\ buf' = RetireFree(writer, latest, NoSlot, NoSlot, latest)
  /\ UNCHANGED <<writer, latest, writing>>

ExchangeNext ==
  \/ BeginWrite \/ AbandonWrite \/ EndWrite \/ Publish \/ Invalidate
  \/ TakeFrame \/ Finish(TRUE) \/ Finish(FALSE) \/ Redraw \/ Detach

ExchangeSpec == ExchangeInit /\ [][ExchangeNext]_exchangeVars

\* The consumer worker keeps taking frames, and its drawing does not fail for
\* ever; the producer owes nothing.
ExchangeFairness == WF_exchangeVars(TakeFrame) /\ SF_exchangeVars(Finish(TRUE))

-----------------------------------------------------------------------------
ExchangeTypeOK ==
  /\ buf \in [Slots -> Frames \cup {Empty, Torn}]
  /\ writer \in Slots
  /\ pending \in Slots \cup {NoSlot}
  /\ processing \in Slots \cup {NoSlot}
  /\ displayed \in Slots \cup {NoSlot}
  /\ latest \in Slots \cup {NoSlot}
  /\ writing \in BOOLEAN

\* "At most pending, processing and displayed are unavailable.  The remaining
\* slot is always writable, including when the consumer never advances."
\* (publish): the producer always owns a slot nobody else can reach, the
\* observers of latest included.
WriterIsPrivate ==
  writer \in Slots /\ writer \notin {pending, processing, displayed, latest}

\* The publication an observer may read (observe_latest) or a replacement
\* consumer may be given (detach) is protected by one of the three roles, so
\* retire_free never releases it and publish never hands it to the producer.
LatestIsHeld ==
  latest # NoSlot => latest \in {pending, processing, displayed}

\* Nobody who reads outside the lock meets a half-written or released payload.
HeldFramesAreComplete ==
  \A s \in {pending, processing, displayed, latest} \ {NoSlot} : buf[s] \in Frames

\* redraw, a failed finish and detach requeue only the newest publication of the
\* current generation: what waits for the consumer is never a superseded frame.
PendingIsLatest ==
  pending \in {NoSlot, latest}

\* "Both the returned input and optional previous displayed input remain
\* immutable until finish" (take): no step changes a payload the consumer
\* keeps across that step.
ConsumerInputImmutable ==
  [][/\ processing # NoSlot /\ processing' = processing => buf'[processing] = buf[processing]
     /\ displayed # NoSlot /\ displayed' = displayed => buf'[displayed] = buf[displayed]]_exchangeVars

\* A publication is drawn, unless the producer replaces or invalidates it first.
LatestIsEventuallyDisplayed ==
  \A s \in Slots : (latest = s) ~> (displayed = s \/ latest # s)

Content(s) == IF s = NoSlot THEN Empty ELSE buf[s]

LF == INSTANCE LatestFrame WITH
        None <- Empty, current <- Content(latest),
        inHand <- Content(processing), shown <- Content(displayed)

\* The exchange implements the slot-free promise of LatestFrame.
ImplementsLatestFrame == LF!Spec
=============================================================================
