------------------------- MODULE ConsoleBrokerProofs -------------------------
(***************************************************************************)
(* The steps of the reader thread and of the components around the broker, *)
(* what the invariant of the console broker shows, and the lines requested *)
(* of it.                                                                  *)
(***************************************************************************)
EXTENDS ConsoleBrokerInvariant

(***************************************************************************)
(* The reader thread.                                                      *)
(***************************************************************************)

(* What a step of the reader leaves alone, given what it does to its       *)
(* record, the input and the blame.                                        *)
LEMMA ReaderKeeps ==
  ASSUME IInv, be.reader = "run", UNCHANGED <<broker, con, native, heap, ctl, wr>>,
         Backing(be.stop, "run") \/ Backing(be.stop, "done"),
         ReaderShape', InputTagged', Counted', Blamed'
  PROVE  IInv'
<1>1. /\ BrokerShape /\ ConShape /\ BackendShape /\ CallShape
      /\ WriterShape /\ LockHeld /\ OnScreen /\ WriterBound /\ Installed
      /\ Retired /\ Agreed /\ Referred
  BY DEF IInv
<1>2. BrokerShape' /\ ConShape' /\ BackendShape' /\ CallShape' /\ WriterShape'
  BY <1>1 DEF BrokerShape, ConShape, BackendShape, CallShape, WriterShape, Backing
<1>3. LockHeld' /\ OnScreen' /\ WriterBound' /\ Referred'
  BY <1>1 DEF LockHeld, Locking, OnScreen, WriterBound, Referred, Backing
<1>4. Installed'
  <2>1. \A c \in Consoles : Out(c)' = Out(c)
    BY DEF Out, Both
  <2>2. \A g : Allocated(g)' <=> Allocated(g)
    BY DEF Allocated, Both
  <2> QED BY <1>1, <2>1, <2>2 DEF Installed
<1>5. Retired'
  BY <1>1 DEF Retired, Backing
<1>6. Agreed'
  BY <1>1 DEF Agreed, Steady, Bound, Target, TargetGen, Backing
<1> QED BY <1>2, <1>3, <1>4, <1>5, <1>6 DEF IInv

(* What the reader can rely on.                                            *)
LEMMA ReaderRuns ==
  ASSUME IInv, be.reader = "run"
  PROVE  /\ be.console \in Consoles /\ be.stop \in {"clear", "set"}
         /\ input # <<>> /\ be.stop # "set" => Head(input) = be.gen
<1>1. be.console \in Consoles /\ be.stop \in {"clear", "set"}
  BY DEF IInv, Retired, BackendShape
<1>2. input # <<>> /\ be.stop # "set" => Head(input) = be.gen
  <2> SUFFICES ASSUME input # <<>>, be.stop # "set" PROVE Head(input) = be.gen
    OBVIOUS
  <2>1. input \in Seq(Nat) /\ \A i \in 1..Len(input) : input[i] = be.gen
    BY <1>1 DEF IInv, InputTagged
  <2>2. 1 \in 1..Len(input) /\ Head(input) = input[1]
    BY <2>1
  <2> QED BY <2>1, <2>2
<1> QED BY <1>1, <1>2

(* A step that takes from the input only what the stop event lets it.      *)
LEMMA InputStays ==
  ASSUME InputTagged, Draining, be'.gen = be.gen, be'.stop = be.stop
  PROVE  /\ input' \in Seq(Nat)
         /\ be'.stop = "clear" => \A i \in 1..Len(input') : input'[i] = be'.gen
  BY DEF InputTagged, Draining

(* The reader of lines has read one, or could not.                         *)
LEMMA ReadCookedKeeps ==
  ASSUME IInv, ReadCooked, script' = script PROVE IInv'
<1>1. /\ be.reader = "run" /\ rd.pc = "read"
      /\ UNCHANGED <<broker, con, native, heap, ctl, wr, line>>
  BY DEF ReadCooked, Reading
<1>2. /\ ReaderShape /\ InputTagged /\ Counted /\ Blamed /\ BackendShape
  BY DEF IInv
<1>3. CASE /\ input # <<>> /\ Works /\ input' = Tail(input) /\ UNCHANGED be
           /\ rd' = [pc |-> "line", tag |-> Head(input)]
  <2>1. Reader("line", Head(input)) /\ Backing(be.stop, "run")
    BY <1>1, <1>2, <1>3 DEF Reader, ReaderShape, Backing
  <2>2. Draining /\ Spending /\ (Blame => Blame')
    BY <1>1, <1>2, <1>3, Drains, Spends, BlameStays DEF InputTagged
  <2>3. ReaderShape' /\ Blamed' /\ Counted'
    BY <1>1, <1>2, <1>3, <2>1, <2>2 DEF ReaderShape, Reader, Blamed, Spending
  <2>4. InputTagged'
    BY <1>1, <1>2, <1>3, <2>1, <2>2, ReaderRuns, InputStays DEF InputTagged, Reader
  <2> QED BY <1>1, <2>1, <2>3, <2>4, ReaderKeeps
<1>4. CASE /\ Fails("read") /\ UNCHANGED input
           /\ rd' = [rd EXCEPT !.pc = "failed"]
           /\ be' = IF be.stop = "set" THEN be ELSE [be EXCEPT !.pending = FALSE]
  <2>1. Reader("failed", rd.tag) /\ Backing(be.stop, "run") /\ be'.status = be.status
    BY <1>1, <1>2, <1>4 DEF Reader, ReaderShape, Backing, BackendShape
  <2>2. Draining /\ Spending /\ Blame'
    BY <1>1, <1>2, <1>4, Drains, Spends DEF InputTagged
  <2>3. ReaderShape' /\ Blamed' /\ Counted'
    BY <1>1, <1>2, <1>4, <2>1, <2>2 DEF ReaderShape, Reader, Blamed, Spending, Backing
  <2>4. InputTagged'
    BY <1>1, <1>2, <1>4, <2>1, <2>2, InputStays DEF InputTagged, Reader, Backing
  <2> QED BY <1>1, <2>1, <2>3, <2>4, ReaderKeeps
<1> QED BY <1>3, <1>4 DEF ReadCooked

(* The reader's step uses nothing up and keeps the input; what it does to  *)
(* its record.                                                             *)
LEMMA ReaderMoves ==
  ASSUME IInv, be.reader = "run", UNCHANGED <<broker, con, native, heap, ctl, wr>>,
         script' = script, Works, Draining,
         \/ /\ Backing(be.stop, "done") /\ Reader("off", 0)
            /\ be'.status # be.status => Blame
         \/ /\ Backing(be.stop, "run") /\ be'.status = be.status
            /\ \/ Reader("read", 0)
               \/ Reader("complete", rd.tag) /\ rd.tag = be.gen
               \/ Reader("deliver", be.gen)
               \/ Reader("sink", rd.tag) /\ rd.tag = be.gen /\ con[be.console].sink
               \/ Reader("failed", rd.tag) /\ Blame
  PROVE  IInv'
<1>1. /\ ReaderShape /\ InputTagged /\ Counted /\ Blamed /\ BackendShape
  BY DEF IInv
<1>2. Spending /\ (Blame => Blame')
  BY <1>1, Spends, BlameStays
<1>3. ReaderShape'
  BY <1>1 DEF ReaderShape, Reader, Backing
<1>4. InputTagged'
  BY <1>1, InputStays DEF InputTagged, Reader, Backing
<1>5. Blamed' /\ Counted'
  BY <1>1, <1>2 DEF Blamed, Reader, Spending
<1> QED BY <1>3, <1>4, <1>5, ReaderKeeps

(* The reader of lines looks for the stop event after it has read.         *)
LEMMA CheckStopKeeps == ASSUME IInv, CheckStop, script' = script PROVE IInv'
<1>1. /\ be.reader = "run" /\ rd.pc = "line" /\ Works
      /\ UNCHANGED <<broker, con, native, input, heap, ctl, wr>>
  BY DEF CheckStop, Reading
<1>2. /\ ReaderShape /\ InputTagged /\ BackendShape
  BY DEF IInv
<1>3. Draining
  BY <1>1, <1>2, Drains DEF InputTagged
<1>4. CASE be.stop = "set"
  <2>1. Backing(be.stop, "done") /\ Reader("off", 0) /\ be'.status = be.status
    BY <1>2, <1>4 DEF CheckStop, Exits, Done, NoReader, Reader, ReaderShape, Backing, BackendShape
  <2> QED BY <1>1, <1>3, <2>1, ReaderMoves
<1>5. CASE be.stop # "set"
  <2>1. rd.tag = be.gen /\ UNCHANGED be /\ rd' = [rd EXCEPT !.pc = "complete"]
    BY <1>1, <1>2, <1>5 DEF CheckStop, InputTagged
  <2>2. Backing(be.stop, "run") /\ Reader("complete", rd.tag)
    BY <1>1, <1>2, <2>1 DEF Reader, ReaderShape, Backing
  <2> QED BY <1>1, <1>3, <2>1, <2>2, ReaderMoves
<1> QED BY <1>4, <1>5

(* The line is no longer pending once the reader is to deliver it.         *)
LEMMA ClearPendingKeeps == ASSUME IInv, ClearPending, script' = script PROVE IInv'
<1>1. /\ be.reader = "run" /\ rd.pc = "complete" /\ Works
      /\ UNCHANGED <<broker, con, native, input, heap, ctl, wr>>
      /\ be' = [be EXCEPT !.pending = FALSE] /\ rd' = [rd EXCEPT !.pc = "deliver"]
  BY DEF ClearPending, Reading
<1>2. /\ ReaderShape /\ InputTagged /\ BackendShape
  BY DEF IInv
<1>3. Draining /\ rd.tag = be.gen
  BY <1>1, <1>2, Drains DEF InputTagged
<1>4. Backing(be.stop, "run") /\ Reader("deliver", be.gen) /\ be'.status = be.status
  BY <1>1, <1>2, <1>3 DEF Reader, ReaderShape, Backing, BackendShape
<1> QED BY <1>1, <1>3, <1>4, ReaderMoves

(* The reader of keys sees the stop event, reads a key, or fails.          *)
LEMMA ReadRawKeeps == ASSUME IInv, ReadRaw, script' = script PROVE IInv'
<1>1. /\ be.reader = "run" /\ rd.pc = "read"
      /\ UNCHANGED <<broker, con, native, heap, ctl, wr>>
  BY DEF ReadRaw, Reading
<1>2. /\ ReaderShape /\ InputTagged /\ BackendShape /\ Counted /\ Blamed
  BY DEF IInv
<1>3. CASE Works /\ Exits /\ be' = Done(be) /\ UNCHANGED input
  <2>1. Draining
    BY <1>2, <1>3, Drains DEF InputTagged
  <2>2. Backing(be.stop, "done") /\ Reader("off", 0) /\ be'.status = be.status
    BY <1>2, <1>3 DEF Exits, Done, NoReader, Reader, ReaderShape, Backing, BackendShape
  <2> QED BY <1>1, <1>3, <2>1, <2>2, ReaderMoves
<1>4. CASE /\ be.stop # "set" /\ input # <<>> /\ Works /\ UNCHANGED be
           /\ rd' = [pc |-> "deliver", tag |-> Head(input)] /\ input' = Tail(input)
  <2>1. Draining /\ Head(input) = be.gen
    BY <1>1, <1>2, <1>4, Drains, ReaderRuns DEF InputTagged
  <2>2. Backing(be.stop, "run") /\ Reader("deliver", be.gen)
    BY <1>1, <1>2, <1>4, <2>1 DEF Reader, ReaderShape, Backing
  <2> QED BY <1>1, <1>4, <2>1, <2>2, ReaderMoves
<1>5. CASE Fails("read") /\ rd' = [rd EXCEPT !.pc = "failed"] /\ UNCHANGED <<be, input>>
  <2>1. Reader("failed", rd.tag) /\ Backing(be.stop, "run")
    BY <1>1, <1>2, <1>5 DEF Reader, ReaderShape, Backing
  <2>2. Draining /\ Spending /\ Blame'
    BY <1>2, <1>5, Drains, Spends DEF InputTagged
  <2>3. ReaderShape' /\ Blamed' /\ Counted'
    BY <1>1, <1>2, <1>5, <2>1, <2>2 DEF ReaderShape, Reader, Blamed, Spending
  <2>4. InputTagged'
    BY <1>1, <1>2, <1>5, <2>1, <2>2, InputStays DEF InputTagged, Reader
  <2> QED BY <1>1, <2>1, <2>3, <2>4, ReaderKeeps
<1> QED BY <1>3, <1>4, <1>5 DEF ReadRaw

(* After a delivery the reader of keys goes on and the reader of lines     *)
(* exits.                                                                  *)
LEMMA AfterDeliveryKeeps ==
  ASSUME IInv, be.reader = "run", UNCHANGED <<broker, con, native, input, heap, ctl, wr>>,
         script' = script, Works, AfterDelivery
  PROVE  IInv'
<1>1. /\ ReaderShape /\ InputTagged /\ BackendShape
  BY DEF IInv
<1>2. Draining
  BY <1>1, Drains DEF InputTagged
<1>3. \/ Backing(be.stop, "done") /\ Reader("off", 0) /\ be'.status = be.status
      \/ Backing(be.stop, "run") /\ Reader("read", 0) /\ be'.status = be.status
  BY <1>1 DEF AfterDelivery, Exits, Done, NoReader, Reader, ReaderShape, Backing, BackendShape
<1> QED BY <1>2, <1>3, ReaderMoves

(* What was read is handed to the sink of the binding it was read for.     *)
LEMMA DeliverKeeps ==
  ASSUME IInv, lib_console_deliver_event, script' = script PROVE IInv'
<1>1. /\ be.reader = "run" /\ rd.pc = "deliver" /\ Works
      /\ UNCHANGED <<broker, con, native, input, heap, ctl, wr>>
  BY DEF lib_console_deliver_event, Reading
<1>2. /\ ReaderShape /\ InputTagged /\ BackendShape
  BY DEF IInv
<1>3. Draining /\ rd.tag = be.gen /\ be.console \in Consoles
  BY <1>1, <1>2, Drains, ReaderRuns DEF InputTagged
<1>4. CASE con[be.console].gen # be.gen
  <2>1. AfterDelivery
    BY <1>4 DEF lib_console_deliver_event
  <2> QED BY <1>1, <2>1, AfterDeliveryKeeps
<1>5. CASE con[be.console].gen = be.gen
  <2>1. /\ UNCHANGED be
        /\ rd' = [rd EXCEPT !.pc = IF con[be.console].sink THEN "sink" ELSE "failed"]
    BY <1>5 DEF lib_console_deliver_event
  <2>2. Backing(be.stop, "run") /\ be'.status = be.status
    BY <1>1, <2>1 DEF Backing
  <2>3. CASE con[be.console].sink
    <3>1. Reader("sink", rd.tag)
      BY <1>2, <2>1, <2>3 DEF Reader, ReaderShape
    <3> QED BY <1>1, <1>3, <2>2, <2>3, <3>1, ReaderMoves
  <2>4. CASE ~con[be.console].sink
    <3>1. Reader("failed", rd.tag) /\ Blame
      BY <1>2, <1>3, <2>1, <2>4 DEF Reader, ReaderShape, Blame
    <3> QED BY <1>1, <1>3, <2>2, <3>1, ReaderMoves
  <2> QED BY <2>3, <2>4
<1> QED BY <1>4, <1>5

(* The sink has returned.                                                  *)
LEMMA SinkReturnsKeeps == ASSUME IInv, SinkReturns, script' = script PROVE IInv'
  BY AfterDeliveryKeeps DEF SinkReturns, Reading

(* A reader that fails leaves its error behind and exits.                  *)
LEMMA ReaderFailedKeeps ==
  ASSUME IInv, console_broker_reader_failed, script' = script PROVE IInv'
<1>1. /\ be.reader = "run" /\ rd.pc = "failed" /\ Works /\ rd' = NoReader
      /\ UNCHANGED <<broker, con, native, input, heap, ctl, wr>>
      /\ be' = Done([be EXCEPT !.status = IF be.stop = "set" THEN @ ELSE "error"])
  BY DEF console_broker_reader_failed, Reading, Exits
<1>2. /\ ReaderShape /\ InputTagged /\ BackendShape /\ Blamed
  BY DEF IInv
<1>3. Draining /\ Blame
  BY <1>1, <1>2, Drains DEF InputTagged, Blamed
<1>4. Backing(be.stop, "done") /\ Reader("off", 0)
  BY <1>1, <1>2 DEF Done, NoReader, Reader, ReaderShape, Backing, BackendShape
<1> QED BY <1>1, <1>3, <1>4, ReaderMoves

(***************************************************************************)
(* The writers, the keyboard and a component that goes.                    *)
(***************************************************************************)

(* What a step outside the broker's thread and the reader leaves alone.    *)
LEMMA OutsideKeeps ==
  ASSUME IInv, script' = script, UNCHANGED <<broker, be, heap, ctl, rd>>, Spending,
         ConShape', WriterShape', LockHeld', WriterBound', InputTagged',
         \A c \in Consoles : /\ con'[c].gen = con[c].gen /\ con'[c].out = con[c].out
                             /\ con'[c].refs = con[c].refs
                             /\ ~con[c].sink => ~con'[c].sink
  PROVE  IInv'
<1>1. /\ BrokerShape /\ BackendShape /\ CallShape /\ ReaderShape /\ OnScreen
      /\ Installed /\ Retired /\ Agreed /\ Referred /\ Counted /\ Blamed
  BY DEF IInv
<1>2. BrokerShape' /\ BackendShape' /\ CallShape' /\ ReaderShape' /\ Retired' /\ Counted'
  <2>1. BrokerShape' /\ BackendShape' /\ ReaderShape' /\ Retired'
    BY <1>1 DEF BrokerShape, BackendShape, ReaderShape, Retired
  <2>2. CallShape'
    BY <1>1 DEF CallShape
  <2> QED BY <2>1, <2>2 DEF Spending
<1>3. OnScreen' /\ Referred'
  BY <1>1 DEF OnScreen, Referred, BackendShape
<1>4. Installed'
  <2>1. \A c \in Consoles : Out(c)' = Out(c)
    BY DEF Out, Both
  <2>2. \A g : Allocated(g)' <=> Allocated(g)
    BY DEF Allocated, Both
  <2> QED BY <1>1, <2>1, <2>2 DEF Installed
<1>5. Agreed'
  BY <1>1 DEF Agreed, Steady, Bound, Target, TargetGen
<1>6. Blamed'
  BY <1>1, BlameStays DEF Blamed
<1> QED BY <1>2, <1>3, <1>4, <1>5, <1>6 DEF IInv

(* Only the writer's own record and, with the lock, native change.         *)
LEMMA WriterUpdates ==
  ASSUME WriterShape, NEW c \in Consoles, NEW pc \in {"idle", "bound", "write"}, NEW binding,
         wr' = [wr EXCEPT ![c] = [pc |-> pc, binding |-> binding]]
  PROVE  /\ WriterShape' /\ wr'[c].pc = pc /\ wr'[c].binding = binding
         /\ \A d \in Consoles : d # c => wr'[d] = wr[d]
  BY DEF WriterShape

(* A write takes the binding installed at that moment.                     *)
LEMMA WriteEnterKeeps ==
  ASSUME IInv, NEW c \in Consoles, WriteEnter(c), script' = script PROVE IInv'
<1>1. /\ wr[c].pc = "idle" /\ con[c].out # 0
      /\ UNCHANGED <<broker, con, be, native, input, heap, ctl, rd>>
      /\ wr' = [wr EXCEPT ![c] = [pc |-> "bound", binding |-> con[c].out]]
  BY DEF WriteEnter
<1>2. WriterShape /\ LockHeld /\ WriterBound /\ InputTagged /\ Counted /\ ConShape
  BY DEF IInv
<1>3. /\ WriterShape' /\ wr'[c].pc = "bound" /\ wr'[c].binding = con[c].out
      /\ \A d \in Consoles : d # c => wr'[d] = wr[d]
  BY <1>1, <1>2, WriterUpdates, Zenon
<1>4. Spending
  BY <1>2 DEF WriteEnter, Counted, Spending
<1>5. LockHeld'
  BY <1>1, <1>2, <1>3 DEF LockHeld, Locking
<1>6. WriterBound'
  BY <1>1, <1>2, <1>3 DEF WriterBound
<1>7. InputTagged' /\ ConShape'
  BY <1>1, <1>2 DEF InputTagged, ConShape
<1> QED BY <1>1, <1>3, <1>4, <1>5, <1>6, <1>7, OutsideKeeps

(* A write whose binding is the backend's takes the output lock; another is*)
(* dropped.                                                                *)
LEMMA WriteValidateKeeps ==
  ASSUME IInv, NEW c \in Consoles, WriteValidate(c), script' = script PROVE IInv'
<1>1. /\ wr[c].pc = "bound" /\ native = "free" /\ Works
      /\ UNCHANGED <<broker, con, be, input, heap, ctl, rd>>
  BY DEF WriteValidate
<1>2. WriterShape /\ LockHeld /\ WriterBound /\ InputTagged /\ Counted /\ ConShape
  BY DEF IInv
<1>3. Spending /\ InputTagged' /\ ConShape'
  BY <1>1, <1>2, Spends DEF InputTagged, ConShape
<1>4. CASE be.console = c /\ be.gen = wr[c].binding
  <2>1. native' = c /\ wr' = [wr EXCEPT ![c].pc = "write"]
    BY <1>4 DEF WriteValidate
  <2>2. /\ WriterShape' /\ wr'[c].pc = "write" /\ wr'[c].binding = wr[c].binding
        /\ \A d \in Consoles : d # c => wr'[d] = wr[d]
    BY <1>2, <2>1 DEF WriterShape
  <2>3. LockHeld'
    BY <1>1, <1>2, <2>1, <2>2, ConsoleBrokerAssumption DEF LockHeld, Locking
  <2>4. WriterBound'
    BY <1>1, <1>2, <1>4, <2>2 DEF WriterBound
  <2> QED BY <1>1, <1>3, <2>2, <2>3, <2>4, OutsideKeeps
<1>5. CASE ~(be.console = c /\ be.gen = wr[c].binding)
  <2>1. /\ native' = native
        /\ wr' = [wr EXCEPT ![c] = [pc |-> "idle", binding |-> 0]]
    BY <1>5 DEF WriteValidate
  <2>2. /\ WriterShape' /\ wr'[c].pc = "idle"
        /\ \A d \in Consoles : d # c => wr'[d] = wr[d]
    BY <1>2, <2>1, WriterUpdates, Zenon
  <2>3. LockHeld'
    BY <1>1, <1>2, <2>1, <2>2 DEF LockHeld, Locking
  <2>4. WriterBound'
    BY <1>1, <1>2, <2>2 DEF WriterBound
  <2> QED BY <1>1, <1>3, <2>2, <2>3, <2>4, OutsideKeeps
<1> QED BY <1>4, <1>5

(* A write that has ended gives the output lock back.                      *)
LEMMA WriteReturnsKeeps ==
  ASSUME IInv, NEW c \in Consoles, WriteReturns(c), script' = script PROVE IInv'
<1>1. /\ wr[c].pc = "write" /\ native' = "free" /\ Works
      /\ UNCHANGED <<broker, con, be, input, heap, ctl, rd>>
      /\ wr' = [wr EXCEPT ![c] = [pc |-> "idle", binding |-> 0]]
  BY DEF WriteReturns
<1>2. WriterShape /\ LockHeld /\ WriterBound /\ InputTagged /\ Counted /\ ConShape
  BY DEF IInv
<1>3. Spending /\ InputTagged' /\ ConShape'
  BY <1>1, <1>2, Spends DEF InputTagged, ConShape
<1>4. /\ WriterShape' /\ wr'[c].pc = "idle"
      /\ \A d \in Consoles : d # c => wr'[d] = wr[d]
  BY <1>1, <1>2, WriterUpdates, Zenon
<1>5. LockHeld'
  <2>1. native = c /\ c # "broker" /\ c # "free"
    BY <1>1, <1>2, ConsoleBrokerAssumption DEF LockHeld
  <2>2. \A d \in Consoles : wr'[d].pc # "write" /\ d # "free"
    BY <1>2, <1>4, <2>1, ConsoleBrokerAssumption DEF LockHeld
  <2> QED BY <1>1, <1>2, <2>1, <2>2 DEF LockHeld, Locking
<1>6. WriterBound'
  BY <1>1, <1>2, <1>4 DEF WriterBound
<1> QED BY <1>1, <1>3, <1>4, <1>5, <1>6, OutsideKeeps

(* What is typed is tagged with the binding of the moment.                 *)
LEMMA TypeKeeps == ASSUME IInv, Type, script' = script PROVE IInv'
<1>1. /\ input' = Append(input, be.gen)
      /\ UNCHANGED <<broker, con, be, native, heap, ctl, rd, wr>>
  BY DEF Type
<1>2. /\ WriterShape /\ LockHeld /\ WriterBound /\ InputTagged /\ Counted /\ ConShape
      /\ BackendShape
  BY DEF IInv
<1>3. Spending
  BY <1>2 DEF Type, Counted, Spending
<1>4. ConShape' /\ WriterShape' /\ LockHeld' /\ WriterBound'
  BY <1>1, <1>2 DEF ConShape, WriterShape, LockHeld, Locking, WriterBound
<1>5. InputTagged'
  <2>1. input \in Seq(Nat) /\ be.gen \in Nat
    BY <1>2 DEF InputTagged, BackendShape
  <2>2. /\ input' \in Seq(Nat)
        /\ \A i \in 1..Len(input') :
             input'[i] = be.gen \/ (i \in 1..Len(input) /\ input'[i] = input[i])
    <3>1. /\ input' \in Seq(Nat) /\ Len(input') = Len(input) + 1
          /\ \A i \in 1..(Len(input) + 1) :
               input'[i] = IF i <= Len(input) THEN input[i] ELSE be.gen
      BY <1>1, <2>1
    <3>2. Len(input) \in Nat
      BY <2>1
    <3> QED BY <3>1, <3>2
  <2> QED BY <1>1, <1>2, <2>2 DEF InputTagged
<1> QED BY <1>1, <1>3, <1>4, <1>5, OutsideKeeps

(* A sink is not detached while it runs.                                   *)
LEMMA DetachKeeps ==
  ASSUME IInv, NEW c \in Consoles, Detach(c), script' = script PROVE IInv'
<1>1. /\ con' = [con EXCEPT ![c].sink = FALSE] /\ ~(rd.pc = "sink" /\ be.console = c) /\ Works
      /\ UNCHANGED <<broker, be, native, input, heap, ctl, rd, wr>>
  BY DEF Detach, GateFree
<1>2. /\ WriterShape /\ LockHeld /\ WriterBound /\ InputTagged /\ Counted /\ ConShape
      /\ BackendShape /\ ReaderShape /\ Retired
  BY DEF IInv
<1>3. /\ ConShape'
      /\ \A d \in Consoles : /\ con'[d].gen = con[d].gen /\ con'[d].out = con[d].out
                             /\ con'[d].refs = con[d].refs
                             /\ ~con[d].sink => ~con'[d].sink
                             /\ d # c => con'[d].sink = con[d].sink
  BY <1>1, <1>2, Zenon DEF ConShape
<1>4. Spending /\ WriterShape' /\ LockHeld'
  BY <1>1, <1>2, Spends DEF WriterShape, LockHeld, Locking
<1>5. WriterBound'
  BY <1>1, <1>2, <1>3 DEF WriterBound
<1>6. InputTagged'
  <2>1. rd.pc = "sink" => be.console \in Consoles
    BY <1>2 DEF ReaderShape, Retired, BackendShape
  <2> QED BY <1>1, <1>2, <1>3, <2>1 DEF InputTagged
<1> QED BY <1>1, <1>3, <1>4, <1>5, <1>6, OutsideKeeps

(***************************************************************************)
(* The theorems.                                                           *)
(***************************************************************************)

(* The broker starts with the initial console bound and on the screen.     *)
LEMMA Initially == BrokerInit => IInv
<1> SUFFICES ASSUME BrokerInit PROVE IInv
  OBVIOUS
<1>1. /\ Initial \in Consoles /\ Initial # "none" /\ Initial # "free" /\ Initial # "broker"
      /\ \A c \in Consoles : c # "none" /\ c # "free" /\ c # "broker"
  BY ConsoleBrokerAssumption
<1>2. /\ broker.live /\ ~broker.broken /\ broker.current = Initial /\ broker.gen = 1
      /\ broker.output = 1 /\ DOMAIN broker = {"live", "current", "gen", "output", "broken"}
  BY DEF BrokerInit
<1>3. /\ DOMAIN con = Consoles
      /\ \A c \in Consoles : /\ DOMAIN con[c] = {"gen", "out", "sink", "refs"} /\ con[c].sink
                             /\ con[c].gen = IF c = Initial THEN 1 ELSE 0
                             /\ con[c].out = IF c = Initial THEN 1 ELSE 0
                             /\ con[c].refs = IF c = Initial THEN 1 ELSE 0
  BY DEF BrokerInit
<1>4. /\ DOMAIN be = {"console", "gen", "mode", "surface", "stop", "status", "reader", "pending"}
      /\ be.console = Initial /\ be.gen = 1 /\ be.mode = Mode[Initial]
      /\ be.surface = Mode[Initial] /\ be.stop = "clear" /\ be.status = "ok"
      /\ be.reader = IF Mode[Initial] = "raw" THEN "run" ELSE "none"
      /\ DOMAIN rd = {"pc", "tag"} /\ rd.pc = IF Mode[Initial] = "raw" THEN "read" ELSE "off"
  BY DEF BrokerInit
<1>5. /\ native = "free" /\ input = <<>> /\ heap = {1} /\ ctl = NoCall
      /\ DOMAIN wr = Consoles
      /\ \A c \in Consoles : DOMAIN wr[c] = {"pc", "binding"} /\ wr[c].pc = "idle"
  BY DEF BrokerInit
<1>6. /\ DOMAIN ctl = {"pc", "op", "next", "phase", "status", "request", "completed"}
      /\ ctl.pc = "idle" /\ ctl.op = "none" /\ ctl.next = "none" /\ ctl.phase = "next"
      /\ ctl.status = "ok"
  BY <1>5 DEF NoCall
<1>7. BrokerShape /\ ConShape /\ BackendShape /\ ReaderShape /\ WriterShape
  <2>1. BrokerShape
    BY <1>1, <1>2 DEF BrokerShape
  <2>2. ConShape
    BY <1>3 DEF ConShape
  <2>3. BackendShape /\ ReaderShape
    BY <1>1, <1>4 DEF BackendShape, ReaderShape
  <2>4. WriterShape
    BY <1>5 DEF WriterShape
  <2> QED BY <2>1, <2>2, <2>3, <2>4
<1>8. CallShape
  BY <1>5, <1>6 DEF CallShape, Replacing, Retiring
<1>9. LockHeld /\ OnScreen /\ WriterBound
  BY <1>1, <1>3, <1>4, <1>5, <1>6 DEF LockHeld, Locking, OnScreen, WriterBound
<1>10. Installed
  <2>1. \A c \in Consoles : con[c].out = Out(c)
    BY <1>1, <1>2, <1>3, <1>6 DEF Out
  <2>2. \A g : Allocated(g) <=> g = 1
    BY <1>2, <1>6 DEF Allocated, Both, Retiring
  <2> QED BY <1>2, <1>5, <1>6, <2>1, <2>2 DEF Installed
<1>11. InputTagged
  BY <1>4, <1>5 DEF InputTagged
<1>12. Retired /\ Agreed /\ Referred
  <2>1. Retired
    BY <1>1, <1>2, <1>4, <1>6 DEF Retired
  <2>2. Agreed
    BY <1>2, <1>3, <1>4, <1>6 DEF Agreed, Bound
  <2>3. Referred
    BY <1>2, <1>3, <1>6 DEF Referred
  <2> QED BY <2>1, <2>2, <2>3
<1>13. Counted
  <2>1. /\ left = [calls |-> script.calls, types |-> script.types, writes |-> script.writes,
                   faults |-> script.faults]
        /\ script \in BrokerPlans
    BY DEF BrokerInit
  <2>2. script.faults \in Nat
    BY <2>1, ConsoleBrokerAssumption
  <2> QED BY <2>1, <2>2 DEF Counted
<1>14. Blamed
  BY <1>2, <1>4, <1>6 DEF Blamed
<1> QED BY <1>7, <1>8, <1>9, <1>10, <1>11, <1>12, <1>13, <1>14 DEF IInv

(* Every call that starts keeps the invariant.                             *)
LEMMA CallsKeep ==
  ASSUME IInv, script' = script,
         \/ \E c \in Consoles : console_broker_replace(c)
         \/ console_broker_request_cooked_line \/ console_broker_cancel_cooked_line
         \/ console_broker_destroy
  PROVE  IInv'
<1>1. CallShape /\ Counted
  BY DEF IInv
<1>2. ASSUME NEW c \in Consoles, console_broker_replace(c) PROVE IInv'
  <2>1. /\ At("idle") /\ broker.live /\ ~broker.broken /\ c # broker.current
        /\ UNCHANGED <<broker, be, native, input, rd, wr, line>>
    BY <1>2, Zenon DEF console_broker_replace, Enter
  <2>2. CASE /\ left.faults > 0 /\ UNCHANGED <<con, heap, ctl>>
             /\ left' = [left EXCEPT !.faults = @ - 1, !.calls["replace"] = @ - 1]
    <3>1. Spending
      BY <1>1, <2>2 DEF Counted, Spending
    <3> QED BY <2>1, <2>2, <3>1, PlanKeeps
  <2>3. CASE /\ Count("replace") /\ con' = [con EXCEPT ![c].refs = @ + 1]
             /\ heap' = heap \cup {broker.gen + 1}
             /\ ctl' = [NoCall EXCEPT !.pc = "install", !.op = "replace", !.next = c]
    BY <2>1, <2>3, ReplaceKeeps, Zenon
  <2> QED BY <1>2, <2>2, <2>3, ZenonT(30) DEF console_broker_replace
<1>3. CASE console_broker_request_cooked_line
  <2>1. /\ At("idle") /\ broker.live /\ ~broker.broken /\ Count("request")
        /\ UNCHANGED <<broker, con, be, native, input, heap, rd, wr, line>>
        /\ \/ UNCHANGED ctl
           \/ ctl' = [NoCall EXCEPT !.pc = "rearm", !.op = "request"]
    BY <1>3 DEF console_broker_request_cooked_line, CookedCall, Enter
  <2>2. CASE UNCHANGED ctl
    <3>1. Spending
      BY <1>1, <2>1, Spends DEF Calls
    <3> QED BY <2>1, <2>2, <3>1, PlanKeeps
  <2>3. CASE ctl' = [NoCall EXCEPT !.pc = "rearm", !.op = "request"]
    BY <2>1, <2>3, RequestKeeps
  <2> QED BY <2>1, <2>2, <2>3
<1> QED BY <1>2, <1>3, CancelKeeps, DestroyKeeps

(* Every step of the calling thread and of the reader keeps the invariant. *)
LEMMA StepsKeep == ASSUME IInv, script' = script, BrokerStep \/ ReaderStep PROVE IInv'
<1>1. CASE ReaderStep
  BY <1>1, ReadCookedKeeps, CheckStopKeeps, ClearPendingKeeps, ReadRawKeeps, DeliverKeeps,
     SinkReturnsKeeps, ReaderFailedKeeps DEF ReaderStep
<1>2. CASE ResetOld \/ RemoveNext
  BY <1>2, ResetOldKeeps, ResetBreaks, RemoveNextKeeps, RemoveNextBreaks
<1>3. CASE ActivateTarget
  BY <1>3, ActivatedKeeps, ActivationFailedKeeps DEF ActivateTarget
<1>4. CASE BrokerStep /\ ~(ResetOld \/ RemoveNext) /\ ~ActivateTarget
  BY <1>4, InstallNextKeeps, LockKeeps, RearmKeeps, SetStopKeeps, WakeReaderKeeps,
     JoinReaderKeeps, FinishCancelKeeps, AnswerCancelKeeps, DeactivateKeeps, BindTargetKeeps,
     CommitKeeps, RemoveOldKeeps, NotifyKeeps, UnlockKeeps, RemoveBrokenKeeps,
     DestroyResetKeeps, DisposeKeeps DEF BrokerStep
<1> QED BY <1>1, <1>2, <1>3, <1>4

(* The inductive invariant.                                                *)
THEOREM Inductive == BrokerSpec => []IInv
<1>1. IInv /\ [BrokerNext]_brokerVars => IInv'
  <2> SUFFICES ASSUME IInv, [BrokerNext]_brokerVars PROVE IInv'
    OBVIOUS
  <2>1. CASE UNCHANGED brokerVars
    <3>1. UNCHANGED <<broker, con, be, native, input, heap, ctl, rd, wr>> /\ script' = script
      BY <2>1 DEF brokerVars
    <3>2. Works /\ Counted
      BY <2>1 DEF brokerVars, Works, IInv
    <3> QED BY <3>1, <3>2, Spends, PlanKeeps
  <2>2. CASE BrokerNext
    <3>1. script' = script
      BY <2>2 DEF BrokerNext
    <3>2. \/ \E c \in Consoles : console_broker_replace(c)
          \/ \E c \in Consoles : WriteEnter(c) \/ WriterStep(c) \/ Detach(c)
          \/ console_broker_request_cooked_line \/ console_broker_cancel_cooked_line
          \/ console_broker_destroy
          \/ BrokerStep \/ ReaderStep \/ Type
      BY <2>2 DEF BrokerNext
    <3>3. CASE \E c \in Consoles : WriteEnter(c) \/ WriterStep(c) \/ Detach(c)
      BY <3>1, <3>3, WriteEnterKeeps, WriteValidateKeeps, WriteReturnsKeeps, DetachKeeps
         DEF WriterStep
    <3> QED BY <3>1, <3>2, <3>3, CallsKeep, StepsKeep, TypeKeeps
  <2> QED BY <2>1, <2>2
<1> QED BY <1>1, Initially, PTL DEF BrokerSpec

(* Input and output reach only the binding they belong to, in every        *)
(* interleaving of takeovers, rollbacks, readers and writers.              *)
THEOREM IoIsOfItsBinding == BrokerSpec => []IoBelongsToItsBinding
<1>1. IInv => IoBelongsToItsBinding
  <2> SUFFICES ASSUME IInv PROVE IoBelongsToItsBinding
    OBVIOUS
  <2>1. ASSUME rd.pc = "sink"
        PROVE  rd.tag = be.gen /\ con[be.console].gen = be.gen /\ con[be.console].sink
    BY <2>1 DEF IInv, ReaderShape, Retired, InputTagged, OnScreen
  <2>2. ASSUME NEW c \in Consoles, wr[c].pc # "idle" PROVE wr[c].binding \in heap
    <3>1. wr[c].binding = Out(c) /\ Out(c) # 0
      BY <2>2 DEF IInv, WriterBound, Installed
    <3>2. \A g : Allocated(g) => g \in heap
      BY DEF IInv, Installed, Allocated
    <3>3. Allocated(Out(c))
      BY <3>1 DEF Out, Allocated
    <3> QED BY <3>1, <3>2, <3>3
  <2>3. ASSUME NEW c \in Consoles, wr[c].pc = "write"
        PROVE  be.console = c /\ be.gen = wr[c].binding /\ be.surface = Mode[c]
    <3>1. be.console = c /\ be.gen = wr[c].binding
      BY <2>3 DEF IInv, WriterBound
    <3> QED BY <3>1, ConsoleBrokerAssumption DEF IInv, OnScreen
  <2> QED BY <2>1, <2>2, <2>3 DEF IoBelongsToItsBinding
<1> QED BY <1>1, Inductive, PTL

(* Between calls the broker, the consoles and the backend agree, whatever  *)
(* failed, for every plan.                                                 *)
THEOREM BrokerAlwaysAgrees == BrokerSpec => []BrokerAgrees
<1>1. IInv => BrokerAgrees
  <2> SUFFICES ASSUME IInv, At("idle") PROVE BrokerAgrees
    BY DEF BrokerAgrees
  <2>1. /\ ctl.pc = "idle" /\ ctl.op = "none" /\ ctl.next = "none" /\ broker.current \in Consoles
    BY NotCalling DEF IInv, BrokerShape
  <2>2. \A c \in Consoles : con[c].refs = IF broker.live /\ c = broker.current THEN 1 ELSE 0
    BY <2>1 DEF IInv, Referred
  <2>3. \A c \in Consoles : con[c].out = IF c = broker.current THEN broker.output ELSE 0
    BY <2>1 DEF IInv, Installed, Out, Both
  <2>4. heap = {broker.output} \ {0}
    <3>1. \A g : g \in heap <=> Allocated(g)
      BY DEF IInv, Installed, Allocated
    <3>2. \A g : Allocated(g) <=> g = broker.output /\ g # 0
      BY <2>1 DEF Allocated, Both
    <3> QED BY <3>1, <3>2
  <2>5. native # "broker"
    BY <2>1 DEF IInv, LockHeld, Locking
  <2>6. ASSUME broker.live, ~broker.broken
        PROVE  /\ broker.output = broker.gen
               /\ be.console = broker.current /\ be.gen = broker.gen
               /\ be.mode = Mode[broker.current] /\ be.surface = be.mode /\ be.stop = "clear"
               /\ \A c \in Consoles : con[c].gen = IF c = broker.current THEN broker.gen ELSE 0
    <3>1. Steady
      BY <2>1, <2>6 DEF Steady
    <3>2. be.console # "none"
      BY <2>1, <3>1, ConsoleBrokerAssumption DEF IInv, Agreed
    <3> QED BY <2>1, <2>6, <3>1, <3>2 DEF IInv, Agreed, Bound, OnScreen, Retired
  <2>7. ~broker.live \/ broker.broken => be.reader = "none"
    BY DEF IInv, Retired
  <2>8. broker.broken => Blame
    BY DEF IInv, Blamed
  <2> QED BY <2>2, <2>3, <2>4, <2>5, <2>6, <2>7, <2>8 DEF BrokerAgrees, Blame
<1> QED BY <1>1, Inductive, PTL

(***************************************************************************)
(* The requested line, for every plan in which no read of the native input *)
(* fails and no sink of a console that reads lines is detached.            *)
(***************************************************************************)

(* No read of the native input fails, and no component detaches the sink   *)
(* of a console that reads lines.                                          *)
Undisturbed == "read" \notin script.failing /\ \A c \in script.detached : Mode[c] = "raw"

(* The backend has a line pending, or the reader has one to deliver.       *)
Awaited == be.pending \/ (be.mode = "cooked" /\ rd.pc \in {"deliver", "sink", "failed"})

(* Before a takeover and after it, an armed line is one that is awaited;   *)
(* in between the request is remembered for the old console.               *)
LineAccounted ==
  /\ Steady /\ ctl.pc # "answered" => (line = "armed" <=> Awaited)
  /\ ctl.pc = "answered" => ~Awaited /\ (line = "armed" <=> ~ctl.completed)
  /\ ctl.pc \in {"reset", "bind", "activate"} /\ ctl.op = "replace" =>
       /\ ~Awaited /\ (line = "armed" <=> ctl.request)
       /\ ctl.request => Mode[broker.current] = "cooked"
  /\ ctl.pc = "commit" => ~Awaited

(* A reader of lines has a pending line to read until it delivers it, and  *)
(* a line is pending only for such a reader or for who has just joined it. *)
LineRead ==
  /\ \A c \in Consoles : ~con[c].sink => Mode[c] = "raw"
  /\ rd.pc = "failed" => be.mode = "raw"
  /\ rd.pc \in {"line", "complete"} => be.mode = "cooked"
  /\ be.mode = "cooked" /\ rd.pc \in {"read", "line", "complete"} => be.pending
  /\ rd.pc \in {"deliver", "sink", "failed"} => ~be.pending
  /\ be.pending => /\ be.mode = "cooked"
                   /\ be.reader # "none" \/ ctl.pc = "joined" \/ broker.broken
  /\ be.pending /\ be.reader = "done" => be.stop = "set"
  /\ ctl.pc = "rearm" => ~be.pending /\ Mode[broker.current] = "cooked"
  /\ ctl.pc = "answered" => be.reader = "none"

LInv == LineAccounted /\ LineRead

(* A step of the calling thread that leaves the line, the backend and the  *)
(* reader alone.                                                           *)
LEMMA LineFrame ==
  ASSUME LInv, UNCHANGED <<be, rd, line>>,
         \A c \in Consoles : con'[c].sink = con[c].sink,
         ctl'.pc \notin {"answered", "commit"},
         Steady' => Steady /\ ctl.pc # "answered",
         ctl'.pc \in {"reset", "bind", "activate"} /\ ctl'.op = "replace" =>
           /\ ctl.pc \in {"reset", "bind", "activate"} /\ ctl.op = "replace"
           /\ ctl'.request = ctl.request /\ broker'.current = broker.current,
         ctl'.pc = "rearm" => ~be.pending /\ Mode[broker'.current] = "cooked",
         be.pending /\ be.reader = "none" => ctl'.pc = "joined" \/ broker'.broken
  PROVE  LInv'
<1>1. Awaited' <=> Awaited
  BY DEF Awaited
<1>2. LineAccounted'
  BY <1>1 DEF LInv, LineAccounted
<1>3. LineRead'
  BY DEF LInv, LineRead
<1> QED BY <1>2, <1>3 DEF LInv

(* A step of another thread that leaves them alone.                        *)
LEMMA LineOutside ==
  ASSUME LInv, UNCHANGED <<broker, be, ctl, rd, line>>,
         \A c \in Consoles : con'[c].sink = con[c].sink \/ Mode[c] = "raw"
  PROVE  LInv'
<1>1. (Awaited' <=> Awaited) /\ (Steady' <=> Steady)
  BY DEF Awaited, Steady
<1>2. LineAccounted'
  BY <1>1 DEF LInv, LineAccounted
<1>3. LineRead'
  BY DEF LInv, LineRead
<1> QED BY <1>2, <1>3 DEF LInv

(* A call that starts has nothing of the line to change.                   *)
LEMMA LineCalls ==
  ASSUME IInv, LInv,
         \/ \E c \in Consoles : console_broker_replace(c)
         \/ console_broker_request_cooked_line \/ console_broker_cancel_cooked_line
         \/ console_broker_destroy
  PROVE  LInv'
<1>1. /\ ctl.pc = "idle" /\ ctl = NoCall /\ broker.live /\ DOMAIN ctl = DOMAIN NoCall
      /\ UNCHANGED <<broker, be, rd, line>>
  BY Zenon DEF console_broker_replace, console_broker_request_cooked_line,
         console_broker_cancel_cooked_line, console_broker_destroy, CookedCall, Enter, At,
         IInv, CallShape
<1>2. \A c \in Consoles : con'[c].sink = con[c].sink
  <2>1. ASSUME NEW d \in Consoles, console_broker_replace(d)
        PROVE  \A c \in Consoles : con'[c].sink = con[c].sink
    <3>1. con' = con \/ con' = [con EXCEPT ![d].refs = con[d].refs + 1]
      BY <2>1, Zenon DEF console_broker_replace, IInv, ConShape
    <3> QED BY <3>1, ConUpdates, ZenonT(30) DEF IInv, RefsOnly
  <2> QED BY <2>1 DEF console_broker_request_cooked_line, console_broker_cancel_cooked_line,
                      console_broker_destroy
<1>3. be.pending => be.reader # "none" \/ broker.broken
  BY <1>1 DEF LInv, LineRead
<1>4. CASE ctl' = ctl
  BY <1>1, <1>2, <1>4, LineOutside
<1>5. CASE \E c \in Consoles : ctl' = [NoCall EXCEPT !.pc = "install", !.op = "replace", !.next = c]
  <2>1. ctl'.pc = "install" /\ ctl'.request = ctl.request
    BY <1>1, <1>5 DEF NoCall
  <2> QED BY <1>1, <1>2, <1>3, <2>1, LineFrame DEF Steady
<1>6. CASE ctl' = [NoCall EXCEPT !.pc = "lock", !.op = "destroy"]
  <2>1. ctl'.pc = "lock" /\ ctl'.request = ctl.request
    BY <1>1, <1>6 DEF NoCall
  <2> QED BY <1>1, <1>2, <1>3, <2>1, LineFrame DEF Steady
<1>7. CASE console_broker_request_cooked_line /\ ctl' # ctl
  <2>1. /\ ctl' = [NoCall EXCEPT !.pc = "rearm", !.op = "request"]
        /\ Mode[broker.current] = "cooked" /\ ~(be.reader # "none" /\ be.pending) /\ ~broker.broken
    BY <1>7 DEF console_broker_request_cooked_line, CookedCall
  <2>2. ctl'.pc = "rearm" /\ ctl'.request = ctl.request
    BY <1>1, <2>1 DEF NoCall
  <2>3. ~be.pending
    BY <1>3, <2>1
  <2> QED BY <1>1, <1>2, <2>1, <2>2, <2>3, LineFrame DEF Steady
<1>8. CASE console_broker_cancel_cooked_line
  <2>1. CASE be.reader # "none"
    <3>1. ctl'.pc = "stop" /\ ctl'.request = ctl.request
      BY <1>1, <1>8, <2>1 DEF NoCall, console_broker_cancel_cooked_line
    <3> QED BY <1>1, <1>2, <2>1, <3>1, LineFrame DEF Steady, Retiring
  <2>2. CASE be.reader = "none"
    <3>1. ctl'.pc = "answered" /\ ctl'.completed = TRUE
      BY <1>1, <1>8, <2>2, Zenon DEF NoCall, console_broker_cancel_cooked_line
    <3>2. ~broker.broken /\ ~Awaited /\ Steady
      BY <1>1, <1>3, <1>8, <2>2
         DEF console_broker_cancel_cooked_line, CookedCall, Awaited, IInv, ReaderShape, Steady
    <3>3. ~Awaited' /\ line' # "armed"
      BY <1>1, <3>2 DEF LInv, LineAccounted, Awaited
    <3>4. LineAccounted'
      BY <3>1, <3>3 DEF LineAccounted
    <3>5. LineRead'
      BY <1>1, <1>2, <1>3, <2>2, <3>1 DEF LInv, LineRead
    <3> QED BY <3>4, <3>5 DEF LInv
  <2> QED BY <2>1, <2>2
<1> QED BY <1>4, <1>5, <1>6, <1>7, <1>8, ZenonT(30)
        DEF console_broker_replace, console_broker_destroy

(* The steps of a takeover that leave the line alone.                      *)
LineQuiet ==
  \/ InstallNext \/ LockOutput \/ WakeReader \/ ResetOld \/ BindTarget \/ RemoveOld
  \/ NotifyActivation \/ UnlockOutput \/ RemoveNext \/ RemoveBroken \/ DestroyReset

(* They keep every sink and the remembered request.                        *)
LEMMA LineQuietFrame ==
  ASSUME IInv, LineQuiet
  PROVE  /\ UNCHANGED <<be, rd, line>>
         /\ \A c \in Consoles : con'[c].sink = con[c].sink
         /\ ctl'.pc = "idle" \/ (ctl'.request = ctl.request /\ ctl'.op = ctl.op)
<1>1. UNCHANGED <<be, rd, line>>
  BY DEF LineQuiet, InstallNext, LockOutput, WakeReader, ResetOld, BindTarget, RemoveOld,
         NotifyActivation, UnlockOutput, RemoveNext, RemoveBroken, DestroyReset
<1>2. ctl.op = "replace" => ctl.next \in Consoles
  BY DEF IInv, CallShape
<1>3. At("bind") => Target \in Consoles
  BY <1>2 DEF IInv, CallShape, Replacing, Target, BrokerShape, At
<1>4. ConShape /\ broker.current \in Consoles
  BY DEF IInv, BrokerShape
<1>5. \A c \in Consoles : con'[c].sink = con[c].sink
  <2>1. CASE con' = con
    BY <2>1
  <2>2. CASE InstallNext
    <3>1. ctl.next \in Consoles
      BY <1>2, <2>2 DEF InstallNext, At, IInv, CallShape, Replacing
    <3> QED BY <1>4, <2>2, <3>1 DEF InstallNext, ConShape
  <2>3. CASE RemoveOld \/ RemoveNext
    <3>1. ctl.next \in Consoles
      BY <1>2, <2>3 DEF RemoveOld, RemoveNext, At, IInv, CallShape, Replacing
    <3>2. con' = [con EXCEPT ![ctl.next] = [con[ctl.next] EXCEPT !.out = 0, !.refs = @ - 1]]
      BY <2>3 DEF RemoveOld, RemoveNext
    <3> QED BY <1>4, <3>1, <3>2 DEF ConShape
  <2>4. CASE BindTarget
    BY <1>3, <1>4, <2>4 DEF BindTarget, ConShape
  <2>5. CASE ResetOld \/ RemoveBroken \/ DestroyReset
    <3>1. \/ con' = [con EXCEPT ![broker.current].gen = 0]
          \/ con' = [con EXCEPT ![broker.current].out = 0]
      BY <2>5 DEF ResetOld, RemoveBroken, DestroyReset
    <3> QED BY <1>4, <3>1, ConUpdates, Zenon DEF GenOnly, OutOnly
  <2> QED BY <2>1, <2>2, <2>3, <2>4, <2>5
          DEF LineQuiet, LockOutput, WakeReader, NotifyActivation, UnlockOutput
<1>6. ctl'.pc = "idle" \/ (ctl'.request = ctl.request /\ ctl'.op = ctl.op)
  <2>1. CASE Return
    BY <2>1, Returns DEF Returned, IInv
  <2>2. ASSUME NEW pc, ctl' = [ctl EXCEPT !.pc = pc]
        PROVE  ctl'.request = ctl.request /\ ctl'.op = ctl.op
    BY <2>2 DEF IInv, CallShape
  <2>3. ASSUME NEW pc, NEW status, ctl' = [ctl EXCEPT !.pc = pc, !.status = status]
        PROVE  ctl'.request = ctl.request /\ ctl'.op = ctl.op
    BY <2>3 DEF IInv, CallShape
  <2> QED BY <2>1, <2>2, <2>3, ZenonT(30)
          DEF LineQuiet, InstallNext, LockOutput, WakeReader, ResetOld, BindTarget, RemoveOld,
              NotifyActivation, UnlockOutput, RemoveNext, RemoveBroken, DestroyReset, Goto
<1> QED BY <1>1, <1>5, <1>6

(* ... and go from a place where the line is accounted for to another.     *)
LEMMA LineQuietKeeps == ASSUME IInv, LInv, LineQuiet PROVE LInv'
<1>1. /\ UNCHANGED <<be, rd, line>>
      /\ \A c \in Consoles : con'[c].sink = con[c].sink
      /\ ctl'.pc = "idle" \/ (ctl'.request = ctl.request /\ ctl'.op = ctl.op)
  BY LineQuietFrame
<1>2. /\ CallShape /\ BrokerShape
      /\ be.pending /\ be.reader = "none" => ctl.pc = "joined" \/ broker.broken
  BY DEF IInv, LInv, LineRead
<1> DEFINE Goes(p, q) == ctl.pc = p /\ Moved(q, ctl.status)
<1>3. CASE /\ UNCHANGED broker
           /\ \/ Goes("install", "lock") \/ Goes("lock", "stop") \/ Goes("remove_old", "notify")
              \/ Goes("unlock", "remove_next") \/ Goes("bind", "activate")
              \/ Goes("reset", "bind") \/ Goes("reset", "dispose")
  BY <1>1, <1>2, <1>3, LineFrame DEF Moved, Steady, Retiring
<1>4. CASE UNCHANGED broker /\ ctl.pc = "wake" /\ \E status : Moved("join", status)
  BY <1>1, <1>2, <1>4, LineFrame, Zenon DEF Moved, Steady, Retiring
<1>5. CASE /\ UNCHANGED broker /\ Returned
           /\ ctl.pc = "notify" \/ (ctl.pc = "remove_broken" /\ broker.broken)
  BY <1>1, <1>2, <1>5, LineFrame DEF Returned, Steady
<1>6. CASE RemoveNext
  <2>1. ctl.pc = "remove_next" /\ ctl.op = "replace"
    BY <1>2, <1>6 DEF RemoveNext, At, CallShape, Replacing
  <2>2. ctl.status = "ok" => ~broker.broken
    BY <2>1 DEF IInv, Retired
  <2>3. broker'.broken = (ctl.status # "ok") /\ broker'.live = broker.live
    BY <1>2, <1>6 DEF RemoveNext, BrokerShape
  <2>4. Moved(IF ctl.status = "ok" THEN "notify" ELSE "remove_broken", ctl.status)
    BY <1>2, <1>6, CallMoves, Zenon DEF RemoveNext
  <2>5. CASE ctl.status = "ok"
    BY <1>1, <1>2, <2>1, <2>2, <2>3, <2>4, <2>5, LineFrame DEF Moved, Steady
  <2>6. CASE ctl.status # "ok"
    BY <1>1, <1>2, <2>1, <2>3, <2>4, <2>6, LineFrame, ZenonT(30) DEF Moved, Steady
  <2> QED BY <2>5, <2>6
<1>7. CASE ResetOld /\ ctl.status # "ok"
  <2>1. Breaking /\ Moved("remove_next", ctl.status) /\ ctl.pc = "reset"
    BY <1>2, <1>7, Breaks, CallMoves, Zenon DEF ResetOld, Goto, At
  <2> QED BY <1>1, <1>2, <2>1, LineFrame DEF Breaking, Moved, Steady
<1>8. CASE ResetOld /\ ctl.status = "ok"
  BY <1>2, <1>3, <1>8, CallMoves, ZenonT(30) DEF ResetOld, At
<1>9. CASE WakeReader
  BY <1>2, <1>4, <1>9, CallMoves, Zenon DEF WakeReader, At
<1>10. CASE RemoveBroken
  BY <1>2, <1>5, <1>10, Returns DEF RemoveBroken, At, IInv, Retired
<1>11. CASE NotifyActivation
  BY <1>2, <1>5, <1>11, Returns DEF NotifyActivation, At
<1>12. CASE InstallNext \/ LockOutput \/ BindTarget \/ RemoveOld \/ UnlockOutput \/ DestroyReset
  BY <1>2, <1>3, <1>12, CallMoves, Zenon
     DEF InstallNext, LockOutput, BindTarget, RemoveOld, UnlockOutput, DestroyReset, At
<1> QED BY <1>6, <1>7, <1>8, <1>9, <1>10, <1>11, <1>12 DEF LineQuiet

(* A request that waited for the last reader arms a line, or gives up.     *)
LEMMA LineRearm == ASSUME IInv, LInv, Rearm PROVE LInv'
<1>1. /\ ctl.pc = "rearm" /\ be.reader # "run" /\ Return /\ UNCHANGED <<broker, con>>
  BY DEF Rearm, At
<1>2. /\ BackendShape /\ ReaderShape /\ Returned
  BY <1>1, Returns DEF IInv
<1>3. broker.live /\ ~broker.broken /\ Steady
  BY <1>1 DEF IInv, CallShape, Retired, Steady
<1>4. be.console = broker.current /\ be.mode = "cooked" /\ ~be.pending /\ rd.pc = "off"
  <2>1. be.console = broker.current /\ broker.current \in Consoles
    BY <1>3 DEF IInv, Agreed, BrokerShape
  <2> QED BY <1>1, <1>2, <2>1, ConsoleBrokerAssumption
          DEF IInv, OnScreen, LInv, LineRead, ReaderShape
<1>5. line # "armed" /\ ~Awaited
  BY <1>1, <1>3, <1>4 DEF LInv, LineAccounted, Awaited
<1>6. Steady' /\ ctl'.pc = "idle"
  BY <1>1, <1>2, <1>3 DEF Returned, Steady
<1>7. \/ UNCHANGED <<be, rd, line>>
      \/ /\ be'.mode = be.mode /\ be'.reader = "run" /\ be'.pending = TRUE
         /\ rd'.pc = "read" /\ line' = "armed"
      \/ /\ be'.mode = be.mode /\ be'.reader = "none" /\ be'.pending = FALSE
         /\ UNCHANGED <<rd, line>>
  <2>1. \/ UNCHANGED <<be, rd, line>>
        \/ /\ be' = [be EXCEPT !.reader = "run", !.status = "ok", !.pending = TRUE]
           /\ rd' = [pc |-> "read", tag |-> 0] /\ line' = "armed"
        \/ /\ be' = [be EXCEPT !.reader = "none", !.status = "ok", !.pending = FALSE]
           /\ UNCHANGED <<rd, line>>
    BY DEF Rearm
  <2>2. CASE /\ be' = [be EXCEPT !.reader = "run", !.status = "ok", !.pending = TRUE]
             /\ rd' = [pc |-> "read", tag |-> 0] /\ line' = "armed"
    <3>1. be'.mode = be.mode /\ be'.reader = "run" /\ be'.pending = TRUE
      BY <1>2, <2>2 DEF BackendShape
    <3> QED BY <2>2, <3>1
  <2>3. CASE /\ be' = [be EXCEPT !.reader = "none", !.status = "ok", !.pending = FALSE]
             /\ UNCHANGED <<rd, line>>
    <3>1. be'.mode = be.mode /\ be'.reader = "none" /\ be'.pending = FALSE
      BY <1>2, <2>3 DEF BackendShape
    <3> QED BY <2>3, <3>1
  <2> QED BY <2>1, <2>2, <2>3, ZenonT(30)
<1>8. LineAccounted'
  BY <1>4, <1>5, <1>6, <1>7 DEF LineAccounted, Awaited
<1>9. LineRead'
  BY <1>1, <1>4, <1>6, <1>7 DEF LInv, LineRead
<1> QED BY <1>8, <1>9 DEF LInv

(* The stop event is set, and the reader joined, with the line as it is.   *)
LEMMA LineRetires == ASSUME IInv, LInv, SetStop \/ JoinReader PROVE LInv'
<1>1. /\ BackendShape /\ ReaderShape /\ CallShape /\ UNCHANGED <<broker, con, rd, line>>
      /\ ctl.pc \in {"stop", "join"}
  BY DEF IInv, SetStop, JoinReader, At
<1>2. /\ ctl'.pc \in {"joined", "wake", "join", "exited"} /\ ctl'.op = ctl.op
  <2>1. CASE SetStop
    BY <1>1, <2>1, Zenon DEF SetStop, CallShape, Goto
  <2>2. CASE JoinReader
    BY <1>1, <2>2, Zenon DEF JoinReader, CallShape, Goto
  <2> QED BY <2>1, <2>2
<1>3. be'.mode = be.mode /\ be'.pending = be.pending
  BY <1>1 DEF SetStop, JoinReader, BackendShape
<1>4. \/ /\ be'.reader = be.reader /\ be'.stop \in {be.stop, "set"}
         /\ be.reader # "none" \/ ctl'.pc = "joined"
      \/ be'.reader = "none" /\ ctl'.pc = "joined"
      \/ be' = be /\ be.reader = "run"
  <2>1. CASE SetStop
    BY <1>1, <2>1 DEF SetStop, CallShape, Goto, BackendShape
  <2>2. CASE JoinReader
    BY <1>1, <2>2, Zenon DEF JoinReader, CallShape, Goto, BackendShape
  <2> QED BY <2>1, <2>2
<1>5. (Awaited' <=> Awaited) /\ (Steady' => Steady)
  BY <1>1, <1>2, <1>3 DEF Awaited, Steady, Retiring
<1>6. LineAccounted'
  BY <1>1, <1>2, <1>5 DEF LInv, LineAccounted
<1>7. LineRead'
  BY <1>1, <1>2, <1>3, <1>4 DEF LInv, LineRead
<1> QED BY <1>6, <1>7 DEF LInv

(* A cancel whose reader has been joined learns whether a line was         *)
(* pending; one that fails breaks the broker.                              *)
LEMMA LineFinishes == ASSUME IInv, LInv, FinishCancel PROVE LInv'
<1>1. /\ BackendShape /\ ReaderShape /\ CallShape /\ BrokerShape
      /\ ctl.pc = "joined" /\ ctl.op = "cancel" /\ UNCHANGED <<con, rd, line>>
  BY DEF IInv, FinishCancel, At
<1>2. be.reader = "none" /\ rd.pc = "off" /\ Steady
  BY <1>1 DEF IInv, Retired, ReaderShape, Steady, Retiring
<1>3. line = "armed" <=> be.pending
  BY <1>1, <1>2 DEF LInv, LineAccounted, Awaited
<1>4. CASE /\ be' = [be EXCEPT !.pending = FALSE, !.stop = "clear"]
           /\ ctl' = [ctl EXCEPT !.pc = "answered", !.completed = ~be.pending]
           /\ UNCHANGED broker
  <2>1. be'.pending = FALSE /\ be'.mode = be.mode /\ be'.reader = be.reader
    BY <1>1, <1>4 DEF BackendShape
  <2>2. ctl'.pc = "answered" /\ ctl'.completed = ~be.pending
    BY <1>1, <1>4 DEF CallShape
  <2>3. ctl'.completed <=> ~be.pending
    BY <2>2, Zenon
  <2>4. LineAccounted'
    <3>1. ~Awaited'
      BY <1>1, <1>2, <2>1 DEF Awaited
    <3>2. line' = "armed" <=> ~ctl'.completed
      BY <1>1, <1>3, <2>3
    <3> QED BY <2>2, <3>1, <3>2 DEF LineAccounted
  <2>5. LineRead'
    BY <1>1, <1>2, <2>1, <2>2 DEF LInv, LineRead
  <2> QED BY <2>4, <2>5 DEF LInv
<1>5. CASE /\ broker' = [broker EXCEPT !.broken = TRUE]
           /\ Return /\ UNCHANGED be
  BY <1>1, <1>5, Breaks, Returns, LineFrame DEF Breaking, Returned, Steady
<1> QED BY <1>4, <1>5 DEF FinishCancel

(* The owner hears what the cancel found.                                  *)
LEMMA LineAnswered == ASSUME IInv, LInv, AnswerCancel PROVE LInv'
<1>1. /\ CallShape /\ ctl.pc = "answered" /\ Return /\ UNCHANGED <<broker, con, be, rd>>
      /\ line' = IF ctl.completed THEN line ELSE "none"
  BY DEF IInv, AnswerCancel, At
<1>2. Returned
  BY <1>1, Returns
<1>3. ~Awaited /\ (line = "armed" <=> ~ctl.completed)
  BY <1>1 DEF LInv, LineAccounted
<1>4. ~Awaited' /\ line' # "armed"
  BY <1>1, <1>3 DEF Awaited
<1>5. LineAccounted'
  BY <1>2, <1>4 DEF LineAccounted, Returned
<1>6. LineRead'
  BY <1>1, <1>2 DEF LInv, LineRead, Returned
<1> QED BY <1>5, <1>6 DEF LInv

(* A retirement remembers whether a line was pending.                      *)
LEMMA LineDeactivates == ASSUME IInv, LInv, Deactivate PROVE LInv'
<1>1. /\ BackendShape /\ ReaderShape /\ CallShape
      /\ ctl.pc = "joined" /\ ctl.op # "cancel" /\ UNCHANGED <<broker, con, rd, line>>
  BY DEF IInv, Deactivate, At
<1>2. be.reader = "none" /\ rd.pc = "off"
  BY <1>1 DEF IInv, Retired, ReaderShape
<1>3. be'.pending = FALSE /\ be'.mode = be.mode
  BY <1>1 DEF Deactivate, BackendShape
<1>4. ctl'.pc = "reset" /\ ctl'.op = ctl.op /\ ctl'.request = be.pending
  BY <1>1 DEF Deactivate, CallShape
<1>5. ~Awaited'
  BY <1>1, <1>2, <1>3 DEF Awaited
<1>6. ASSUME ctl.op = "replace"
      PROVE  /\ line = "armed" <=> be.pending
             /\ be.pending => Mode[broker.current] = "cooked"
  <2>1. Steady
    BY <1>1, <1>6 DEF IInv, Retired, Steady, Retiring
  <2>2. be.console = broker.current /\ broker.current \in Consoles
    BY <2>1 DEF IInv, Agreed, BrokerShape
  <2>3. be.pending => Mode[broker.current] = "cooked"
    BY <2>2, ConsoleBrokerAssumption DEF LInv, LineRead, IInv, OnScreen
  <2> QED BY <1>1, <1>2, <2>1, <2>3 DEF LInv, LineAccounted, Awaited
<1>7. LineAccounted'
  BY <1>1, <1>4, <1>5, <1>6 DEF LineAccounted, Steady, Retiring
<1>8. LineRead'
  BY <1>1, <1>2, <1>3, <1>4 DEF LInv, LineRead
<1> QED BY <1>7, <1>8 DEF LInv

(* The next console starts with no line; the old one, when it is restored, *)
(* with the one it had.                                                    *)
LEMMA LineActivates ==
  ASSUME IInv, LInv, At("activate"), Activated, UNCHANGED <<broker, line>> PROVE LInv'
<1>1. /\ CallShape /\ ctl.pc = "activate" /\ ctl.op = "replace" /\ con' = con
      /\ ctl.phase \in {"next", "old"}
  BY DEF IInv, At, Activated, CallShape, Replacing
<1>2. /\ be'.mode = Mode[Target] /\ be'.stop = "clear"
      /\ be'.reader = IF StartsReader THEN "run" ELSE "none"
      /\ be'.pending = (StartsReader /\ Mode[Target] = "cooked")
      /\ rd'.pc = IF StartsReader THEN "read" ELSE "off"
  BY DEF Activated, NoReader
<1>3. /\ ctl'.pc = IF ctl.phase = "next" THEN "commit" ELSE "unlock"
      /\ ctl'.op = ctl.op /\ ctl'.status = "ok"
  BY <1>1 DEF Activated, CallShape
<1>4. be'.pending <=> StartsReader /\ Mode[Target] = "cooked"
  BY <1>2, Zenon
<1>5. Awaited' <=> StartsReader /\ Mode[Target] = "cooked"
  BY <1>2, <1>4 DEF Awaited
<1>6. LineAccounted'
  <2>1. CASE ctl.phase = "next"
    BY <1>3, <1>5, <2>1 DEF LineAccounted, Steady, Retiring, StartsReader
  <2>2. CASE ctl.phase = "old"
    <3>1. (line = "armed" <=> ctl.request) /\ (ctl.request => Mode[broker.current] = "cooked")
      BY <1>1 DEF LInv, LineAccounted
    <3>2. Awaited' <=> ctl.request
      BY <1>5, <2>2, <3>1 DEF StartsReader, Target
    <3> QED BY <1>3, <2>2, <3>1, <3>2 DEF LineAccounted
  <2> QED BY <1>1, <2>1, <2>2
<1>7. LineRead'
  BY <1>1, <1>2, <1>3, <1>4 DEF LInv, LineRead
<1> QED BY <1>6, <1>7 DEF LInv

(* A console that cannot be activated leaves the request remembered.       *)
LEMMA LineActivationFails ==
  ASSUME IInv, LInv, At("activate"), NEW kind, ActivationFailed(kind), UNCHANGED <<broker, line>>
  PROVE  LInv'
<1>1. /\ CallShape /\ ctl.pc = "activate" /\ ctl.op = "replace" /\ rd' = rd /\ BackendShape
      /\ ctl.phase \in {"next", "old"}
  BY DEF IInv, At, ActivationFailed, CallShape, Replacing
<1>2. be.reader = "none" /\ rd.pc = "off" /\ ~broker.broken
  BY <1>1 DEF IInv, Retired, ReaderShape
<1>3. ~be.pending
  BY <1>1 DEF LInv, LineAccounted, Awaited
<1>4. be'.pending = be.pending
  BY <1>1 DEF ActivationFailed, BackendShape
<1>5. ~Awaited'
  BY <1>1, <1>2, <1>3, <1>4 DEF Awaited
<1>6. /\ ctl'.pc \in {"bind", "unlock"} /\ ctl'.request = ctl.request
      /\ ctl'.pc = "unlock" => ctl'.status = "error"
  BY <1>1 DEF ActivationFailed, CallShape
<1>7. LineAccounted'
  BY <1>1, <1>5, <1>6 DEF LInv, LineAccounted, Steady, Retiring
<1>8. \A c \in Consoles : con'[c].sink = con[c].sink
  <2>1. Target \in Consoles
    BY <1>1 DEF IInv, CallShape, BrokerShape, Target
  <2> QED BY <2>1, ConUpdates, ZenonT(30) DEF ActivationFailed, GenOnly, IInv
<1>9. LineRead'
  BY <1>1, <1>2, <1>3, <1>4, <1>6, <1>8 DEF LInv, LineRead
<1> QED BY <1>7, <1>9 DEF LInv

(* A takeover that succeeds, and the end of the broker, take an armed line *)
(* with them.                                                              *)
LEMMA LineEnds == ASSUME IInv, LInv, Commit \/ Dispose PROVE LInv'
<1>1. /\ CallShape /\ BrokerShape /\ ConShape /\ UNCHANGED <<be, rd>> /\ line' # "armed"
  BY DEF IInv, Commit, Dispose
<1>2. /\ ctl'.pc \in {"remove_old", "idle"} /\ ctl.pc \in {"commit", "dispose"}
      /\ broker'.broken = broker.broken
  <2>1. CASE Commit
    BY <1>1, <2>1 DEF Commit, CallShape, BrokerShape, At
  <2>2. CASE Dispose
    BY <1>1, <2>2, Returns DEF Dispose, Returned, BrokerShape, At
  <2> QED BY <2>1, <2>2
<1>3. \A c \in Consoles : con'[c].sink = con[c].sink
  <2>1. CASE Commit
    BY <2>1 DEF Commit
  <2>2. CASE Dispose
    <3> DEFINE d == broker.current
               freed == [con[d] EXCEPT !.out = 0, !.refs = con[d].refs - 1]
    <3>1. d \in Consoles => freed.sink = con[d].sink
      BY <1>1 DEF ConShape
    <3>2. con' = [con EXCEPT ![d] = freed]
      BY <2>2 DEF Dispose
    <3> HIDE DEF freed
    <3> QED BY <1>1, <3>1, <3>2 DEF ConShape
  <2> QED BY <2>1, <2>2
<1>4. CASE Commit
  <2>1. ~Awaited
    BY <1>4 DEF LInv, LineAccounted, Commit, At
  <2>2. ~Awaited'
    BY <1>1, <2>1 DEF Awaited
  <2> QED BY <1>1, <1>2, <1>3, <2>2 DEF LInv, LineAccounted, LineRead
<1>5. CASE Dispose
  <2>1. broker'.live = FALSE
    BY <1>1, <1>5 DEF Dispose, BrokerShape
  <2> QED BY <1>1, <1>2, <1>3, <1>5, <2>1, Returns
          DEF LInv, LineAccounted, LineRead, Steady, Dispose, Returned
<1> QED BY <1>4, <1>5

(* The reader moves, and what it has of the line with it.                  *)
LEMMA LineReader ==
  ASSUME LInv, UNCHANGED <<broker, con, ctl, line>>, Awaited' <=> Awaited, LineRead'
  PROVE  LInv'
<1>1. Steady' <=> Steady
  BY DEF Steady
<1> QED BY <1>1 DEF LInv, LineAccounted

(* The reader of lines has one, and loses it to nothing but a stop.        *)
LEMMA LineReads ==
  ASSUME IInv, LInv, Undisturbed, ReadCooked \/ CheckStop \/ ClearPending PROVE LInv'
<1>1. BackendShape /\ ReaderShape /\ be.reader = "run" /\ UNCHANGED <<broker, con, ctl, line>>
  BY DEF IInv, ReadCooked, CheckStop, ClearPending, Reading
<1>2. CASE ReadCooked
  <2>1. ~Fails("read")
    BY DEF Undisturbed, Fails
  <2>2. rd.pc = "read" /\ be.mode = "cooked" /\ rd'.pc = "line" /\ be' = be
    BY <1>2, <2>1 DEF ReadCooked, Reading
  <2>3. Awaited' <=> Awaited
    BY <2>2 DEF Awaited
  <2>4. LineRead'
    BY <1>1, <2>2 DEF LInv, LineRead
  <2> QED BY <1>1, <2>3, <2>4, LineReader
<1>3. CASE CheckStop /\ be.stop = "set"
  <2>1. rd.pc = "line" /\ rd'.pc = "off"
    BY <1>3 DEF CheckStop, Reading, Exits, NoReader
  <2>2. be'.mode = be.mode /\ be'.pending = be.pending /\ be'.stop = be.stop /\ be'.reader = "done"
    BY <1>1, <1>3 DEF CheckStop, Done, BackendShape
  <2>3. Awaited' <=> Awaited
    BY <2>1, <2>2 DEF Awaited
  <2>4. LineRead'
    BY <1>1, <1>3, <2>1, <2>2 DEF LInv, LineRead
  <2> QED BY <1>1, <2>3, <2>4, LineReader
<1>4. CASE CheckStop /\ be.stop # "set"
  <2>1. rd.pc = "line" /\ rd'.pc = "complete" /\ be' = be
    BY <1>1, <1>4 DEF CheckStop, Reading, ReaderShape
  <2>2. Awaited' <=> Awaited
    BY <2>1 DEF Awaited
  <2>3. LineRead'
    BY <1>1, <2>1 DEF LInv, LineRead
  <2> QED BY <1>1, <2>2, <2>3, LineReader
<1>5. CASE ClearPending
  <2>1. rd.pc = "complete" /\ rd'.pc = "deliver"
    BY <1>1, <1>5 DEF ClearPending, Reading, ReaderShape
  <2>2. be'.mode = be.mode /\ be'.pending = FALSE /\ be'.reader = "run"
    BY <1>1, <1>5 DEF ClearPending, BackendShape
  <2>3. be.mode = "cooked" /\ be.pending
    BY <2>1 DEF LInv, LineRead
  <2>4. Awaited' <=> Awaited
    BY <2>1, <2>2, <2>3 DEF Awaited
  <2>5. LineRead'
    BY <1>1, <2>1, <2>2, <2>3 DEF LInv, LineRead
  <2> QED BY <1>1, <2>4, <2>5, LineReader
<1> QED BY <1>2, <1>3, <1>4, <1>5

(* A reader of keys has no line.                                           *)
LEMMA LineKeys == ASSUME IInv, LInv, Undisturbed, ReadRaw PROVE LInv'
<1>1. /\ BackendShape /\ ReaderShape /\ be.reader = "run" /\ rd.pc = "read" /\ be.mode = "raw"
      /\ UNCHANGED <<broker, con, ctl, line>>
  BY DEF IInv, ReadRaw, Reading
<1>2. ~Fails("read")
  BY DEF Undisturbed, Fails
<1>3. ~be.pending
  BY <1>1 DEF LInv, LineRead
<1>4. /\ be'.mode = be.mode /\ be'.pending = be.pending
      /\ rd'.pc \in {"off", "deliver"}
  BY <1>1, <1>2 DEF ReadRaw, Done, BackendShape, Exits, NoReader
<1>5. Awaited' <=> Awaited
  BY <1>1, <1>3, <1>4 DEF Awaited
<1>6. LineRead'
  BY <1>1, <1>3, <1>4 DEF LInv, LineRead
<1> QED BY <1>1, <1>5, <1>6, LineReader

(* A line that is delivered finds the binding it was read for and a sink.  *)
LEMMA LineDelivers == ASSUME IInv, LInv, lib_console_deliver_event PROVE LInv'
<1>1. /\ BackendShape /\ ReaderShape /\ be.reader = "run" /\ rd.pc = "deliver"
      /\ UNCHANGED <<broker, con, ctl, line>>
  BY DEF IInv, lib_console_deliver_event, Reading
<1>2. be.console \in Consoles /\ con[be.console].gen = be.gen /\ be.mode = Mode[be.console]
  BY <1>1 DEF IInv, Retired, OnScreen, BackendShape
<1>3. be' = be /\ rd'.pc = IF con[be.console].sink THEN "sink" ELSE "failed"
  BY <1>1, <1>2 DEF lib_console_deliver_event, ReaderShape
<1>4. Awaited' <=> Awaited
  BY <1>1, <1>3 DEF Awaited
<1>5. LineRead'
  BY <1>1, <1>2, <1>3 DEF LInv, LineRead
<1> QED BY <1>1, <1>4, <1>5, LineReader

(* The sink that returns has the line; the reader of keys goes on.         *)
LEMMA LineDelivered == ASSUME IInv, LInv, SinkReturns PROVE LInv'
<1>1. /\ BackendShape /\ ReaderShape /\ be.reader = "run" /\ rd.pc = "sink"
      /\ UNCHANGED <<broker, con, ctl>> /\ AfterDelivery
      /\ line' = IF be.mode = "cooked" THEN "delivered" ELSE line
  BY DEF IInv, SinkReturns, Reading
<1>2. be.mode \in {"raw", "cooked"} /\ ~be.pending
  BY <1>1, ConsoleBrokerAssumption DEF IInv, Retired, OnScreen, BackendShape, LInv, LineRead
<1>3. /\ be'.mode = be.mode /\ be'.pending = be.pending /\ be'.reader # "none"
      /\ rd'.pc = IF be.mode = "raw" THEN "read" ELSE "off"
  BY <1>1 DEF AfterDelivery, Exits, Done, NoReader, BackendShape
<1>4. ~Awaited'
  BY <1>2, <1>3 DEF Awaited
<1>5. LineRead'
  BY <1>1, <1>2, <1>3 DEF LInv, LineRead
<1>6. CASE be.mode = "raw"
  <2>1. Awaited' <=> Awaited
    BY <1>1, <1>2, <1>4, <1>6 DEF Awaited
  <2> QED BY <1>1, <1>5, <1>6, <2>1, LineReader
<1>7. CASE be.mode = "cooked"
  <2>1. Awaited
    BY <1>1, <1>7 DEF Awaited
  <2>2. /\ ctl.pc \notin {"answered", "commit"}
        /\ ~(ctl.pc \in {"reset", "bind", "activate"} /\ ctl.op = "replace")
    BY <2>1 DEF LInv, LineAccounted
  <2>3. LineAccounted'
    BY <1>1, <1>4, <1>7, <2>2 DEF LineAccounted
  <2> QED BY <1>5, <2>3 DEF LInv
<1> QED BY <1>2, <1>6, <1>7

(* Only a reader of keys fails, and then no line of the current console is *)
(* armed.                                                                  *)
LEMMA LineFails == ASSUME IInv, LInv, console_broker_reader_failed PROVE LInv'
<1>1. /\ BackendShape /\ ReaderShape /\ be.reader = "run" /\ rd.pc = "failed"
      /\ UNCHANGED <<broker, con, ctl>> /\ rd'.pc = "off"
      /\ line' = line \/ (line = "armed" /\ line' = "failed")
  BY DEF IInv, console_broker_reader_failed, Reading, Exits, NoReader
<1>2. be.mode = "raw" /\ ~be.pending
  BY <1>1 DEF LInv, LineRead
<1>3. be'.mode = be.mode /\ be'.pending = be.pending
  BY <1>1 DEF console_broker_reader_failed, Done, BackendShape
<1>4. ~Awaited /\ ~Awaited' /\ (Steady' <=> Steady)
  BY <1>1, <1>2, <1>3 DEF Awaited, Steady
<1>5. LineRead'
  BY <1>1, <1>2, <1>3 DEF LInv, LineRead
<1>6. CASE line' = line
  BY <1>1, <1>4, <1>5, <1>6, LineReader
<1>7. CASE line = "armed" /\ line' = "failed"
  <2>1. ctl.pc \notin {"reset", "bind", "activate", "answered"}
    BY <1>1 DEF IInv, Retired, LInv, LineRead
  <2>2. ~Steady
    BY <1>4, <1>7, <2>1 DEF LInv, LineAccounted
  <2> QED BY <1>1, <1>4, <1>5, <1>7, <2>1, <2>2 DEF LInv, LineAccounted
<1> QED BY <1>1, <1>6, <1>7

(* Other threads leave the line alone, and so does a component that        *)
(* detaches the sink of a raw console.                                     *)
LEMMA LineOthers ==
  ASSUME IInv, LInv, Undisturbed,
         Type \/ \E c \in Consoles : WriteEnter(c) \/ WriterStep(c) \/ Detach(c)
  PROVE  LInv'
<1>1. CASE Type
  BY <1>1, LineOutside DEF Type
<1>2. ASSUME NEW c \in Consoles, WriteEnter(c) \/ WriteValidate(c) \/ WriteReturns(c) PROVE LInv'
  BY <1>2, LineOutside DEF WriteEnter, WriteValidate, WriteReturns
<1>3. ASSUME NEW d \in Consoles, Detach(d) PROVE LInv'
  <2>1. /\ con' = [con EXCEPT ![d].sink = FALSE] /\ Mode[d] = "raw" /\ ConShape
        /\ UNCHANGED <<broker, be, ctl, rd, line>>
    BY <1>3 DEF Detach, Undisturbed, IInv
  <2>2. \A c \in Consoles : con'[c].sink = con[c].sink \/ Mode[c] = "raw"
    BY <2>1, ZenonT(30) DEF ConShape
  <2> QED BY <2>1, <2>2, LineOutside, Zenon
<1> QED BY <1>1, <1>2, <1>3 DEF WriterStep

(* Every requested line is accounted for, unless a read of the native      *)
(* input fails or the sink of a console that reads lines is detached.      *)
THEOREM LineIsAccountedFor == BrokerSpec => [](Undisturbed => LInv)
<1>1. BrokerInit => LInv
  <2> SUFFICES ASSUME BrokerInit PROVE LInv
    OBVIOUS
  <2>1. /\ be.pending = FALSE /\ be.mode = Mode[Initial] /\ ctl.pc = "idle" /\ line = "none"
        /\ rd.pc = IF Mode[Initial] = "raw" THEN "read" ELSE "off"
        /\ \A c \in Consoles : con[c].sink = TRUE
    BY Zenon DEF BrokerInit, NoCall
  <2> QED BY <2>1 DEF LInv, LineAccounted, LineRead, Awaited
<1>2. IInv /\ (Undisturbed => LInv) /\ [BrokerNext]_brokerVars => (Undisturbed => LInv)'
  <2> SUFFICES ASSUME IInv, Undisturbed => LInv, [BrokerNext]_brokerVars, Undisturbed'
               PROVE  LInv'
    OBVIOUS
  <2>1. script' = script
    BY DEF BrokerNext, brokerVars
  <2>2. Undisturbed /\ LInv
    BY <2>1 DEF Undisturbed
  <2>3. CASE UNCHANGED brokerVars
    BY <2>2, <2>3, LineOutside DEF brokerVars
  <2>4. CASE ReaderStep
    BY <2>2, <2>4, LineReads, LineKeys, LineDelivers, LineDelivered, LineFails DEF ReaderStep
  <2>5. CASE ActivateTarget
    BY <2>2, <2>5, LineActivates, LineActivationFails DEF ActivateTarget
  <2>6. CASE BrokerStep /\ ~ActivateTarget
    BY <2>2, <2>6, LineQuietKeeps, LineRearm, LineRetires, LineFinishes, LineAnswered,
       LineDeactivates, LineEnds DEF BrokerStep, LineQuiet
  <2> QED BY <2>2, <2>3, <2>4, <2>5, <2>6, LineCalls, LineOthers DEF BrokerNext
<1> QED BY <1>1, <1>2, Inductive, PTL DEF BrokerSpec

(* Between calls everything agrees and every requested line is accounted   *)
(* for, in every plan in which no read of the native input fails and no    *)
(* sink of a console that reads lines is detached.                         *)
THEOREM BrokerSettles == BrokerSpec => [](Undisturbed => SettledBroker)
<1>1. IInv /\ BrokerAgrees /\ LInv => SettledBroker
  BY DEF IInv, LInv, LineAccounted, Awaited, SettledBroker, Steady, At
<1> QED BY <1>1, Inductive, BrokerAlwaysAgrees, LineIsAccountedFor, PTL
=============================================================================
