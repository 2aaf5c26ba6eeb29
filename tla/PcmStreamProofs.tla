-------------------------- MODULE PcmStreamProofs --------------------------
(***************************************************************************)
(* Proofs about the PCM stream, for every capacity of the ring, every      *)
(* batch, every endpoint buffer and every plan.                            *)
(*                                                                         *)
(* The invariant follows a frame from enqueue to the endpoint.  The batch  *)
(* the worker carries is the head of the ring (BatchInRing), so what it    *)
(* has given the endpoint continues what is there (InOrder).  The ring may *)
(* be emptied under the worker only by a clear, and then the clear is the  *)
(* one control in flight until the endpoint is reset (OneControl).  A      *)
(* flush is answered when nothing is left to give (Flushed), and the       *)
(* numbers noted are behind those of the endpoint (Progress).              *)
(***************************************************************************)
EXTENDS PcmStream, SequenceTheorems, TLAPS

Frames == Nat \X Nat

(* The ring, the counters and the endpoint.                                *)
StreamShape ==
  /\ samples \in [0..(Capacity - 1) -> Frames]
  /\ head \in 0..(Capacity - 1) /\ count \in 0..Capacity
  /\ DOMAIN prog = {"epoch", "accepted", "submitted", "consumed"}
  /\ prog.epoch \in Nat /\ prog.accepted \in Nat
  /\ prog.submitted \in Nat /\ prog.consumed \in Nat
  /\ DOMAIN dev = {"out", "played", "ready", "intr"}
  /\ dev.out \in Seq(Frames) /\ dev.played \in 0..Len(dev.out)

(* The worker's locals: where it carries a batch, and which part of it the *)
(* endpoint has.                                                           *)
WorkerShape ==
  /\ DOMAIN wk = {"pc", "gen", "batch", "taken", "ctl", "status", "sub", "con"}
  /\ wk.gen \in 0..prog.epoch
  /\ wk.batch \in Seq(Frames) /\ wk.taken \in 0..Len(wk.batch)
  /\ wk.pc \notin {"writable", "submit", "observe", "note", "advance"}
       => wk.batch = <<>>
  /\ wk.pc \in {"writable", "submit", "advance"} => wk.batch # <<>>
  /\ wk.pc = "writable" => wk.taken = 0

(* The owner's locals: where a flush may be.                               *)
CallShape ==
  /\ DOMAIN cl = {"pc", "op", "todo", "res", "ctl", "pend", "lost"}
  /\ cl.todo \in Seq({"clear", "inactive"})
  /\ cl.pc = "idle" => cl.todo = <<>>
  /\ cl.op = "flush" =>
       /\ cl.pc \in {"idle", "flush", "await", "abandon", "answer"}
       /\ cl.todo = <<>>
       /\ cl.pc \in {"await", "answer"} => cl.ctl = "flush"

(* No failure is noted, and every control has had its answer.              *)
Orderly == ~failure /\ ~cl.lost

Controlling == wk.pc \in {"control", "controlDone"}
Clearing == control = "clear" \/ (Controlling /\ wk.ctl = "clear")

(* A control is waited for from its request to its answer, and while it is *)
(* a clear the epoch is new and nothing was accepted in it.                *)
OneControl ==
  Orderly =>
    /\ control # "none" =>
         cl.pc = "await" /\ cl.ctl = control /\ "done" \notin ev
    /\ Controlling =>
         /\ cl.pc = "await" /\ cl.ctl = wk.ctl /\ wk.ctl \in {"clear", "gain"}
         /\ control = "none" /\ "done" \notin ev
    /\ control = "clear" => wk.gen < prog.epoch
    /\ Clearing => /\ count = 0 /\ prog.accepted = 0
                   /\ prog.submitted = 0 /\ prog.consumed = 0

(* The batch is the head of the ring, or a clear has emptied the ring.     *)
BatchInRing ==
  Orderly =>
    /\ wk.gen # prog.epoch /\ wk.batch # <<>> => control = "clear"
    /\ wk.gen = prog.epoch =>
         /\ Len(wk.batch) <= count
         /\ \A i \in 1..Len(wk.batch) : wk.batch[i] = samples[Slot(i - 1)]

(* The endpoint and the ring hold the frames of this epoch, the part of    *)
(* the batch that was given in both.                                       *)
Taken == IF wk.gen = prog.epoch THEN wk.taken ELSE 0
Trusted ==
  Orderly /\ ~ClearPending /\ ~(wk.pc = "controlDone" /\ wk.status = "error")
InOrder ==
  Trusted =>
    /\ \A i \in 1..Len(dev.out) : dev.out[i] = <<prog.epoch, i>>
    /\ \A i \in 1..count :
         samples[Slot(i - 1)] = <<prog.epoch, Len(dev.out) - Taken + i>>
    /\ Len(dev.out) - Taken + count = prog.accepted

(* A flush that was answered, and one that has returned.                   *)
FlushAnswered ==
  /\ Orderly /\ cl.ctl = "flush"
  /\ cl.pc = "answer" \/ (cl.pc = "await" /\ "done" \in ev)
  => count = 0 /\ wk.batch = <<>>
FlushReturned ==
  ~cl.lost /\ cl.pc = "idle" /\ cl.op = "flush" /\ cl.res = "ok" =>
    /\ Len(dev.out) = prog.accepted /\ count = 0 /\ wk.batch = <<>>
    /\ control = "none" /\ ~Controlling

(* What is noted, what the worker is about to note and what the endpoint   *)
(* says, in this order.                                                    *)
Progress ==
  /\ Orderly => prog.submitted <= Len(dev.out) /\ prog.consumed <= dev.played
  /\ wk.pc = "note" =>
       /\ wk.sub = Len(dev.out) /\ wk.con \in 0..dev.played
       /\ Orderly /\ wk.gen = prog.epoch => prog.consumed <= wk.con

IInv ==
  /\ StreamShape /\ WorkerShape /\ CallShape /\ OneControl /\ BatchInRing
  /\ InOrder /\ FlushAnswered /\ FlushReturned /\ Progress

(***************************************************************************)
(* Slots of the ring.                                                      *)
(***************************************************************************)

(* The slot i places after slot f.                                         *)
LEMMA SlotAfter ==
  ASSUME NEW c \in Nat \ {0}, NEW f \in 0..(c - 1), NEW i \in 0..c
  PROVE  /\ (f + i) % c = IF f + i < c THEN f + i ELSE f + i - c
         /\ (f + i) % c \in 0..(c - 1)
<1> DEFINE n == f + i
<1>1. n \in Nat /\ n < 2 * c /\ n = f + i
  BY SMT
<1> HIDE DEF n
<1>2. n % c = IF n < c THEN n ELSE n - c
  BY <1>1, SMT
<1>3. n % c \in 0..(c - 1)
  BY <1>1, <1>2, SMT
<1> QED
  BY <1>1, <1>2, <1>3, SMT

(* Frame i of what remains after taking t of them.                         *)
LEMMA Shifted ==
  ASSUME NEW o \in Nat, NEW t \in Nat, NEW i \in Nat
  PROVE  o - t + (t + i) = o + i
  BY SMT

(* The slot i places after the one k places after f.                       *)
LEMMA SlotAfterSlot ==
  ASSUME NEW c \in Nat \ {0}, NEW f \in 0..(c - 1), NEW k \in 0..c, NEW i \in 0..c,
         k + i \in 0..c
  PROVE  (((f + k) % c) + i) % c = (f + (k + i)) % c
<1> DEFINE g == (f + k) % c
           j == k + i
<1>1. g \in 0..(c - 1) /\ g = IF f + k < c THEN f + k ELSE f + k - c
  BY SlotAfter, Zenon
<1>2. j \in 0..c /\ j = k + i
  OBVIOUS
<1> HIDE DEF g, j
<1>3. (f + j) % c = IF f + j < c THEN f + j ELSE f + j - c
  BY <1>2, SlotAfter, Zenon
<1>4. (g + i) % c = IF g + i < c THEN g + i ELSE g + i - c
  BY <1>1, SlotAfter, Zenon
<1>5. (g + i) % c = (f + j) % c
  BY <1>1, <1>2, <1>3, <1>4, SMT
<1> QED
  BY <1>2, <1>5, Zenon DEF g, j

(* How far the slot j places after f is behind the one k places after it,  *)
(* as the loop of lib_audio_pcm_stream_enqueue counts.                     *)
LEMMA SlotOffset ==
  ASSUME NEW c \in Nat \ {0}, NEW f \in 0..(c - 1), NEW j \in 0..(c - 1),
         NEW k \in 0..c
  PROVE  (((f + j) % c) - (f + k)) % c = IF j < k THEN c + j - k ELSE j - k
<1> DEFINE g == (f + j) % c
           n == g - (f + k)
<1>1. j \in 0..c
  BY SMT
<1>2. g \in 0..(c - 1) /\ g = IF f + j < c THEN f + j ELSE f + j - c
  BY <1>1, SlotAfter, Zenon
<1> HIDE DEF g
<1>3. /\ n \in Int /\ n < c /\ n >= 0 - 2 * c
      /\ n = IF f + j < c THEN j - k ELSE j - k - c
  BY <1>2, SMT
<1> HIDE DEF n
<1>4. n % c = IF n >= 0 THEN n ELSE IF n + c >= 0 THEN n + c ELSE n + 2 * c
  BY <1>3, SMT
<1>5. n % c = IF j < k THEN c + j - k ELSE j - k
  BY <1>3, <1>4, SMT
<1> QED
  BY <1>5, Zenon DEF n, g

(***************************************************************************)
(* Steps that leave the frames alone.                                      *)
(***************************************************************************)

(* The stream is created with an empty ring, an empty endpoint and a       *)
(* worker that carries nothing.                                            *)
LEMMA Initial == Init => IInv
<1> SUFFICES ASSUME Init PROVE IInv
  OBVIOUS
<1>1. StreamShape
  BY PcmAssumption DEF Init, StreamShape, Frames
<1>2. WorkerShape
  BY DEF Init, WorkerShape, At
<1>3. CallShape
  BY DEF Init, CallShape
<1>4. OneControl /\ FlushAnswered /\ FlushReturned /\ Progress
  BY DEF Init, At, OneControl, FlushAnswered, FlushReturned, Progress, Controlling, Clearing
<1>5. BatchInRing /\ InOrder
  BY DEF Init, At, BatchInRing, InOrder, Taken
<1> QED BY <1>1, <1>2, <1>3, <1>4, <1>5 DEF IInv

(* A step of the owner, of the endpoint or of the other thread that        *)
(* neither asks for a control, nor is answered, nor moves a frame.         *)
Quiet ==
  /\ UNCHANGED <<ring, prog, control, wk>>
  /\ DOMAIN dev' = DOMAIN dev /\ dev'.out = dev.out
  /\ dev'.played \in dev.played..Len(dev.out)
  /\ "done" \in ev' => "done" \in ev
  /\ failure => failure'
  /\ CallShape' /\ (cl.lost => cl'.lost)
  /\ \/ cl' = cl
     \/ /\ cl.pc # "await" /\ cl'.pc \notin {"await", "answer"}
        /\ cl'.pc = "idle" /\ cl'.op = "flush" => cl'.res # "ok"

LEMMA QuietKeeps == IInv /\ Quiet => IInv'
<1> SUFFICES ASSUME IInv, Quiet PROVE IInv'
  OBVIOUS
<1> USE DEF IInv
<1>1. /\ samples' = samples /\ head' = head /\ count' = count /\ prog' = prog
      /\ control' = control /\ wk' = wk
  BY DEF Quiet, ring
<1>2. StreamShape' /\ WorkerShape'
  BY <1>1 DEF Quiet, StreamShape, WorkerShape
<1>3. Orderly' => Orderly
  BY DEF Quiet, Orderly
<1>4. OneControl'
  BY <1>1, <1>3 DEF Quiet, OneControl, Controlling, Clearing
<1>5. BatchInRing'
  BY <1>1, <1>3 DEF Quiet, BatchInRing, Slot
<1>6. InOrder'
  BY <1>1, <1>3 DEF Quiet, InOrder, Trusted, ClearPending, Taken, Slot
<1>7. FlushAnswered'
  BY <1>1, <1>3 DEF Quiet, FlushAnswered
<1>8. FlushReturned'
  BY <1>1 DEF Quiet, FlushReturned, Controlling
<1>9. Progress'
  BY <1>1, <1>3 DEF Quiet, Progress, StreamShape
<1> QED BY <1>2, <1>4, <1>5, <1>6, <1>7, <1>8, <1>9 DEF Quiet

(* A step of the worker between two of its waits, with its batch as it is  *)
(* or before it has one.                                                   *)
Local ==
  /\ UNCHANGED <<ring, prog, control, cl>>
  /\ DOMAIN dev' = DOMAIN dev /\ dev'.out = dev.out /\ dev'.played = dev.played
  /\ "done" \in ev' => "done" \in ev
  /\ failure => failure'
  /\ WorkerShape'
  /\ wk.pc \notin {"control", "controlDone"} /\ wk'.pc \notin {"control", "controlDone"}
  /\ \/ wk'.gen = wk.gen /\ wk'.batch = wk.batch /\ wk'.taken = wk.taken
     \/ wk.taken = 0 /\ wk'.gen = 0 /\ wk'.batch = <<>> /\ wk'.taken = 0
  /\ wk'.pc = "note" => wk'.sub = Len(dev.out) /\ wk'.con = dev.played

LEMMA LocalKeeps == IInv /\ Local => IInv'
<1> SUFFICES ASSUME IInv, Local PROVE IInv'
  OBVIOUS
<1> USE DEF IInv
<1>1. /\ samples' = samples /\ head' = head /\ count' = count /\ prog' = prog
      /\ control' = control /\ cl' = cl
  BY DEF Local, ring
<1>2. StreamShape'
  BY <1>1 DEF Local, StreamShape
<1>a. CallShape'
  BY <1>1 DEF CallShape
<1>3. Orderly' => Orderly
  BY <1>1 DEF Local, Orderly
<1>4. OneControl'
  BY <1>1, <1>3 DEF Local, OneControl, Controlling, Clearing, WorkerShape, StreamShape
<1>5. BatchInRing'
  BY <1>1, <1>3 DEF Local, BatchInRing, Slot, StreamShape
<1>6. InOrder'
  BY <1>1, <1>3 DEF Local, InOrder, Trusted, ClearPending, Taken, Slot
<1>7. FlushAnswered' /\ FlushReturned'
  BY <1>1, <1>3 DEF Local, FlushAnswered, FlushReturned, Controlling
<1>8. Progress'
  BY <1>1, <1>3 DEF Local, Progress, StreamShape
<1> QED BY <1>2, <1>a, <1>4, <1>5, <1>6, <1>7, <1>8 DEF Local

(* What a call does when it returns, or goes on with a part of set_active. *)
LEMMA Returning ==
  ASSUME CallShape, NEW res, Return(res), cl.op = "flush" => res # "ok"
  PROVE  /\ CallShape' /\ cl'.lost = cl.lost
         /\ cl'.pc \notin {"await", "answer"}
         /\ cl'.pc = "idle" /\ cl'.op = "flush" => cl'.res # "ok"
<1>1. CASE res = "ok" /\ cl.todo # <<>>
  <2>1. cl' = [cl EXCEPT !.pc = Head(cl.todo), !.todo = Tail(cl.todo)]
    BY <1>1 DEF Return
  <2>2. Head(cl.todo) \in {"clear", "inactive"} /\ Tail(cl.todo) \in Seq({"clear", "inactive"})
    BY <1>1 DEF CallShape
  <2> QED BY <1>1, <2>1, <2>2 DEF CallShape
<1>2. CASE ~(res = "ok" /\ cl.todo # <<>>)
  BY <1>2 DEF Return, CallShape
<1> QED BY <1>1, <1>2

(* A call goes on to pc, which is none of its wait and its answer.         *)
LEMMA Stepping ==
  ASSUME CallShape, cl.op # "flush", NEW pc, pc \notin {"await", "answer", "idle"}, Step(pc)
  PROVE  /\ CallShape' /\ cl'.lost = cl.lost
         /\ cl'.pc \notin {"await", "answer", "idle"}
BY DEF Step, CallShape

LEMMA PeriodQuiet == IInv /\ Period => Quiet
BY DEF IInv, Period, Quiet, StreamShape, CallShape, ring, flags, Padding, Lesser

LEMMA CallQuiet == \A op \in Calls : IInv /\ Call(op) => Quiet
<1> SUFFICES ASSUME NEW op \in Calls, IInv, Call(op) PROVE Quiet
  OBVIOUS
<1>1. CallShape'
  BY DEF IInv, Call, CallShape
<1> QED BY <1>1 DEF IInv, Call, Quiet, StreamShape, CallShape, Calls, ring, flags

LEMMA CancelWaitQuiet == IInv /\ CancelWait => Quiet
<1> SUFFICES ASSUME IInv, CancelWait PROVE Quiet
  OBVIOUS
<1>1. UNCHANGED <<ring, prog, control, dev, wk, cl>> /\ (failure => failure')
  BY Zenon DEF CancelWait, Settle
<1>2. "done" \in ev' => "done" \in ev
  BY DEF CancelWait, Settle, NoFault, Fault
<1>3. CallShape' /\ dev.played \in dev.played..Len(dev.out)
  BY <1>1 DEF IInv, StreamShape, CallShape
<1> QED BY <1>1, <1>2, <1>3 DEF Quiet

(* The owner outside a flush, a control and its answer.                    *)
Plain ==
  \/ SignalWake \/ Interrupt \/ WaitTop \/ WaitCheck \/ WaitSpace \/ SetActive
  \/ SetNotify \/ Destroy \/ DestroyStop \/ DestroyJoin

LEMMA PlainQuiet == IInv /\ Plain => Quiet
<1> SUFFICES ASSUME IInv, Plain PROVE Quiet
  OBVIOUS
<1>1. cl.op # "flush" /\ cl.pc # "await"
  BY Zenon DEF IInv, CallShape, Plain, SignalWake, Interrupt, WaitTop, WaitCheck, WaitSpace,
         SetActive, SetNotify, Destroy, DestroyStop, DestroyJoin
<1>2. /\ CallShape' /\ cl'.lost = cl.lost
      /\ cl'.pc \notin {"await", "answer"}
      /\ cl'.pc = "idle" /\ cl'.op = "flush" => cl'.res # "ok"
  <2>1. \/ \E res : Return(res)
        \/ \E pc : pc \notin {"await", "answer", "idle"} /\ Step(pc)
        \/ cl' = [cl EXCEPT !.pc = "flush", !.todo = <<"clear", "inactive">>]
    <3> USE DEF IInv
    <3>1. CASE SignalWake
      BY <3>1, ZenonT(30) DEF SignalWake
    <3>2. CASE Interrupt
      BY <3>2, ZenonT(30) DEF Interrupt
    <3>3. CASE WaitTop
      BY <3>3, ZenonT(30) DEF WaitTop
    <3>4. CASE WaitCheck
      BY <3>4, ZenonT(30) DEF WaitCheck
    <3>5. CASE WaitSpace
      BY <3>5, ZenonT(30) DEF WaitSpace
    <3>6. CASE SetActive
      BY <3>6, ZenonT(30) DEF SetActive
    <3>7. CASE SetNotify
      BY <3>7, ZenonT(30) DEF SetNotify
    <3>8. CASE Destroy
      BY <3>8, ZenonT(30) DEF Destroy
    <3>9. CASE DestroyStop
      BY <3>9, ZenonT(30) DEF DestroyStop
    <3>10. CASE DestroyJoin
      BY <3>10, ZenonT(30) DEF DestroyJoin
    <3> QED BY <3>1, <3>2, <3>3, <3>4, <3>5, <3>6, <3>7, <3>8, <3>9, <3>10 DEF Plain
  <2>2. CASE \E res : Return(res)
    BY <1>1, <2>2, Returning DEF IInv
  <2>3. CASE \E pc : pc \notin {"await", "answer", "idle"} /\ Step(pc)
    BY <1>1, <2>3, Stepping DEF IInv
  <2>4. CASE cl' = [cl EXCEPT !.pc = "flush", !.todo = <<"clear", "inactive">>]
    BY <1>1, <2>4 DEF IInv, CallShape
  <2> QED BY <2>1, <2>2, <2>3, <2>4
<1>3. /\ UNCHANGED <<ring, prog, control, wk>>
      /\ failure => failure'
  <2>1. CASE SignalWake \/ Interrupt \/ SetNotify \/ Destroy
    BY <2>1, Zenon DEF SignalWake, Interrupt, SetNotify, Destroy, Settle
  <2>2. CASE WaitTop \/ WaitCheck \/ WaitSpace
    BY <2>2 DEF WaitTop, WaitCheck, WaitSpace, flags
  <2>3. CASE SetActive \/ DestroyStop \/ DestroyJoin
    BY <2>3 DEF SetActive, DestroyStop, DestroyJoin, flags
  <2> QED BY <2>1, <2>2, <2>3 DEF Plain
<1>4. DOMAIN dev' = DOMAIN dev /\ dev'.out = dev.out /\ dev'.played = dev.played
  BY Zenon DEF IInv, StreamShape, Plain, SignalWake, Interrupt, WaitTop, WaitCheck, WaitSpace,
         SetActive, SetNotify, Destroy, DestroyStop, DestroyJoin
<1>5. "done" \in ev' => "done" \in ev
  <2>1. ev' \in {ev, ev \cup {"space"}, ev \cup {"wake"}, ev \ {"space"}}
    BY Zenon DEF Plain, SignalWake, Interrupt, WaitTop, WaitCheck, WaitSpace, SetActive,
           SetNotify, Destroy, DestroyStop, DestroyJoin
  <2> QED BY <2>1
<1>6. dev'.played \in dev.played..Len(dev.out)
  BY <1>4 DEF IInv, StreamShape
<1> QED BY <1>1, <1>2, <1>3, <1>4, <1>5, <1>6 DEF Quiet

(***************************************************************************)
(* The worker's waits.                                                     *)
(***************************************************************************)

(* A turn of the worker's loop begins, or its last has ended.              *)
LEMMA Turning ==
  ASSUME NEW pc \in {"top", "gone"}, Goto(pc), prog.epoch \in Nat, prog' = prog
  PROVE  /\ WorkerShape' /\ wk'.pc \in {"top", "gone"}
         /\ wk'.gen = 0 /\ wk'.batch = <<>> /\ wk'.taken = 0
BY DEF Goto, At, WorkerShape

LEMMA ProgressLocal == IInv /\ WorkerProgress => Local
<1> SUFFICES ASSUME IInv, WorkerProgress PROVE Local
  OBVIOUS
<1>1. wk.pc = "progress" /\ wk.batch = <<>> /\ wk.taken = 0 /\ prog' = prog
  BY DEF IInv, WorkerProgress, WorkerShape
<1>2. \/ Goto("top") \/ Goto("gone") \/ Goto("observe")
  BY Zenon DEF WorkerProgress, LeaveOr
<1>3. /\ WorkerShape'
      /\ wk'.pc \notin {"control", "controlDone", "note"}
      /\ \/ wk'.gen = wk.gen /\ wk'.batch = wk.batch /\ wk'.taken = wk.taken
         \/ wk.taken = 0 /\ wk'.gen = 0 /\ wk'.batch = <<>> /\ wk'.taken = 0
  <2>1. CASE Goto("observe")
    BY <1>1, <2>1, Zenon DEF IInv, Goto, WorkerShape
  <2>2. CASE Goto("top") \/ Goto("gone")
    BY <1>1, <2>2, Turning DEF IInv, StreamShape
  <2> QED BY <1>2, <2>1, <2>2
<1>4. /\ UNCHANGED <<ring, prog, control, cl, ev>> /\ (failure => failure')
  BY Zenon DEF WorkerProgress, Settle
<1>5. DOMAIN dev' = DOMAIN dev /\ dev'.out = dev.out /\ dev'.played = dev.played
  BY Zenon DEF IInv, StreamShape, WorkerProgress, WaitReady, WaitInterrupted, WaitFails
<1> QED BY <1>1, <1>3, <1>4, <1>5 DEF Local

LEMMA IdleLocal == IInv /\ WorkerIdle => Local
<1> SUFFICES ASSUME IInv, WorkerIdle PROVE Local
  OBVIOUS
<1>1. wk.pc = "idle" /\ wk.batch = <<>> /\ wk.taken = 0 /\ prog' = prog
  BY DEF IInv, WorkerIdle, WorkerShape
<1>2. /\ WorkerShape'
      /\ wk'.pc \notin {"control", "controlDone", "note"}
      /\ wk'.gen = 0 /\ wk'.batch = <<>> /\ wk'.taken = 0
  BY <1>1, Turning, Zenon DEF IInv, StreamShape, WorkerIdle
<1>3. /\ UNCHANGED <<ring, prog, control, cl, dev>> /\ (failure => failure')
      /\ "done" \in ev' => "done" \in ev
  BY Zenon DEF WorkerIdle, Settle
<1> QED BY <1>1, <1>2, <1>3 DEF Local

LEMMA WritableLocal == IInv /\ WorkerWritable => Local
<1> SUFFICES ASSUME IInv, WorkerWritable PROVE Local
  OBVIOUS
<1>1. wk.pc = "writable" /\ wk.taken = 0 /\ prog' = prog /\ WorkerShape
  BY DEF IInv, WorkerWritable, WorkerShape
<1>2. \/ Goto("top") \/ Goto("gone") \/ Goto("submit") \/ wk' = wk \/ wk' = At("gone")
      \/ wk' = [wk EXCEPT !.pc = "advance", !.status = "error"]
  BY DEF WorkerWritable, LeaveOr
<1>3. /\ WorkerShape'
      /\ wk'.pc \notin {"control", "controlDone", "note"}
      /\ \/ wk'.gen = wk.gen /\ wk'.batch = wk.batch /\ wk'.taken = wk.taken
         \/ wk.taken = 0 /\ wk'.gen = 0 /\ wk'.batch = <<>> /\ wk'.taken = 0
  <2>1. CASE Goto("submit") \/ wk' = wk
             \/ wk' = [wk EXCEPT !.pc = "advance", !.status = "error"]
    BY <1>1, <2>1, Zenon DEF Goto, WorkerShape
  <2>2. CASE Goto("top") \/ Goto("gone") \/ wk' = At("gone")
    BY <1>1, <2>2, Turning DEF IInv, StreamShape, Goto
  <2> QED BY <1>2, <2>1, <2>2
<1>4. UNCHANGED <<ring, prog, control, cl, ev, failure>>
  BY DEF WorkerWritable, flags
<1>5. DOMAIN dev' = DOMAIN dev /\ dev'.out = dev.out /\ dev'.played = dev.played
  BY DEF IInv, StreamShape, WorkerWritable, WaitReady, WaitInterrupted, WaitFails
<1> QED BY <1>1, <1>3, <1>4, <1>5 DEF Local

LEMMA ObserveLocal == IInv /\ WorkerObserve => Local
<1> SUFFICES ASSUME IInv, WorkerObserve PROVE Local
  OBVIOUS
<1>1. WorkerShape' /\ wk'.gen = wk.gen /\ wk'.batch = wk.batch /\ wk'.taken = wk.taken
  BY DEF IInv, WorkerObserve, WorkerShape
<1> QED BY <1>1 DEF IInv, WorkerObserve, Local, WorkerShape, ring, flags

(***************************************************************************)
(* The worker's loop.                                                      *)
(***************************************************************************)

(* The slots counted from head are slots of the ring.                      *)
LEMMA SlotsOfRing ==
  ASSUME StreamShape
  PROVE  \A i \in 0..Capacity : Slot(i) \in 0..(Capacity - 1)
BY PcmAssumption, SlotAfter DEF StreamShape, Slot

LEMMA TopKeeps == IInv /\ WorkerTop => IInv'
<1> SUFFICES ASSUME IInv, WorkerTop PROVE IInv'
  OBVIOUS
<1> DEFINE n == Lesser(count, Batch)
<1>1. /\ samples' = samples /\ head' = head /\ count' = count /\ prog' = prog
      /\ failure' = failure /\ ev' = ev /\ dev' = dev /\ cl' = cl
  BY DEF WorkerTop, ring
<1>2. /\ StreamShape /\ WorkerShape /\ CallShape /\ OneControl /\ BatchInRing
      /\ InOrder /\ FlushAnswered /\ FlushReturned /\ Progress
  BY DEF IInv
<1>3. /\ wk.pc = "top" /\ wk.batch = <<>> /\ wk.taken = 0 /\ prog.epoch \in Nat
      /\ DOMAIN wk = {"pc", "gen", "batch", "taken", "ctl", "status", "sub", "con"}
  BY <1>2 DEF WorkerTop, WorkerShape, StreamShape
<1>4. StreamShape' /\ CallShape'
  BY <1>1, <1>2 DEF StreamShape, CallShape
<1>5. CASE cancelled
  <2>1. Goto("gone") /\ control' = control
    BY <1>5 DEF WorkerTop
  <2>2. Local
    BY <1>1, <1>3, <2>1, Turning DEF Local, ring
  <2> QED BY <2>2, LocalKeeps
<1>6. CASE ~cancelled /\ control \in {"clear", "gain"}
  <2>1. /\ wk' = [[wk EXCEPT !.gen = prog.epoch] EXCEPT !.pc = "control", !.ctl = control]
        /\ control' = "none"
    BY <1>6 DEF WorkerTop
  <2>2. /\ wk'.pc = "control" /\ wk'.ctl = control /\ wk'.gen = prog.epoch
        /\ wk'.batch = <<>> /\ wk'.taken = 0 /\ DOMAIN wk' = DOMAIN wk
    BY <1>3, <2>1
  <2>3. WorkerShape'
    BY <1>1, <1>2, <1>3, <2>2 DEF WorkerShape
  <2>4. OneControl'
    BY <1>1, <1>2, <1>6, <2>1, <2>2 DEF OneControl, Orderly, Controlling, Clearing
  <2>5. BatchInRing'
    BY <1>1, <1>2, <2>2 DEF BatchInRing, StreamShape
  <2>6. InOrder'
    BY <1>1, <1>2, <1>3, <1>6, <2>2
       DEF InOrder, Trusted, Orderly, ClearPending, Taken, Slot
  <2>7. FlushAnswered' /\ FlushReturned' /\ Progress'
    BY <1>1, <1>2, <1>6, <2>1, <2>2
       DEF FlushAnswered, FlushReturned, Progress, Orderly, Controlling, OneControl
  <2> QED BY <1>4, <2>3, <2>4, <2>5, <2>6, <2>7 DEF IInv
<1>7. CASE /\ ~cancelled /\ control \notin {"clear", "gain"}
           /\ ~failure /\ active /\ count # 0
  <2>1. /\ wk' = [[wk EXCEPT !.gen = prog.epoch] EXCEPT !.pc = "writable",
                    !.batch = [i \in 1..n |-> samples[Slot(i - 1)]]]
        /\ control' = control
    BY <1>7 DEF WorkerTop
  <2>2. n \in Nat /\ n <= count /\ n > 0
    BY <1>2, <1>7, PcmAssumption DEF StreamShape, Lesser
  <2> HIDE DEF n
  <2>3. [i \in 1..n |-> samples[Slot(i - 1)]] \in Seq(Frames)
    <3>1. \A i \in 1..n : i - 1 \in 0..Capacity
      BY <1>2, <2>2, PcmAssumption DEF StreamShape
    <3>2. \A i \in 1..n : Slot(i - 1) \in 0..(Capacity - 1)
      BY <1>2, <3>1, SlotsOfRing
    <3>3. \A i \in 1..n : samples[Slot(i - 1)] \in Frames
      BY <1>2, <3>2 DEF StreamShape
    <3> QED BY <2>2, <3>3
  <2>4. /\ wk'.pc = "writable" /\ wk'.gen = prog.epoch /\ wk'.taken = 0
        /\ wk'.batch = [i \in 1..n |-> samples[Slot(i - 1)]]
        /\ Len(wk'.batch) = n
    BY <1>3, <2>1, <2>2
  <2>5. WorkerShape'
    BY <1>1, <1>3, <2>1, <2>2, <2>3, <2>4 DEF WorkerShape
  <2>6. OneControl'
    BY <1>1, <1>2, <1>7, <2>1, <2>4 DEF OneControl, Orderly, Controlling, Clearing
  <2>7. BatchInRing'
    BY <1>1, <2>2, <2>4 DEF BatchInRing, Slot
  <2>8. InOrder'
    BY <1>1, <1>2, <1>3, <1>7, <2>1, <2>4
       DEF InOrder, Trusted, Orderly, ClearPending, Taken, Slot
  <2>9. FlushAnswered' /\ FlushReturned' /\ Progress'
    BY <1>1, <1>2, <1>7, <2>1, <2>4
       DEF FlushAnswered, FlushReturned, Progress, Orderly
  <2> QED BY <1>4, <2>5, <2>6, <2>7, <2>8, <2>9 DEF IInv
<1>8. CASE /\ ~cancelled /\ control \notin {"clear", "gain"}
           /\ ~(~failure /\ active /\ count # 0)
  <2>1. /\ control' = control
        /\ \E pc \in {"progress", "idle"} :
             wk' = [[wk EXCEPT !.gen = prog.epoch] EXCEPT !.pc = pc]
    BY <1>8, Zenon DEF WorkerTop
  <2>2. /\ wk'.pc \in {"progress", "idle"} /\ wk'.gen = prog.epoch
        /\ wk'.batch = <<>> /\ wk'.taken = 0 /\ DOMAIN wk' = DOMAIN wk
    BY <1>3, <2>1
  <2>3. WorkerShape'
    BY <1>1, <1>2, <1>3, <2>2 DEF WorkerShape
  <2>4. OneControl'
    BY <1>1, <1>2, <1>8, <2>1, <2>2 DEF OneControl, Orderly, Controlling, Clearing
  <2>5. BatchInRing'
    BY <1>1, <1>2, <2>2 DEF BatchInRing, StreamShape
  <2>6. InOrder'
    BY <1>1, <1>2, <1>3, <1>8, <2>1, <2>2
       DEF InOrder, Trusted, Orderly, ClearPending, Taken, Slot
  <2>7. FlushAnswered' /\ FlushReturned' /\ Progress'
    BY <1>1, <1>2, <2>1, <2>2
       DEF FlushAnswered, FlushReturned, Progress, Orderly, Controlling
  <2> QED BY <1>4, <2>3, <2>4, <2>5, <2>6, <2>7 DEF IInv
<1> QED BY <1>5, <1>6, <1>7, <1>8

(* A clear that works empties the endpoint; one that fails leaves a state  *)
(* nobody trusts until the failure is noted.                               *)
LEMMA ControlKeeps == IInv /\ WorkerControl => IInv'
<1> SUFFICES ASSUME IInv, WorkerControl PROVE IInv'
  OBVIOUS
<1> DEFINE reset == [dev EXCEPT !.out = <<>>, !.played = 0, !.intr = FALSE,
                                !.ready = FALSE]
<1>1. /\ samples' = samples /\ head' = head /\ count' = count /\ prog' = prog
      /\ failure' = failure /\ control' = control /\ ev' = ev /\ cl' = cl
  BY DEF WorkerControl, ring, flags
<1>2. /\ StreamShape /\ WorkerShape /\ CallShape /\ OneControl /\ BatchInRing
      /\ InOrder /\ FlushAnswered /\ FlushReturned /\ Progress
  BY DEF IInv
<1>3. /\ wk.pc = "control" /\ wk.batch = <<>> /\ wk.taken = 0 /\ prog.epoch \in Nat
      /\ DOMAIN wk = {"pc", "gen", "batch", "taken", "ctl", "status", "sub", "con"}
      /\ DOMAIN dev = {"out", "played", "ready", "intr"}
  BY <1>2 DEF WorkerControl, WorkerShape, StreamShape
<1>4. /\ reset.out = <<>> /\ reset.played = 0 /\ DOMAIN reset = DOMAIN dev
  BY <1>3
<1>5. /\ wk'.pc = "controlDone" /\ wk'.gen = wk.gen /\ wk'.batch = <<>> /\ wk'.taken = 0
      /\ wk'.ctl = wk.ctl /\ DOMAIN wk' = DOMAIN wk
  BY <1>3, Zenon DEF WorkerControl, Goto
<1>6. /\ DOMAIN dev' = DOMAIN dev
      /\ \/ dev'.out = dev.out /\ dev'.played = dev.played
            /\ (wk.ctl = "clear" => wk'.status = "error")
         \/ dev'.out = <<>> /\ dev'.played = 0 /\ wk.ctl = "clear"
  <2>1. \/ dev' = dev /\ (wk.ctl = "clear" => wk'.status = "error")
        \/ dev' = reset /\ wk.ctl = "clear"
        \/ dev' = [dev EXCEPT !.intr = FALSE] /\ wk'.status = "error"
    BY <1>3, Zenon DEF WorkerControl
  <2> HIDE DEF reset
  <2> QED BY <1>3, <1>4, <2>1
<1>7. StreamShape' /\ WorkerShape' /\ CallShape'
  BY <1>1, <1>2, <1>3, <1>5, <1>6, Zenon DEF StreamShape, WorkerShape, CallShape
<1>8. OneControl'
  BY <1>1, <1>2, <1>3, <1>5 DEF OneControl, Orderly, Controlling, Clearing
<1>9. BatchInRing'
  BY <1>1, <1>2, <1>5 DEF BatchInRing, StreamShape
<1>10. InOrder'
  <2>1. CASE dev'.out = dev.out /\ (wk.ctl = "clear" => wk'.status = "error")
    BY <1>1, <1>2, <1>3, <1>5, <2>1
       DEF InOrder, Trusted, Orderly, ClearPending, Taken, Slot
  <2>2. CASE dev'.out = <<>> /\ wk.ctl = "clear"
    BY <1>1, <1>2, <1>3, <1>5, <2>2
       DEF InOrder, Trusted, Orderly, Taken, OneControl, Controlling, Clearing, StreamShape
  <2> QED BY <1>6, <2>1, <2>2
<1>11. FlushAnswered' /\ FlushReturned'
  BY <1>1, <1>2, <1>3, <1>5 DEF FlushAnswered, FlushReturned, Orderly, Controlling
<1>12. Progress'
  BY <1>1, <1>2, <1>3, <1>5, <1>6
     DEF Progress, Orderly, OneControl, Controlling, Clearing, StreamShape
<1> QED BY <1>7, <1>8, <1>9, <1>10, <1>11, <1>12 DEF IInv

LEMMA ControlDoneKeeps == IInv /\ WorkerControlDone => IInv'
<1> SUFFICES ASSUME IInv, WorkerControlDone PROVE IInv'
  OBVIOUS
<1>1. /\ samples' = samples /\ head' = head /\ count' = count /\ prog' = prog
      /\ control' = control /\ dev' = dev /\ cl' = cl
  BY DEF WorkerControlDone, ring
<1>2. /\ StreamShape /\ WorkerShape /\ CallShape /\ OneControl /\ BatchInRing
      /\ InOrder /\ FlushAnswered /\ FlushReturned /\ Progress
  BY DEF IInv
<1>3. /\ wk.pc = "controlDone" /\ wk.batch = <<>> /\ wk.taken = 0 /\ prog.epoch \in Nat
  BY <1>2 DEF WorkerControlDone, WorkerShape, StreamShape
<1>4. /\ WorkerShape' /\ wk'.pc = "top"
      /\ wk'.gen = 0 /\ wk'.batch = <<>> /\ wk'.taken = 0
  BY <1>1, <1>3, Turning DEF WorkerControlDone, Goto, At
<1>5. Orderly' => Orderly /\ wk.status # "error"
  BY <1>1, Zenon DEF WorkerControlDone, Settle, Orderly
<1>6. StreamShape' /\ CallShape'
  BY <1>1, <1>2 DEF StreamShape, CallShape
<1>7. OneControl'
  BY <1>1, <1>2, <1>3, <1>4, <1>5 DEF OneControl, Controlling, Clearing
<1>8. BatchInRing'
  BY <1>1, <1>2, <1>4 DEF BatchInRing, StreamShape
<1>9. InOrder'
  BY <1>1, <1>2, <1>3, <1>4, <1>5 DEF InOrder, Trusted, ClearPending, Taken, Slot
<1>10. FlushAnswered'
  BY <1>1, <1>2, <1>3, <1>5 DEF FlushAnswered, OneControl, Controlling
<1>11. FlushReturned'
  BY <1>1, <1>2, <1>3 DEF FlushReturned, Controlling
<1>12. Progress'
  BY <1>1, <1>2, <1>4, <1>5 DEF Progress
<1> QED BY <1>4, <1>6, <1>7, <1>8, <1>9, <1>10, <1>11, <1>12 DEF IInv

(* The frames a submission gives continue those the endpoint has.          *)
LEMMA SubmitKeeps == IInv /\ WorkerSubmit => IInv'
<1> SUFFICES ASSUME IInv, WorkerSubmit PROVE IInv'
  OBVIOUS
<1> DEFINE rest == Len(wk.batch) - wk.taken
           n == Lesser(Device - Padding, rest)
           more == SubSeq(wk.batch, wk.taken + 1, wk.taken + n)
<1>1. /\ samples' = samples /\ head' = head /\ count' = count /\ prog' = prog
      /\ failure' = failure /\ control' = control /\ ev' = ev /\ cl' = cl
  BY DEF WorkerSubmit, ring, flags
<1>2. /\ StreamShape /\ WorkerShape /\ CallShape /\ OneControl /\ BatchInRing
      /\ InOrder /\ FlushAnswered /\ FlushReturned /\ Progress
  BY DEF IInv
<1>3. /\ wk.pc = "submit" /\ wk.batch # <<>> /\ wk.batch \in Seq(Frames)
      /\ wk.taken \in 0..Len(wk.batch) /\ prog.epoch \in Nat
      /\ dev.out \in Seq(Frames) /\ dev.played \in 0..Len(dev.out)
      /\ DOMAIN wk = {"pc", "gen", "batch", "taken", "ctl", "status", "sub", "con"}
      /\ DOMAIN dev = {"out", "played", "ready", "intr"}
  BY <1>2 DEF WorkerSubmit, WorkerShape, StreamShape
<1>4. CASE /\ n > 0
           /\ dev' = [dev EXCEPT !.out = dev.out \o more]
           /\ wk' = [wk EXCEPT !.taken = wk.taken + n]
  <2>1. n \in Nat /\ wk.taken + n <= Len(wk.batch)
    <3>1. /\ Len(wk.batch) \in Nat /\ Len(dev.out) \in Nat /\ Device \in Nat
          /\ wk.taken \in Int /\ dev.played \in Int
      BY <1>3, PcmAssumption
    <3>2. rest \in Int /\ Device - Padding \in Int
      BY <3>1 DEF Padding
    <3>3. n > 0 /\ n = IF Device - Padding < rest THEN Device - Padding ELSE rest
      BY <1>4 DEF Lesser
    <3> HIDE DEF n
    <3>4. n \in Nat /\ n <= rest
      BY <3>2, <3>3
    <3> QED BY <3>1, <3>4
  <2> HIDE DEF n
  <2>2. /\ more \in Seq(Frames) /\ Len(more) = n
        /\ \A i \in 1..n : more[i] = wk.batch[wk.taken + i]
    <3> DEFINE a == wk.taken + 1
               b == wk.taken + n
    <3>1. a \in 1..(Len(wk.batch) + 1) /\ b \in (a - 1)..Len(wk.batch) /\ b - a + 1 = n
      BY <1>3, <2>1
    <3>2. \A i \in 1..n : a + i - 1 = wk.taken + i
      BY <1>3, <2>1
    <3> HIDE DEF a, b
    <3>3. /\ SubSeq(wk.batch, a, b) \in Seq(Frames)
          /\ Len(SubSeq(wk.batch, a, b)) = IF a <= b THEN b - a + 1 ELSE 0
          /\ \A i \in 1..(b - a + 1) : SubSeq(wk.batch, a, b)[i] = wk.batch[a + i - 1]
      <4>1. a \in Int /\ b \in Int /\ \A i \in a..b : wk.batch[i] \in Frames
        BY <1>3, <3>1
      <4> QED BY <4>1, SubSeqProperties
    <3>4. a <= b
      BY <1>3, <1>4, <2>1, <3>1
    <3> QED BY <3>1, <3>2, <3>3, <3>4 DEF a, b
  <2> HIDE DEF more
  <2>3. /\ dev'.out = dev.out \o more /\ dev'.played = dev.played
        /\ DOMAIN dev' = DOMAIN dev
    BY <1>3, <1>4
  <2>4. /\ dev'.out \in Seq(Frames) /\ Len(dev'.out) = Len(dev.out) + n
        /\ \A i \in 1..Len(dev.out) : dev'.out[i] = dev.out[i]
        /\ \A i \in 1..n : dev'.out[Len(dev.out) + i] = wk.batch[wk.taken + i]
    <3>1. /\ dev.out \o more \in Seq(Frames)
          /\ Len(dev.out \o more) = Len(dev.out) + Len(more)
          /\ \A i \in 1..(Len(dev.out) + Len(more)) : (dev.out \o more)[i] =
               IF i <= Len(dev.out) THEN dev.out[i] ELSE more[i - Len(dev.out)]
      <4>1. dev.out \in Seq(Frames) /\ more \in Seq(Frames)
        BY <1>3, <2>2
      <4> QED BY <4>1, ConcatProperties
    <3>2. ASSUME NEW i \in 1..n
          PROVE  dev'.out[Len(dev.out) + i] = wk.batch[wk.taken + i]
      <4> DEFINE j == Len(dev.out) + i
      <4>1. /\ j \in 1..(Len(dev.out) + Len(more)) /\ ~(j <= Len(dev.out))
            /\ j - Len(dev.out) = i
        BY <1>3, <2>1, <2>2
      <4> HIDE DEF j
      <4>2. dev'.out[j] = more[i]
        BY <2>3, <3>1, <4>1
      <4> QED BY <2>2, <4>2 DEF j
    <3>3. \A i \in 1..Len(dev.out) : dev'.out[i] = dev.out[i]
      BY <1>3, <2>1, <2>2, <2>3, <3>1
    <3> QED BY <2>2, <2>3, <3>1, <3>2, <3>3
  <2>5. /\ wk'.pc = "submit" /\ wk'.gen = wk.gen /\ wk'.batch = wk.batch
        /\ wk'.taken = wk.taken + n /\ DOMAIN wk' = DOMAIN wk /\ wk'.status = wk.status
    BY <1>3, <1>4
  <2>6. StreamShape' /\ CallShape'
    BY SMTT(60), <1>1, <1>2, <1>3, <2>1, <2>3, <2>4 DEF StreamShape, CallShape
  <2>7. WorkerShape'
    BY <1>1, <1>2, <1>3, <2>1, <2>5 DEF WorkerShape
  <2>8. OneControl'
    BY <1>1, <1>2, <1>3, <2>5 DEF OneControl, Orderly, Controlling, Clearing
  <2>9. BatchInRing'
    BY <1>1, <1>2, <2>5 DEF BatchInRing, Orderly, Slot
  <2>10. InOrder'
    <3> SUFFICES ASSUME Trusted' PROVE InOrder'
      BY DEF InOrder
    <3>1. Trusted /\ Orderly /\ control # "clear"
      BY <1>1, <1>3, <2>5 DEF Trusted, Orderly, ClearPending
    <3>2. /\ wk.gen = prog.epoch /\ Len(wk.batch) <= count
          /\ \A i \in 1..Len(wk.batch) : wk.batch[i] = samples[Slot(i - 1)]
      BY <1>2, <1>3, <3>1 DEF BatchInRing
    <3>3. /\ \A i \in 1..Len(dev.out) : dev.out[i] = <<prog.epoch, i>>
          /\ \A i \in 1..count :
               samples[Slot(i - 1)] = <<prog.epoch, Len(dev.out) - wk.taken + i>>
          /\ Len(dev.out) - wk.taken + count = prog.accepted
      BY <1>2, <3>1, <3>2 DEF InOrder, Taken
    <3>4. \A i \in 1..n : wk.batch[wk.taken + i] = <<prog.epoch, Len(dev.out) + i>>
      <4> SUFFICES ASSUME NEW i \in 1..n
                   PROVE  wk.batch[wk.taken + i] = <<prog.epoch, Len(dev.out) + i>>
        OBVIOUS
      <4> DEFINE j == wk.taken + i
      <4>1. /\ j \in 1..Len(wk.batch) /\ j \in 1..count
            /\ Len(dev.out) - wk.taken + j = Len(dev.out) + i
        <5>1. Len(dev.out) \in Nat /\ wk.taken \in Nat /\ Len(wk.batch) \in Nat /\ i \in Nat
          BY <1>3, <2>1
        <5>2. count \in Nat
          BY <1>2 DEF StreamShape
        <5>3. wk.taken + i <= Len(wk.batch) /\ i >= 1
          BY <1>3, <2>1, <5>1
        <5>4. j \in 1..Len(wk.batch) /\ j \in 1..count
          BY <3>2, <5>1, <5>2, <5>3
        <5> QED BY <5>1, <5>4, Shifted
      <4> HIDE DEF j
      <4>2. wk.batch[j] = <<prog.epoch, Len(dev.out) + i>>
        BY <3>2, <3>3, <4>1
      <4> QED BY <4>2 DEF j
    <3>5. \A i \in 1..Len(dev'.out) : dev'.out[i] = <<prog.epoch, i>>
      <4> SUFFICES ASSUME NEW i \in 1..Len(dev'.out)
                   PROVE  dev'.out[i] = <<prog.epoch, i>>
        OBVIOUS
      <4>1. CASE i \in 1..Len(dev.out)
        BY <2>4, <3>3, <4>1
      <4>2. CASE i \notin 1..Len(dev.out)
        <5>1. PICK k \in 1..n : i = Len(dev.out) + k
          <6>1. i - Len(dev.out) \in 1..n /\ i = Len(dev.out) + (i - Len(dev.out))
            BY <1>3, <2>1, <2>4, <4>2
          <6> QED BY <6>1
        <5> QED BY <2>4, <3>4, <5>1, Zenon
      <4> QED BY <4>1, <4>2
    <3>6. Len(dev'.out) - (wk.taken + n) = Len(dev.out) - wk.taken
      BY <1>3, <2>1, <2>4
    <3>7. Taken' = wk.taken + n
      BY <1>1, <2>5, <3>2 DEF Taken
    <3> QED BY <1>1, <3>3, <3>5, <3>6, <3>7 DEF InOrder, Slot
  <2>11. FlushAnswered' /\ FlushReturned'
    BY <1>1, <1>2, <1>3, <2>5 DEF FlushAnswered, FlushReturned, Orderly
  <2>12. Progress'
    BY <1>1, <1>2, <1>3, <2>1, <2>3, <2>4, <2>5 DEF Progress, Orderly, StreamShape
  <2> QED BY <2>6, <2>7, <2>8, <2>9, <2>10, <2>11, <2>12 DEF IInv
<1>5. CASE ~(/\ n > 0
             /\ dev' = [dev EXCEPT !.out = dev.out \o more]
             /\ wk' = [wk EXCEPT !.taken = wk.taken + n])
  <2>1. /\ \/ Goto("observe") \/ wk' = wk
           \/ wk' = [wk EXCEPT !.pc = "observe", !.status = "limit"]
           \/ wk' = [wk EXCEPT !.pc = "advance", !.status = "error"]
        /\ dev' = dev \/ WaitReady \/ WaitInterrupted
    BY <1>5, Zenon DEF WorkerSubmit, WaitFails
  <2>2. /\ WorkerShape' /\ wk'.pc \in {"submit", "observe", "advance"}
        /\ wk'.gen = wk.gen /\ wk'.batch = wk.batch /\ wk'.taken = wk.taken
    BY <1>1, <1>2, <1>3, <2>1, Zenon DEF WorkerShape, Goto
  <2>3. DOMAIN dev' = DOMAIN dev /\ dev'.out = dev.out /\ dev'.played = dev.played
    BY <1>3, <2>1 DEF WaitReady, WaitInterrupted
  <2>4. Local
    BY <1>1, <1>3, <2>2, <2>3 DEF Local, ring
  <2> QED BY <2>4, LocalKeeps
<1> QED BY <1>4, <1>5, Zenon

(* What is noted are the endpoint's numbers, which are ahead of the noted  *)
(* ones.                                                                   *)
LEMMA NoteKeeps == IInv /\ WorkerNote => IInv'
<1> SUFFICES ASSUME IInv, WorkerNote PROVE IInv'
  OBVIOUS
<1>1. /\ samples' = samples /\ head' = head /\ count' = count
      /\ control' = control /\ ev' = ev /\ dev' = dev /\ cl' = cl
  BY DEF WorkerNote, ring
<1>2. /\ StreamShape /\ WorkerShape /\ CallShape /\ OneControl /\ BatchInRing
      /\ InOrder /\ FlushAnswered /\ FlushReturned /\ Progress
  BY DEF IInv
<1>3. /\ wk.pc = "note" /\ wk.taken \in 0..Len(wk.batch) /\ wk.gen \in 0..prog.epoch
      /\ prog.epoch \in Nat /\ wk.sub = Len(dev.out) /\ wk.con \in 0..dev.played
      /\ wk.batch \in Seq(Frames) /\ dev.out \in Seq(Frames)
      /\ dev.played \in 0..Len(dev.out)
      /\ DOMAIN wk = {"pc", "gen", "batch", "taken", "ctl", "status", "sub", "con"}
      /\ DOMAIN prog = {"epoch", "accepted", "submitted", "consumed"}
  BY <1>2 DEF WorkerNote, WorkerShape, StreamShape, Progress
<1>4. /\ prog'.epoch = prog.epoch /\ prog'.accepted = prog.accepted
      /\ DOMAIN prog' = DOMAIN prog
      /\ \/ prog' = prog
         \/ /\ prog'.submitted = wk.sub /\ prog'.consumed = wk.con
            /\ wk.gen = prog.epoch /\ ~failure
  BY <1>3, Zenon DEF WorkerNote
<1>5. Orderly' => Orderly
  BY <1>1, Zenon DEF WorkerNote, Settle, Orderly
<1>6. \/ wk.batch # <<>> /\ wk' = [wk EXCEPT !.pc = "advance"]
      \/ wk.batch = <<>> /\ wk' = At("top")
  BY <1>3 DEF WorkerNote, Following, Goto
<1>7. /\ WorkerShape' /\ wk'.pc \in {"advance", "top"}
      /\ \/ wk'.gen = wk.gen /\ wk'.batch = wk.batch /\ wk'.taken = wk.taken
         \/ /\ wk.batch = <<>> /\ wk.taken = 0
            /\ wk'.gen = 0 /\ wk'.batch = <<>> /\ wk'.taken = 0
  <2>1. CASE wk.batch # <<>> /\ wk' = [wk EXCEPT !.pc = "advance"]
    BY <1>3, <1>4, <2>1 DEF WorkerShape
  <2>2. CASE wk.batch = <<>> /\ wk' = At("top")
    BY <1>3, <1>4, <2>2 DEF At, WorkerShape
  <2> QED BY <1>6, <2>1, <2>2
<1>8. StreamShape' /\ CallShape'
  BY <1>1, <1>2, <1>3, <1>4 DEF StreamShape, CallShape
<1>9. OneControl'
  <2> SUFFICES ASSUME Orderly' PROVE OneControl'
    BY DEF OneControl
  <2>1. control = "clear" => prog' = prog
    BY <1>2, <1>3, <1>4, <1>5 DEF OneControl
  <2> QED BY <1>1, <1>2, <1>3, <1>4, <1>5, <1>7, <2>1 DEF OneControl, Controlling, Clearing
<1>10. BatchInRing'
  BY SMTT(60), <1>1, <1>2, <1>3, <1>4, <1>5, <1>7 DEF BatchInRing, Slot, StreamShape
<1>11. InOrder'
  BY SMTT(60), <1>1, <1>2, <1>3, <1>4, <1>5, <1>7 DEF InOrder, Trusted, ClearPending, Taken, Slot
<1>12. FlushAnswered' /\ FlushReturned'
  BY <1>1, <1>2, <1>4, <1>5, <1>7 DEF FlushAnswered, FlushReturned, Controlling
<1>13. Progress'
  BY <1>1, <1>2, <1>3, <1>4, <1>5, <1>7 DEF Progress
<1> QED BY <1>7, <1>8, <1>9, <1>10, <1>11, <1>12, <1>13 DEF IInv

(* What leaves the ring is what the endpoint was given, and the rest of    *)
(* the ring is where it was; a flush is answered when there is no rest.    *)
LEMMA AdvanceKeeps == IInv /\ WorkerAdvance => IInv'
<1> SUFFICES ASSUME IInv, WorkerAdvance PROVE IInv'
  OBVIOUS
<1> DEFINE moved == prog.epoch = wk.gen /\ count >= wk.taken
           broken == failure \/ wk.status = "error"
           answer == control = "flush" /\ (broken \/ count' = 0)
<1>1. /\ samples' = samples /\ prog' = prog /\ dev' = dev /\ cl' = cl
      /\ count' = IF moved THEN count - wk.taken ELSE count
      /\ head' = IF moved THEN Slot(wk.taken) ELSE head
      /\ control' = IF answer THEN "none" ELSE control
      /\ "done" \in ev' => "done" \in ev \/ answer
      /\ failure' = FALSE => ~failure /\ ~broken
      /\ Goto("top")
  BY Zenon DEF WorkerAdvance, Advance, Settle
<1>2. /\ StreamShape /\ WorkerShape /\ CallShape /\ OneControl /\ BatchInRing
      /\ InOrder /\ FlushAnswered /\ FlushReturned /\ Progress
  BY DEF IInv
<1>3. /\ wk.pc = "advance" /\ wk.taken \in 0..Len(wk.batch) /\ wk.gen \in 0..prog.epoch
      /\ prog.epoch \in Nat /\ wk.batch # <<>>
      /\ wk.batch \in Seq(Frames) /\ dev.out \in Seq(Frames)
      /\ head \in 0..(Capacity - 1) /\ count \in 0..Capacity
      /\ Capacity \in Nat \ {0}
  BY <1>2, PcmAssumption DEF WorkerAdvance, Advance, WorkerShape, StreamShape
<1>4. /\ WorkerShape' /\ wk'.pc = "top"
      /\ wk'.gen = 0 /\ wk'.batch = <<>> /\ wk'.taken = 0
  BY <1>1, <1>3, Turning DEF Goto, At
<1>5. Orderly' => Orderly /\ ~broken
  BY <1>1 DEF Orderly
<1>6. head' \in 0..(Capacity - 1) /\ count' \in 0..Capacity
  BY SMTT(60), <1>1, <1>2, <1>3, SlotsOfRing
<1>7. StreamShape' /\ CallShape'
  BY <1>1, <1>2, <1>6 DEF StreamShape, CallShape
<1>8. OneControl'
  BY <1>1, <1>2, <1>3, <1>4, <1>5, <1>6 DEF OneControl, Controlling, Clearing
<1>9. BatchInRing'
  BY <1>1, <1>4, <1>6 DEF BatchInRing
<1>10. InOrder'
  <2> SUFFICES ASSUME Trusted' PROVE InOrder'
    BY DEF InOrder
  <2>1. Trusted /\ Orderly /\ control # "clear"
    BY <1>1, <1>3, <1>4, <1>5 DEF Trusted, ClearPending
  <2>2. wk.gen = prog.epoch /\ wk.taken <= count
    BY <1>2, <1>3, <2>1 DEF BatchInRing
  <2>3. /\ \A i \in 1..Len(dev.out) : dev.out[i] = <<prog.epoch, i>>
        /\ \A i \in 1..count :
             samples[Slot(i - 1)] = <<prog.epoch, Len(dev.out) - wk.taken + i>>
        /\ Len(dev.out) - wk.taken + count = prog.accepted
    BY <1>2, <2>1, <2>2 DEF InOrder, Taken
  <2>4. head' = Slot(wk.taken) /\ count' = count - wk.taken
    BY <1>1, <2>2
  <2>5. Taken' = 0
    BY <1>4 DEF Taken
  <2>6. \A i \in 1..count' :
          samples[(head' + (i - 1)) % Capacity] = <<prog.epoch, Len(dev.out) + i>>
    <3> SUFFICES ASSUME NEW i \in 1..count'
                 PROVE  samples[(head' + (i - 1)) % Capacity]
                          = <<prog.epoch, Len(dev.out) + i>>
      OBVIOUS
    <3> DEFINE j == wk.taken + i
               k == i - 1
    <3>1. /\ j \in 1..count /\ k \in 0..Capacity /\ wk.taken \in 0..Capacity
          /\ wk.taken + k \in 0..Capacity /\ j - 1 = wk.taken + k
          /\ Len(dev.out) - wk.taken + j = Len(dev.out) + i
      <4>1. Len(dev.out) \in Nat /\ wk.taken \in Nat /\ i \in Nat
        BY <1>3, <1>6
      <4>2. count' = count - wk.taken /\ i >= 1 /\ i <= count'
        BY <1>6, <2>4
      <4>3. Len(dev.out) - wk.taken + j = Len(dev.out) + i
        BY <4>1, Shifted
      <4>4. count \in Nat /\ Capacity \in Nat /\ count <= Capacity /\ wk.taken <= count
        BY <1>3, <2>2
      <4> QED BY SMTT(60), <4>1, <4>2, <4>3, <4>4
    <3> HIDE DEF j, k
    <3>2. (head' + k) % Capacity = (head + (wk.taken + k)) % Capacity
      BY <1>3, <2>4, <3>1, SlotAfterSlot, Zenon DEF Slot
    <3>3. samples[Slot(j - 1)] = <<prog.epoch, Len(dev.out) + i>>
      BY <2>3, <3>1
    <3>4. samples[(head' + k) % Capacity] = <<prog.epoch, Len(dev.out) + i>>
      BY <3>1, <3>2, <3>3 DEF Slot
    <3> QED BY <3>4 DEF k
  <2>7. Len(dev.out) - 0 + count' = prog.accepted
    BY <1>3, <2>3, <2>4
  <2>8. \A i \in 1..count' : Len(dev.out) - 0 + i = Len(dev.out) + i
    BY <1>3, <1>6
  <2> QED BY <1>1, <2>3, <2>5, <2>6, <2>7, <2>8 DEF InOrder, Slot
<1>11. FlushAnswered'
  BY <1>1, <1>2, <1>3, <1>4, <1>5 DEF FlushAnswered
<1>12. FlushReturned'
  BY <1>1, <1>2, <1>3 DEF FlushReturned
<1>13. Progress'
  BY <1>1, <1>2, <1>4, <1>5 DEF Progress, Orderly
<1> QED BY <1>4, <1>7, <1>8, <1>9, <1>10, <1>11, <1>12, <1>13 DEF IInv

(***************************************************************************)
(* The owner's calls.                                                      *)
(***************************************************************************)

(* An enqueue writes the slots behind the ring's last one and no other.    *)
LEMMA EnqueueWrites ==
  ASSUME StreamShape, NEW n \in 0..(Capacity - count), NEW f,
         f = [i \in DOMAIN samples |->
                LET o == (i - (head + count)) % Capacity
                IN IF o < n THEN <<prog.epoch, prog.accepted + o + 1>> ELSE samples[i]]
  PROVE  /\ f \in [0..(Capacity - 1) -> Frames]
         /\ \A j \in 0..(Capacity - 1) :
              f[Slot(j)] = IF j < count THEN samples[Slot(j)]
                           ELSE IF j < count + n
                                THEN <<prog.epoch, prog.accepted + (j - count) + 1>>
                                ELSE samples[Slot(j)]
<1>1. /\ Capacity \in Nat \ {0} /\ head \in 0..(Capacity - 1) /\ count \in 0..Capacity
      /\ DOMAIN samples = 0..(Capacity - 1) /\ n \in Nat /\ n <= Capacity - count
      /\ prog.epoch \in Nat /\ prog.accepted \in Nat
  BY PcmAssumption DEF StreamShape
<1>2. f \in [0..(Capacity - 1) -> Frames]
  <2>1. \A i \in 0..(Capacity - 1) : (i - (head + count)) % Capacity \in Nat
    BY <1>1, SMT
  <2>2. \A i \in 0..(Capacity - 1) : samples[i] \in Frames
    BY Zenon DEF StreamShape
  <2>3. ASSUME NEW i \in 0..(Capacity - 1)
        PROVE  f[i] \in Frames
    <3> DEFINE o == (i - (head + count)) % Capacity
    <3>1. f[i] = IF o < n THEN <<prog.epoch, prog.accepted + o + 1>> ELSE samples[i]
      BY <1>1
    <3>2. o \in Nat
      BY <2>1
    <3> HIDE DEF o
    <3>3. prog.accepted + o + 1 \in Nat
      BY <1>1, <3>2
    <3> QED BY <1>1, <2>2, <3>1, <3>3 DEF Frames
  <2>4. DOMAIN f = 0..(Capacity - 1)
    BY <1>1
  <2> QED BY <2>3, <2>4, Zenon
<1>3. ASSUME NEW j \in 0..(Capacity - 1)
      PROVE  f[Slot(j)] = IF j < count THEN samples[Slot(j)]
                          ELSE IF j < count + n
                               THEN <<prog.epoch, prog.accepted + (j - count) + 1>>
                               ELSE samples[Slot(j)]
  <2> DEFINE s == Slot(j)
             o == (s - (head + count)) % Capacity
  <2>1. s \in 0..(Capacity - 1)
    <3>1. j \in 0..Capacity
      BY <1>1
    <3> QED BY <3>1, SlotsOfRing
  <2>2. o = IF j < count THEN Capacity + j - count ELSE j - count
    BY <1>1, SlotOffset, Zenon DEF Slot
  <2>3. f[s] = IF o < n THEN <<prog.epoch, prog.accepted + o + 1>> ELSE samples[s]
    BY <1>1, <2>1
  <2> HIDE DEF s, o
  <2>4. CASE j < count
    <3>1. ~(o < n)
      BY <1>1, <2>2, <2>4
    <3> QED BY <2>3, <2>4, <3>1 DEF s
  <2>5. CASE ~(j < count)
    <3>1. o = j - count /\ (o < n <=> j < count + n)
      BY <1>1, <2>2, <2>5
    <3> QED BY <2>3, <2>5, <3>1 DEF s
  <2> QED BY <2>4, <2>5
<1> QED BY <1>2, <1>3, Zenon

LEMMA EnqueueKeeps == \A k \in Nat \ {0} : IInv /\ Enqueue(k) => IInv'
<1> SUFFICES ASSUME NEW k \in Nat \ {0}, IInv, Enqueue(k) PROVE IInv'
  OBVIOUS
<1> DEFINE n == Lesser(Capacity - count, k)
<1>1. /\ failure' = failure /\ control' = control /\ ev' = ev /\ dev' = dev /\ wk' = wk
      /\ cl.pc = "enqueue"
  BY DEF Enqueue, flags
<1>2. /\ StreamShape /\ WorkerShape /\ CallShape /\ OneControl /\ BatchInRing
      /\ InOrder /\ FlushAnswered /\ FlushReturned /\ Progress
  BY DEF IInv
<1>3. cl.op # "flush" /\ CallShape
  BY <1>1, <1>2 DEF CallShape
<1>4. /\ count \in 0..Capacity /\ Capacity \in Nat \ {0} /\ prog.epoch \in Nat
      /\ prog.accepted \in Nat /\ dev.out \in Seq(Frames) /\ dev.played \in 0..Len(dev.out)
      /\ wk.taken \in 0..Len(wk.batch) /\ wk.batch \in Seq(Frames)
      /\ DOMAIN prog = {"epoch", "accepted", "submitted", "consumed"}
  BY <1>2, PcmAssumption DEF StreamShape, WorkerShape
<1>5. CASE failure \/ ~active
  <2>1. /\ \E res : Return(res)
        /\ UNCHANGED <<ring, prog>>
    BY <1>5 DEF Enqueue
  <2>2. Quiet
    BY <1>1, <1>2, <1>3, <1>4, <2>1, Returning DEF Quiet
  <2> QED BY <2>2, QuietKeeps
<1>6. CASE ~(failure \/ ~active)
  <2>1. /\ samples' = [i \in DOMAIN samples |->
                LET o == (i - (head + count)) % Capacity
                IN IF o < n THEN <<prog.epoch, prog.accepted + o + 1>> ELSE samples[i]]
        /\ count' = count + n /\ head' = head
        /\ prog' = [prog EXCEPT !.accepted = prog.accepted + n]
        /\ \/ Return("limit")
           \/ cl' = [cl EXCEPT !.pc = "signalWake",
                               !.pend = prog.submitted > prog.consumed]
    BY <1>6 DEF Enqueue
  <2>2. n \in 0..(Capacity - count)
    BY <1>4 DEF Lesser
  <2> HIDE DEF n
  <2>3. /\ samples' \in [0..(Capacity - 1) -> Frames]
        /\ \A j \in 0..(Capacity - 1) :
             samples'[Slot(j)] = IF j < count THEN samples[Slot(j)]
                                 ELSE IF j < count + n
                                 THEN <<prog.epoch, prog.accepted + (j - count) + 1>>
                                 ELSE samples[Slot(j)]
    BY <1>2, <2>1, <2>2, EnqueueWrites, Zenon
  <2>4. /\ prog'.epoch = prog.epoch /\ prog'.accepted = prog.accepted + n
        /\ prog'.submitted = prog.submitted /\ prog'.consumed = prog.consumed
        /\ DOMAIN prog' = DOMAIN prog
    BY <1>4, <2>1
  <2>5. /\ CallShape' /\ cl'.lost = cl.lost /\ cl'.pc \notin {"await", "answer"}
        /\ cl'.pc = "idle" /\ cl'.op = "flush" => cl'.res # "ok"
    <3>1. CASE Return("limit")
      BY <1>3, <3>1, Returning
    <3>2. CASE cl' = [cl EXCEPT !.pc = "signalWake",
                                !.pend = prog.submitted > prog.consumed]
      BY <1>3, <3>2 DEF CallShape
    <3> QED BY <2>1, <3>1, <3>2
  <2>6. Orderly' => Orderly
    BY <1>1, <2>5 DEF Orderly
  <2>7. Orderly => control = "none" /\ ~Controlling
    BY <1>1, <1>2 DEF OneControl
  <2>8. StreamShape'
    <3>1. count' \in 0..Capacity /\ prog'.accepted \in Nat
      BY SMTT(60), <1>4, <2>1, <2>2, <2>4
    <3>2. samples' \in [0..(Capacity - 1) -> Frames]
      BY <2>3
    <3> QED BY <1>1, <1>2, <1>4, <2>1, <2>4, <3>1, <3>2 DEF StreamShape
  <2>9. WorkerShape'
    BY <1>1, <1>2, <2>4 DEF WorkerShape
  <2>10. OneControl'
    BY <1>1, <2>6, <2>7 DEF OneControl, Controlling, Clearing
  <2>11. BatchInRing'
    <3> SUFFICES ASSUME Orderly' PROVE BatchInRing'
      BY DEF BatchInRing
    <3>1. wk.gen = prog.epoch => \A i \in 1..Len(wk.batch) :
            wk.batch[i] = samples'[Slot(i - 1)]
      <4> SUFFICES ASSUME wk.gen = prog.epoch, NEW i \in 1..Len(wk.batch)
                   PROVE  wk.batch[i] = samples'[Slot(i - 1)]
        OBVIOUS
      <4> DEFINE j == i - 1
      <4>1. j \in 0..(Capacity - 1) /\ j < count
        BY <1>2, <1>4, <2>6 DEF BatchInRing
      <4>2. wk.batch[i] = samples[Slot(j)]
        BY <1>2, <2>6 DEF BatchInRing
      <4> HIDE DEF j
      <4>3. wk.batch[i] = samples'[Slot(j)]
        BY <2>3, <4>1, <4>2, Zenon
      <4> QED BY <4>3 DEF j
    <3>2. Len(wk.batch) <= count => Len(wk.batch) <= count'
      BY <1>4, <2>1, <2>2
    <3> QED BY <1>1, <1>2, <2>1, <2>4, <2>6, <3>1, <3>2, Zenon DEF BatchInRing, Slot
  <2>12. InOrder'
    <3> SUFFICES ASSUME Trusted' PROVE InOrder'
      BY DEF InOrder
    <3>1. Trusted
      BY <1>1, <2>6 DEF Trusted, ClearPending
    <3>2. /\ \A i \in 1..Len(dev.out) : dev.out[i] = <<prog.epoch, i>>
          /\ \A i \in 1..count :
               samples[Slot(i - 1)] = <<prog.epoch, Len(dev.out) - Taken + i>>
          /\ Len(dev.out) - Taken + count = prog.accepted
      BY <1>2, <3>1 DEF InOrder
    <3>3. Taken' = Taken /\ Taken \in Nat
      BY <1>1, <1>4, <2>4 DEF Taken
    <3>4. \A i \in 1..count' :
            samples'[Slot(i - 1)] = <<prog.epoch, Len(dev.out) - Taken + i>>
      <4> SUFFICES ASSUME NEW i \in 1..count'
                   PROVE  samples'[Slot(i - 1)] = <<prog.epoch, Len(dev.out) - Taken + i>>
        OBVIOUS
      <4> DEFINE j == i - 1
      <4>1. j \in 0..(Capacity - 1) /\ j < count + n /\ i \in Nat /\ j = i - 1
        <5>1. i \in 1..(count + n) /\ count + n \in Nat /\ count + n <= Capacity
          BY SMTT(60), <1>4, <2>1, <2>2
        <5> QED BY <1>4, <5>1
      <4> HIDE DEF j
      <4>2. CASE j < count
        <5>1. i \in 1..count
          BY <1>4, <4>1, <4>2
        <5>2. samples[Slot(j)] = <<prog.epoch, Len(dev.out) - Taken + i>>
          BY <3>2, <4>1, <5>1
        <5> QED BY <2>3, <4>1, <4>2, <5>2, Zenon
      <4>3. CASE ~(j < count)
        <5>1. samples'[Slot(j)] = <<prog.epoch, prog.accepted + (j - count) + 1>>
          BY <2>3, <4>1, <4>3, Zenon
        <5>2. prog.accepted + (j - count) + 1 = Len(dev.out) - Taken + i
          BY <1>4, <3>2, <3>3, <4>1
        <5> QED BY <4>1, <5>1, <5>2
      <4> QED BY <4>2, <4>3
    <3>5. Len(dev.out) - Taken + count' = prog.accepted + n
      BY <1>4, <2>1, <2>2, <3>2, <3>3
    <3> QED BY <1>1, <2>1, <2>4, <3>2, <3>3, <3>4, <3>5, Zenon DEF InOrder, Slot
  <2>13. FlushAnswered' /\ FlushReturned'
    BY <2>5 DEF FlushAnswered, FlushReturned
  <2>14. Progress'
    BY <1>1, <1>2, <2>4, <2>6 DEF Progress
  <2> QED BY <2>5, <2>8, <2>9, <2>10, <2>11, <2>12, <2>13, <2>14 DEF IInv
<1> QED BY <1>5, <1>6

(* When no control is waited for, the worker is not at one.  A ring that   *)
(* is empty then has all of its frames in the endpoint.                    *)
LEMMA EmptyRingIsSent ==
  ASSUME IInv, ~failure, ~cl.lost, cl.pc # "await", count = 0
  PROVE  /\ control = "none" /\ ~Controlling /\ wk.batch = <<>>
         /\ Len(dev.out) = prog.accepted
<1>1. control = "none" /\ ~Controlling
  BY DEF IInv, OneControl, Orderly
<1>2. /\ wk.batch \in Seq(Frames) /\ wk.taken \in 0..Len(wk.batch)
      /\ dev.out \in Seq(Frames) /\ prog.accepted \in Nat
  BY DEF IInv, WorkerShape, StreamShape
<1>3. wk.batch = <<>>
  <2>1. wk.batch # <<>> => Len(wk.batch) <= 0
    BY <1>1 DEF IInv, BatchInRing, Orderly
  <2> QED BY <1>2, <2>1
<1>4. Taken = 0
  BY <1>2, <1>3 DEF Taken
<1>5. Trusted
  BY <1>1 DEF Trusted, Orderly, ClearPending, Controlling
<1>6. Len(dev.out) - 0 + 0 = prog.accepted
  BY <1>4, <1>5 DEF IInv, InOrder
<1> QED BY <1>1, <1>2, <1>3, <1>6

(* A flush of an empty ring returns at once; any other waits.              *)
LEMMA FlushKeeps == IInv /\ Flush => IInv'
<1> SUFFICES ASSUME IInv, Flush PROVE IInv'
  OBVIOUS
<1>1. /\ samples' = samples /\ head' = head /\ count' = count /\ prog' = prog
      /\ dev' = dev /\ wk' = wk /\ cl.pc = "flush"
      /\ failure => failure'
  BY Zenon DEF Flush, ring, Settle
<1>2. /\ StreamShape /\ WorkerShape /\ CallShape /\ OneControl /\ BatchInRing
      /\ InOrder /\ FlushAnswered /\ FlushReturned /\ Progress
  BY DEF IInv
<1>3. StreamShape' /\ WorkerShape'
  BY <1>1, <1>2 DEF StreamShape, WorkerShape
<1>4. dev.played \in dev.played..Len(dev.out)
  BY <1>2 DEF StreamShape
<1>5. CASE /\ cl' = [cl EXCEPT !.pc = "await", !.ctl = "flush"]
           /\ control' = "flush" /\ "done" \notin ev'
  <2>1. CallShape' /\ cl'.pc = "await" /\ cl'.ctl = "flush" /\ cl'.lost = cl.lost
    BY <1>2, <1>5 DEF CallShape
  <2>2. Orderly' => Orderly
    BY <1>1, <2>1 DEF Orderly
  <2>3. Orderly => control = "none" /\ ~Controlling
    BY <1>1, <1>2 DEF OneControl
  <2>4. OneControl'
    BY <1>1, <1>5, <2>1, <2>2, <2>3 DEF OneControl, Controlling, Clearing
  <2>5. BatchInRing'
    BY <1>1, <1>2, <1>5, <2>2, <2>3 DEF BatchInRing, Slot
  <2>6. InOrder'
    BY <1>1, <1>2, <1>5, <2>2, <2>3 DEF InOrder, Trusted, ClearPending, Taken, Slot
  <2>7. FlushAnswered' /\ FlushReturned' /\ Progress'
    BY <1>1, <1>2, <1>5, <2>1, <2>2 DEF FlushAnswered, FlushReturned, Progress
  <2> QED BY <1>3, <2>1, <2>4, <2>5, <2>6, <2>7 DEF IInv
<1>6. CASE Return("ok") /\ ~failure /\ count = 0 /\ UNCHANGED <<control, ev>>
  <2>1. CASE cl.op # "flush"
    <3>1. Quiet
      BY <1>1, <1>2, <1>4, <1>6, <2>1, Returning DEF Quiet, ring
    <3> QED BY <3>1, QuietKeeps
  <2>2. CASE cl.op = "flush"
    <3>1. cl' = [cl EXCEPT !.pc = "idle", !.todo = <<>>, !.res = "ok"]
      BY <1>2, <1>6, <2>2 DEF Return, CallShape
    <3>2. CallShape' /\ cl'.pc = "idle" /\ cl'.lost = cl.lost
      BY <1>2, <3>1 DEF CallShape
    <3>3. Orderly' => Orderly
      BY <1>1, <3>2 DEF Orderly
    <3>4. Orderly => control = "none" /\ ~Controlling
      BY <1>1, <1>2 DEF OneControl
    <3>5. OneControl'
      BY <1>1, <1>6, <3>3, <3>4 DEF OneControl, Controlling, Clearing
    <3>6. BatchInRing' /\ Progress'
      BY <1>1, <1>2, <1>6, <3>3 DEF BatchInRing, Progress, Slot
    <3>7. InOrder'
      BY <1>1, <1>2, <1>6, <3>3 DEF InOrder, Trusted, ClearPending, Taken, Slot
    <3>8. FlushAnswered' /\ FlushReturned'
      BY <1>1, <1>6, <3>2, EmptyRingIsSent DEF FlushAnswered, FlushReturned, Controlling
    <3> QED BY <1>3, <3>2, <3>5, <3>6, <3>7, <3>8 DEF IInv
  <2> QED BY <2>1, <2>2
<1>7. CASE /\ \E res : res # "ok" /\ Return(res)
           /\ \/ UNCHANGED <<control, ev>>
              \/ failure' /\ control' = "flush" /\ ev' = ev \ {"done"}
  <2>1. /\ CallShape' /\ cl'.lost = cl.lost
        /\ cl'.pc \notin {"await", "answer"}
        /\ cl'.pc = "idle" /\ cl'.op = "flush" => cl'.res # "ok"
    BY <1>2, <1>7, Returning
  <2>2. CASE UNCHANGED <<control, ev>>
    <3>1. Quiet
      BY <1>1, <1>4, <2>1, <2>2 DEF Quiet, ring
    <3> QED BY <3>1, QuietKeeps
  <2>3. CASE failure' /\ control' = "flush" /\ ev' = ev \ {"done"}
    <3>1. OneControl' /\ BatchInRing' /\ InOrder' /\ FlushAnswered'
      BY <2>3 DEF OneControl, BatchInRing, InOrder, FlushAnswered, Trusted, Orderly
    <3>2. FlushReturned' /\ Progress'
      BY <1>1, <1>2, <2>1, <2>3 DEF FlushReturned, Progress, Orderly
    <3> QED BY <1>3, <2>1, <3>1, <3>2 DEF IInv
  <2> QED BY <1>7, <2>2, <2>3
<1>8. \/ cl' = [cl EXCEPT !.pc = "await", !.ctl = "flush"]
         /\ control' = "flush" /\ "done" \notin ev'
      \/ Return("ok") /\ ~failure /\ count = 0 /\ UNCHANGED <<control, ev>>
      \/ /\ \E res : res # "ok" /\ Return(res)
         /\ \/ UNCHANGED <<control, ev>>
            \/ failure' /\ control' = "flush" /\ ev' = ev \ {"done"}
  <2>1. CASE failure \/ ~active
    BY <2>1, Zenon DEF Flush
  <2>2. CASE ~(failure \/ ~active) /\ count = 0
    BY <2>2 DEF Flush
  <2>3. CASE ~(failure \/ ~active) /\ count # 0
    <3>1. \/ ev' = (ev \ {"done"}) \cup {"wake"} /\ control' = "flush" /\ Asked("flush")
          \/ Return("error") /\ UNCHANGED <<control, ev>>
          \/ /\ Return("error") /\ failure' = (failure \/ ~FALSE)
             /\ control' = "flush" /\ ev' = ev \ {"done"}
      BY <2>3, Zenon DEF Flush, Settle
    <3>2. CASE ev' = (ev \ {"done"}) \cup {"wake"} /\ control' = "flush" /\ Asked("flush")
      BY <3>2 DEF Asked
    <3>3. CASE Return("error") /\ UNCHANGED <<control, ev>>
      BY <3>3
    <3>4. CASE /\ Return("error") /\ failure' = (failure \/ ~FALSE)
               /\ control' = "flush" /\ ev' = ev \ {"done"}
      BY <3>4, Zenon
    <3> QED BY <3>1, <3>2, <3>3, <3>4, Zenon
  <2> QED BY <2>1, <2>2, <2>3
<1> QED BY <1>5, <1>6, <1>7, <1>8

(* A clear begins an epoch in which nothing was accepted; the endpoint and *)
(* the worker keep what they have until it is carried out.                 *)
LEMMA RequestKeeps == \A what \in {"clear", "gain"} : IInv /\ ControlRequest(what) => IInv'
<1> SUFFICES ASSUME NEW what \in {"clear", "gain"}, IInv, ControlRequest(what) PROVE IInv'
  OBVIOUS
<1> DEFINE Apply ==
             /\ dev' = [dev EXCEPT !.intr = dev.intr \/ TRUE] /\ control' = what
             /\ IF what = "gain" THEN UNCHANGED <<head, count, prog>>
                ELSE /\ head' = 0 /\ count' = 0
                     /\ prog' = [epoch |-> prog.epoch + 1, accepted |-> 0,
                                 submitted |-> 0, consumed |-> 0]
<1>1. /\ samples' = samples /\ wk' = wk /\ cl.pc = what
      /\ failure => failure'
  BY Zenon DEF ControlRequest, Control, Settle
<1>2. /\ StreamShape /\ WorkerShape /\ CallShape /\ OneControl /\ BatchInRing
      /\ InOrder /\ FlushAnswered /\ FlushReturned /\ Progress
  BY DEF IInv
<1>3. cl.op # "flush"
  BY <1>1, <1>2 DEF CallShape
<1>4. Orderly => control = "none" /\ ~Controlling
  BY <1>1, <1>2 DEF OneControl
<1>5. \/ Apply /\ "done" \notin ev' /\ Asked(what)
      \/ /\ Return("error") /\ UNCHANGED <<head, count, prog, control, dev>>
         /\ "done" \in ev' => "done" \in ev
      \/ Apply /\ Return("error") /\ failure'
  <2>1. CASE failure
    BY <2>1 DEF ControlRequest, Control
  <2>2. CASE ~failure
    <3>1. \/ Apply /\ ev' = (ev \ {"done"}) \cup {"wake"} /\ Asked(what)
          \/ /\ Return("error") /\ UNCHANGED <<head, count, prog, control>> /\ UNCHANGED dev
             /\ ev' \in {ev, ev \ {"done"}}
          \/ Apply /\ Return("error") /\ Settle(FALSE)
      BY <2>2, Zenon DEF ControlRequest, Control
    <3> HIDE DEF Apply
    <3>2. CASE Apply /\ ev' = (ev \ {"done"}) \cup {"wake"} /\ Asked(what)
      BY <3>2
    <3>3. CASE /\ Return("error") /\ UNCHANGED <<head, count, prog, control>> /\ UNCHANGED dev
               /\ ev' \in {ev, ev \ {"done"}}
      BY <3>3
    <3>4. CASE Apply /\ Return("error") /\ Settle(FALSE)
      BY <3>4, Zenon DEF Settle
    <3> QED BY <3>1, <3>2, <3>3, <3>4, Zenon
  <2> QED BY <2>1, <2>2
<1>6. ASSUME Apply
      PROVE  /\ StreamShape' /\ WorkerShape'
             /\ dev'.out = dev.out /\ dev'.played = dev.played /\ control' = what
             /\ \/ what = "gain" /\ head' = head /\ count' = count /\ prog' = prog
                \/ /\ what = "clear" /\ count' = 0 /\ prog'.epoch = prog.epoch + 1
                   /\ prog'.accepted = 0 /\ prog'.submitted = 0 /\ prog'.consumed = 0
                   /\ wk.gen < prog.epoch + 1 /\ wk.gen # prog.epoch + 1
  <2>1. /\ DOMAIN dev' = DOMAIN dev /\ dev'.out = dev.out /\ dev'.played = dev.played
    BY <1>2, <1>6 DEF StreamShape
  <2>2. CASE what = "gain"
    BY <1>1, <1>2, <1>6, <2>1, <2>2 DEF StreamShape, WorkerShape
  <2>3. CASE what = "clear"
    <3>1. /\ head' = 0 /\ count' = 0 /\ prog'.epoch = prog.epoch + 1
          /\ prog'.accepted = 0 /\ prog'.submitted = 0 /\ prog'.consumed = 0
          /\ DOMAIN prog' = {"epoch", "accepted", "submitted", "consumed"}
      BY <1>6, <2>3
    <3>2. /\ 0 \in 0..(Capacity - 1) /\ 0 \in 0..Capacity /\ prog.epoch + 1 \in Nat
          /\ wk.gen \in 0..(prog.epoch + 1) /\ wk.gen < prog.epoch + 1
      BY <1>2, PcmAssumption DEF StreamShape, WorkerShape
    <3>3. StreamShape'
      BY <1>1, <1>2, <2>1, <3>1, <3>2 DEF StreamShape
    <3>4. WorkerShape'
      BY <1>1, <1>2, <3>1, <3>2 DEF WorkerShape
    <3>5. control' = "clear" /\ wk.gen # prog.epoch + 1
      BY <1>2, <1>6, <2>3, <3>2 DEF StreamShape, WorkerShape
    <3> QED BY <2>1, <2>3, <3>1, <3>2, <3>3, <3>4, <3>5
  <2> QED BY <2>2, <2>3
<1>7. CASE Apply /\ "done" \notin ev' /\ Asked(what)
  <2> HIDE DEF Apply
  <2>1. /\ CallShape' /\ cl'.pc = "await" /\ cl'.ctl = what /\ cl'.lost = cl.lost
    BY <1>2, <1>3, <1>7 DEF Asked, CallShape
  <2>2. Orderly' => Orderly
    BY <1>1, <2>1 DEF Orderly
  <2>3. OneControl'
    BY <1>1, <1>4, <1>6, <1>7, <2>1, <2>2 DEF OneControl, Controlling, Clearing
  <2>4. BatchInRing'
    BY <1>1, <1>2, <1>6, <1>7, <2>2, <1>4 DEF BatchInRing, Slot
  <2>5. InOrder'
    BY <1>1, <1>2, <1>4, <1>6, <1>7, <2>2 DEF InOrder, Trusted, ClearPending, Taken, Slot
  <2>6. FlushAnswered' /\ FlushReturned'
    BY <2>1 DEF FlushAnswered, FlushReturned
  <2>7. Progress'
    BY SMTT(60), <1>1, <1>2, <1>6, <1>7, <2>2 DEF Progress, StreamShape
  <2> QED BY <1>6, <1>7, <2>1, <2>3, <2>4, <2>5, <2>6, <2>7 DEF IInv
<1>8. CASE /\ Return("error") /\ UNCHANGED <<head, count, prog, control, dev>>
           /\ "done" \in ev' => "done" \in ev
  <2>1. Quiet
    BY <1>1, <1>2, <1>3, <1>8, Returning DEF Quiet, ring, StreamShape
  <2> QED BY <2>1, QuietKeeps
<1>9. CASE Apply /\ Return("error") /\ failure'
  <2> HIDE DEF Apply
  <2>1. /\ CallShape'
        /\ cl'.pc = "idle" /\ cl'.op = "flush" => cl'.res # "ok"
    BY <1>2, <1>3, <1>9, Returning
  <2>2. OneControl' /\ BatchInRing' /\ InOrder' /\ FlushAnswered'
    BY <1>9 DEF OneControl, BatchInRing, InOrder, FlushAnswered, Trusted, Orderly
  <2>3. FlushReturned' /\ Progress'
    BY <1>1, <1>2, <1>6, <1>9, <2>1 DEF FlushReturned, Progress, Orderly
  <2> QED BY <1>6, <1>9, <2>1, <2>2, <2>3 DEF IInv
<1> QED BY <1>5, <1>7, <1>8, <1>9

(* The answer is taken, or the wait ends without one.                      *)
LEMMA AwaitKeeps == IInv /\ Await => IInv'
<1> SUFFICES ASSUME IInv, Await PROVE IInv'
  OBVIOUS
<1>1. /\ samples' = samples /\ head' = head /\ count' = count /\ prog' = prog
      /\ failure' = failure /\ control' = control /\ dev' = dev /\ wk' = wk
      /\ cl.pc = "await"
  BY DEF Await, ring, flags
<1>2. /\ StreamShape /\ WorkerShape /\ CallShape /\ OneControl /\ BatchInRing
      /\ InOrder /\ FlushAnswered /\ FlushReturned /\ Progress
  BY DEF IInv
<1>3. StreamShape' /\ WorkerShape'
  BY <1>1, <1>2 DEF StreamShape, WorkerShape
<1>4. CASE "done" \in ev /\ ev' = ev \ {"done"} /\ Step("answer")
  <2>1. /\ CallShape' /\ cl'.pc = "answer" /\ cl'.ctl = cl.ctl /\ cl'.lost = cl.lost
    BY <1>1, <1>2, <1>4 DEF Step, CallShape
  <2>2. Orderly' <=> Orderly
    BY <1>1, <2>1 DEF Orderly
  <2>3. Orderly => control = "none" /\ ~Controlling
    BY <1>2, <1>4 DEF OneControl
  <2>4. OneControl'
    BY <1>1, <2>2, <2>3 DEF OneControl, Controlling, Clearing
  <2>5. BatchInRing' /\ Progress'
    BY <1>1, <1>2, <2>2 DEF BatchInRing, Progress, Slot
  <2>6. InOrder'
    BY <1>1, <1>2, <2>2 DEF InOrder, Trusted, ClearPending, Taken, Slot
  <2>7. FlushAnswered' /\ FlushReturned'
    BY <1>1, <1>2, <1>4, <2>1, <2>2 DEF FlushAnswered, FlushReturned
  <2> QED BY <1>3, <2>1, <2>4, <2>5, <2>6, <2>7 DEF IInv
<1>5. CASE cl' = [cl EXCEPT !.pc = "abandon", !.lost = TRUE]
  <2>1. CallShape' /\ cl'.lost /\ cl'.pc = "abandon"
    BY <1>1, <1>2, <1>5 DEF CallShape
  <2>2. OneControl' /\ BatchInRing' /\ InOrder' /\ FlushAnswered' /\ FlushReturned'
    BY <2>1 DEF OneControl, BatchInRing, InOrder, FlushAnswered, FlushReturned, Trusted,
                Orderly
  <2>3. Progress'
    BY <1>1, <1>2, <2>1 DEF Progress, Orderly
  <2> QED BY <1>3, <2>1, <2>2, <2>3 DEF IInv
<1> QED BY <1>4, <1>5 DEF Await

(* An OK to a flush comes with an empty ring.                              *)
LEMMA AnswerKeeps == IInv /\ Answer => IInv'
<1> SUFFICES ASSUME IInv, Answer PROVE IInv'
  OBVIOUS
<1>1. /\ samples' = samples /\ head' = head /\ count' = count /\ prog' = prog
      /\ control' = control /\ dev' = dev /\ wk' = wk
      /\ cl.pc \in {"abandon", "answer"}
      /\ failure => failure'
  BY Zenon DEF Answer, ring, Settle
<1>a. "done" \in ev' => "done" \in ev
  <2>1. ev' \in {ev, ev \cup {"space"}}
    BY Zenon DEF Answer
  <2> QED BY <2>1
<1>2. /\ StreamShape /\ WorkerShape /\ CallShape /\ OneControl /\ BatchInRing
      /\ InOrder /\ FlushAnswered /\ FlushReturned /\ Progress
  BY DEF IInv
<1>3. dev.played \in dev.played..Len(dev.out)
  BY <1>2 DEF StreamShape
<1>4. Return("error") \/ (Return("ok") /\ ~failure /\ cl.pc = "answer")
  BY Zenon DEF Answer
<1>5. CASE Return("error") \/ (Return("ok") /\ cl.op # "flush")
  <2>1. Quiet
    BY <1>1, <1>a, <1>2, <1>3, <1>5, Returning DEF Quiet, ring
  <2> QED BY <2>1, QuietKeeps
<1>6. CASE Return("ok") /\ ~failure /\ cl.pc = "answer" /\ cl.op = "flush"
  <2>1. cl' = [cl EXCEPT !.pc = "idle", !.todo = <<>>, !.res = "ok"]
    BY <1>2, <1>6 DEF Return, CallShape
  <2>2. CallShape' /\ cl'.pc = "idle" /\ cl'.lost = cl.lost
    BY <1>2, <2>1 DEF CallShape
  <2>3. Orderly' => Orderly
    BY <1>1, <2>2 DEF Orderly
  <2>4. Orderly => control = "none" /\ ~Controlling
    BY <1>1, <1>2 DEF OneControl
  <2>5. OneControl'
    BY <1>1, <1>a, <2>3, <2>4 DEF OneControl, Controlling, Clearing
  <2>6. BatchInRing' /\ Progress'
    BY <1>1, <1>2, <2>3 DEF BatchInRing, Progress, Slot
  <2>7. InOrder'
    BY <1>1, <1>2, <2>3 DEF InOrder, Trusted, ClearPending, Taken, Slot
  <2>8. ~cl.lost => count = 0
    BY <1>2, <1>6 DEF FlushAnswered, CallShape, Orderly
  <2>9. FlushAnswered' /\ FlushReturned'
    BY <1>1, <1>6, <2>2, <2>8, EmptyRingIsSent DEF FlushAnswered, FlushReturned, Controlling
  <2>10. StreamShape' /\ WorkerShape'
    BY <1>1, <1>2 DEF StreamShape, WorkerShape
  <2> QED BY <2>2, <2>5, <2>6, <2>7, <2>9, <2>10 DEF IInv
<1> QED BY <1>4, <1>5, <1>6

(***************************************************************************)
(* The theorems.                                                           *)
(***************************************************************************)

(* A frame is in the ring, in the batch or in the endpoint, where the      *)
(* invariant says, after every step of the owner, of the worker, of the    *)
(* endpoint and of a thread that cancels waits.                            *)
THEOREM Inductive == Spec => []IInv
<1>1. IInv /\ [Next]_vars => IInv'
  <2> SUFFICES ASSUME IInv, [Next]_vars PROVE IInv'
    OBVIOUS
  <2>1. CASE UNCHANGED vars
    <3>1. /\ samples' = samples /\ head' = head /\ count' = count /\ prog' = prog
          /\ failure' = failure /\ control' = control /\ ev' = ev /\ dev' = dev
          /\ wk' = wk /\ cl' = cl
      BY <2>1 DEF vars, ring, flags
    <3>2. CallShape'
      BY <3>1 DEF IInv, CallShape
    <3>3. Quiet
      BY <3>1, <3>2 DEF Quiet, ring, IInv, StreamShape
    <3> QED BY <3>3, QuietKeeps
  <2>2. CASE Period
    BY <2>2, PeriodQuiet, QuietKeeps
  <2>3. CASE Worker
    BY <2>3, TopKeeps, ControlKeeps, ControlDoneKeeps, ProgressLocal, IdleLocal,
       WritableLocal, SubmitKeeps, ObserveLocal, NoteKeeps, AdvanceKeeps, LocalKeeps
       DEF Worker
  <2>4. CASE \E k \in 1..plan.frames : Enqueue(k)
    <3>1. PICK k \in 1..plan.frames : Enqueue(k)
      BY <2>4
    <3>2. k \in Nat \ {0}
      OBVIOUS
    <3> QED BY <3>1, <3>2, EnqueueKeeps
  <2>5. CASE Plain
    BY <2>5, PlainQuiet, QuietKeeps
  <2>6. CASE Flush \/ Await \/ Answer \/ \E what \in {"clear", "gain"} : ControlRequest(what)
    BY <2>6, FlushKeeps, AwaitKeeps, AnswerKeeps, RequestKeeps
  <2>7. CASE CancelWait
    BY <2>7, CancelWaitQuiet, QuietKeeps
  <2>8. CASE \E op \in Calls : Call(op)
    BY <2>8, CallQuiet, QuietKeeps
  <2> QED BY <2>1, <2>2, <2>3, <2>4, <2>5, <2>6, <2>7, <2>8 DEF Next, Owner, Plain
<1> QED BY <1>1, Initial, PTL DEF Spec

(* Every frame that enqueue accepted reaches the endpoint once and in the  *)
(* order of acceptance, across clears, interrupted submissions and an      *)
(* endpoint that stalls; once a flush has returned OK the endpoint has     *)
(* them all.                                                               *)
THEOREM FramesInOrder == Spec => []StreamInOrder
<1>1. IInv => StreamInOrder
  <2> SUFFICES ASSUME IInv PROVE StreamInOrder
    OBVIOUS
  <2>1. Sound /\ ~ClearPending => Trusted
    BY DEF Sound, Trusted, Orderly
  <2> QED BY <2>1 DEF IInv, InOrder, FlushReturned, Taken, StreamInOrder
<1> QED BY <1>1, Inductive, PTL

(* The numbers the worker reads from the endpoint without the lock never   *)
(* contradict the ones noted under it, so that observe_progress never      *)
(* fails a sound stream.                                                   *)
THEOREM ProgressIsConsistent == Spec => []NeverContradicted
<1>1. IInv => NeverContradicted
  <2> SUFFICES ASSUME IInv, Sound, wk.pc = "note", wk.gen = prog.epoch PROVE ~Contradicts
    BY DEF NeverContradicted
  <2>1. Orderly /\ control # "clear" /\ Trusted
    BY DEF IInv, Sound, Orderly, OneControl, Trusted, ClearPending, StreamShape
  <2>2. /\ wk.sub = Len(dev.out) /\ wk.con \in 0..dev.played /\ prog.consumed <= wk.con
        /\ prog.submitted <= Len(dev.out) /\ dev.played \in 0..Len(dev.out)
        /\ dev.out \in Seq(Frames) /\ wk.batch \in Seq(Frames)
        /\ prog.accepted \in Nat /\ prog.submitted \in Nat /\ prog.consumed \in Nat
    BY <2>1 DEF IInv, Progress, StreamShape, WorkerShape
  <2>3. /\ Len(dev.out) - wk.taken + count = prog.accepted
        /\ wk.taken \in 0..Len(wk.batch) /\ Len(wk.batch) <= count /\ count \in Nat
    BY <2>1 DEF IInv, InOrder, Taken, WorkerShape, BatchInRing, StreamShape
  <2>4. Len(dev.out) \in Nat /\ Len(wk.batch) \in Nat
    BY <2>2
  <2>5. Len(dev.out) <= prog.accepted
    BY <2>2, <2>3, <2>4
  <2>6. wk.con <= wk.sub
    BY <2>2, <2>4
  <2> QED BY <2>2, <2>4, <2>5, <2>6 DEF Contradicts
<1> QED BY <1>1, Inductive, PTL
=============================================================================
