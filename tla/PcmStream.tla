------------------------------ MODULE PcmStream ------------------------------
(***************************************************************************)
(* The PCM output stream of src/lib/audio/pcm/stream.c: a producer's ring  *)
(* of frames, the worker that moves it to the native endpoint in batches,  *)
(* the synchronous controls (flush, clear, gain, activation, destruction)  *)
(* and a second thread that may cancel a wait.                             *)
(*                                                                         *)
(* A section under stream->lock is one step; waits, native calls and       *)
(* signals outside the lock are steps of their own.  The endpoint          *)
(* (win32/stream.c) is its buffer, its period event and the interruption.  *)
(***************************************************************************)
EXTENDS Integers, Sequences

CONSTANTS
  Capacity,   \* AUDIO_PCM_STREAM_QUEUE_CAPACITY
  Batch,      \* AUDIO_PCM_STREAM_PLAY_BATCH
  Device,     \* frames the endpoint's buffer holds
  Plans       \* what the callers may do: calls of the owner, how many, the
              \* frames of one submission, cancelled waits, native failures

Calls == {"enqueue", "wait", "flush", "clear", "gain", "off", "on", "notify",
          "destroy"}

ASSUME PcmAssumption ==
  /\ Capacity \in Nat \ {0} /\ Batch \in Nat \ {0} /\ Device \in Nat \ {0}
  /\ Plans \subseteq [calls : SUBSET Calls, count : Nat, frames : Nat \ {0},
                      cancels : Nat, failures : Nat]

VARIABLES
  samples, head, count,  \* the ring
  prog,       \* progress: epoch and the accepted, submitted, consumed frames
  active, failure, control, waitCancelled,
  cancelled,  \* the worker task's cancellation
  ev,         \* the auto-reset events that are signalled: wake, space, done
  dev,        \* the endpoint: frames it took since its reset, how many it
              \* played, its period event, its interruption
  wk,         \* the worker
  cl,         \* the owner's call
  other,      \* the thread that cancels waits
  left,       \* calls, cancelled waits and native failures still to come
  plan

ring == <<samples, head, count>>
flags == <<active, failure, control, waitCancelled, cancelled>>
vars == <<ring, prog, flags, ev, dev, wk, cl, other, left, plan>>

(* The worker at pc with its locals as a turn of its loop begins.          *)
At(pc) == [pc |-> pc, gen |-> 0, batch |-> <<>>, taken |-> 0, ctl |-> "none",
           status |-> "ok", sub |-> 0, con |-> 0]

(* lib_audio_pcm_stream_create has returned.                               *)
Init ==
  /\ samples = [i \in 0..(Capacity - 1) |-> <<0, 0>>] /\ head = 0 /\ count = 0
  /\ prog = [epoch |-> 0, accepted |-> 0, submitted |-> 0, consumed |-> 0]
  /\ active = TRUE /\ failure = FALSE /\ control = "none"
  /\ waitCancelled = FALSE /\ cancelled = FALSE /\ ev = {}
  /\ dev = [out |-> <<>>, played |-> 0, ready |-> FALSE, intr |-> FALSE]
  /\ wk = At("top")
  /\ cl = [pc |-> "idle", op |-> "none", todo |-> <<>>, res |-> "none",
           ctl |-> "none", pend |-> FALSE, lost |-> FALSE]
  /\ other = "idle" /\ plan \in Plans
  /\ left = [calls |-> plan.count, cancels |-> plan.cancels,
             failures |-> plan.failures]

Fault == left.failures > 0 /\ left' = [left EXCEPT !.failures = @ - 1]
NoFault == UNCHANGED left

(* audio_pcm_stream_fail_locked with the cancellation notify_locked asks   *)
(* for, unless ok; the sections below leave the two flags to it.           *)
Settle(ok) == /\ failure' = (failure \/ ~ok)
              /\ cancelled' = (cancelled \/ failure')

Lesser(a, b) == IF a < b THEN a ELSE b
Slot(i) == (head + i) % Capacity
Padding == Len(dev.out) - dev.played

(***************************************************************************)
(* The endpoint.                                                           *)
(***************************************************************************)

(* One period: a frame is played if there is one, and the event is set.    *)
Period ==
  /\ wk.pc # "gone"
  /\ Padding > 0 \/ ~dev.ready
  /\ dev' = [dev EXCEPT !.played = Lesser(@ + 1, Len(dev.out)), !.ready = TRUE]
  /\ UNCHANGED <<ring, prog, flags, ev, wk, cl, other, left>>

(* audio_pcm_stream_wait_event: the period event goes before the           *)
(* interruption; both are consumed.                                        *)
WaitReady == dev.ready /\ dev' = [dev EXCEPT !.ready = FALSE] /\ NoFault
WaitInterrupted ==
  ~dev.ready /\ dev.intr /\ dev' = [dev EXCEPT !.intr = FALSE] /\ NoFault
WaitFails == Fault /\ UNCHANGED dev

(***************************************************************************)
(* The worker.                                                             *)
(***************************************************************************)

Goto(pc) == wk' = IF pc \in {"top", "gone"} THEN At(pc) ELSE [wk EXCEPT !.pc = pc]
LeaveOr(pc) == Goto(IF cancelled THEN "gone" ELSE pc)

(* The section at the top of the loop: a control first, then a batch, then *)
(* the endpoint's progress, then nothing to do.                            *)
WorkerTop ==
  /\ wk.pc = "top"
  /\ LET w == [wk EXCEPT !.gen = prog.epoch]
         n == Lesser(count, Batch)
         pending == ~failure /\ prog.submitted > prog.consumed
     IN IF cancelled THEN Goto("gone") /\ UNCHANGED control
        ELSE IF control \in {"clear", "gain"}
        THEN /\ wk' = [w EXCEPT !.pc = "control", !.ctl = control]
             /\ control' = "none"
        ELSE /\ wk' = IF ~failure /\ active /\ count # 0
                      THEN [w EXCEPT !.pc = "writable",
                                     !.batch = [i \in 1..n |-> samples[Slot(i - 1)]]]
                      ELSE [w EXCEPT !.pc = IF pending THEN "progress" ELSE "idle"]
             /\ UNCHANGED control
  /\ UNCHANGED <<ring, prog, active, failure, waitCancelled, cancelled, ev, dev,
                 cl, other, left>>

(* The platform's clear or set_gain; clear may fail after any of its parts.*)
WorkerControl ==
  /\ wk.pc = "control"
  /\ LET reset == [dev EXCEPT !.out = <<>>, !.played = 0, !.intr = FALSE,
                              !.ready = FALSE]
     IN \/ /\ dev' = IF wk.ctl = "clear" THEN reset ELSE dev
           /\ Goto("controlDone") /\ NoFault
        \/ /\ Fault /\ wk.ctl = "clear"
           /\ dev' \in {dev, [dev EXCEPT !.intr = FALSE], reset}
           /\ wk' = [wk EXCEPT !.pc = "controlDone", !.status = "error"]
  /\ UNCHANGED <<ring, prog, flags, ev, cl, other>>

(* The sink may fail, and so may the signal.                               *)
WorkerControlDone ==
  /\ wk.pc = "controlDone" /\ Goto("top")
  /\ \/ Settle(wk.status = "ok") /\ ev' = ev \cup {"done"} /\ NoFault
     \/ Settle(FALSE) /\ ev' \in {ev, ev \cup {"done"}} /\ Fault
  /\ UNCHANGED <<ring, prog, active, control, waitCancelled, dev, cl, other>>

WorkerProgress ==
  /\ wk.pc = "progress"
  /\ \/ WaitReady /\ LeaveOr("observe") /\ Settle(TRUE)
     \/ WaitInterrupted /\ LeaveOr("top") /\ Settle(TRUE)
     \/ WaitFails /\ LeaveOr("top") /\ Settle(cancelled)
  /\ UNCHANGED <<ring, prog, active, control, waitCancelled, ev, cl, other>>

WorkerIdle ==
  /\ wk.pc = "idle"
  /\ \/ cancelled /\ Goto("gone") /\ NoFault /\ Settle(TRUE) /\ UNCHANGED ev
     \/ /\ ~cancelled /\ "wake" \in ev /\ ev' = ev \ {"wake"}
        /\ Goto("top") /\ NoFault /\ Settle(TRUE)
     \/ Fault /\ Goto("gone") /\ Settle(FALSE) /\ UNCHANGED ev
  /\ UNCHANGED <<ring, prog, active, control, waitCancelled, dev, cl, other>>

(* audio_pcm_stream_platform_wait_writable.                                *)
WorkerWritable ==
  /\ wk.pc = "writable"
  /\ \/ Padding < Device /\ LeaveOr("submit") /\ NoFault /\ UNCHANGED dev
     \/ Padding = Device /\ WaitReady /\ UNCHANGED wk
     \/ Padding = Device /\ WaitInterrupted /\ LeaveOr("top")
     \/ /\ WaitFails
        /\ wk' = IF cancelled THEN At("gone")
                 ELSE [wk EXCEPT !.pc = "advance", !.status = "error"]
  /\ UNCHANGED <<ring, prog, flags, ev, cl, other>>

(* audio_pcm_stream_platform_enqueue: it may stop part of the way, at an   *)
(* interruption or at an error, with the frames taken so far.              *)
WorkerSubmit ==
  /\ wk.pc = "submit"
  /\ LET rest == Len(wk.batch) - wk.taken
         n == Lesser(Device - Padding, rest)
     IN \/ rest = 0 /\ Goto("observe") /\ NoFault /\ UNCHANGED dev
        \/ /\ n > 0 /\ NoFault
           /\ dev' = [dev EXCEPT !.out = @ \o SubSeq(wk.batch, wk.taken + 1,
                                                     wk.taken + n)]
           /\ wk' = [wk EXCEPT !.taken = @ + n]
        \/ rest > 0 /\ n = 0 /\ WaitReady /\ UNCHANGED wk
        \/ /\ rest > 0 /\ n = 0 /\ WaitInterrupted
           /\ wk' = [wk EXCEPT !.pc = "observe", !.status = "limit"]
        \/ /\ rest > 0 /\ WaitFails
           /\ wk' = [wk EXCEPT !.pc = "advance", !.status = "error"]
  /\ UNCHANGED <<ring, prog, flags, ev, cl, other>>

(* audio_pcm_stream_observe_progress reads the endpoint without the lock   *)
(* and notes the numbers under it, if the epoch is still the same.         *)
Following == IF Len(wk.batch) = 0 THEN "top" ELSE "advance"
WorkerObserve ==
  /\ wk.pc = "observe" /\ NoFault
  /\ wk' = [wk EXCEPT !.pc = "note", !.sub = Len(dev.out), !.con = dev.played]
  /\ UNCHANGED <<ring, prog, flags, ev, dev, cl, other>>

(* Mutant: numbers read before a clear are noted after it.                 *)
WorkerNoteAnyEpoch ==
  /\ wk.pc = "note" /\ Goto(Following)
  /\ prog' = [prog EXCEPT !.submitted = wk.sub, !.consumed = wk.con]
  /\ Settle(TRUE) /\ NoFault
  /\ UNCHANGED <<ring, active, control, waitCancelled, ev, dev, cl, other>>

Contradicts == \/ wk.sub > prog.accepted \/ wk.sub < prog.submitted
               \/ wk.con > wk.sub \/ wk.con < prog.consumed
WorkerNote ==
  /\ wk.pc = "note" /\ Goto(Following)
  /\ IF prog.epoch # wk.gen \/ failure
     THEN UNCHANGED prog /\ Settle(TRUE) /\ NoFault
     ELSE \/ /\ Settle(~Contradicts) /\ NoFault
             /\ prog' = IF Contradicts THEN prog
                        ELSE [prog EXCEPT !.submitted = wk.sub, !.consumed = wk.con]
          \/ /\ Settle(FALSE) /\ Fault   \* the endpoint's query, or the sink
             /\ prog' \in {prog, [prog EXCEPT !.submitted = wk.sub,
                                              !.consumed = wk.con]}
  /\ UNCHANGED <<ring, active, control, waitCancelled, ev, dev, cl, other>>

(* The section after a submission: what was taken leaves the ring, a flush *)
(* that finds it empty is answered, and space is announced.                *)
Advance(n) ==
  /\ wk.pc = "advance" /\ Goto("top")
  /\ LET moved == prog.epoch = wk.gen /\ count >= n
         left2 == IF moved THEN count - n ELSE count
         broken == failure \/ wk.status = "error"
         answer == control = "flush" /\ (broken \/ left2 = 0)
         done == IF answer THEN {"done"} ELSE {}
         space == IF wk.taken # 0 \/ broken THEN {"space"} ELSE {}
     IN /\ count' = left2
        /\ head' = IF moved THEN Slot(n) ELSE head
        /\ control' = IF answer THEN "none" ELSE control
        /\ \/ Settle(~broken) /\ ev' = ev \cup done \cup space /\ NoFault
           \/ Fault /\ Settle(FALSE) /\ answer /\ ev' = ev \cup {"space"}
           \/ Fault /\ Settle(FALSE) /\ space # {} /\ ev' = ev \cup done
  /\ UNCHANGED <<samples, prog, active, waitCancelled, dev, cl, other>>

(* Mutant: an interrupted batch is dropped.                                *)
WorkerAdvanceWhole == Advance(Len(wk.batch))

WorkerAdvance == Advance(wk.taken)

Worker ==
  \/ WorkerTop \/ WorkerControl \/ WorkerControlDone \/ WorkerProgress
  \/ WorkerIdle \/ WorkerWritable \/ WorkerSubmit \/ WorkerObserve
  \/ WorkerNote \/ WorkerAdvance

(***************************************************************************)
(* The owner's calls.                                                      *)
(***************************************************************************)

Step(pc) == cl' = [cl EXCEPT !.pc = pc]
Asked(what) == cl' = [cl EXCEPT !.pc = "await", !.ctl = what]
(* A call returns; set_active(FALSE) goes on after an OK of its parts.     *)
Return(res) ==
  cl' = IF res = "ok" /\ cl.todo # <<>>
        THEN [cl EXCEPT !.pc = Head(cl.todo), !.todo = Tail(@)]
        ELSE [cl EXCEPT !.pc = "idle", !.todo = <<>>, !.res = res]

Call(op) ==
  /\ cl.pc = "idle" /\ left.calls > 0 /\ op \in plan.calls
  /\ left' = [left EXCEPT !.calls = @ - 1]
  /\ cl' = [cl EXCEPT !.pc = op, !.op = op, !.res = "none"]
  /\ UNCHANGED <<ring, prog, flags, ev, dev, wk, other>>

(* lib_audio_pcm_stream_enqueue: the section, then the two signals.  The   *)
(* n-th frame of an epoch is <<epoch, n>>.                                 *)
Enqueue(k) ==
  /\ cl.pc = "enqueue"
  /\ LET n == Lesser(Capacity - count, k)
     IN IF failure \/ ~active
        THEN Return(IF failure THEN "error" ELSE "state") /\ UNCHANGED <<ring, prog>>
        ELSE /\ samples' = [i \in DOMAIN samples |->
                  LET o == (i - (head + count)) % Capacity
                  IN IF o < n THEN <<prog.epoch, prog.accepted + o + 1>>
                     ELSE samples[i]]
             /\ count' = count + n
             /\ prog' = [prog EXCEPT !.accepted = @ + n]
             /\ IF n = 0 THEN Return("limit")
                ELSE cl' = [cl EXCEPT !.pc = "signalWake",
                              !.pend = prog.submitted > prog.consumed]
             /\ UNCHANGED head
  /\ UNCHANGED <<flags, ev, dev, wk, other, left>>

(* Mutant: an idle worker is not woken.                                    *)
SignalWakeWhenPending ==
  /\ cl.pc = "signalWake" /\ NoFault /\ Settle(TRUE)
  /\ ev' = IF cl.pend THEN ev \cup {"wake"} ELSE ev
  /\ IF cl.pend THEN Step("interrupt") ELSE Return("ok")
  /\ UNCHANGED <<ring, prog, active, control, waitCancelled, dev, wk, other>>

SignalWake ==
  /\ cl.pc = "signalWake"
  /\ \/ /\ ev' = ev \cup {"wake"} /\ NoFault /\ Settle(TRUE)
        /\ IF cl.pend THEN Step("interrupt") ELSE Return("ok")
     \/ Fault /\ Settle(FALSE) /\ Return("error") /\ UNCHANGED ev
  /\ UNCHANGED <<ring, prog, active, control, waitCancelled, dev, wk, other>>

Interrupt ==
  /\ cl.pc = "interrupt"
  /\ \/ dev' = [dev EXCEPT !.intr = TRUE] /\ NoFault /\ Settle(TRUE) /\ Return("ok")
     \/ Fault /\ Settle(FALSE) /\ Return("error") /\ UNCHANGED dev
  /\ UNCHANGED <<ring, prog, active, control, waitCancelled, ev, wk, other>>

(* lib_audio_pcm_stream_wait_writable, one turn of its loop at a time.     *)
WaitTop ==
  /\ cl.pc = "wait" /\ waitCancelled' = FALSE
  /\ IF waitCancelled THEN Return("state") ELSE Step("waitCheck")
  /\ UNCHANGED <<ring, prog, active, failure, control, cancelled, ev, dev, wk,
                 other, left>>

WaitCheck ==
  /\ cl.pc = "waitCheck"
  /\ IF failure THEN Return("error") ELSE IF ~active THEN Return("state")
     ELSE IF count < Capacity THEN Return("ok") ELSE Step("waitSpace")
  /\ UNCHANGED <<ring, prog, flags, ev, dev, wk, other, left>>

WaitSpace ==
  /\ cl.pc = "waitSpace"
  /\ \/ cancelled /\ Return("error") /\ NoFault /\ UNCHANGED ev
     \/ /\ ~cancelled /\ "space" \in ev /\ ev' = ev \ {"space"}
        /\ Step("wait") /\ NoFault
     \/ Fault /\ Return("error") /\ UNCHANGED ev
  /\ UNCHANGED <<ring, prog, flags, dev, wk, other>>

(* lib_audio_pcm_stream_flush up to its wait.                              *)
Flush ==
  /\ cl.pc = "flush"
  /\ IF failure \/ ~active \/ count = 0
     THEN /\ Return(IF failure THEN "error" ELSE IF ~active THEN "state" ELSE "ok")
          /\ NoFault /\ Settle(TRUE) /\ UNCHANGED <<control, ev>>
     ELSE \/ /\ ev' = (ev \ {"done"}) \cup {"wake"} /\ control' = "flush"
             /\ Asked("flush") /\ NoFault /\ Settle(TRUE)
          \/ /\ Fault /\ Return("error") /\ Settle(TRUE)
             /\ UNCHANGED <<control, ev>>
          \/ /\ Fault /\ Return("error") /\ Settle(FALSE)
             /\ control' = "flush" /\ ev' = ev \ {"done"}
  /\ UNCHANGED <<ring, prog, active, waitCancelled, dev, wk, other>>

(* audio_pcm_stream_control_request up to its wait.                        *)
Control(what, interrupt) ==
  /\ cl.pc = what
  /\ LET Apply ==
           /\ dev' = [dev EXCEPT !.intr = @ \/ interrupt] /\ control' = what
           /\ IF what = "gain" THEN UNCHANGED <<head, count, prog>>
              ELSE /\ head' = 0 /\ count' = 0
                   /\ prog' = [epoch |-> prog.epoch + 1, accepted |-> 0,
                               submitted |-> 0, consumed |-> 0]
         Refuse == Return("error") /\ UNCHANGED <<head, count, prog, control>>
     IN IF failure
        THEN Refuse /\ NoFault /\ Settle(TRUE) /\ UNCHANGED <<ev, dev>>
        ELSE \/ /\ Apply /\ ev' = (ev \ {"done"}) \cup {"wake"} /\ Asked(what)
                /\ NoFault /\ Settle(TRUE)
             \/ /\ Fault /\ Refuse /\ Settle(TRUE) /\ UNCHANGED dev
                /\ ev' \in {ev, ev \ {"done"}}
             \/ /\ Fault /\ Apply /\ ev' = ev \ {"done"} /\ Return("error")
                /\ Settle(FALSE)
  /\ UNCHANGED <<samples, active, waitCancelled, wk, other>>

(* Mutant: the endpoint's wait is not interrupted.                         *)
ControlUnseen(what) == Control(what, FALSE)

ControlRequest(what) == Control(what, TRUE)

(* The wait for control_done; cl.lost is history: it ended without the     *)
(* worker's answer.                                                        *)
Await ==
  /\ cl.pc = "await"
  /\ \/ ~cancelled /\ "done" \in ev /\ ev' = ev \ {"done"} /\ Step("answer") /\ NoFault
     \/ /\ (cancelled /\ NoFault) \/ Fault
        /\ cl' = [cl EXCEPT !.pc = "abandon", !.lost = TRUE] /\ UNCHANGED ev
  /\ UNCHANGED <<ring, prog, flags, dev, wk, other>>

Answer ==
  /\ cl.pc \in {"abandon", "answer"}
  /\ IF failure \/ cl.pc = "abandon"
     THEN Return("error") /\ NoFault /\ Settle(TRUE) /\ UNCHANGED ev
     ELSE \/ /\ Return("ok") /\ NoFault /\ Settle(TRUE)
             /\ ev' = IF cl.ctl = "clear" THEN ev \cup {"space"} ELSE ev
          \/ cl.ctl = "clear" /\ Fault /\ Settle(FALSE) /\ Return("error") /\ UNCHANGED ev
  /\ UNCHANGED <<ring, prog, active, control, waitCancelled, dev, wk, other>>

(* lib_audio_pcm_stream_set_active.                                        *)
SetActive ==
  /\ \/ /\ cl.pc = "off" /\ UNCHANGED active
        /\ IF failure \/ ~active
           THEN Return(IF failure THEN "error" ELSE "ok")
           ELSE cl' = [cl EXCEPT !.pc = "flush", !.todo = <<"clear", "inactive">>]
     \/ cl.pc = "inactive" /\ active' = FALSE /\ Return("ok")
     \/ /\ cl.pc = "on" /\ active' = (active \/ ~failure)
        /\ Return(IF failure THEN "error" ELSE "ok")
  /\ UNCHANGED <<ring, prog, failure, control, waitCancelled, cancelled, ev, dev,
                 wk, other, left>>

(* lib_audio_pcm_stream_set_notify: the new sink is called at once.        *)
SetNotify ==
  /\ cl.pc = "notify"
  /\ \/ NoFault /\ Settle(TRUE) /\ Return(IF failure THEN "error" ELSE "ok")
     \/ Fault /\ Settle(FALSE) /\ Return("error")
  /\ UNCHANGED <<ring, prog, active, control, waitCancelled, ev, dev, wk, other>>

(* lib_audio_pcm_stream_destroy.                                           *)
Destroy ==
  /\ cl.pc = "destroy" /\ waitCancelled' = TRUE /\ Step("stop")
  /\ \/ ev' = ev \cup {"space"} /\ NoFault /\ Settle(TRUE)
     \/ Fault /\ Settle(FALSE) /\ UNCHANGED ev
  /\ UNCHANGED <<ring, prog, active, control, dev, wk, other>>

DestroyStop ==
  /\ \/ /\ cl.pc = "stop" /\ cancelled' = TRUE /\ Step("stopDevice") /\ NoFault
        /\ UNCHANGED <<ev, dev>>
     \/ /\ cl.pc = "stopDevice" /\ dev' = [dev EXCEPT !.intr = TRUE]
        /\ Step("stopWake") /\ NoFault /\ UNCHANGED <<cancelled, ev>>
     \/ /\ cl.pc \in {"stop", "stopDevice"} /\ Fault /\ Return("error")
        /\ UNCHANGED <<cancelled, ev, dev>>
     \/ /\ cl.pc = "stopWake" /\ Step("join")
        /\ \/ ev' = ev \cup {"wake"} /\ NoFault
           \/ Fault /\ UNCHANGED ev
        /\ UNCHANGED <<cancelled, dev>>
  /\ UNCHANGED <<ring, prog, active, failure, control, waitCancelled, wk, other>>

DestroyJoin ==
  /\ cl.pc = "join" /\ wk.pc = "gone" /\ Step("over")
  /\ UNCHANGED <<ring, prog, flags, ev, dev, wk, other, left>>

Owner ==
  \/ \E k \in 1..plan.frames : Enqueue(k)
  \/ SignalWake \/ Interrupt \/ WaitTop \/ WaitCheck \/ WaitSpace \/ Flush
  \/ \E what \in {"clear", "gain"} : ControlRequest(what)
  \/ Await \/ Answer \/ SetActive \/ SetNotify \/ Destroy \/ DestroyStop
  \/ DestroyJoin

(* lib_audio_pcm_stream_cancel_wait from another thread.                   *)
CancelWait ==
  /\ cl.pc # "over" /\ UNCHANGED <<ring, prog, active, control, dev, wk, cl>>
  /\ \/ /\ other = "idle" /\ left.cancels > 0 /\ other' = "signal"
        /\ left' = [left EXCEPT !.cancels = @ - 1]
        /\ waitCancelled' = TRUE /\ Settle(TRUE) /\ UNCHANGED ev
     \/ /\ other = "signal" /\ other' = "idle" /\ UNCHANGED waitCancelled
        /\ \/ ev' = ev \cup {"space"} /\ NoFault /\ Settle(TRUE)
           \/ Fault /\ Settle(FALSE) /\ UNCHANGED ev

Next ==
  /\ \/ Period \/ Worker \/ Owner \/ CancelWait
     \/ \E op \in Calls : Call(op)
  /\ UNCHANGED plan

Spec == Init /\ [][Next]_vars

(* The worker and a call that has begun go on; the endpoint may stall, and *)
(* nothing is owed to a failure.                                           *)
FairSpec ==
  /\ Spec
  /\ WF_vars(Worker /\ NoFault /\ UNCHANGED plan)
  /\ WF_vars(Owner /\ NoFault /\ UNCHANGED plan)
  /\ WF_vars(CancelWait /\ other = "signal" /\ NoFault /\ UNCHANGED plan)

DeviceRuns == WF_vars(Period /\ UNCHANGED plan)

(***************************************************************************)
(* Properties.                                                             *)
(***************************************************************************)

(* The state has its shape; a failed stream has asked its worker to stop   *)
(* (audio_pcm_stream_notify_locked).                                       *)
TypeOK ==
  /\ samples \in [0..(Capacity - 1) -> Nat \X Nat]
  /\ head \in 0..(Capacity - 1) /\ count \in 0..Capacity
  /\ prog \in [epoch : Nat, accepted : Nat, submitted : Nat, consumed : Nat]
  /\ active \in BOOLEAN /\ failure \in BOOLEAN /\ waitCancelled \in BOOLEAN
  /\ cancelled \in BOOLEAN /\ (failure => cancelled)
  /\ control \in {"none", "clear", "gain", "flush"}
  /\ ev \subseteq {"wake", "space", "done"}
  /\ dev.played \in 0..Len(dev.out) /\ Padding \in 0..Device
  /\ wk.taken \in 0..Len(wk.batch) /\ Len(wk.batch) \in 0..Batch

(* A clear the worker has not carried out: the endpoint still holds the    *)
(* frames of an earlier epoch.                                             *)
ClearPending ==
  control = "clear" \/ (wk.ctl = "clear" /\ wk.pc = "control")
(* Neither a failure, noted or about to be, nor a control that ended       *)
(* without an answer has broken the owner's protocol of one control at a   *)
(* time.                                                                   *)
Sound == ~failure /\ wk.status # "error" /\ ~cl.lost

(* Every frame enqueue accepted in this epoch is either in the endpoint or *)
(* in the ring, in order and once: the batch stays in the ring until it is *)
(* taken, and an interrupted submission takes only what it has given.      *)
(* Once a clear has been answered nothing of the old epoch is left, and    *)
(* once a flush has returned OK every accepted frame is in the endpoint.   *)
StreamInOrder ==
  /\ Sound /\ ~ClearPending =>
       LET sent == Len(dev.out)
           taken == IF wk.gen = prog.epoch THEN wk.taken ELSE 0
       IN /\ \A i \in 1..sent : dev.out[i] = <<prog.epoch, i>>
          /\ \A i \in 1..count :
               samples[Slot(i - 1)] = <<prog.epoch, sent - taken + i>>
          /\ sent - taken + count = prog.accepted
  /\ ~cl.lost /\ cl.pc = "idle" /\ cl.op = "flush" /\ cl.res = "ok" =>
       Len(dev.out) = prog.accepted

(* The endpoint's numbers never contradict the stream's (the IO_ERROR of   *)
(* audio_pcm_stream_observe_progress): numbers read before a clear are not *)
(* noted after it, and within an epoch consumed <= submitted <= accepted   *)
(* and none of them falls.                                                 *)
NeverContradicted ==
  Sound /\ wk.pc = "note" /\ wk.gen = prog.epoch => ~Contradicts

(* A control and a destruction end although the endpoint never signals     *)
(* again: the interruption reaches a worker in any of its native waits.    *)
ControlsReturn ==
  cl.op \in {"clear", "gain", "destroy"} /\ cl.pc # "idle" ~> cl.pc \in {"idle", "over"}

(* While the endpoint runs, a flush, a deactivation and a wait for space   *)
(* return, and accepted frames leave the ring without another call: no     *)
(* wake is lost between the ring, the wake event and the interruption.     *)
RingDrains ==
  DeviceRuns =>
    /\ cl.op \in {"flush", "off", "wait"} /\ cl.pc # "idle" ~> cl.pc \in {"idle", "over"}
    /\ count > 0 ~> (count = 0 \/ cancelled)
=============================================================================
