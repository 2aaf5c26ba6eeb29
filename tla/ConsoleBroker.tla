---------------------------- MODULE ConsoleBroker ----------------------------
(***************************************************************************)
(* The console broker (src/lib/console-broker) and the logical consoles it *)
(* lends the process's one native console to (src/lib/console): the        *)
(* monitor, which reads cooked lines, and the VM Console, which reads raw  *)
(* records.  A replacement retires the old console's reader, switches the  *)
(* native console and starts the next one's, with a rollback when the next *)
(* cannot be activated; meanwhile the reader thread delivers input, other  *)
(* threads write output, and a console's sink may be detached.             *)
(*                                                                         *)
(* The broker's calls come from one thread; the transaction lock would     *)
(* serialise more.  Screen contents and saved display metadata are left    *)
(* out.  A record of the native input is a whole line for a cooked reader. *)
(***************************************************************************)
EXTENDS Naturals, Sequences, FiniteSets

CONSTANTS
  Consoles,    \* the logical consoles
  Mode,        \* the mode each is bound in: "cooked" or "raw"
  Initial,     \* the console the broker is created with
  InputLimit,  \* records the native input buffer holds in this model
  BrokerPlans  \* what may happen in one behaviour: broker calls, records
               \* typed, writes, failing native calls, sinks detached

Calls == {"replace", "request", "cancel", "destroy"}
Failures == {"prepare", "stop", "wake", "timeout", "flush", "early", "late",
             "reader", "read"}

ASSUME ConsoleBrokerAssumption ==
  /\ Initial \in Consoles /\ Consoles \cap {"none", "free", "broker"} = {}
  /\ Mode \in [Consoles -> {"cooked", "raw"}]
  /\ InputLimit \in Nat
  /\ BrokerPlans \subseteq [calls : [Calls -> Nat], types : Nat, writes : Nat,
                      faults : Nat, failing : SUBSET Failures, detached : SUBSET Consoles]

VARIABLES
  broker,  \* struct console_broker; output is current_output's generation
  con,     \* per console: binding_generation, output binding, sink, references
  be,      \* struct console_broker_backend
  native,  \* who holds the backend's output lock
  input,   \* the native input buffer: the binding each record was typed under,
           \* 0 for the broker's own wake-up and for what no binding asked for
  heap,    \* the generations of the output bindings that are allocated
  ctl,     \* the thread that calls the broker: where it is and its locals
  rd,      \* the reader thread: where it is, and the record it holds
  wr,      \* per console, a thread that writes to it
  line,    \* what became of the last cooked line that was requested
  left,    \* what is left of the plan
  script   \* the plan of this behaviour

brokerVars == <<broker, con, be, native, input, heap, ctl, rd, wr, line, left, script>>

NoCall == [pc |-> "idle", op |-> "none", next |-> "none", phase |-> "next",
           status |-> "ok", request |-> FALSE, completed |-> FALSE]
NoReader == [pc |-> "off", tag |-> 0]

(* console_broker_create, with a native console that works.                *)
BrokerInit ==
  /\ broker = [live |-> TRUE, current |-> Initial, gen |-> 1, output |-> 1,
               broken |-> FALSE]
  /\ con = [c \in Consoles |->
       [gen |-> IF c = Initial THEN 1 ELSE 0, out |-> IF c = Initial THEN 1 ELSE 0,
        sink |-> TRUE, refs |-> IF c = Initial THEN 1 ELSE 0]]
  /\ be = [console |-> Initial, gen |-> 1, mode |-> Mode[Initial],
           surface |-> Mode[Initial], stop |-> "clear", status |-> "ok",
           reader |-> IF Mode[Initial] = "raw" THEN "run" ELSE "none", pending |-> FALSE]
  /\ native = "free"
  /\ input = <<>>
  /\ heap = {1}
  /\ ctl = NoCall
  /\ rd = [pc |-> IF Mode[Initial] = "raw" THEN "read" ELSE "off", tag |-> 0]
  /\ wr = [c \in Consoles |-> [pc |-> "idle", binding |-> 0]]
  /\ line = "none"
  /\ script \in BrokerPlans
  /\ left = [calls |-> script.calls, types |-> script.types, writes |-> script.writes,
             faults |-> script.faults]

(* lib_console_set_output_binding waits for a write that has entered, and  *)
(* whoever needs the event gate waits for a sink that runs under it.       *)
OutputFree(c) == wr[c].pc = "idle"
GateFree(c) == ~(rd.pc = "sink" /\ be.console = c)

NoFault == left'.faults = left.faults
Fails(kind) ==
  /\ kind \in script.failing /\ left.faults > 0
  /\ left' = [left EXCEPT !.faults = @ - 1]
Works == left' = left

At(pc) == ctl.pc = pc
Goto(pc) == ctl' = [ctl EXCEPT !.pc = pc]
Return == ctl' = NoCall

(***************************************************************************)
(* The calls.                                                              *)
(***************************************************************************)
Enter(op) ==
  /\ At("idle") /\ broker.live /\ left.calls[op] > 0

Count(op) == left' = [left EXCEPT !.calls[op] = @ - 1]

(* console_broker_replace up to the installation of the next binding: a    *)
(* next console that cannot be prepared leaves everything as it was.       *)
console_broker_replace(next) ==
  /\ Enter("replace") /\ ~broker.broken /\ next # broker.current
  /\ \/ /\ "prepare" \in script.failing /\ left.faults > 0
        /\ left' = [left EXCEPT !.faults = @ - 1, !.calls["replace"] = @ - 1]
        /\ UNCHANGED <<con, heap, ctl>>
     \/ /\ Count("replace")
        /\ con' = [con EXCEPT ![next].refs = @ + 1]
        /\ heap' = heap \cup {broker.gen + 1}
        /\ ctl' = [NoCall EXCEPT !.pc = "install", !.op = "replace", !.next = next]
  /\ UNCHANGED <<broker, be, native, input, rd, wr, line>>

InstallNext ==
  /\ At("install") /\ OutputFree(ctl.next)
  /\ con' = [con EXCEPT ![ctl.next].out = broker.gen + 1]
  /\ Goto("lock") /\ Works
  /\ UNCHANGED <<broker, be, native, input, heap, rd, wr, line>>

(* console_broker_destroy starts with the same gate and retirement.        *)
console_broker_destroy ==
  /\ Enter("destroy")
  /\ ctl' = [NoCall EXCEPT !.pc = "lock", !.op = "destroy"]
  /\ Count("destroy")
  /\ UNCHANGED <<broker, con, be, native, input, heap, rd, wr, line>>

LockOutput ==
  /\ At("lock") /\ native = "free"
  /\ native' = "broker"
  /\ Goto("stop") /\ Works
  /\ UNCHANGED <<broker, con, be, input, heap, rd, wr, line>>

CookedCall(op) ==
  /\ Enter(op) /\ ~broker.broken
  /\ Mode[broker.current] = "cooked"

(* console_broker_cancel_cooked_line                                       *)
console_broker_cancel_cooked_line ==
  /\ CookedCall("cancel")
  /\ ctl' = [NoCall EXCEPT !.pc = IF be.reader = "none" THEN "answered" ELSE "stop",
                           !.op = "cancel", !.completed = be.reader = "none"]
  /\ Count("cancel")
  /\ UNCHANGED <<broker, con, be, native, input, heap, rd, wr, line>>

(* console_broker_request_cooked_line: an armed line is left alone, a      *)
(* reader on its way out is waited for.                                    *)
console_broker_request_cooked_line ==
  /\ CookedCall("request")
  /\ IF be.reader # "none" /\ be.pending
     THEN UNCHANGED ctl
     ELSE ctl' = [NoCall EXCEPT !.pc = "rearm", !.op = "request"]
  /\ Count("request")
  /\ UNCHANGED <<broker, con, be, native, input, heap, rd, wr, line>>

Rearm ==
  /\ At("rearm") /\ be.reader # "run"
  /\ IF be.reader = "done" /\ be.status # "ok"
     THEN Works /\ UNCHANGED <<be, rd, line>>
     ELSE \/ /\ Works
             /\ be' = [be EXCEPT !.reader = "run", !.status = "ok", !.pending = TRUE]
             /\ rd' = [pc |-> "read", tag |-> 0]
             /\ line' = "armed"
          \/ /\ Fails("reader")
             /\ be' = [be EXCEPT !.reader = "none", !.status = "ok", !.pending = FALSE]
             /\ UNCHANGED <<rd, line>>
  /\ Return
  /\ UNCHANGED <<broker, con, native, input, heap, wr>>

(***************************************************************************)
(* console_broker_retire_reader, and what cancel and deactivate do after.  *)
(***************************************************************************)
SetStop ==
  /\ At("stop")
  /\ \/ be.reader = "none" /\ Works /\ Goto("joined") /\ UNCHANGED be
     \/ /\ be.reader # "none" /\ Works
        /\ be' = [be EXCEPT !.stop = "set"]
        /\ Goto("wake")
     \/ /\ be.reader # "none" /\ Fails("stop")
        /\ ctl' = [ctl EXCEPT !.pc = "join", !.status = "error"]
        /\ UNCHANGED be
  /\ UNCHANGED <<broker, con, native, input, heap, rd, wr, line>>

(* Mutant: a cooked reader is left to see the stop event by itself.        *)
WakeReaderNever ==
  /\ At("wake") /\ Works /\ Goto("join")
  /\ UNCHANGED <<broker, con, be, native, input, heap, rd, wr, line>>

(* A cooked reader is woken by a synthetic Return.                         *)
WakeReader ==
  /\ At("wake")
  /\ \/ /\ be.reader = "done" \/ be.mode = "raw"
        /\ Works /\ Goto("join") /\ UNCHANGED input
     \/ /\ be.reader = "run" /\ be.mode = "cooked"
        /\ Works /\ Goto("join") /\ input' = Append(input, 0)
     \/ /\ be.reader = "run" /\ be.mode = "cooked"
        /\ Fails("wake")
        /\ ctl' = [ctl EXCEPT !.pc = "join", !.status = "error"]
        /\ UNCHANGED input
  /\ UNCHANGED <<broker, con, be, native, heap, rd, wr, line>>

(* A reader that does not exit in time ends the process.                   *)
JoinReader ==
  /\ At("join")
  /\ \/ /\ be.reader = "done" /\ Works
        /\ ctl' = [ctl EXCEPT !.pc = "joined",
             !.status = IF ctl.status = "ok" THEN be.status ELSE @]
        /\ be' = [be EXCEPT !.reader = "none"]
     \/ /\ be.reader = "run"
        /\ IF ctl.status = "ok" THEN Fails("timeout") ELSE Works
        /\ Goto("exited")
        /\ UNCHANGED be
  /\ UNCHANGED <<broker, con, native, input, heap, rd, wr, line>>

(* Mutant: no native leftovers are flushed.                                *)
FinishCancelUnflushed ==
  /\ At("joined") /\ ctl.op = "cancel" /\ ctl.status = "ok" /\ Works
  /\ be' = [be EXCEPT !.pending = FALSE, !.stop = "clear"]
  /\ ctl' = [ctl EXCEPT !.pc = "answered", !.completed = ~be.pending]
  /\ UNCHANGED <<broker, con, native, input, heap, rd, wr, line>>

(* console_broker_backend_cancel_cooked_line after the join: whether the   *)
(* line was completed is read only now, and leftovers are flushed.         *)
FinishCancel ==
  /\ At("joined") /\ ctl.op = "cancel"
  /\ \/ /\ ctl.status = "ok" /\ Works
        /\ be' = [be EXCEPT !.pending = FALSE, !.stop = "clear"]
        /\ ctl' = [ctl EXCEPT !.pc = "answered", !.completed = ~be.pending]
        /\ input' = <<>>
        /\ UNCHANGED broker
     \/ /\ IF ctl.status = "ok" THEN Fails("flush") ELSE Works
        /\ broker' = [broker EXCEPT !.broken = TRUE]
        /\ Return
        /\ UNCHANGED <<be, input>>
  /\ UNCHANGED <<con, native, heap, rd, wr, line>>

AnswerCancel ==
  /\ At("answered")
  /\ line' = IF ctl.completed THEN line ELSE "none"
  /\ Return /\ Works
  /\ UNCHANGED <<broker, con, be, native, input, heap, rd, wr>>

(* console_broker_backend_deactivate after the join: flush, remember an    *)
(* unfinished request, forget the binding.                                 *)
Deactivate ==
  /\ At("joined") /\ ctl.op # "cancel"
  /\ be' = [be EXCEPT !.pending = FALSE, !.stop = "none", !.console = "none", !.gen = 0]
  /\ \E ok \in BOOLEAN :
       /\ IF ok THEN Works ELSE Fails("flush")
       /\ input' = IF ok THEN <<>> ELSE input
       /\ ctl' = [ctl EXCEPT !.pc = "reset", !.request = be.pending,
                             !.status = IF ok THEN @ ELSE "error"]
  /\ UNCHANGED <<broker, con, native, heap, rd, wr, line>>

(***************************************************************************)
(* The takeover.                                                           *)
(***************************************************************************)

(* The old console hears INPUT_RESET and loses its binding; after a failed *)
(* retirement the broker is broken and neither console keeps a binding.    *)
ResetOld ==
  /\ At("reset") /\ ctl.op = "replace"
  /\ con' = [con EXCEPT ![broker.current].gen = 0]
  /\ IF ctl.status = "ok"
     THEN GateFree(broker.current) /\ Goto("bind") /\ UNCHANGED <<broker, native>>
     ELSE /\ broker' = [broker EXCEPT !.broken = TRUE]
          /\ native' = "free"
          /\ ctl' = [ctl EXCEPT !.pc = "remove_next"]
  /\ Works
  /\ UNCHANGED <<be, input, heap, rd, wr, line>>

Target == IF ctl.phase = "next" THEN ctl.next ELSE broker.current
TargetGen == IF ctl.phase = "next" THEN broker.gen + 1 ELSE broker.gen

(* console_broker_activate_bound: the generation, then INPUT_RESET.        *)
BindTarget ==
  /\ At("bind")
  /\ con' = [con EXCEPT ![Target].gen = TargetGen]
  /\ Goto("activate") /\ Works
  /\ UNCHANGED <<broker, be, native, input, heap, rd, wr, line>>

StartsReader ==
  Mode[Target] = "raw" \/ (ctl.phase = "old" /\ ctl.request)

(* console_broker_backend_activate when every native call works.           *)
Activated ==
  /\ be' = [console |-> Target, gen |-> TargetGen, mode |-> Mode[Target],
            surface |-> Mode[Target], stop |-> "clear",
            status |-> IF StartsReader THEN "ok" ELSE be.status,
            reader |-> IF StartsReader THEN "run" ELSE "none",
            pending |-> StartsReader /\ Mode[Target] = "cooked"]
  /\ input' = <<>>
  /\ rd' = IF StartsReader THEN [pc |-> "read", tag |-> 0] ELSE NoReader
  /\ ctl' = [ctl EXCEPT !.pc = IF ctl.phase = "next" THEN "commit" ELSE "unlock",
       !.status = "ok"]
  /\ UNCHANGED con

(* Mutant: the generation of a console that failed stays bound.            *)
ActivationFailedBound(kind) ==
  /\ kind = "reader" => StartsReader
  /\ ctl' = IF ctl.phase = "next" THEN [ctl EXCEPT !.pc = "bind", !.phase = "old"]
            ELSE [ctl EXCEPT !.pc = "unlock", !.status = "error"]
  /\ UNCHANGED <<be, input, con, rd>>

(* ... and when one fails: before the screen buffer is switched, after it, *)
(* or at the reader's start.  The target's generation is invalidated; a    *)
(* next console that failed is followed by the old one's restoration.      *)
ActivationFailed(kind) ==
  /\ kind = "reader" => StartsReader
  /\ be' = IF kind = "early" THEN be
           ELSE [be EXCEPT !.surface = Mode[Target],
                   !.gen = IF kind = "reader" THEN TargetGen ELSE @,
                   !.mode = IF kind = "reader" THEN Mode[Target] ELSE @]
  /\ input' = IF kind = "early" THEN input ELSE <<>>
  /\ con' = [con EXCEPT ![Target].gen = 0]
  /\ ctl' = IF ctl.phase = "next" THEN [ctl EXCEPT !.pc = "bind", !.phase = "old"]
            ELSE [ctl EXCEPT !.pc = "unlock", !.status = "error"]
  /\ UNCHANGED rd

ActivateTarget ==
  /\ At("activate") /\ GateFree(Target)
  /\ \/ Works /\ Activated
     \/ \E kind \in {"early", "late", "reader"} : Fails(kind) /\ ActivationFailed(kind)
  /\ UNCHANGED <<broker, native, heap, wr, line>>

(* The next console becomes current; an unfinished request of the old one  *)
(* goes with it.                                                           *)
Commit ==
  /\ At("commit")
  /\ broker' = [broker EXCEPT !.current = ctl.next, !.gen = @ + 1, !.output = broker.gen + 1]
  /\ native' = "free"
  /\ line' = IF line = "armed" THEN "none" ELSE line
  /\ ctl' = [ctl EXCEPT !.pc = "remove_old", !.next = broker.current]
  /\ Works
  /\ UNCHANGED <<con, be, input, heap, rd, wr>>

(* The old binding is freed once a write that entered with it has left.    *)
RemoveOld ==
  /\ At("remove_old") /\ OutputFree(ctl.next)
  /\ con' = [con EXCEPT ![ctl.next] = [con[ctl.next] EXCEPT !.out = 0, !.refs = @ - 1]]
  /\ heap' = heap \ {broker.gen - 1}
  /\ Goto("notify") /\ Works
  /\ UNCHANGED <<broker, be, native, input, rd, wr, line>>

NotifyActivation ==
  /\ At("notify") /\ GateFree(broker.current)
  /\ Return /\ Works
  /\ UNCHANGED <<broker, con, be, native, input, heap, rd, wr, line>>

UnlockOutput ==
  /\ At("unlock")
  /\ native' = "free"
  /\ Goto("remove_next") /\ Works
  /\ UNCHANGED <<broker, con, be, input, heap, rd, wr, line>>

(* The failed next binding goes; then, if the old one could not be         *)
(* restored either, the broker is broken and the old binding goes too.     *)
RemoveNext ==
  /\ At("remove_next") /\ OutputFree(ctl.next)
  /\ con' = [con EXCEPT ![ctl.next] = [con[ctl.next] EXCEPT !.out = 0, !.refs = @ - 1]]
  /\ heap' = heap \ {broker.gen + 1}
  /\ broker' = [broker EXCEPT !.broken = ctl.status # "ok",
                              !.output = IF ctl.status = "ok" THEN @ ELSE 0]
  /\ Goto(IF ctl.status = "ok" THEN "notify" ELSE "remove_broken") /\ Works
  /\ UNCHANGED <<be, native, input, rd, wr, line>>

RemoveBroken ==
  /\ At("remove_broken") /\ OutputFree(broker.current)
  /\ con' = [con EXCEPT ![broker.current].out = 0]
  /\ heap' = heap \ {broker.gen}
  /\ Return /\ Works
  /\ UNCHANGED <<broker, be, native, input, rd, wr, line>>

(* The rest of console_broker_destroy, which resets and releases even when *)
(* retirement failed.                                                      *)
DestroyReset ==
  /\ At("reset") /\ ctl.op = "destroy" /\ GateFree(broker.current)
  /\ con' = [con EXCEPT ![broker.current].gen = 0]
  /\ native' = "free"
  /\ Goto("dispose") /\ Works
  /\ UNCHANGED <<broker, be, input, heap, rd, wr, line>>

Dispose ==
  /\ At("dispose") /\ OutputFree(broker.current)
  /\ con' = [con EXCEPT ![broker.current] = [con[broker.current] EXCEPT !.out = 0, !.refs = @ - 1]]
  /\ heap' = heap \ {broker.output}
  /\ broker' = [broker EXCEPT !.live = FALSE, !.output = 0]
  /\ line' = IF line = "armed" THEN "none" ELSE line
  /\ Return /\ Works
  /\ UNCHANGED <<be, native, input, rd, wr>>

(***************************************************************************)
(* The reader thread: console_broker_reader.                               *)
(***************************************************************************)
Reading(pc) == be.reader = "run" /\ rd.pc = pc /\ ~At("exited")
Exits == rd' = NoReader
Done(b) == [b EXCEPT !.reader = "done"]

ReadCooked ==
  /\ Reading("read") /\ be.mode = "cooked"
  /\ \/ /\ input # <<>> /\ Works
        /\ rd' = [pc |-> "line", tag |-> Head(input)]
        /\ input' = Tail(input)
        /\ UNCHANGED be
     \/ /\ Fails("read")
        /\ rd' = [rd EXCEPT !.pc = "failed"]
        /\ be' = IF be.stop = "set" THEN be ELSE [be EXCEPT !.pending = FALSE]
        /\ UNCHANGED input
  /\ UNCHANGED <<broker, con, native, heap, ctl, wr, line>>

(* A stop seen after the line was drained keeps the request pending.       *)
CheckStop ==
  /\ Reading("line")
  /\ IF be.stop = "set"
     THEN Exits /\ be' = Done(be)
     ELSE rd' = [rd EXCEPT !.pc = "complete"] /\ UNCHANGED be
  /\ Works
  /\ UNCHANGED <<broker, con, native, input, heap, ctl, wr, line>>

ClearPending ==
  /\ Reading("complete")
  /\ be' = [be EXCEPT !.pending = FALSE]
  /\ rd' = [rd EXCEPT !.pc = "deliver"]
  /\ Works
  /\ UNCHANGED <<broker, con, native, input, heap, ctl, wr, line>>

(* The stop event is the first of the two objects a raw reader waits for.  *)
ReadRaw ==
  /\ Reading("read") /\ be.mode = "raw"
  /\ \/ /\ be.stop = "set" /\ Works
        /\ Exits /\ be' = Done(be)
        /\ UNCHANGED input
     \/ /\ be.stop # "set" /\ input # <<>> /\ Works
        /\ rd' = [pc |-> "deliver", tag |-> Head(input)]
        /\ input' = Tail(input)
        /\ UNCHANGED be
     \/ /\ be.stop # "set" /\ input # <<>> /\ Fails("read")
        /\ rd' = [rd EXCEPT !.pc = "failed"]
        /\ UNCHANGED <<be, input>>
  /\ UNCHANGED <<broker, con, native, heap, ctl, wr, line>>

(* lib_console_deliver_event: under the gate, an event of another binding  *)
(* is dropped, and no sink is an error.                                    *)
AfterDelivery ==
  IF be.mode = "raw" THEN rd' = [pc |-> "read", tag |-> 0] /\ UNCHANGED be
  ELSE Exits /\ be' = Done(be)

lib_console_deliver_event ==
  /\ Reading("deliver")
  /\ IF con[be.console].gen # be.gen THEN AfterDelivery
     ELSE /\ rd' = [rd EXCEPT !.pc = IF con[be.console].sink THEN "sink" ELSE "failed"]
          /\ UNCHANGED be
  /\ Works
  /\ UNCHANGED <<broker, con, native, input, heap, ctl, wr, line>>

SinkReturns ==
  /\ Reading("sink")
  /\ AfterDelivery
  /\ line' = IF be.mode = "cooked" THEN "delivered" ELSE line
  /\ Works
  /\ UNCHANGED <<broker, con, native, input, heap, ctl, wr>>

(* console_broker_reader_failed                                            *)
console_broker_reader_failed ==
  /\ Reading("failed")
  /\ be' = Done([be EXCEPT !.status = IF be.stop = "set" THEN @ ELSE "error"])
  /\ line' = IF be.stop # "set" /\ line = "armed" /\ con[be.console].sink
             THEN "failed" ELSE line
  /\ Exits /\ Works
  /\ UNCHANGED <<broker, con, native, input, heap, ctl, wr>>

(***************************************************************************)
(* Writers, the keyboard and a detaching component.                        *)
(***************************************************************************)

(* lib_console_write_text: under the console's output lock, through the    *)
(* binding installed at that moment.                                       *)
WriteEnter(c) ==
  /\ wr[c].pc = "idle" /\ con[c].out # 0
  /\ left.writes > 0 /\ left' = [left EXCEPT !.writes = @ - 1]
  /\ wr' = [wr EXCEPT ![c] = [pc |-> "bound", binding |-> con[c].out]]
  /\ UNCHANGED <<broker, con, be, native, input, heap, ctl, rd, line>>

(* console_broker_backend_write_bound: a write of another binding than the *)
(* backend's is dropped behind the gate.                                   *)
WriteValidate(c) ==
  /\ wr[c].pc = "bound" /\ native = "free"
  /\ IF be.console = c /\ be.gen = wr[c].binding
     THEN native' = c /\ wr' = [wr EXCEPT ![c].pc = "write"]
     ELSE wr' = [wr EXCEPT ![c] = [pc |-> "idle", binding |-> 0]] /\ UNCHANGED native
  /\ Works
  /\ UNCHANGED <<broker, con, be, input, heap, ctl, rd, line>>

WriteReturns(c) ==
  /\ wr[c].pc = "write"
  /\ native' = "free"
  /\ wr' = [wr EXCEPT ![c] = [pc |-> "idle", binding |-> 0]]
  /\ Works
  /\ UNCHANGED <<broker, con, be, input, heap, ctl, rd, line>>

(* Somebody types while the native console is bound as it is.              *)
Type ==
  /\ left.types > 0 /\ Len(input) < InputLimit
  /\ left' = [left EXCEPT !.types = @ - 1]
  /\ input' = Append(input, be.gen)
  /\ UNCHANGED <<broker, con, be, native, heap, ctl, rd, wr, line>>

(* lib_console_set_event_sink(NULL), by the component that owns the sink.  *)
Detach(c) ==
  /\ c \in script.detached /\ con[c].sink /\ GateFree(c)
  /\ con' = [con EXCEPT ![c].sink = FALSE]
  /\ Works
  /\ UNCHANGED <<broker, be, native, input, heap, ctl, rd, wr, line>>

(***************************************************************************)
(* The specification.                                                      *)
(***************************************************************************)
BrokerStep ==
  \/ InstallNext \/ LockOutput \/ Rearm \/ SetStop \/ WakeReader \/ JoinReader
  \/ FinishCancel \/ AnswerCancel \/ Deactivate \/ ResetOld \/ BindTarget
  \/ ActivateTarget \/ Commit \/ RemoveOld \/ NotifyActivation \/ UnlockOutput
  \/ RemoveNext \/ RemoveBroken \/ DestroyReset \/ Dispose

ReaderStep ==
  \/ ReadCooked \/ CheckStop \/ ClearPending \/ ReadRaw \/ lib_console_deliver_event
  \/ SinkReturns \/ console_broker_reader_failed

WriterStep(c) == WriteValidate(c) \/ WriteReturns(c)

BrokerNext ==
  /\ ~At("exited")
  /\ \/ \E c \in Consoles : console_broker_replace(c) \/ WriteEnter(c) \/ WriterStep(c) \/ Detach(c)
     \/ console_broker_request_cooked_line \/ console_broker_cancel_cooked_line
     \/ console_broker_destroy
     \/ BrokerStep \/ ReaderStep \/ Type
  /\ UNCHANGED script

BrokerSpec == BrokerInit /\ [][BrokerNext]_brokerVars

(* Threads run; nobody has to call, to type or to write, and no native     *)
(* call has to fail.                                                       *)
Running(A) == A /\ NoFault /\ ~At("exited") /\ UNCHANGED script

BrokerFairness ==
  /\ WF_brokerVars(Running(BrokerStep))
  /\ WF_brokerVars(Running(ReaderStep))
  /\ \A c \in Consoles : WF_brokerVars(Running(WriterStep(c)))

(***************************************************************************)
(* Properties.                                                             *)
(***************************************************************************)

(* Input and output reach only the binding they belong to: what a sink is  *)
(* handed was typed under the binding it is delivered for, and is never    *)
(* the broker's own wake-up; a write lands only while its console is the   *)
(* one on the screen; and no thread is left holding a freed binding.       *)
IoBelongsToItsBinding ==
  /\ rd.pc = "sink" =>
       rd.tag = be.gen /\ con[be.console].gen = be.gen /\ con[be.console].sink
  /\ \A c \in Consoles :
       /\ wr[c].pc # "idle" => wr[c].binding \in heap
       /\ wr[c].pc = "write" =>
            be.console = c /\ be.gen = wr[c].binding /\ be.surface = Mode[c]

(* Between calls the broker, the consoles and the backend agree on who is  *)
(* current, whichever step of a replacement failed; or the broker is       *)
(* broken, which takes a failed native call or a detached sink, and then   *)
(* no reader runs and nothing but the current console's binding is left.   *)
BrokerAgrees ==
  At("idle") =>
    /\ \A c \in Consoles : con[c].refs = IF broker.live /\ c = broker.current THEN 1 ELSE 0
    /\ \A c \in Consoles : con[c].out = IF c = broker.current THEN broker.output ELSE 0
    /\ heap = {broker.output} \ {0}
    /\ native # "broker"
    /\ broker.live /\ ~broker.broken =>
         /\ broker.output = broker.gen
         /\ be.console = broker.current /\ be.gen = broker.gen
         /\ be.mode = Mode[broker.current] /\ be.surface = be.mode /\ be.stop = "clear"
         /\ \A c \in Consoles : con[c].gen = IF c = broker.current THEN broker.gen ELSE 0
    /\ ~broker.live \/ broker.broken => be.reader = "none"
    /\ broker.broken => left.faults < script.faults \/ \E c \in Consoles : ~con[c].sink

(* ... and every requested line is accounted for: a line is armed exactly  *)
(* while the backend has it pending or the reader is on its way to deliver *)
(* it, whatever rollback or cancellation came before; and a cancel says    *)
(* "completed" exactly when there is no unfinished line.  A read that      *)
(* fails while its reader is being stopped loses the line without an       *)
(* answer (win32/console.c:255): the plans it is checked with let a read   *)
(* fail only where nothing stops the reader.                               *)
SettledBroker ==
  /\ BrokerAgrees
  /\ At("answered") => (ctl.completed <=> line # "armed")
  /\ At("idle") /\ broker.live /\ ~broker.broken =>
       (line = "armed" <=> be.pending \/ (be.mode = "cooked" /\
                                         rd.pc \in {"deliver", "sink", "failed"}))

(* Every call returns, or the process has ended: a reader asked to stop    *)
(* exits even when it was waiting for a line, and nobody waits in a circle *)
(* for the gates.                                                          *)
CallsReturn == ~At("idle") ~> At("idle") \/ At("exited")
=============================================================================
