----------------------- MODULE ConsoleBrokerInvariant -----------------------
(***************************************************************************)
(* Proofs about the console broker, for every set of consoles, every mode  *)
(* of each and every plan of calls, typing, writes and failing native      *)
(* calls.                                                                  *)
(***************************************************************************)
EXTENDS ConsoleBroker, TLAPS

(***************************************************************************)
(* The shapes of the records.                                              *)
(***************************************************************************)
BrokerShape ==
  /\ DOMAIN broker = {"live", "current", "gen", "output", "broken"}
  /\ broker.current \in Consoles
  /\ broker.gen \in Nat \ {0}

ConShape ==
  /\ DOMAIN con = Consoles
  /\ \A c \in Consoles : DOMAIN con[c] = {"gen", "out", "sink", "refs"}

BackendShape ==
  /\ DOMAIN be = {"console", "gen", "mode", "surface", "stop", "status", "reader", "pending"}
  /\ be.console \in Consoles \cup {"none"}
  /\ be.reader \in {"none", "run", "done"}
  /\ be.stop \in {"clear", "set", "none"}
  /\ be.gen \in Nat

Replacing == {"install", "bind", "activate", "commit", "unlock", "remove_next",
              "remove_old", "notify", "remove_broken"}
Retiring == {"stop", "wake", "join", "joined", "exited"}

(* The thread that calls the broker: which call is where.                  *)
CallShape ==
  /\ DOMAIN ctl = {"pc", "op", "next", "phase", "status", "request", "completed"}
  /\ ctl.pc \in {"idle", "rearm", "answered", "dispose", "lock", "reset"}
                \cup Replacing \cup Retiring
  /\ ctl.pc = "idle" => ctl = NoCall
  /\ ctl.pc \in Replacing => ctl.op = "replace"
  /\ ctl.pc = "rearm" => ctl.op = "request"
  /\ ctl.pc = "answered" => ctl.op = "cancel"
  /\ ctl.pc = "dispose" => ctl.op = "destroy"
  /\ ctl.pc \in {"lock", "reset"} => ctl.op \in {"replace", "destroy"}
  /\ ctl.pc \in Retiring => ctl.op \in {"replace", "destroy", "cancel"}
  /\ ctl.phase \in {"next", "old"}
  /\ ctl.pc \in {"lock", "install", "reset", "commit"} \cup Retiring => ctl.phase = "next"
  /\ ctl.pc \in {"bind", "activate", "commit"} => ctl.status = "ok"
  /\ ctl.op = "replace" => ctl.next \in Consoles /\ ctl.next # broker.current

ReaderShape ==
  /\ DOMAIN rd = {"pc", "tag"}
  /\ rd.pc \in {"off", "read", "line", "complete", "deliver", "sink", "failed"}
  /\ be.reader = "run" <=> rd.pc # "off"

WriterShape ==
  /\ DOMAIN wr = Consoles
  /\ \A c \in Consoles : /\ DOMAIN wr[c] = {"pc", "binding"}
                         /\ wr[c].pc \in {"idle", "bound", "write"}

(***************************************************************************)
(* Output.                                                                 *)
(***************************************************************************)

(* The output lock is the broker's from the retirement of a reader to the  *)
(* end of the takeover, a writer's while it writes, or free.               *)
Locking ==
  /\ ctl.op \in {"replace", "destroy"}
  /\ ctl.pc \in Retiring \cup {"reset", "bind", "activate", "commit", "unlock"}
LockHeld ==
  /\ native \in Consoles \cup {"free", "broker"}
  /\ native = "broker" <=> Locking
  /\ \A c \in Consoles : wr[c].pc = "write" <=> native = c

(* A console on the screen has the screen as it needs it and the binding   *)
(* its input is delivered for.                                             *)
OnScreen ==
  be.console # "none" =>
    /\ be.surface = Mode[be.console] /\ be.mode = Mode[be.console]
    /\ con[be.console].gen = be.gen

(* A write goes through the binding installed, which stays until it ends,  *)
(* and lands while that is the backend's.                                  *)
WriterBound ==
  \A c \in Consoles :
    /\ wr[c].pc # "idle" => wr[c].binding = con[c].out /\ con[c].out # 0
    /\ wr[c].pc = "write" => be.console = c /\ be.gen = wr[c].binding

(* The next console's binding is allocated before and installed for the    *)
(* whole takeover; afterwards the one that lost goes.                      *)
Both == ctl.op = "replace" /\ ctl.pc \in {"lock", "reset", "bind", "activate",
          "commit", "unlock", "remove_next"} \cup Retiring

Out(c) ==
  IF c = broker.current
  THEN IF ctl.pc = "remove_broken" THEN broker.gen ELSE broker.output
  ELSE IF c = ctl.next /\ Both THEN broker.gen + 1
  ELSE IF c = ctl.next /\ ctl.pc = "remove_old" THEN broker.gen - 1 ELSE 0

Allocated(g) ==
  \/ g = broker.output /\ g # 0
  \/ g = broker.gen + 1 /\ (Both \/ ctl.pc = "install")
  \/ g = broker.gen - 1 /\ ctl.pc = "remove_old"
  \/ g = broker.gen /\ ctl.pc = "remove_broken"

Installed ==
  /\ \A c \in Consoles : con[c].out = Out(c)
  /\ broker.output \in {0, broker.gen}
  /\ ctl.pc = "remove_old" => broker.gen > 1
  /\ ctl.op = "replace" /\ ctl.pc # "remove_broken" => broker.output = broker.gen
  /\ ctl.pc = "remove_broken" => broker.output = 0
  /\ heap = {g \in {broker.output, broker.gen - 1, broker.gen, broker.gen + 1} : Allocated(g)}

(***************************************************************************)
(* Input.                                                                  *)
(***************************************************************************)

(* What is typed while a binding is current is tagged with it; the         *)
(* broker's own wake-up comes only after the stop event, and the reader    *)
(* looks for that before it delivers.                                      *)
InputTagged ==
  /\ input \in Seq(Nat)
  /\ be.stop = "clear" => \A i \in 1..Len(input) : input[i] = be.gen
  /\ rd.pc = "line" => rd.tag = be.gen \/ be.stop = "set"
  /\ rd.pc \in {"complete", "deliver", "sink"} => rd.tag = be.gen
  /\ rd.pc = "sink" => con[be.console].sink

(* A reader runs only for a console on the screen, and none runs while the *)
(* screen changes hands or after the broker has broken.                    *)
Retired ==
  /\ be.reader = "run" => be.console # "none" /\ be.stop # "none"
  /\ ctl.pc = "wake" => be.stop = "set"
  /\ ctl.pc \in {"joined", "reset", "bind", "activate", "dispose"} => be.reader = "none"
  /\ ctl.pc \in {"reset", "bind", "activate", "dispose"} =>
       be.console = "none" /\ be.stop = "none"
  /\ ctl.pc \in {"unlock", "remove_next", "remove_broken"} /\ ctl.status # "ok" =>
       be.console = "none" /\ be.reader = "none"
  /\ broker.broken \/ ~broker.live => be.reader = "none"
  /\ ~broker.live => ctl.pc = "idle" /\ broker.output = 0
  /\ ctl.op \in {"request", "cancel"} => ~broker.broken
  /\ ctl.op = "replace" /\ broker.broken =>
       ctl.status # "ok" /\ ctl.pc \in {"remove_next", "remove_broken"}
  /\ ctl.pc = "remove_broken" => broker.broken
  /\ broker.live /\ ~broker.broken => broker.output = broker.gen

(***************************************************************************)
(* Between the calls.                                                      *)
(***************************************************************************)

(* Before a reader is retired and after a takeover has ended, the broker,  *)
(* the consoles and the backend agree.                                     *)
Steady ==
  /\ broker.live /\ ~broker.broken
  /\ \/ ctl.pc \in {"idle", "install", "lock", "rearm", "answered", "notify", "remove_old"}
                   \cup Retiring
     \/ ctl.pc \in {"unlock", "remove_next"} /\ ctl.status = "ok"

Bound(who, gen) == \A c \in Consoles : con[c].gen = IF c = who THEN gen ELSE 0

Agreed ==
  /\ Steady => /\ be.console = broker.current /\ be.gen = broker.gen
               /\ Bound(broker.current, broker.gen)
               /\ ctl.pc \notin {"wake", "join", "joined", "exited"} => be.stop = "clear"
  /\ ctl.pc = "commit" =>
       /\ be.console = ctl.next /\ be.gen = broker.gen + 1 /\ be.stop = "clear"
       /\ Bound(ctl.next, broker.gen + 1)
  /\ ctl.pc = "activate" => Bound(Target, TargetGen)
  /\ ctl.pc = "bind" => Bound("none", 0)
  /\ ctl.pc = "reset" /\ ctl.op = "replace" => Bound(broker.current, broker.gen)

(* The consoles that are referred to.                                      *)
Referred ==
  \A c \in Consoles :
    con[c].refs = IF \/ broker.live /\ c = broker.current
                     \/ /\ ctl.op = "replace" /\ c = ctl.next
                        /\ ctl.pc \notin {"notify", "remove_broken"}
                  THEN 1 ELSE 0

(* What is left of the plan.                                               *)
Counted ==
  /\ DOMAIN left = {"calls", "types", "writes", "faults"}
  /\ left.faults \in Nat /\ script.faults \in Nat /\ left.faults <= script.faults

(* A broker that is broken, or about to be, has met a failed native call   *)
(* or a sink that was detached.                                            *)
Blame == left.faults < script.faults \/ \E c \in Consoles : ~con[c].sink
Blamed ==
  ctl.status # "ok" \/ be.status # "ok" \/ rd.pc = "failed" \/ broker.broken => Blame

IInv ==
  /\ BrokerShape /\ ConShape /\ BackendShape /\ CallShape /\ ReaderShape /\ WriterShape
  /\ LockHeld /\ OnScreen /\ WriterBound /\ Installed /\ InputTagged /\ Retired
  /\ Agreed /\ Referred /\ Counted /\ Blamed

(***************************************************************************)
(* Updates of the records, field by field.                                 *)
(***************************************************************************)
GenOnly(d, v) ==
  /\ ConShape'
  /\ \A c \in Consoles : /\ con'[c].gen = IF c = d THEN v ELSE con[c].gen
                         /\ con'[c].out = con[c].out /\ con'[c].sink = con[c].sink
                         /\ con'[c].refs = con[c].refs
OutOnly(d, v) ==
  /\ ConShape'
  /\ \A c \in Consoles : /\ con'[c].out = IF c = d THEN v ELSE con[c].out
                         /\ con'[c].gen = con[c].gen /\ con'[c].sink = con[c].sink
                         /\ con'[c].refs = con[c].refs
RefsOnly(d, v) ==
  /\ ConShape'
  /\ \A c \in Consoles : /\ con'[c].refs = IF c = d THEN v ELSE con[c].refs
                         /\ con'[c].gen = con[c].gen /\ con'[c].sink = con[c].sink
                         /\ con'[c].out = con[c].out
Released(d) ==
  /\ ConShape'
  /\ \A c \in Consoles : /\ con'[c].out = IF c = d THEN 0 ELSE con[c].out
                         /\ con'[c].refs = IF c = d THEN 0 ELSE con[c].refs
                         /\ con'[c].gen = con[c].gen /\ con'[c].sink = con[c].sink

(* What an update of one console's fields does.                            *)
LEMMA ConUpdates ==
  ASSUME ConShape, NEW d \in Consoles, NEW v
  PROVE  /\ con' = [con EXCEPT ![d].gen = v] => GenOnly(d, v)
         /\ con' = [con EXCEPT ![d].out = v] => OutOnly(d, v)
         /\ con' = [con EXCEPT ![d].refs = v] => RefsOnly(d, v)
         /\ con' = [con EXCEPT ![d] = [con[d] EXCEPT !.out = 0, !.refs = @ - 1]]
            /\ con[d].refs = 1 => Released(d)
<1>1. con' = [con EXCEPT ![d].gen = v] => GenOnly(d, v)
  BY DEF ConShape, GenOnly
<1>2. con' = [con EXCEPT ![d].out = v] => OutOnly(d, v)
  BY DEF ConShape, OutOnly
<1>3. con' = [con EXCEPT ![d].refs = v] => RefsOnly(d, v)
  BY DEF ConShape, RefsOnly
<1>4. ASSUME con' = [con EXCEPT ![d] = [con[d] EXCEPT !.out = 0, !.refs = @ - 1]],
             con[d].refs = 1
      PROVE  Released(d)
  <2> DEFINE freed == [con[d] EXCEPT !.out = 0, !.refs = con[d].refs - 1]
  <2>1. /\ DOMAIN freed = {"gen", "out", "sink", "refs"} /\ freed.out = 0
        /\ freed.refs = con[d].refs - 1 /\ freed.gen = con[d].gen /\ freed.sink = con[d].sink
    BY DEF ConShape
  <2>2. freed.refs = 0
    BY <1>4, <2>1
  <2>3. con' = [con EXCEPT ![d] = freed]
    BY <1>4
  <2> HIDE DEF freed
  <2> QED BY <2>1, <2>2, <2>3 DEF ConShape, Released
<1> QED BY <1>1, <1>2, <1>3, <1>4

(* The call goes on at another place; or with a status of its own.         *)
Moved(pc, status) ==
  /\ DOMAIN ctl' = DOMAIN ctl /\ ctl'.pc = pc /\ ctl'.op = ctl.op
  /\ ctl'.next = ctl.next /\ ctl'.phase = ctl.phase /\ ctl'.status = status

(* What an update of the place, and of the status, of a call does.         *)
LEMMA CallMoves ==
  ASSUME CallShape, NEW pc, NEW status
  PROVE  /\ Goto(pc) => Moved(pc, ctl.status)
         /\ ctl' = [ctl EXCEPT !.pc = pc, !.status = status] => Moved(pc, status)
  BY Zenon DEF CallShape, Goto, Moved

(* What is left of the plan is no more than it was.                        *)
Spending == Counted' /\ left'.faults <= left.faults

(* A step that works, a call that is counted and a native call that fails  *)
(* use up the plan as they should.                                         *)
LEMMA Spends ==
  ASSUME Counted, script' = script
  PROVE  /\ Works => Spending
         /\ \A op \in Calls : Count(op) => Spending
         /\ \A kind : Fails(kind) => Spending /\ Blame'
<1>1. Works => Spending
  BY DEF Counted, Works, Spending
<1>2. \A op \in Calls : Count(op) => Spending
  BY DEF Counted, Count, Spending
<1>3. \A kind : Fails(kind) => Spending /\ Blame'
  BY DEF Counted, Fails, Spending, Blame
<1> QED BY <1>1, <1>2, <1>3

(* What has gone wrong stays so.                                           *)
LEMMA BlameStays ==
  ASSUME Counted, Spending, script' = script,
         \A c \in Consoles : ~con[c].sink => ~con'[c].sink
  PROVE  Blame => Blame'
<1>1. left.faults < script.faults => left'.faults < script'.faults
  BY DEF Spending, Counted
<1> QED BY <1>1 DEF Blame

(* The backend keeps its console and its screen.                           *)
Backing(stop, reader) ==
  /\ DOMAIN be' = DOMAIN be /\ be'.console = be.console /\ be'.gen = be.gen
  /\ be'.mode = be.mode /\ be'.surface = be.surface
  /\ be'.stop = stop /\ be'.reader = reader
(* The broker's thread is between two calls.                               *)
Returned ==
  /\ DOMAIN ctl' = DOMAIN ctl /\ ctl'.pc = "idle" /\ ctl'.op = "none" /\ ctl' = NoCall
  /\ ctl'.next = "none" /\ ctl'.phase = "next" /\ ctl'.status = "ok"
Reader(pc, tag) == DOMAIN rd' = DOMAIN rd /\ rd'.pc = pc /\ rd'.tag = tag

(* A call that returns leaves no call.                                     *)
LEMMA Returns == ASSUME CallShape, Return PROVE Returned
  BY DEF CallShape, Return, Returned, NoCall

(* Between two calls there is no console to replace with.                  *)
LEMMA NotCalling ==
  ASSUME CallShape, At("idle")
  PROVE  /\ ctl.pc = "idle" /\ ctl.op = "none" /\ ctl.next = "none"
         /\ ctl.phase = "next" /\ ctl.status = "ok"
  BY DEF CallShape, At, NoCall

(* What a step that only uses up the plan leaves alone.                    *)
LEMMA PlanKeeps ==
  ASSUME IInv, UNCHANGED <<broker, con, be, native, input, heap, ctl, rd, wr>>, Spending,
         script' = script
  PROVE  IInv'
<1>1. BrokerShape' /\ ConShape' /\ BackendShape' /\ CallShape' /\ ReaderShape' /\ WriterShape'
  BY DEF IInv, BrokerShape, ConShape, BackendShape, CallShape, ReaderShape, WriterShape
<1>2. LockHeld' /\ OnScreen' /\ WriterBound' /\ Installed'
  BY SMTT(60) DEF IInv, LockHeld, Locking, OnScreen, WriterBound, Installed, Out,
     Allocated, Both
<1>3. InputTagged' /\ Retired' /\ Referred'
  BY SMTT(60) DEF IInv, InputTagged, Retired, Referred
<1>4. Agreed'
  BY Zenon DEF IInv, Agreed, Steady, Bound, Target, TargetGen
<1>5. Blamed'
  BY BlameStays DEF IInv, Blamed
<1> QED BY <1>1, <1>2, <1>3, <1>4, <1>5 DEF IInv, Spending

(* The broker is broken, or the next console is current.                   *)
Breaking ==
  /\ DOMAIN broker' = DOMAIN broker /\ broker'.broken /\ broker'.live = broker.live
  /\ broker'.current = broker.current /\ broker'.gen = broker.gen
  /\ broker'.output = broker.output

(* What the update that breaks the broker does.                            *)
LEMMA Breaks ==
  ASSUME BrokerShape, broker' = [broker EXCEPT !.broken = TRUE] PROVE Breaking
  BY DEF Breaking

(* The native input loses its first record, or all of them.                *)
Draining == /\ input' \in Seq(Nat)
            /\ \A i \in 1..Len(input') : \E j \in 1..Len(input) : input'[i] = input[j]

(* What reading and flushing do to the native input.                       *)
LEMMA Drains ==
  ASSUME input \in Seq(Nat), \/ input' = <<>>
                             \/ input' = input
                             \/ input # <<>> /\ input' = Tail(input)
  PROVE  Draining
<1>1. CASE input' = <<>>
  BY <1>1 DEF Draining
<1>2. CASE input' = input
  BY <1>2 DEF Draining
<1>3. CASE input # <<>> /\ input' = Tail(input)
  <2>1. /\ input' \in Seq(Nat) /\ Len(input') = Len(input) - 1
        /\ \A i \in 1..Len(input') : i + 1 \in 1..Len(input) /\ input'[i] = input[i + 1]
    BY <1>3
  <2> QED BY <2>1, Zenon DEF Draining
<1> QED BY <1>1, <1>2, <1>3

(* The next console's binding is installed.                                *)
LEMMA InstallNextKeeps ==
  ASSUME IInv, InstallNext, script' = script PROVE IInv'
<1>1. /\ BrokerShape /\ ConShape /\ BackendShape /\ CallShape /\ ReaderShape
      /\ WriterShape /\ LockHeld /\ OnScreen /\ WriterBound /\ Installed
      /\ InputTagged /\ Retired /\ Agreed /\ Referred /\ Counted /\ Blamed
  BY DEF IInv
<1>2. /\ ctl.pc = "install" /\ wr[ctl.next].pc = "idle" /\ Works
      /\ con' = [con EXCEPT ![ctl.next].out = broker.gen + 1] /\ Goto("lock")
      /\ UNCHANGED <<broker, be, native, input, heap, rd, wr, line>>
  BY DEF InstallNext, At, OutputFree
<1>3. ctl.op = "replace" /\ ctl.next \in Consoles /\ ctl.next # broker.current
  BY <1>1, <1>2 DEF CallShape, Replacing
<1>4. Moved("lock", ctl.status) /\ OutOnly(ctl.next, broker.gen + 1)
  BY <1>1, <1>2, <1>3, CallMoves, ConUpdates, Zenon
<1>5. Spending /\ (Blame => Blame')
  BY <1>1, <1>2, <1>3, Spends, BlameStays
<1>6. BrokerShape' /\ ConShape' /\ BackendShape' /\ ReaderShape' /\ WriterShape'
  BY <1>1, <1>2 DEF BrokerShape, ConShape, BackendShape, ReaderShape, WriterShape
<1>7. CallShape'
  BY <1>1, <1>2, <1>3, <1>4 DEF CallShape, Replacing, Moved
<1>8. LockHeld'
  BY <1>1, <1>2, <1>4 DEF LockHeld, Locking, Retiring, Moved
<1>9. OnScreen'
  BY <1>1, <1>2 DEF OnScreen
<1>10. WriterBound'
  BY <1>1, <1>2 DEF WriterBound
<1>11. Installed'
  BY <1>1, <1>2, <1>3, <1>4 DEF Installed, Out, Allocated, Both, Moved, OutOnly
<1>12. InputTagged'
  BY <1>1, <1>2 DEF InputTagged
<1>13. Retired'
  BY <1>1, <1>2, <1>4 DEF Retired, Moved
<1>14. Agreed'
  BY <1>1, <1>2, <1>4 DEF Agreed, Steady, Bound, Retiring, Moved
<1>15. Referred'
  BY <1>1, <1>2, <1>4 DEF Referred, Moved
<1>16. Counted' /\ Blamed'
  BY <1>1, <1>2, <1>4, <1>5 DEF Blamed, Moved, Spending
<1> QED BY <1>6, <1>7, <1>8, <1>9, <1>10, <1>11, <1>12, <1>13, <1>14, <1>15, <1>16 DEF
           IInv

(* A replacement that could prepare the next console.                      *)
LEMMA ReplaceKeeps ==
  ASSUME NEW next \in Consoles, IInv, At("idle"), broker.live, ~broker.broken,
         next # broker.current, Count("replace"),
         con' = [con EXCEPT ![next].refs = @ + 1], heap' = heap \cup {broker.gen + 1},
         ctl' = [NoCall EXCEPT !.pc = "install", !.op = "replace", !.next = next],
         UNCHANGED <<broker, be, native, input, rd, wr, line>>, script' = script PROVE IInv'
<1>1. /\ BrokerShape /\ ConShape /\ BackendShape /\ CallShape /\ ReaderShape
      /\ WriterShape /\ LockHeld /\ OnScreen /\ WriterBound /\ Installed
      /\ InputTagged /\ Retired /\ Agreed /\ Referred /\ Counted /\ Blamed
  BY DEF IInv
<1>2. /\ ctl.pc = "idle" /\ ctl.op = "none" /\ ctl.next = "none"
      /\ ctl.phase = "next" /\ ctl.status = "ok"
  BY <1>1, NotCalling
<1>3. /\ DOMAIN ctl' = DOMAIN ctl /\ ctl'.pc = "install" /\ ctl'.op = "replace"
      /\ ctl'.next = next /\ ctl'.phase = "next" /\ ctl'.status = "ok"
  BY <1>1 DEF NoCall, CallShape
<1>4. RefsOnly(next, 1)
  <2>1. con[next].refs = 0
    BY <1>1, <1>2 DEF Referred
  <2>2. con[next].refs + 1 = 1
    BY <2>1
  <2> QED BY <1>1, <2>2, ConUpdates, Zenon
<1>5. Spending /\ (Blame => Blame')
  BY <1>1, Spends, BlameStays DEF Calls
<1>6. BrokerShape' /\ ConShape' /\ BackendShape' /\ ReaderShape' /\ WriterShape'
  BY <1>1 DEF BrokerShape, ConShape, BackendShape, ReaderShape, WriterShape
<1>7. CallShape'
  BY DEF CallShape, Replacing, NoCall
<1>8. LockHeld'
  BY <1>1, <1>2 DEF LockHeld, Locking, Retiring
<1>9. OnScreen'
  BY <1>1 DEF OnScreen, RefsOnly
<1>10. WriterBound'
  BY <1>1 DEF WriterBound
<1>11. Installed'
  <2>1. broker.output = broker.gen /\ broker.gen \in Nat \ {0} /\ heap = {broker.gen}
    BY <1>1, <1>2 DEF Installed, Allocated, Both, Retired, BrokerShape
  <2>2. \A c \in Consoles : con'[c].out = Out(c)'
    BY <1>1, <1>2 DEF Installed, Out, Both, Retiring
  <2>3. \A g : Allocated(g)' <=> g \in {broker.gen, broker.gen + 1}
    BY <2>1 DEF Allocated
  <2>4. heap' = {g \in {broker.output, broker.gen - 1, broker.gen, broker.gen + 1} :
                   Allocated(g)'}
    BY <2>1, <2>3
  <2> QED BY <2>1, <2>2, <2>4 DEF Installed
<1>12. InputTagged'
  BY <1>1, <1>2, <1>3, <1>4 DEF InputTagged, RefsOnly, BackendShape
<1>13. Retired'
  BY <1>1, <1>3, Zenon DEF Retired, RefsOnly
<1>14. Agreed'
  BY <1>1, <1>2 DEF Agreed, Steady, Bound
<1>15. Referred'
  BY <1>1, <1>2, <1>4 DEF Referred, RefsOnly
<1>16. Counted' /\ Blamed'
  BY <1>1, <1>3, <1>5 DEF Blamed, Spending
<1> QED BY <1>6, <1>7, <1>8, <1>9, <1>10, <1>11, <1>12, <1>13, <1>14, <1>15, <1>16 DEF
           IInv

(* A destruction begins.                                                   *)
LEMMA DestroyKeeps ==
  ASSUME IInv, console_broker_destroy, script' = script PROVE IInv'
<1>1. /\ BrokerShape /\ ConShape /\ BackendShape /\ CallShape /\ ReaderShape
      /\ WriterShape /\ LockHeld /\ OnScreen /\ WriterBound /\ Installed
      /\ InputTagged /\ Retired /\ Agreed /\ Referred /\ Counted /\ Blamed
  BY DEF IInv
<1>2. /\ At("idle") /\ broker.live /\ Count("destroy")
      /\ ctl' = [NoCall EXCEPT !.pc = "lock", !.op = "destroy"]
      /\ UNCHANGED <<broker, con, be, native, input, heap, rd, wr, line>>
  BY DEF console_broker_destroy, Enter
<1>3. /\ ctl.pc = "idle" /\ ctl.op = "none" /\ ctl.next = "none"
      /\ ctl.phase = "next" /\ ctl.status = "ok"
  BY <1>1, <1>2, NotCalling
<1>4. /\ DOMAIN ctl' = DOMAIN ctl /\ ctl'.pc = "lock" /\ ctl'.op = "destroy"
      /\ ctl'.next = "none" /\ ctl'.phase = "next" /\ ctl'.status = "ok"
  BY <1>1, <1>2 DEF NoCall, CallShape
<1>5. Spending /\ (Blame => Blame')
  BY <1>1, <1>2, Spends, BlameStays DEF Calls
<1>6. BrokerShape' /\ ConShape' /\ BackendShape' /\ ReaderShape' /\ WriterShape'
  BY <1>1, <1>2 DEF BrokerShape, ConShape, BackendShape, ReaderShape, WriterShape
<1>7. CallShape'
  BY <1>2 DEF CallShape, Replacing, NoCall
<1>8. LockHeld'
  BY <1>1, <1>2, <1>3 DEF LockHeld, Locking, Retiring
<1>9. OnScreen'
  BY <1>1, <1>2 DEF OnScreen
<1>10. WriterBound'
  BY <1>1, <1>2 DEF WriterBound
<1>11. Installed'
  BY <1>1, <1>2, <1>3 DEF Installed, Out, Allocated, Both
<1>12. InputTagged'
  BY <1>1, <1>2 DEF InputTagged
<1>13. Retired'
  BY <1>1, <1>2, <1>4, Zenon DEF Retired
<1>14. Agreed'
  BY <1>1, <1>2, <1>3 DEF Agreed, Steady, Bound, Retiring
<1>15. Referred'
  BY <1>1, <1>2, <1>3 DEF Referred
<1>16. Counted' /\ Blamed'
  BY <1>1, <1>2, <1>4, <1>5 DEF Counted, Blamed, Spending
<1> QED BY <1>6, <1>7, <1>8, <1>9, <1>10, <1>11, <1>12, <1>13, <1>14, <1>15, <1>16 DEF
           IInv

(* The broker takes the output lock.                                       *)
LEMMA LockKeeps ==
  ASSUME IInv, LockOutput, script' = script PROVE IInv'
<1>1. /\ BrokerShape /\ ConShape /\ BackendShape /\ CallShape /\ ReaderShape
      /\ WriterShape /\ LockHeld /\ OnScreen /\ WriterBound /\ Installed
      /\ InputTagged /\ Retired /\ Agreed /\ Referred /\ Counted /\ Blamed
  BY DEF IInv
<1>2. /\ ctl.pc = "lock" /\ native = "free" /\ native' = "broker" /\ Works /\ Goto("stop")
      /\ UNCHANGED <<broker, con, be, input, heap, rd, wr, line>>
  BY DEF LockOutput, At
<1>3. Moved("stop", ctl.status)
  BY <1>1, <1>2, CallMoves, Zenon
<1>4. Spending /\ (Blame => Blame')
  BY <1>1, <1>2, Spends, BlameStays
<1>5. BrokerShape' /\ ConShape' /\ BackendShape' /\ ReaderShape' /\ WriterShape'
  BY <1>1, <1>2 DEF BrokerShape, ConShape, BackendShape, ReaderShape, WriterShape
<1>6. CallShape'
  BY <1>1, <1>2, <1>3 DEF CallShape, Replacing, Retiring, Moved
<1>7. LockHeld'
  BY <1>1, <1>2, <1>3, ConsoleBrokerAssumption DEF LockHeld, Locking, Retiring, Moved,
     CallShape
<1>8. OnScreen'
  BY <1>1, <1>2 DEF OnScreen
<1>9. WriterBound'
  BY <1>1, <1>2 DEF WriterBound
<1>10. Installed'
  BY <1>1, <1>2, <1>3 DEF Installed, Out, Allocated, Both, Retiring, Moved
<1>11. InputTagged'
  BY <1>1, <1>2 DEF InputTagged
<1>12. Retired'
  BY <1>1, <1>2, <1>3 DEF Retired, Moved
<1>13. Agreed'
  BY <1>1, <1>2, <1>3 DEF Agreed, Steady, Bound, Moved
<1>14. Referred'
  BY <1>1, <1>2, <1>3 DEF Referred, Moved
<1>15. Counted' /\ Blamed'
  BY <1>1, <1>2, <1>3, <1>4 DEF Blamed, Moved, Spending
<1> QED BY <1>5, <1>6, <1>7, <1>8, <1>9, <1>10, <1>11, <1>12, <1>13, <1>14, <1>15 DEF
           IInv

(* A cancel begins; with no reader there is nothing to retire.             *)
LEMMA CancelKeeps ==
  ASSUME IInv, console_broker_cancel_cooked_line, script' = script PROVE IInv'
<1>1. /\ BrokerShape /\ ConShape /\ BackendShape /\ CallShape /\ ReaderShape
      /\ WriterShape /\ LockHeld /\ OnScreen /\ WriterBound /\ Installed
      /\ InputTagged /\ Retired /\ Agreed /\ Referred /\ Counted /\ Blamed
  BY DEF IInv
<1>2. /\ At("idle") /\ broker.live /\ ~broker.broken /\ Count("cancel")
      /\ ctl' = [NoCall EXCEPT !.pc = IF be.reader = "none" THEN "answered" ELSE "stop",
                               !.op = "cancel", !.completed = be.reader = "none"]
      /\ UNCHANGED <<broker, con, be, native, input, heap, rd, wr, line>>
  BY DEF console_broker_cancel_cooked_line, CookedCall, Enter
<1>3. /\ ctl.pc = "idle" /\ ctl.op = "none" /\ ctl.next = "none"
      /\ ctl.phase = "next" /\ ctl.status = "ok"
  BY <1>1, <1>2, NotCalling
<1>4. /\ DOMAIN ctl' = DOMAIN ctl /\ ctl'.op = "cancel"
      /\ ctl'.pc \in {"answered", "stop"}
      /\ ctl'.next = "none" /\ ctl'.phase = "next" /\ ctl'.status = "ok"
  BY <1>1, <1>2 DEF NoCall, CallShape
<1>5. Spending /\ (Blame => Blame')
  BY <1>1, <1>2, Spends, BlameStays DEF Calls
<1>6. BrokerShape' /\ ConShape' /\ BackendShape' /\ ReaderShape' /\ WriterShape'
  BY <1>1, <1>2, <1>3, <1>4 DEF BrokerShape, ConShape, BackendShape, ReaderShape,
     WriterShape
<1>7. CallShape'
  BY <1>2 DEF CallShape, Replacing, Retiring, NoCall
<1>8. LockHeld'
  BY <1>1, <1>2, <1>3 DEF LockHeld, Locking
<1>9. OnScreen'
  BY <1>1, <1>2 DEF OnScreen
<1>10. WriterBound'
  BY <1>1, <1>2 DEF WriterBound
<1>11. Installed'
  BY <1>1, <1>2, <1>3 DEF Installed, Out, Allocated, Both
<1>12. InputTagged'
  BY <1>1, <1>2 DEF InputTagged
<1>13. Retired'
  BY <1>1, <1>2, <1>4, Zenon DEF Retired
<1>14. Agreed'
  BY <1>1, <1>2, <1>3 DEF Agreed, Steady, Bound
<1>15. Referred'
  BY <1>1, <1>2, <1>3 DEF Referred
<1>16. Counted' /\ Blamed'
  BY <1>1, <1>2, <1>4, <1>5 DEF Blamed, Spending
<1> QED BY <1>6, <1>7, <1>8, <1>9, <1>10, <1>11, <1>12, <1>13, <1>14, <1>15, <1>16 DEF
           IInv

(* A line is requested of a console that has none armed.                   *)
LEMMA RequestKeeps ==
  ASSUME IInv, At("idle"), broker.live, ~broker.broken,
         Count("request"), ctl' = [NoCall EXCEPT !.pc = "rearm", !.op = "request"],
         UNCHANGED <<broker, con, be, native, input, heap, rd, wr, line>>, script' = script
  PROVE  IInv'
<1>1. /\ BrokerShape /\ ConShape /\ BackendShape /\ CallShape /\ ReaderShape
      /\ WriterShape /\ LockHeld /\ OnScreen /\ WriterBound /\ Installed
      /\ InputTagged /\ Retired /\ Agreed /\ Referred /\ Counted /\ Blamed
  BY DEF IInv
<1>2. /\ ctl.pc = "idle" /\ ctl.op = "none" /\ ctl.next = "none"
      /\ ctl.phase = "next" /\ ctl.status = "ok"
  BY <1>1, NotCalling
<1>3. /\ DOMAIN ctl' = DOMAIN ctl /\ ctl'.op = "request" /\ ctl'.pc = "rearm"
      /\ ctl'.next = "none" /\ ctl'.phase = "next" /\ ctl'.status = "ok"
  BY <1>1 DEF NoCall, CallShape
<1>4. Spending /\ (Blame => Blame')
  BY <1>1, Spends, BlameStays DEF Calls
<1>5. BrokerShape' /\ ConShape' /\ BackendShape' /\ ReaderShape' /\ WriterShape'
  BY <1>1 DEF BrokerShape, ConShape, BackendShape, ReaderShape, WriterShape
<1>6. CallShape'
  BY DEF CallShape, Replacing, Retiring, NoCall
<1>7. LockHeld'
  BY <1>1, <1>2 DEF LockHeld, Locking
<1>8. OnScreen'
  BY <1>1 DEF OnScreen
<1>9. WriterBound'
  BY <1>1 DEF WriterBound
<1>10. Installed'
  BY <1>1, <1>2 DEF Installed, Out, Allocated, Both
<1>11. InputTagged'
  BY <1>1 DEF InputTagged
<1>12. Retired'
  BY <1>1, <1>3, Zenon DEF Retired
<1>13. Agreed'
  BY <1>1, <1>2, <1>3 DEF Agreed, Steady, Bound, Retiring
<1>14. Referred'
  BY <1>1, <1>2 DEF Referred
<1>15. Counted' /\ Blamed'
  BY <1>1, <1>3, <1>4 DEF Blamed, Spending
<1> QED BY <1>5, <1>6, <1>7, <1>8, <1>9, <1>10, <1>11, <1>12, <1>13, <1>14, <1>15 DEF
           IInv

(* The reader of a requested line is started, or could not be.             *)
LEMMA RearmKeeps ==
  ASSUME IInv, Rearm, script' = script PROVE IInv'
<1>1. /\ BrokerShape /\ ConShape /\ BackendShape /\ CallShape /\ ReaderShape
      /\ WriterShape /\ LockHeld /\ OnScreen /\ WriterBound /\ Installed
      /\ InputTagged /\ Retired /\ Agreed /\ Referred /\ Counted /\ Blamed
  BY DEF IInv
<1>2. /\ ctl.pc = "rearm" /\ be.reader # "run" /\ Return
      /\ UNCHANGED <<broker, con, native, input, heap, wr>>
  BY DEF Rearm, At
<1>3. /\ ctl.op = "request" /\ Returned /\ be.console = broker.current /\ be.stop = "clear"
      /\ be.console # "none" /\ broker.live /\ ~broker.broken
  BY <1>1, <1>2, Returns, ConsoleBrokerAssumption, Zenon DEF CallShape, Retired, Agreed,
     Steady, BrokerShape
<1>4. \/ Works /\ UNCHANGED <<be, rd>>
      \/ Works /\ Backing(be.stop, "run") /\ be'.status = "ok" /\ Reader("read", 0)
      \/ Fails("reader") /\ Backing(be.stop, "none") /\ be'.status = "ok" /\ UNCHANGED rd
  <2>1. CASE be.reader = "done" /\ be.status # "ok"
    BY <2>1 DEF Rearm
  <2>2. CASE ~(be.reader = "done" /\ be.status # "ok")
    <3>1. \/ /\ Works
             /\ be' = [be EXCEPT !.reader = "run", !.status = "ok", !.pending = TRUE]
             /\ rd' = [pc |-> "read", tag |-> 0]
          \/ /\ Fails("reader") /\ UNCHANGED rd
             /\ be' = [be EXCEPT !.reader = "none", !.status = "ok", !.pending = FALSE]
      BY <2>2, Zenon DEF Rearm
    <3>2. CASE /\ Works
               /\ be' = [be EXCEPT !.reader = "run", !.status = "ok", !.pending = TRUE]
               /\ rd' = [pc |-> "read", tag |-> 0]
      BY <1>1, <3>2 DEF ReaderShape, Backing, Reader
    <3>3. CASE /\ Fails("reader") /\ UNCHANGED rd
               /\ be' = [be EXCEPT !.reader = "none", !.status = "ok", !.pending = FALSE]
      BY <3>3 DEF Backing
    <3> QED BY <3>1, <3>2, <3>3
  <2> QED BY <2>1, <2>2
<1>5. Spending /\ (Blame => Blame')
  BY <1>1, <1>2, <1>4, Spends, BlameStays
<1>6. BrokerShape' /\ ConShape' /\ BackendShape' /\ ReaderShape' /\ WriterShape'
  BY <1>1, <1>2, <1>4 DEF BrokerShape, ConShape, BackendShape, ReaderShape, WriterShape,
     Backing, Reader
<1>7. CallShape'
  BY <1>3 DEF CallShape, Replacing, Retiring, NoCall, Returned, Backing, Reader
<1>8. LockHeld'
  BY <1>1, <1>2, <1>3 DEF LockHeld, Locking, Returned
<1>9. OnScreen'
  BY <1>1, <1>2, <1>4 DEF OnScreen, Backing
<1>10. WriterBound'
  BY <1>1, <1>2, <1>4 DEF WriterBound, Backing
<1>11. Installed'
  BY <1>1, <1>2, <1>3 DEF Installed, Out, Allocated, Both, Returned, Backing, Reader
<1>12. InputTagged'
  BY <1>1, <1>2, <1>4 DEF InputTagged, Backing, Reader
<1>13. Retired'
  BY <1>1, <1>2, <1>3, <1>4 DEF Retired, Returned, Backing
<1>14. Agreed'
  BY <1>1, <1>2, <1>3, <1>4 DEF Agreed, Steady, Bound, Retiring, Returned, Backing
<1>15. Referred'
  BY <1>1, <1>2, <1>3 DEF Referred, Returned
<1>16. Counted' /\ Blamed'
  BY <1>1, <1>2, <1>3, <1>4, <1>5 DEF Blamed, Returned, Reader, Spending
<1> QED BY <1>6, <1>7, <1>8, <1>9, <1>10, <1>11, <1>12, <1>13, <1>14, <1>15, <1>16 DEF
           IInv

(* The reader is told to stop.                                             *)
LEMMA SetStopKeeps ==
  ASSUME IInv, SetStop, script' = script PROVE IInv'
<1>1. /\ BrokerShape /\ ConShape /\ BackendShape /\ CallShape /\ ReaderShape
      /\ WriterShape /\ LockHeld /\ OnScreen /\ WriterBound /\ Installed
      /\ InputTagged /\ Retired /\ Agreed /\ Referred /\ Counted /\ Blamed
  BY DEF IInv
<1>2. /\ ctl.pc = "stop" /\ UNCHANGED <<broker, con, native, input, heap, rd, wr, line>>
  BY DEF SetStop, At
<1>3. \/ be.reader = "none" /\ Works /\ Moved("joined", ctl.status) /\ UNCHANGED be
      \/ /\ be.reader # "none" /\ Works /\ Moved("wake", ctl.status)
         /\ Backing("set", be.reader) /\ be'.status = be.status
      \/ be.reader # "none" /\ Fails("stop") /\ Moved("join", "error") /\ UNCHANGED be
  BY <1>1, CallMoves, Zenon DEF SetStop, BackendShape, Backing
<1>4. /\ Spending /\ (Blame => Blame') /\ (ctl'.status # ctl.status => Blame')
      /\ ctl.op \in {"replace", "destroy", "cancel"}
  BY <1>1, <1>2, <1>3, Spends, BlameStays, Zenon DEF Moved, CallShape
<1>5. BrokerShape' /\ ConShape' /\ BackendShape' /\ ReaderShape' /\ WriterShape'
  BY <1>1, <1>2, <1>3 DEF BrokerShape, ConShape, BackendShape, ReaderShape, WriterShape,
     Backing
<1>6. CallShape'
  BY <1>1, <1>2, <1>3, Zenon DEF CallShape, Replacing, Retiring, Moved
<1>7. LockHeld'
  BY <1>1, <1>2, <1>3 DEF LockHeld, Locking, Retiring, Moved
<1>8. OnScreen'
  BY <1>1, <1>2, <1>3 DEF OnScreen, Backing
<1>9. WriterBound'
  BY <1>1, <1>2, <1>3 DEF WriterBound, Backing
<1>10. Installed'
  BY <1>1, <1>2, <1>3, <1>4, SMTT(60) DEF Installed, Out, Allocated, Both, Retiring,
     Moved, Backing
<1>11. InputTagged'
  BY <1>1, <1>2, <1>3 DEF InputTagged, Backing
<1>12. Retired'
  BY <1>1, <1>2, <1>3, Zenon DEF Retired, Moved, Backing
<1>13. Agreed'
  BY <1>1, <1>2, <1>3, <1>4, Zenon DEF Agreed, Steady, Bound, Retiring, Moved, Backing
<1>14. Referred'
  BY <1>1, <1>2, <1>3, Zenon DEF Referred, Moved
<1>15. Counted' /\ Blamed'
  BY <1>1, <1>2, <1>3, <1>4 DEF Blamed, Spending
<1> QED BY <1>5, <1>6, <1>7, <1>8, <1>9, <1>10, <1>11, <1>12, <1>13, <1>14, <1>15 DEF
           IInv

(* A cooked reader is woken; the record it reads comes after the stop.     *)
LEMMA WakeReaderKeeps ==
  ASSUME IInv, WakeReader, script' = script PROVE IInv'
<1>1. /\ BrokerShape /\ ConShape /\ BackendShape /\ CallShape /\ ReaderShape
      /\ WriterShape /\ LockHeld /\ OnScreen /\ WriterBound /\ Installed
      /\ InputTagged /\ Retired /\ Agreed /\ Referred /\ Counted /\ Blamed
  BY DEF IInv
<1>2. /\ ctl.pc = "wake" /\ UNCHANGED <<broker, con, be, native, heap, rd, wr, line>>
  BY DEF WakeReader, At
<1>3. /\ \/ Works /\ Moved("join", ctl.status)
         \/ Fails("wake") /\ Moved("join", "error")
      /\ input' = input \/ input' = Append(input, 0)
  BY <1>1, CallMoves, Zenon DEF WakeReader
<1>4. /\ Spending /\ (Blame => Blame') /\ (ctl'.status # ctl.status => Blame')
      /\ ctl.op \in {"replace", "destroy", "cancel"} /\ be.stop = "set"
  BY <1>1, <1>2, <1>3, Spends, BlameStays DEF Moved, Blame, CallShape, Retiring, Retired
<1>5. BrokerShape' /\ ConShape' /\ BackendShape' /\ ReaderShape' /\ WriterShape'
  BY <1>1, <1>2 DEF BrokerShape, ConShape, BackendShape, ReaderShape, WriterShape
<1>6. CallShape'
  BY <1>1, <1>2, <1>3, Zenon DEF CallShape, Replacing, Retiring, Moved
<1>7. LockHeld'
  BY <1>1, <1>2, <1>3 DEF LockHeld, Locking, Retiring, Moved
<1>8. OnScreen'
  BY <1>1, <1>2 DEF OnScreen
<1>9. WriterBound'
  BY <1>1, <1>2 DEF WriterBound
<1>10. Installed'
  BY <1>1, <1>2, <1>3, Zenon DEF Installed, Out, Allocated, Both, Retiring, Moved
<1>11. InputTagged'
  BY <1>1, <1>2, <1>3, <1>4 DEF InputTagged
<1>12. Retired'
  BY <1>1, <1>2, <1>3, Zenon DEF Retired, Moved
<1>13. Agreed'
  BY <1>1, <1>2, <1>3, Zenon DEF Agreed, Steady, Bound, Retiring, Moved
<1>14. Referred'
  BY <1>1, <1>2, <1>3, Zenon DEF Referred, Moved
<1>15. Counted' /\ Blamed'
  BY <1>1, <1>2, <1>4 DEF Blamed, Spending
<1> QED BY <1>5, <1>6, <1>7, <1>8, <1>9, <1>10, <1>11, <1>12, <1>13, <1>14, <1>15 DEF
           IInv

(* The reader has exited, or has not in time.                              *)
LEMMA JoinReaderKeeps ==
  ASSUME IInv, JoinReader, script' = script PROVE IInv'
<1>1. /\ BrokerShape /\ ConShape /\ BackendShape /\ CallShape /\ ReaderShape
      /\ WriterShape /\ LockHeld /\ OnScreen /\ WriterBound /\ Installed
      /\ InputTagged /\ Retired /\ Agreed /\ Referred /\ Counted /\ Blamed
  BY DEF IInv
<1>2. /\ ctl.pc = "join" /\ UNCHANGED <<broker, con, native, input, heap, rd, wr, line>>
  BY DEF JoinReader, At
<1>3. \/ /\ be.reader = "done" /\ Works /\ Backing(be.stop, "none") /\ be'.status = be.status
         /\ Moved("joined", IF ctl.status = "ok" THEN be.status ELSE ctl.status)
      \/ /\ be.reader = "run" /\ (Works \/ Fails("timeout")) /\ UNCHANGED be
         /\ Moved("exited", ctl.status)
  <2>1. CASE be.reader = "done"
    <3>1. /\ Works /\ be' = [be EXCEPT !.reader = "none"]
          /\ ctl' = [ctl EXCEPT !.pc = "joined",
               !.status = IF ctl.status = "ok" THEN be.status ELSE ctl.status]
      BY <2>1 DEF JoinReader
    <3> QED BY <1>1, <2>1, <3>1, CallMoves, Zenon DEF Backing, BackendShape
  <2>2. CASE be.reader = "run"
    BY <1>1, <2>2, CallMoves, Zenon DEF JoinReader
  <2> QED BY <2>1, <2>2 DEF JoinReader
<1>4. /\ Spending /\ (Blame => Blame') /\ (ctl'.status # "ok" => Blame')
      /\ ctl.op \in {"replace", "destroy", "cancel"}
  BY <1>1, <1>2, <1>3, Spends, BlameStays DEF Moved, Blamed, CallShape
<1>5. BrokerShape' /\ ConShape' /\ BackendShape' /\ ReaderShape' /\ WriterShape'
  BY <1>1, <1>2, <1>3 DEF BrokerShape, ConShape, BackendShape, ReaderShape, WriterShape,
     Backing
<1>6. CallShape'
  BY <1>1, <1>2, <1>3, <1>4, Zenon DEF CallShape, Replacing, Retiring, Moved
<1>7. LockHeld'
  BY <1>1, <1>2, <1>3 DEF LockHeld, Locking, Retiring, Moved
<1>8. OnScreen'
  BY <1>1, <1>2, <1>3 DEF OnScreen, Backing
<1>9. WriterBound'
  BY <1>1, <1>2, <1>3 DEF WriterBound, Backing
<1>10. Installed'
  BY <1>1, <1>2, <1>3, <1>4, Zenon DEF Installed, Out, Allocated, Both, Retiring, Moved
<1>11. InputTagged'
  BY <1>1, <1>2, <1>3 DEF InputTagged, Backing
<1>12. Retired'
  BY <1>1, <1>2, <1>3, Zenon DEF Retired, Moved, Backing
<1>13. Agreed'
  BY <1>1, <1>2, <1>3, Zenon DEF Agreed, Steady, Bound, Retiring, Moved, Backing
<1>14. Referred'
  BY <1>1, <1>2, <1>3, Zenon DEF Referred, Moved
<1>15. Counted' /\ Blamed'
  BY <1>1, <1>2, <1>3, <1>4 DEF Blamed, Spending
<1> QED BY <1>5, <1>6, <1>7, <1>8, <1>9, <1>10, <1>11, <1>12, <1>13, <1>14, <1>15 DEF
           IInv

(* A cancel has retired the reader: it answers, or the broker is broken.   *)
LEMMA FinishCancelKeeps ==
  ASSUME IInv, FinishCancel, script' = script PROVE IInv'
<1>1. /\ BrokerShape /\ ConShape /\ BackendShape /\ CallShape /\ ReaderShape
      /\ WriterShape /\ LockHeld /\ OnScreen /\ WriterBound /\ Installed
      /\ InputTagged /\ Retired /\ Agreed /\ Referred /\ Counted /\ Blamed
  BY DEF IInv
<1>2. /\ ctl.pc = "joined" /\ ctl.op = "cancel" /\ UNCHANGED <<con, native, heap, rd, wr, line>>
  BY DEF FinishCancel, At
<1>3. \/ /\ ctl.status = "ok" /\ Works /\ Backing("clear", be.reader) /\ be'.status = be.status
         /\ Moved("answered", ctl.status) /\ input' = <<>> /\ UNCHANGED broker
      \/ /\ IF ctl.status = "ok" THEN Fails("flush") ELSE Works
         /\ Breaking /\ Returned /\ UNCHANGED <<be, input>>
  <2>1. CASE /\ ctl.status = "ok" /\ Works
             /\ be' = [be EXCEPT !.pending = FALSE, !.stop = "clear"]
             /\ ctl' = [ctl EXCEPT !.pc = "answered", !.completed = ~be.pending]
             /\ input' = <<>> /\ UNCHANGED broker
    <3>1. Moved("answered", ctl.status)
      BY <2>1 DEF Moved
    <3>2. Backing("clear", be.reader) /\ be'.status = be.status
      BY <2>1 DEF Backing
    <3> QED BY <2>1, <3>1, <3>2
  <2>2. CASE /\ IF ctl.status = "ok" THEN Fails("flush") ELSE Works
             /\ broker' = [broker EXCEPT !.broken = TRUE] /\ Return /\ UNCHANGED <<be, input>>
    BY <1>1, <2>2, Returns, Breaks
  <2> QED BY <2>1, <2>2, Zenon DEF FinishCancel
<1>4. /\ Spending /\ (Blame => Blame') /\ (broker' # broker => Blame')
      /\ be.reader = "none" /\ rd.pc = "off" /\ Draining
  BY <1>1, <1>2, <1>3, Spends, BlameStays, Drains DEF Blamed, Retired, InputTagged,
     ReaderShape
<1>5. BrokerShape' /\ ConShape' /\ BackendShape' /\ ReaderShape' /\ WriterShape'
  BY <1>1, <1>2, <1>3 DEF BrokerShape, ConShape, BackendShape, ReaderShape, WriterShape,
     Returned, Backing, Breaking
<1>6. CallShape'
  BY <1>1, <1>2, <1>3, Zenon DEF CallShape, Replacing, Retiring, Moved, Returned
<1>7. LockHeld'
  BY <1>1, <1>2, <1>3 DEF LockHeld, Locking, Moved, Returned
<1>8. OnScreen'
  BY <1>1, <1>2, <1>3 DEF OnScreen, Backing
<1>9. WriterBound'
  BY <1>1, <1>2, <1>3 DEF WriterBound, Backing
<1>10. Installed'
  <2>1. \A c \in Consoles : Out(c)' = Out(c)
    BY <1>2, <1>3, Zenon DEF Out, Both, Moved, Returned, Breaking
  <2>2. \A g : Allocated(g)' <=> Allocated(g)
    BY <1>2, <1>3, Zenon DEF Allocated, Both, Moved, Returned, Breaking
  <2>3. broker'.output = broker.output /\ broker'.gen = broker.gen
    BY <1>3 DEF Breaking
  <2> QED BY <1>1, <1>2, <1>3, <2>1, <2>2, <2>3, Zenon DEF Installed, Moved, Returned
<1>11. InputTagged'
  <2>1. CASE input' = <<>>
    <3>1. input' \in Seq(Nat) /\ \A i \in 1..Len(input') : FALSE
      BY <2>1
    <3> QED BY <1>2, <1>4, <3>1 DEF InputTagged
  <2>2. CASE UNCHANGED <<be, input>>
    BY <1>1, <1>2, <2>2 DEF InputTagged
  <2> QED BY <1>3, <2>1, <2>2
<1>12. Retired'
  BY <1>1, <1>2, <1>3, Zenon DEF Retired, Moved, Returned, Backing, Breaking
<1>13. Agreed'
  BY <1>1, <1>2, <1>3, <1>4, SMTT(60) DEF Agreed, Steady, Bound, Retiring, Moved,
     Returned, Backing, Breaking
<1>14. Referred'
  BY <1>1, <1>2, <1>3, <1>4, Zenon DEF Referred, Moved, Returned, Breaking
<1>15. Counted' /\ Blamed'
  BY <1>1, <1>2, <1>3, <1>4 DEF Blamed, Moved, Breaking, Spending
<1> QED BY <1>5, <1>6, <1>7, <1>8, <1>9, <1>10, <1>11, <1>12, <1>13, <1>14, <1>15 DEF
           IInv

(* A cancel answers.                                                       *)
LEMMA AnswerCancelKeeps ==
  ASSUME IInv, AnswerCancel, script' = script PROVE IInv'
<1>1. /\ BrokerShape /\ ConShape /\ BackendShape /\ CallShape /\ ReaderShape
      /\ WriterShape /\ LockHeld /\ OnScreen /\ WriterBound /\ Installed
      /\ InputTagged /\ Retired /\ Agreed /\ Referred /\ Counted /\ Blamed
  BY DEF IInv
<1>2. /\ ctl.pc = "answered" /\ Works /\ Return
      /\ UNCHANGED <<broker, con, be, native, input, heap, rd, wr>>
  BY DEF AnswerCancel, At
<1>3. Returned /\ ctl.op = "cancel"
  BY <1>1, <1>2, Returns DEF CallShape
<1>4. Spending /\ (Blame => Blame')
  BY <1>1, <1>2, Spends, BlameStays
<1>5. BrokerShape' /\ ConShape' /\ BackendShape' /\ ReaderShape' /\ WriterShape'
  BY <1>1, <1>2 DEF BrokerShape, ConShape, BackendShape, ReaderShape, WriterShape
<1>6. CallShape'
  BY <1>3 DEF CallShape, Replacing, Retiring, NoCall, Returned
<1>7. LockHeld'
  BY <1>1, <1>2, <1>3 DEF LockHeld, Locking, Returned
<1>8. OnScreen'
  BY <1>1, <1>2 DEF OnScreen
<1>9. WriterBound'
  BY <1>1, <1>2 DEF WriterBound
<1>10. Installed'
  BY <1>1, <1>2, <1>3 DEF Installed, Out, Allocated, Both, Returned
<1>11. InputTagged'
  BY <1>1, <1>2 DEF InputTagged
<1>12. Retired'
  BY <1>1, <1>2, <1>3 DEF Retired, Returned
<1>13. Agreed'
  BY <1>1, <1>2, <1>3 DEF Agreed, Steady, Bound, Returned
<1>14. Referred'
  BY <1>1, <1>2, <1>3 DEF Referred, Returned
<1>15. Counted' /\ Blamed'
  BY <1>1, <1>2, <1>3, <1>4 DEF Blamed, Returned, Spending
<1> QED BY <1>5, <1>6, <1>7, <1>8, <1>9, <1>10, <1>11, <1>12, <1>13, <1>14, <1>15 DEF
           IInv

(* A takeover or a destruction has retired the reader.                     *)
LEMMA DeactivateKeeps ==
  ASSUME IInv, Deactivate, script' = script PROVE IInv'
<1>1. /\ BrokerShape /\ ConShape /\ BackendShape /\ CallShape /\ ReaderShape
      /\ WriterShape /\ LockHeld /\ OnScreen /\ WriterBound /\ Installed
      /\ InputTagged /\ Retired /\ Agreed /\ Referred /\ Counted /\ Blamed
  BY DEF IInv
<1>2. /\ ctl.pc = "joined" /\ ctl.op # "cancel"
      /\ UNCHANGED <<broker, con, native, heap, rd, wr, line>>
      /\ be' = [be EXCEPT !.pending = FALSE, !.stop = "none", !.console = "none", !.gen = 0]
  BY DEF Deactivate, At
<1>3. /\ DOMAIN be' = DOMAIN be /\ be'.console = "none" /\ be'.gen = 0 /\ be'.stop = "none"
      /\ be'.reader = be.reader /\ be'.mode = be.mode /\ be'.status = be.status
  BY <1>2
<1>4. \/ Works /\ input' = <<>> /\ Moved("reset", ctl.status)
      \/ Fails("flush") /\ input' = input /\ Moved("reset", "error")
  <2>1. \/ /\ Works /\ input' = <<>>
           /\ ctl' = [ctl EXCEPT !.pc = "reset", !.request = be.pending, !.status = ctl.status]
        \/ /\ Fails("flush") /\ input' = input
           /\ ctl' = [ctl EXCEPT !.pc = "reset", !.request = be.pending, !.status = "error"]
    BY Zenon DEF Deactivate
  <2> QED BY <1>1, <2>1, Zenon DEF Moved, CallShape
<1>5. /\ Spending /\ (Blame => Blame') /\ (ctl'.status # ctl.status => Blame')
      /\ ctl.op \in {"replace", "destroy"} /\ be.reader = "none" /\ rd.pc = "off"
      /\ native = "broker" /\ \A c \in Consoles : wr[c].pc # "write"
  BY <1>1, <1>2, <1>4, Spends, BlameStays, ConsoleBrokerAssumption DEF Moved, CallShape,
     Retiring, Retired, ReaderShape, LockHeld, Locking
<1>6. Draining
  BY <1>1, <1>4, Drains DEF InputTagged
<1>7. BrokerShape' /\ ConShape' /\ BackendShape' /\ ReaderShape' /\ WriterShape'
  BY <1>1, <1>2 DEF BrokerShape, ConShape, BackendShape, ReaderShape, WriterShape
<1>8. CallShape'
  BY <1>1, <1>2, <1>4, Zenon DEF CallShape, Replacing, Moved
<1>9. LockHeld'
  BY <1>1, <1>2, <1>4 DEF LockHeld, Locking, Retiring, Moved
<1>10. OnScreen'
  BY <1>3 DEF OnScreen
<1>11. WriterBound'
  BY <1>1, <1>2, <1>5, <1>6 DEF WriterBound
<1>12. Installed'
  BY <1>1, <1>2, <1>4, Zenon DEF Installed, Out, Allocated, Both, Retiring, Moved
<1>13. InputTagged'
  BY <1>2, <1>5, <1>6 DEF InputTagged, Draining
<1>14. Retired'
  BY <1>1, <1>2, <1>3, <1>4, Zenon DEF Retired, Moved
<1>15. Agreed'
  BY <1>1, <1>2, <1>4, Zenon DEF Agreed, Steady, Bound, Retiring, Moved, Retired
<1>16. Referred'
  BY <1>1, <1>2, <1>4, Zenon DEF Referred, Moved
<1>17. Counted' /\ Blamed'
  BY <1>1, <1>2, <1>5 DEF Blamed, Spending
<1> QED BY <1>7, <1>8, <1>9, <1>10, <1>11, <1>12, <1>13, <1>14, <1>15, <1>16, <1>17 DEF
           IInv

(* The old console loses its binding.                                      *)
LEMMA ResetOldKeeps ==
  ASSUME IInv, ResetOld, ctl.status = "ok", script' = script PROVE IInv'
<1>1. /\ BrokerShape /\ ConShape /\ BackendShape /\ CallShape /\ ReaderShape
      /\ WriterShape /\ LockHeld /\ OnScreen /\ WriterBound /\ Installed
      /\ InputTagged /\ Retired /\ Agreed /\ Referred /\ Counted /\ Blamed
  BY DEF IInv
<1>2. /\ ctl.pc = "reset" /\ ctl.op = "replace" /\ Works
      /\ UNCHANGED <<be, input, heap, rd, wr, line>>
  BY DEF ResetOld, At
<1>3. Moved("bind", ctl.status) /\ UNCHANGED <<broker, native>>
  BY <1>1, CallMoves, Zenon DEF ResetOld
<1>4. /\ GenOnly(broker.current, 0) /\ broker.current \in Consoles
      /\ be.reader = "none" /\ be.console = "none" /\ be.stop = "none" /\ rd.pc = "off"
      /\ native = "broker" /\ \A c \in Consoles : wr[c].pc # "write"
  <2>1. con' = [con EXCEPT ![broker.current].gen = 0] /\ broker.current \in Consoles
    BY <1>1 DEF ResetOld, BrokerShape
  <2>2. GenOnly(broker.current, 0)
    BY <1>1, <2>1, ConUpdates, Zenon
  <2> QED BY <1>1, <1>2, <2>1, <2>2, ConsoleBrokerAssumption DEF Retired, ReaderShape,
             LockHeld, Locking
<1>5. Spending /\ (Blame => Blame')
  BY <1>1, <1>2, <1>4, Spends, BlameStays DEF GenOnly
<1>6. BrokerShape' /\ ConShape' /\ BackendShape' /\ ReaderShape' /\ WriterShape'
  BY <1>1, <1>2, <1>3, <1>4 DEF BrokerShape, BackendShape, ReaderShape, WriterShape,
     GenOnly
<1>7. CallShape'
  BY <1>1, <1>2, <1>3 DEF CallShape, Replacing, Retiring, Moved
<1>8. LockHeld'
  BY <1>2, <1>3, <1>4, ConsoleBrokerAssumption DEF LockHeld, Locking, Moved
<1>9. OnScreen'
  BY <1>2, <1>4 DEF OnScreen
<1>10. WriterBound'
  BY <1>1, <1>2, <1>4 DEF WriterBound, GenOnly
<1>11. Installed'
  BY <1>1, <1>2, <1>3, <1>4 DEF Installed, Out, Allocated, Both, Retiring, Moved,
     GenOnly
<1>12. InputTagged'
  BY <1>1, <1>2 DEF InputTagged, ReaderShape, Retired
<1>13. Retired'
  BY <1>1, <1>2, <1>3, <1>4 DEF Retired, Moved
<1>14. Agreed'
  BY <1>1, <1>2, <1>3, <1>4 DEF Agreed, Steady, Bound, Retiring, Moved, GenOnly
<1>15. Referred'
  BY <1>1, <1>2, <1>3, <1>4 DEF Referred, Moved, GenOnly
<1>16. Counted' /\ Blamed'
  BY <1>1, <1>2, <1>3, <1>5 DEF Blamed, Moved, Spending
<1> QED BY <1>6, <1>7, <1>8, <1>9, <1>10, <1>11, <1>12, <1>13, <1>14, <1>15, <1>16 DEF
           IInv

(* The old console loses its binding; the broker is broken.                *)
LEMMA ResetBreaks ==
  ASSUME IInv, ResetOld, ctl.status # "ok", script' = script PROVE IInv'
<1>1. /\ BrokerShape /\ ConShape /\ BackendShape /\ CallShape /\ ReaderShape
      /\ WriterShape /\ LockHeld /\ OnScreen /\ WriterBound /\ Installed
      /\ InputTagged /\ Retired /\ Agreed /\ Referred /\ Counted /\ Blamed
  BY DEF IInv
<1>2. /\ ctl.pc = "reset" /\ ctl.op = "replace" /\ Works
      /\ UNCHANGED <<be, input, heap, rd, wr, line>>
  BY Zenon DEF ResetOld, At
<1>3. Moved("remove_next", ctl.status) /\ Breaking /\ native' = "free"
  BY <1>1, CallMoves, Breaks, Zenon DEF ResetOld, Goto
<1>4. /\ GenOnly(broker.current, 0) /\ broker.current \in Consoles
      /\ be.reader = "none" /\ be.console = "none" /\ be.stop = "none" /\ rd.pc = "off"
      /\ native = "broker" /\ \A c \in Consoles : wr[c].pc # "write"
  <2>1. con' = [con EXCEPT ![broker.current].gen = 0] /\ broker.current \in Consoles
    BY <1>1, Zenon DEF ResetOld, BrokerShape
  <2>2. GenOnly(broker.current, 0)
    BY <1>1, <2>1, ConUpdates, Zenon
  <2> QED BY <1>1, <1>2, <2>1, <2>2, ConsoleBrokerAssumption DEF Retired, ReaderShape,
             LockHeld, Locking
<1>5. Spending /\ (Blame => Blame')
  BY <1>1, <1>2, <1>4, Spends, BlameStays DEF GenOnly
<1>6. BrokerShape' /\ ConShape' /\ BackendShape' /\ ReaderShape' /\ WriterShape'
  BY <1>1, <1>2, <1>3, <1>4, Zenon DEF BrokerShape, ConShape, BackendShape, ReaderShape,
     WriterShape, GenOnly, Breaking
<1>7. CallShape'
  BY <1>1, <1>2, <1>3, Zenon DEF CallShape, Replacing, Retiring, NoCall, Moved, Breaking
<1>8. LockHeld'
  BY <1>2, <1>3, <1>4, ConsoleBrokerAssumption, Zenon DEF LockHeld, Locking, Retiring,
     Moved
<1>9. OnScreen'
  BY <1>2, <1>4 DEF OnScreen
<1>10. WriterBound'
  <2>1. \A c \in Consoles : wr[c].pc # "idle" => con'[c].out = con[c].out
    BY <1>4 DEF GenOnly
  <2> QED BY <1>1, <1>2, <2>1 DEF WriterBound
<1>11. Installed'
  <2>1. \A c \in Consoles : con'[c].out = con[c].out /\ Out(c)' = Out(c)
    <3>1. \A c \in Consoles : con'[c].out = con[c].out
      BY <1>4 DEF GenOnly
    <3>2. \A c \in Consoles : Out(c)' = Out(c)
      BY <1>2, <1>3, Zenon DEF Out, Both, Moved, Breaking
    <3> QED BY <3>1, <3>2
  <2>2. \A g : Allocated(g)' <=> Allocated(g)
    BY <1>2, <1>3, Zenon DEF Allocated, Both, Moved, Breaking
  <2> QED BY <1>1, <1>2, <1>3, <2>1, <2>2, Zenon DEF Installed, Moved, Breaking
<1>12. InputTagged'
  BY <1>1, <1>2 DEF InputTagged, ReaderShape, Retired
<1>13. Retired'
  BY <1>1, <1>2, <1>3, Zenon DEF Retired, Moved, Breaking
<1>14. Agreed'
  BY <1>3, Zenon DEF Agreed, Steady, Moved, Breaking
<1>15. Referred'
  <2>1. \A c \in Consoles : con'[c].refs = con[c].refs
    BY <1>4 DEF GenOnly
  <2> QED BY <1>1, <1>2, <1>3, <2>1, SMTT(60) DEF Referred, Moved, Breaking
<1>16. Counted' /\ Blamed'
  BY <1>1, <1>5 DEF Blamed, Spending
<1> QED BY <1>6, <1>7, <1>8, <1>9, <1>10, <1>11, <1>12, <1>13, <1>14, <1>15, <1>16 DEF
           IInv

(* The target of the takeover, next or old, gets its generation.           *)
LEMMA BindTargetKeeps ==
  ASSUME IInv, BindTarget, script' = script PROVE IInv'
<1>1. /\ BrokerShape /\ ConShape /\ BackendShape /\ CallShape /\ ReaderShape
      /\ WriterShape /\ LockHeld /\ OnScreen /\ WriterBound /\ Installed
      /\ InputTagged /\ Retired /\ Agreed /\ Referred /\ Counted /\ Blamed
  BY DEF IInv
<1>2. /\ ctl.pc = "bind" /\ Works /\ Goto("activate")
      /\ con' = [con EXCEPT ![Target].gen = TargetGen]
      /\ UNCHANGED <<broker, be, native, input, heap, rd, wr, line>>
  BY DEF BindTarget, At
<1>3. /\ Target \in Consoles /\ Moved("activate", ctl.status)
      /\ be.reader = "none" /\ be.console = "none" /\ be.stop = "none" /\ rd.pc = "off"
  BY <1>1, <1>2, CallMoves, Zenon DEF BrokerShape, CallShape, Replacing, Target,
     Retired, ReaderShape
<1>4. /\ Target' = Target /\ TargetGen' = TargetGen /\ GenOnly(Target, TargetGen)
      /\ Spending
  BY <1>1, <1>2, <1>3, ConUpdates, Spends, Zenon DEF Target, TargetGen, Moved
<1>5. Blame => Blame'
  BY <1>1, <1>4, BlameStays DEF GenOnly
<1>6. BrokerShape' /\ ConShape' /\ BackendShape' /\ ReaderShape' /\ WriterShape'
  BY <1>1, <1>2 DEF BrokerShape, ConShape, BackendShape, ReaderShape, WriterShape
<1>7. CallShape'
  BY <1>1, <1>2, <1>3 DEF CallShape, Replacing, Retiring, Moved, GenOnly
<1>8. LockHeld'
  BY <1>1, <1>2, <1>3, <1>4 DEF LockHeld, Locking, Moved, GenOnly
<1>9. OnScreen'
  BY <1>2, <1>3 DEF OnScreen
<1>10. WriterBound'
  BY <1>1, <1>2, <1>3, <1>4 DEF WriterBound, GenOnly
<1>11. Installed'
  BY <1>1, <1>2, <1>3 DEF Installed, Out, Allocated, Both, Retiring, Moved
<1>12. InputTagged'
  BY <1>1, <1>2, <1>3, <1>4 DEF InputTagged, GenOnly, BackendShape, ReaderShape
<1>13. Retired'
  BY <1>1, <1>2, <1>3, <1>4 DEF Retired, Moved
<1>14. Agreed'
  BY <1>1, <1>2, <1>3, <1>4 DEF Agreed, Steady, Bound, Retiring, Moved, GenOnly
<1>15. Referred'
  BY <1>1, <1>2, <1>3 DEF Referred, Moved
<1>16. Counted' /\ Blamed'
  BY <1>1, <1>2, <1>3, <1>4, <1>5 DEF Blamed, Moved, GenOnly, Spending
<1> QED BY <1>6, <1>7, <1>8, <1>9, <1>10, <1>11, <1>12, <1>13, <1>14, <1>15, <1>16 DEF
           IInv

(* While the target is activated no reader runs, nothing is on the screen, *)
(* and the broker has the output lock.                                     *)
LEMMA Activating ==
  ASSUME IInv, At("activate")
  PROVE  /\ ctl.pc = "activate" /\ ctl.op = "replace" /\ ctl.status = "ok"
         /\ Target \in Consoles /\ Target # "none" /\ TargetGen \in Nat
         /\ be.reader = "none" /\ be.console = "none" /\ be.stop = "none" /\ rd.pc = "off"
         /\ native = "broker" /\ \A c \in Consoles : wr[c].pc # "write"
         /\ broker.live /\ ~broker.broken
<1>1. BrokerShape /\ CallShape /\ Retired /\ ReaderShape /\ LockHeld
  BY DEF IInv
<1>2. ctl.pc = "activate" /\ ctl.op = "replace" /\ ctl.status = "ok"
  BY <1>1 DEF At, CallShape, Replacing
<1>3. Target \in Consoles /\ TargetGen \in Nat
  BY <1>1, <1>2 DEF CallShape, BrokerShape, Target, TargetGen
<1>4. be.reader = "none" /\ be.console = "none" /\ be.stop = "none" /\ rd.pc = "off"
  BY <1>1, <1>2 DEF Retired, ReaderShape
<1>5. native = "broker"
  BY <1>1, <1>2 DEF LockHeld, Locking
<1>6. "none" \notin Consoles /\ "broker" \notin Consoles
  BY ConsoleBrokerAssumption
<1>7. \A c \in Consoles : wr[c].pc # "write"
  BY <1>1, <1>5, <1>6 DEF LockHeld
<1>8. broker.live /\ ~broker.broken
  BY <1>1, <1>2 DEF Retired
<1> QED BY <1>2, <1>3, <1>4, <1>5, <1>6, <1>7, <1>8

(* The target is activated.                                                *)
LEMMA ActivatedKeeps ==
  ASSUME IInv, At("activate"), Works, Activated,
         UNCHANGED <<broker, native, heap, wr, line>>, script' = script PROVE IInv'
<1>1. /\ BrokerShape /\ ConShape /\ BackendShape /\ CallShape /\ ReaderShape
      /\ WriterShape /\ LockHeld /\ OnScreen /\ WriterBound /\ Installed
      /\ InputTagged /\ Retired /\ Agreed /\ Referred /\ Counted /\ Blamed
  BY DEF IInv
<1>2. /\ ctl.pc = "activate" /\ ctl.op = "replace" /\ ctl.status = "ok"
      /\ Target \in Consoles /\ Target # "none" /\ TargetGen \in Nat
      /\ be.reader = "none" /\ be.console = "none" /\ be.stop = "none" /\ rd.pc = "off"
      /\ native = "broker" /\ \A c \in Consoles : wr[c].pc # "write"
      /\ broker.live /\ ~broker.broken
  BY Activating
<1>3. /\ DOMAIN be' = DOMAIN be /\ be'.console = Target /\ be'.gen = TargetGen
      /\ be'.mode = Mode[Target] /\ be'.surface = Mode[Target] /\ be'.stop = "clear"
      /\ be'.status \in {"ok", be.status}
      /\ \/ be'.reader = "run" /\ Reader("read", 0)
         \/ be'.reader = "none" /\ Reader("off", 0)
  <2>1. CASE StartsReader
    BY <1>1, <2>1 DEF Activated, BackendShape, ReaderShape, Reader
  <2>2. CASE ~StartsReader
    BY <1>1 DEF Activated, BackendShape, ReaderShape, Reader, NoReader
  <2> QED BY <2>1, <2>2
<1>4. /\ input' \in Seq(Nat) /\ \A i \in 1..Len(input') : FALSE
      /\ con' = con /\ Spending
  BY <1>1, Spends DEF Activated
<1>5. /\ Moved(IF ctl.phase = "next" THEN "commit" ELSE "unlock", "ok")
      /\ Blame => Blame'
  BY <1>1, <1>4, CallMoves, BlameStays, Zenon DEF Activated
<1>6. BrokerShape' /\ ConShape' /\ BackendShape' /\ ReaderShape' /\ WriterShape'
  BY <1>1, <1>2, <1>3, <1>4 DEF BrokerShape, ConShape, BackendShape, ReaderShape,
     WriterShape, Moved, Reader
<1>7. CallShape'
  BY <1>1, <1>2, <1>5 DEF CallShape, Replacing, Retiring, Moved
<1>8. LockHeld'
  BY <1>1, <1>2, <1>5 DEF LockHeld, Locking, Moved
<1>9. OnScreen'
  BY <1>1, <1>2, <1>3, <1>4 DEF OnScreen, BackendShape, Agreed, Bound
<1>10. WriterBound'
  BY <1>1, <1>2, <1>3, <1>4, <1>5 DEF WriterBound
<1>11. Installed'
  BY <1>1, <1>2, <1>3, <1>4, <1>5 DEF Installed, Out, Allocated, Both, Moved, Reader
<1>12. InputTagged'
  BY <1>3, <1>4 DEF InputTagged, Reader
<1>13. Retired'
  BY <1>1, <1>2, <1>3, <1>4, <1>5 DEF Retired, Moved
<1>14. Agreed'
  <2>1. Bound(Target, TargetGen)
    BY <1>1, <1>2 DEF Agreed
  <2>2. CASE ctl.phase = "next"
    <3>1. ctl'.pc = "commit" /\ ctl'.next = Target /\ TargetGen = broker.gen + 1
      BY <1>5, <2>2 DEF Moved, Target, TargetGen
    <3> QED BY <1>3, <1>4, <2>1, <3>1 DEF Agreed, Steady, Retiring, Bound
  <2>3. CASE ctl.phase # "next"
    <3>1. ctl'.pc = "unlock" /\ broker.current = Target /\ broker.gen = TargetGen
      BY <1>5, <2>3 DEF Moved, Target, TargetGen
    <3> QED BY <1>3, <1>4, <2>1, <3>1 DEF Agreed, Steady, Retiring, Bound
  <2> QED BY <2>2, <2>3
<1>15. Referred'
  BY <1>1, <1>2, <1>4, <1>5 DEF Referred, Moved
<1>16. Counted' /\ Blamed'
  BY <1>1, <1>3, <1>4, <1>5 DEF Blamed, Moved, Reader, Spending
<1> QED BY <1>6, <1>7, <1>8, <1>9, <1>10, <1>11, <1>12, <1>13, <1>14, <1>15, <1>16 DEF
           IInv

(* The target could not be activated.                                      *)
LEMMA ActivationFailedKeeps ==
  ASSUME NEW kind, IInv, At("activate"), Fails(kind), ActivationFailed(kind),
         UNCHANGED <<broker, native, heap, wr, line>>, script' = script PROVE IInv'
<1>1. /\ BrokerShape /\ ConShape /\ BackendShape /\ CallShape /\ ReaderShape
      /\ WriterShape /\ LockHeld /\ OnScreen /\ WriterBound /\ Installed
      /\ InputTagged /\ Retired /\ Agreed /\ Referred /\ Counted /\ Blamed
  BY DEF IInv
<1>2. /\ ctl.pc = "activate" /\ ctl.op = "replace" /\ ctl.status = "ok"
      /\ Target \in Consoles /\ Target # "none" /\ TargetGen \in Nat
      /\ be.reader = "none" /\ be.console = "none" /\ be.stop = "none" /\ rd.pc = "off"
      /\ native = "broker" /\ \A c \in Consoles : wr[c].pc # "write"
      /\ broker.live /\ ~broker.broken
  BY Activating
<1>3. /\ DOMAIN be' = DOMAIN be /\ be'.console = "none" /\ be'.gen \in Nat
      /\ be'.stop = "none" /\ be'.status = be.status /\ be'.reader = "none" /\ rd' = rd
  BY <1>1, <1>2 DEF ActivationFailed, BackendShape
<1>4. /\ Draining /\ GenOnly(Target, 0) /\ Spending /\ Blame'
  BY <1>1, <1>2, Spends, Drains, ConUpdates, Zenon DEF ActivationFailed, InputTagged
<1>5. /\ DOMAIN ctl' = DOMAIN ctl /\ ctl'.op = "replace" /\ ctl'.next = ctl.next
      /\ \/ ctl'.pc = "bind" /\ ctl'.phase = "old" /\ ctl'.status = "ok"
         \/ ctl'.pc = "unlock" /\ ctl'.phase = ctl.phase /\ ctl'.status = "error"
  BY <1>2 DEF ActivationFailed
<1>6. BrokerShape' /\ ConShape' /\ BackendShape' /\ ReaderShape' /\ WriterShape'
  BY <1>1, <1>2, <1>3, <1>4 DEF BrokerShape, BackendShape, ReaderShape, WriterShape,
     GenOnly
<1>7. CallShape'
  BY <1>1, <1>2, <1>5, Zenon DEF CallShape, Replacing, Retiring, NoCall
<1>8. LockHeld'
  BY <1>1, <1>2, <1>5 DEF LockHeld, Locking
<1>9. OnScreen'
  BY <1>3 DEF OnScreen
<1>10. WriterBound'
  BY <1>1, <1>2, <1>4 DEF WriterBound, GenOnly
<1>11. Installed'
  <2>1. \A c \in Consoles : con'[c].out = con[c].out /\ Out(c)' = Out(c)
    <3>1. \A c \in Consoles : con'[c].out = con[c].out
      BY <1>4 DEF GenOnly
    <3>2. \A c \in Consoles : Out(c)' = Out(c)
      BY <1>2, <1>5, Zenon DEF Out, Both
    <3> QED BY <3>1, <3>2
  <2>2. \A g : Allocated(g)' <=> Allocated(g)
    BY <1>2, <1>5, Zenon DEF Allocated, Both
  <2> QED BY <1>1, <1>2, <1>5, <2>1, <2>2, Zenon DEF Installed
<1>12. InputTagged'
  BY <1>2, <1>3, <1>4 DEF InputTagged, Draining
<1>13. Retired'
  BY <1>1, <1>2, <1>3, <1>5, Zenon DEF Retired
<1>14. Agreed'
  <2>1. \A c \in Consoles : con'[c].gen = 0
    BY <1>1, <1>2, <1>4 DEF Agreed, Bound, GenOnly
  <2>2. ~Steady'
    BY <1>5 DEF Steady, Retiring
  <2> QED BY <1>5, <2>1, <2>2 DEF Agreed, Bound
<1>15. Referred'
  <2>1. \A c \in Consoles : con'[c].refs = con[c].refs
    BY <1>4 DEF GenOnly
  <2>2. ctl'.op = "replace" /\ ctl'.next = ctl.next /\ ctl'.pc \notin {"notify", "remove_broken"}
    BY <1>5
  <2> QED BY <1>1, <1>2, <2>1, <2>2, Zenon DEF Referred
<1>16. Counted' /\ Blamed'
  BY <1>4 DEF Blamed, Spending
<1> QED BY <1>6, <1>7, <1>8, <1>9, <1>10, <1>11, <1>12, <1>13, <1>14, <1>15, <1>16 DEF
           IInv

(* The next console becomes current.                                       *)
LEMMA CommitKeeps ==
  ASSUME IInv, Commit, script' = script PROVE IInv'
<1>1. /\ BrokerShape /\ ConShape /\ BackendShape /\ CallShape /\ ReaderShape
      /\ WriterShape /\ LockHeld /\ OnScreen /\ WriterBound /\ Installed
      /\ InputTagged /\ Retired /\ Agreed /\ Referred /\ Counted /\ Blamed
  BY DEF IInv
<1>2. /\ ctl.pc = "commit" /\ Works /\ native' = "free"
      /\ broker' = [broker EXCEPT !.current = ctl.next, !.gen = @ + 1, !.output = broker.gen + 1]
      /\ ctl' = [ctl EXCEPT !.pc = "remove_old", !.next = broker.current]
      /\ UNCHANGED <<con, be, input, heap, rd, wr>>
  BY DEF Commit, At
<1>3. /\ ctl.op = "replace" /\ ctl.status = "ok" /\ ctl.next \in Consoles
      /\ ctl.next # broker.current /\ broker.current \in Consoles
      /\ native = "broker" /\ \A c \in Consoles : wr[c].pc # "write"
      /\ broker.live /\ ~broker.broken /\ broker.output = broker.gen
  BY <1>1, <1>2, ConsoleBrokerAssumption
     DEF BrokerShape, CallShape, Replacing, Retired, LockHeld, Locking
<1>4. /\ DOMAIN broker' = DOMAIN broker /\ broker'.current = ctl.next
      /\ broker'.gen = broker.gen + 1 /\ broker'.output = broker.gen + 1
      /\ broker'.live = broker.live /\ broker'.broken = broker.broken
      /\ DOMAIN ctl' = DOMAIN ctl /\ ctl'.pc = "remove_old" /\ ctl'.next = broker.current
      /\ ctl'.op = "replace" /\ ctl'.phase = ctl.phase /\ ctl'.status = "ok"
  BY <1>1, <1>2, <1>3, Zenon DEF BrokerShape, CallShape
<1>5. Spending /\ (Blame => Blame')
  BY <1>1, <1>2, <1>3, Spends, BlameStays
<1>6. BrokerShape' /\ ConShape' /\ BackendShape' /\ ReaderShape' /\ WriterShape'
  BY <1>1, <1>2, <1>3, <1>4
     DEF BrokerShape, ConShape, BackendShape, ReaderShape, WriterShape
<1>7. CallShape'
  BY <1>1, <1>2, <1>3, <1>4 DEF CallShape, Replacing, Retiring, NoCall
<1>8. LockHeld'
  BY <1>1, <1>2, <1>3, <1>4, ConsoleBrokerAssumption DEF LockHeld, Locking, Retiring
<1>9. OnScreen'
  BY <1>1, <1>2, <1>3, <1>4 DEF OnScreen, BackendShape
<1>10. WriterBound'
  BY <1>1, <1>2, <1>3, <1>4 DEF WriterBound
<1>11. Installed'
  BY <1>1, <1>2, <1>3, <1>4 DEF Installed, Out, Allocated, Both, Retiring, BrokerShape
<1>12. InputTagged'
  BY <1>1, <1>2, <1>3, <1>4 DEF InputTagged
<1>13. Retired'
  BY <1>1, <1>2, <1>3, <1>4 DEF Retired
<1>14. Agreed'
  BY <1>1, <1>2, <1>3, <1>4 DEF Agreed, Steady, Bound, Retiring
<1>15. Referred'
  BY <1>1, <1>2, <1>3, <1>4 DEF Referred
<1>16. Counted' /\ Blamed'
  BY <1>1, <1>2, <1>3, <1>4, <1>5 DEF Counted, Blamed, Spending
<1> QED BY <1>6, <1>7, <1>8, <1>9, <1>10, <1>11, <1>12, <1>13, <1>14, <1>15, <1>16 DEF IInv

(* The binding of the console that was replaced is freed.                  *)
LEMMA RemoveOldKeeps ==
  ASSUME IInv, RemoveOld, script' = script PROVE IInv'
<1>1. /\ BrokerShape /\ ConShape /\ BackendShape /\ CallShape /\ ReaderShape
      /\ WriterShape /\ LockHeld /\ OnScreen /\ WriterBound /\ Installed
      /\ InputTagged /\ Retired /\ Agreed /\ Referred /\ Counted /\ Blamed
  BY DEF IInv
<1>2. /\ ctl.pc = "remove_old" /\ wr[ctl.next].pc = "idle" /\ Works /\ Goto("notify")
      /\ UNCHANGED <<broker, be, native, input, rd, wr, line>>
  BY DEF RemoveOld, At, OutputFree
<1>3. /\ ctl.op = "replace" /\ ctl.next \in Consoles /\ ctl.next # broker.current
      /\ broker.current \in Consoles
  BY <1>1, <1>2 DEF BrokerShape, CallShape, Replacing
<1>4. Moved("notify", ctl.status) /\ Released(ctl.next)
  <2>1. /\ con' = [con EXCEPT ![ctl.next] = [con[ctl.next] EXCEPT !.out = 0, !.refs = @ - 1]]
        /\ con[ctl.next].refs = 1
    BY <1>1, <1>2, <1>3 DEF RemoveOld, Referred
  <2> QED BY <1>1, <1>2, <1>3, <2>1, CallMoves, ConUpdates, Zenon
<1>5. Spending /\ (Blame => Blame')
  BY <1>1, <1>2, <1>3, <1>4, Spends, BlameStays DEF Released
<1>6. heap' = heap \ {broker.gen - 1}
  BY DEF RemoveOld
<1>7. BrokerShape' /\ ConShape' /\ BackendShape' /\ ReaderShape' /\ WriterShape'
  BY <1>1, <1>2, <1>3, <1>4, ZenonT(30)
     DEF BrokerShape, ConShape, BackendShape, ReaderShape, WriterShape, Moved, Released
<1>8. CallShape'
  BY <1>1, <1>2, <1>3, <1>4 DEF CallShape, Replacing, Retiring, NoCall, Moved, Released
<1>9. LockHeld'
  BY <1>1, <1>2, <1>3, <1>4, Zenon DEF LockHeld, Locking, Retiring, Moved, Released
<1>10. OnScreen'
  BY <1>1, <1>2, <1>3, <1>4 DEF OnScreen, Released, BackendShape
<1>11. WriterBound'
  <2>1. \A c \in Consoles : wr[c].pc # "idle" => con'[c].out = con[c].out
    BY <1>2, <1>4 DEF Released
  <2> QED BY <1>1, <1>2, <2>1, Zenon DEF WriterBound
<1>12. Installed'
  <2>1. \A c \in Consoles : con'[c].out = Out(c)'
    <3>1. \A c \in Consoles : con[c].out = Out(c)
      BY <1>1 DEF Installed
    <3>2. \A c \in Consoles : con'[c].out = IF c = ctl.next THEN 0 ELSE Out(c)
      BY <1>4, <3>1 DEF Released
    <3>3. \A c \in Consoles : (IF c = ctl.next THEN 0 ELSE Out(c)) = Out(c)'
      BY <1>1, <1>2, <1>3, <1>4, Zenon DEF Out, Both, Retiring, Installed, Moved
    <3> QED BY <3>2, <3>3
  <2>2. heap' = {g \in {broker.output, broker.gen - 1, broker.gen, broker.gen + 1} : Allocated(g)}'
    <3>1. \A g : g \in heap <=> Allocated(g)
      BY <1>1 DEF Installed, Allocated
    <3>2. \A g : Allocated(g)' <=> Allocated(g) /\ g # broker.gen - 1
      <4>1. broker.gen \in Nat \ {0} /\ broker.output = broker.gen
        BY <1>1, <1>2, <1>3 DEF BrokerShape, Installed
      <4>2. \A g : Allocated(g) <=> g \in {broker.gen, broker.gen - 1}
        BY <1>2, <1>3, <4>1 DEF Allocated, Both, Retiring
      <4>3. \A g : Allocated(g)' <=> g = broker.gen
        BY <1>1, <1>2, <1>3, <1>4, <4>1 DEF Allocated, Both, Retiring, Moved
      <4> QED BY <4>1, <4>2, <4>3
    <3>3. \A g : Allocated(g)' => g \in {broker.output, broker.gen - 1, broker.gen, broker.gen + 1}'
      BY DEF Allocated
    <3> QED BY <1>6, <3>1, <3>2, <3>3
  <2> QED BY <1>1, <1>2, <1>3, <1>4, <2>1, <2>2 DEF Installed, Moved
<1>13. InputTagged'
  BY <1>1, <1>2, <1>3, <1>4, ZenonT(30)
     DEF InputTagged, Released, BackendShape, ReaderShape, Retired
<1>14. Retired'
  BY <1>1, <1>2, <1>3, <1>4 DEF Retired, Moved, Released
<1>15. Agreed'
  BY <1>1, <1>2, <1>3, <1>4 DEF Agreed, Steady, Bound, Retiring, Moved, Released
<1>16. Referred'
  <2>1. \A c \in Consoles : con'[c].refs = IF c = ctl.next THEN 0 ELSE con[c].refs
    BY <1>4 DEF Released
  <2>2. ctl'.op = ctl.op /\ ctl'.next = ctl.next /\ ctl'.pc = "notify"
    BY <1>4 DEF Moved
  <2> QED BY <1>1, <1>2, <1>3, <2>1, <2>2 DEF Referred
<1>17. Counted' /\ Blamed'
  BY <1>1, <1>2, <1>3, <1>4, <1>5 DEF Counted, Blamed, Moved, Released, Spending
<1> QED BY <1>7, <1>8, <1>9, <1>10, <1>11, <1>12, <1>13, <1>14, <1>15, <1>16, <1>17 DEF IInv

(* The console that is current now hears of it.                            *)
LEMMA NotifyKeeps ==
  ASSUME IInv, NotifyActivation, script' = script PROVE IInv'
<1>1. /\ BrokerShape /\ ConShape /\ BackendShape /\ CallShape /\ ReaderShape
      /\ WriterShape /\ LockHeld /\ OnScreen /\ WriterBound /\ Installed
      /\ InputTagged /\ Retired /\ Agreed /\ Referred /\ Counted /\ Blamed
  BY DEF IInv
<1>2. /\ ctl.pc = "notify" /\ Works /\ Return
      /\ UNCHANGED <<broker, con, be, native, input, heap, rd, wr, line>>
  BY DEF NotifyActivation, At
<1>3. ctl.op = "replace" /\ Returned
  BY <1>1, <1>2, Returns DEF CallShape, Replacing
<1>4. Spending /\ (Blame => Blame')
  BY <1>1, <1>2, Spends, BlameStays
<1>5. BrokerShape' /\ ConShape' /\ BackendShape' /\ ReaderShape' /\ WriterShape'
  BY <1>1, <1>2, <1>3
     DEF BrokerShape, ConShape, BackendShape, ReaderShape, WriterShape, Returned
<1>6. CallShape'
  BY <1>1, <1>2, <1>3 DEF CallShape, Replacing, Retiring, NoCall, Returned
<1>7. LockHeld'
  BY <1>1, <1>2, <1>3 DEF LockHeld, Locking, Retiring, Returned
<1>8. OnScreen'
  BY <1>1, <1>2, <1>3 DEF OnScreen, BackendShape
<1>9. WriterBound'
  BY <1>1, <1>2, <1>3 DEF WriterBound
<1>10. Installed'
  BY <1>1, <1>2, <1>3 DEF Installed, Out, Allocated, Both, Retiring, Returned
<1>11. InputTagged'
  BY <1>1, <1>2, <1>3, ZenonT(30) DEF InputTagged
<1>12. Retired'
  BY <1>1, <1>2, <1>3 DEF Retired, Returned
<1>13. Agreed'
  BY <1>1, <1>2, <1>3 DEF Agreed, Steady, Bound, Retiring, Returned
<1>14. Referred'
  BY <1>1, <1>2, <1>3 DEF Referred, Returned
<1>15. Counted' /\ Blamed'
  BY <1>1, <1>2, <1>3, <1>4 DEF Counted, Blamed, Returned, Spending
<1> QED BY <1>5, <1>6, <1>7, <1>8, <1>9, <1>10, <1>11, <1>12, <1>13, <1>14, <1>15 DEF IInv

(* A takeover that did not succeed gives the output lock back.             *)
LEMMA UnlockKeeps ==
  ASSUME IInv, UnlockOutput, script' = script PROVE IInv'
<1>1. /\ BrokerShape /\ ConShape /\ BackendShape /\ CallShape /\ ReaderShape
      /\ WriterShape /\ LockHeld /\ OnScreen /\ WriterBound /\ Installed
      /\ InputTagged /\ Retired /\ Agreed /\ Referred /\ Counted /\ Blamed
  BY DEF IInv
<1>2. /\ ctl.pc = "unlock" /\ Works /\ Goto("remove_next") /\ native' = "free"
      /\ UNCHANGED <<broker, con, be, input, heap, rd, wr, line>>
  BY DEF UnlockOutput, At
<1>3. /\ ctl.op = "replace" /\ Moved("remove_next", ctl.status)
      /\ native = "broker" /\ \A c \in Consoles : wr[c].pc # "write"
  BY <1>1, <1>2, CallMoves, ConsoleBrokerAssumption, Zenon
     DEF CallShape, Replacing, LockHeld, Locking
<1>4. Spending /\ (Blame => Blame')
  BY <1>1, <1>2, Spends, BlameStays
<1>5. BrokerShape' /\ ConShape' /\ BackendShape' /\ ReaderShape' /\ WriterShape'
  BY <1>1, <1>2, <1>3
     DEF BrokerShape, ConShape, BackendShape, ReaderShape, WriterShape, Moved
<1>6. CallShape'
  BY <1>1, <1>2, <1>3 DEF CallShape, Replacing, Retiring, NoCall, Moved
<1>7. LockHeld'
  BY <1>1, <1>2, <1>3, ConsoleBrokerAssumption, Zenon DEF LockHeld, Locking, Retiring, Moved
<1>8. OnScreen'
  BY <1>1, <1>2, <1>3, Zenon DEF OnScreen, BackendShape
<1>9. WriterBound'
  BY <1>1, <1>2, <1>3 DEF WriterBound
<1>10. Installed'
  BY <1>1, <1>2, <1>3, ZenonT(30) DEF Installed, Out, Allocated, Both, Retiring, Moved
<1>11. InputTagged'
  BY <1>1, <1>2, <1>3, ZenonT(30) DEF InputTagged
<1>12. Retired'
  BY <1>1, <1>2, <1>3 DEF Retired, Moved
<1>13. Agreed'
  BY <1>1, <1>2, <1>3, Zenon DEF Agreed, Steady, Bound, Retiring, Moved
<1>14. Referred'
  BY <1>1, <1>2, <1>3 DEF Referred, Moved
<1>15. Counted' /\ Blamed'
  BY <1>1, <1>2, <1>3, <1>4 DEF Counted, Blamed, Moved, Spending
<1> QED BY <1>5, <1>6, <1>7, <1>8, <1>9, <1>10, <1>11, <1>12, <1>13, <1>14, <1>15 DEF IInv

(* ... and frees the next console's binding.                               *)
LEMMA RemoveNextKeeps ==
  ASSUME IInv, RemoveNext, ctl.status = "ok", script' = script PROVE IInv'
<1>1. /\ BrokerShape /\ ConShape /\ BackendShape /\ CallShape /\ ReaderShape
      /\ WriterShape /\ LockHeld /\ OnScreen /\ WriterBound /\ Installed
      /\ InputTagged /\ Retired /\ Agreed /\ Referred /\ Counted /\ Blamed
  BY DEF IInv
<1>2. /\ ctl.pc = "remove_next" /\ wr[ctl.next].pc = "idle" /\ Works /\ Goto("notify")
      /\ UNCHANGED <<be, native, input, rd, wr, line>>
  BY DEF RemoveNext, At, OutputFree
<1>3. /\ ctl.op = "replace" /\ ctl.next \in Consoles /\ ctl.next # broker.current
      /\ broker.current \in Consoles
  BY <1>1, <1>2 DEF BrokerShape, CallShape, Replacing
<1>4. Moved("notify", ctl.status) /\ Released(ctl.next)
  <2>1. /\ con' = [con EXCEPT ![ctl.next] = [con[ctl.next] EXCEPT !.out = 0, !.refs = @ - 1]]
        /\ con[ctl.next].refs = 1
    BY <1>1, <1>2, <1>3 DEF RemoveNext, Referred
  <2> QED BY <1>1, <1>2, <1>3, <2>1, CallMoves, ConUpdates, Zenon
<1>5. /\ DOMAIN broker' = DOMAIN broker /\ broker'.live = broker.live
      /\ broker'.current = broker.current /\ broker'.gen = broker.gen
      /\ ~broker'.broken /\ broker'.output = broker.output
  BY <1>1, Zenon DEF RemoveNext, BrokerShape
<1>6. Spending /\ (Blame => Blame')
  BY <1>1, <1>2, <1>4, Spends, BlameStays, Zenon DEF Released
<1>7. heap' = heap \ {broker.gen + 1}
  BY DEF RemoveNext
<1>8. BrokerShape' /\ ConShape' /\ BackendShape' /\ ReaderShape' /\ WriterShape'
  BY <1>1, <1>2, <1>3, <1>4, <1>5, ZenonT(30)
     DEF BrokerShape, ConShape, BackendShape, ReaderShape, WriterShape, Moved, Released
<1>9. CallShape'
  BY <1>1, <1>2, <1>3, <1>4, <1>5, ZenonT(30)
     DEF CallShape, Replacing, Retiring, NoCall, Moved, Released
<1>10. LockHeld'
  BY <1>1, <1>2, <1>3, <1>4, <1>5 DEF LockHeld, Locking, Retiring, Moved, Released
<1>11. OnScreen'
  BY <1>1, <1>2, <1>3, <1>4, <1>5 DEF OnScreen, Released, BackendShape
<1>12. WriterBound'
  <2>1. \A c \in Consoles : wr[c].pc # "idle" => con'[c].out = con[c].out
    BY <1>2, <1>4 DEF Released
  <2> QED BY <1>1, <1>2, <2>1 DEF WriterBound
<1>13. Installed'
  <2>1. \A c \in Consoles : con'[c].out = Out(c)'
    <3>1. \A c \in Consoles : con[c].out = Out(c)
      BY <1>1 DEF Installed
    <3>2. \A c \in Consoles : con'[c].out = IF c = ctl.next THEN 0 ELSE Out(c)
      BY <1>4, <3>1 DEF Released
    <3>3. \A c \in Consoles : (IF c = ctl.next THEN 0 ELSE Out(c)) = Out(c)'
      BY <1>1, <1>2, <1>3, <1>4, <1>5, Zenon DEF Out, Both, Retiring, Installed, Moved
    <3> QED BY <3>2, <3>3
  <2>2. heap' = {g \in {broker.output, broker.gen - 1, broker.gen, broker.gen + 1} : Allocated(g)}'
    <3>1. \A g : g \in heap <=> Allocated(g)
      BY <1>1 DEF Installed, Allocated
    <3>2. \A g : Allocated(g)' <=> Allocated(g) /\ g # broker.gen + 1
      <4>1. broker.gen \in Nat \ {0} /\ broker.output = broker.gen
        BY <1>1, <1>2, <1>3 DEF BrokerShape, Installed
      <4>2. \A g : Allocated(g) <=> g \in {broker.gen, broker.gen + 1}
        BY <1>2, <1>3, <4>1 DEF Allocated, Both, Retiring
      <4>3. \A g : Allocated(g)' <=> g = broker.gen
        BY <1>1, <1>2, <1>3, <1>4, <1>5, <4>1 DEF Allocated, Both, Retiring, Moved
      <4> QED BY <4>1, <4>2, <4>3
    <3>3. \A g : Allocated(g)' => g \in {broker.output, broker.gen - 1, broker.gen, broker.gen + 1}'
      BY DEF Allocated
    <3> QED BY <1>7, <3>1, <3>2, <3>3
  <2> QED BY <1>1, <1>2, <1>3, <1>4, <1>5, <2>1, <2>2 DEF Installed, Moved
<1>14. InputTagged'
  BY <1>1, <1>2, <1>3, <1>4, <1>5
     DEF InputTagged, Released, BackendShape, ReaderShape, Retired
<1>15. Retired'
  BY <1>1, <1>2, <1>3, <1>4, <1>5, ZenonT(30) DEF Retired, Moved, Released
<1>16. Agreed'
  <2>1. \A c \in Consoles : con'[c].gen = con[c].gen
    BY <1>4 DEF Released
  <2>2. ctl'.op = ctl.op /\ ctl'.next = ctl.next /\ ctl'.status = ctl.status
        /\ ctl'.pc \in {"notify", "remove_broken"}
    BY <1>4 DEF Moved
  <2> QED BY <1>1, <1>2, <1>3, <1>5, <2>1, <2>2, ZenonT(30)
          DEF Agreed, Steady, Bound, Retiring, Retired
<1>17. Referred'
  <2>1. \A c \in Consoles : con'[c].refs = IF c = ctl.next THEN 0 ELSE con[c].refs
    BY <1>4 DEF Released
  <2>2. ctl'.op = ctl.op /\ ctl'.next = ctl.next /\ ctl'.pc \in {"notify", "remove_broken"}
    BY <1>4, ZenonT(30) DEF Moved
  <2> QED BY <1>1, <1>2, <1>3, <1>5, <2>1, <2>2, Zenon DEF Referred
<1>18. Counted' /\ Blamed'
  BY <1>1, <1>2, <1>3, <1>4, <1>5, <1>6, Zenon DEF Counted, Blamed, Moved, Released, Spending
<1> QED BY <1>8, <1>9, <1>10, <1>11, <1>12, <1>13, <1>14, <1>15, <1>16, <1>17, <1>18 DEF IInv

(* ... and frees the next console's binding; the broker is broken.         *)
LEMMA RemoveNextBreaks ==
  ASSUME IInv, RemoveNext, ctl.status # "ok", script' = script PROVE IInv'
<1>1. /\ BrokerShape /\ ConShape /\ BackendShape /\ CallShape /\ ReaderShape
      /\ WriterShape /\ LockHeld /\ OnScreen /\ WriterBound /\ Installed
      /\ InputTagged /\ Retired /\ Agreed /\ Referred /\ Counted /\ Blamed
  BY DEF IInv
<1>2. /\ ctl.pc = "remove_next" /\ wr[ctl.next].pc = "idle" /\ Works /\ Goto("remove_broken")
      /\ UNCHANGED <<be, native, input, rd, wr, line>>
  BY DEF RemoveNext, At, OutputFree
<1>3. /\ ctl.op = "replace" /\ ctl.next \in Consoles /\ ctl.next # broker.current
      /\ broker.current \in Consoles
  BY <1>1, <1>2 DEF BrokerShape, CallShape, Replacing
<1>4. Moved("remove_broken", ctl.status) /\ Released(ctl.next)
  <2>1. /\ con' = [con EXCEPT ![ctl.next] = [con[ctl.next] EXCEPT !.out = 0, !.refs = @ - 1]]
        /\ con[ctl.next].refs = 1
    BY <1>1, <1>2, <1>3 DEF RemoveNext, Referred
  <2> QED BY <1>1, <1>2, <1>3, <2>1, CallMoves, ConUpdates, Zenon
<1>5. /\ DOMAIN broker' = DOMAIN broker /\ broker'.live = broker.live
      /\ broker'.current = broker.current /\ broker'.gen = broker.gen
      /\ broker'.broken /\ broker'.output = 0
  BY <1>1, ZenonT(30) DEF RemoveNext, BrokerShape
<1>6. Spending /\ (Blame => Blame')
  BY <1>1, <1>2, <1>4, Spends, BlameStays DEF Released
<1>7. heap' = heap \ {broker.gen + 1}
  BY DEF RemoveNext
<1>8. BrokerShape' /\ ConShape' /\ BackendShape' /\ ReaderShape' /\ WriterShape'
  BY <1>1, <1>2, <1>3, <1>4, <1>5
     DEF BrokerShape, ConShape, BackendShape, ReaderShape, WriterShape, Moved, Released
<1>9. CallShape'
  BY <1>1, <1>2, <1>3, <1>4, <1>5, ZenonT(30)
     DEF CallShape, Replacing, Retiring, NoCall, Moved, Released
<1>10. LockHeld'
  BY <1>1, <1>2, <1>3, <1>4, <1>5, ZenonT(30) DEF LockHeld, Locking, Retiring, Moved, Released
<1>11. OnScreen'
  BY <1>1, <1>2, <1>3, <1>4, <1>5, ZenonT(30) DEF OnScreen, Released, BackendShape
<1>12. WriterBound'
  <2>1. \A c \in Consoles : wr[c].pc # "idle" => con'[c].out = con[c].out
    BY <1>2, <1>4, ZenonT(30) DEF Released
  <2> QED BY <1>1, <1>2, <2>1, ZenonT(30) DEF WriterBound
<1>13. Installed'
  <2>1. \A c \in Consoles : con'[c].out = Out(c)'
    <3>1. \A c \in Consoles : con[c].out = Out(c)
      BY <1>1 DEF Installed
    <3>2. \A c \in Consoles : con'[c].out = IF c = ctl.next THEN 0 ELSE Out(c)
      BY <1>4, <3>1 DEF Released
    <3>3. \A c \in Consoles : (IF c = ctl.next THEN 0 ELSE Out(c)) = Out(c)'
      BY <1>1, <1>2, <1>3, <1>4, <1>5, Zenon DEF Out, Both, Retiring, Installed, Moved
    <3> QED BY <3>2, <3>3
  <2>2. heap' = {g \in {broker.output, broker.gen - 1, broker.gen, broker.gen + 1} : Allocated(g)}'
    <3>1. \A g : g \in heap <=> Allocated(g)
      BY <1>1 DEF Installed, Allocated
    <3>2. \A g : Allocated(g)' <=> Allocated(g) /\ g # broker.gen + 1
      <4>1. broker.gen \in Nat \ {0} /\ broker.output = broker.gen
        BY <1>1, <1>2, <1>3 DEF BrokerShape, Installed
      <4>2. \A g : Allocated(g) <=> g \in {broker.gen, broker.gen + 1}
        BY <1>2, <1>3, <4>1 DEF Allocated, Both, Retiring
      <4>3. \A g : Allocated(g)' <=> g = broker.gen
        BY <1>1, <1>2, <1>3, <1>4, <1>5, <4>1 DEF Allocated, Both, Retiring, Moved
      <4> QED BY <4>1, <4>2, <4>3
    <3>3. \A g : Allocated(g)' => g \in {broker.output, broker.gen - 1, broker.gen, broker.gen + 1}'
      BY DEF Allocated
    <3> QED BY <1>7, <3>1, <3>2, <3>3
  <2> QED BY <1>1, <1>2, <1>3, <1>4, <1>5, <2>1, <2>2, ZenonT(30) DEF Installed, Moved
<1>14. InputTagged'
  BY <1>1, <1>2, <1>3, <1>4, <1>5, Zenon
     DEF InputTagged, Released, BackendShape, ReaderShape, Retired
<1>15. Retired'
  BY <1>1, <1>2, <1>3, <1>4, <1>5, ZenonT(30) DEF Retired, Moved, Released
<1>16. Agreed'
  <2>1. \A c \in Consoles : con'[c].gen = con[c].gen
    BY <1>4 DEF Released
  <2>2. ctl'.op = ctl.op /\ ctl'.next = ctl.next /\ ctl'.status = ctl.status
        /\ ctl'.pc \in {"notify", "remove_broken"}
    BY <1>4 DEF Moved
  <2> QED BY <1>1, <1>2, <1>3, <1>5, <2>1, <2>2, Zenon DEF Agreed, Steady, Bound, Retiring, Retired
<1>17. Referred'
  <2>1. \A c \in Consoles : con'[c].refs = IF c = ctl.next THEN 0 ELSE con[c].refs
    BY <1>4 DEF Released
  <2>2. ctl'.op = ctl.op /\ ctl'.next = ctl.next /\ ctl'.pc \in {"notify", "remove_broken"}
    BY <1>4 DEF Moved
  <2> QED BY <1>1, <1>2, <1>3, <1>5, <2>1, <2>2, ZenonT(30) DEF Referred
<1>18. Counted' /\ Blamed'
  BY <1>1, <1>2, <1>3, <1>4, <1>5, <1>6, Zenon DEF Counted, Blamed, Moved, Released, Spending
<1> QED BY <1>8, <1>9, <1>10, <1>11, <1>12, <1>13, <1>14, <1>15, <1>16, <1>17, <1>18 DEF IInv

(* A broker that is broken frees the old console's binding too.            *)
LEMMA RemoveBrokenKeeps ==
  ASSUME IInv, RemoveBroken, script' = script PROVE IInv'
<1>1. /\ BrokerShape /\ ConShape /\ BackendShape /\ CallShape /\ ReaderShape
      /\ WriterShape /\ LockHeld /\ OnScreen /\ WriterBound /\ Installed
      /\ InputTagged /\ Retired /\ Agreed /\ Referred /\ Counted /\ Blamed
  BY DEF IInv
<1>2. /\ ctl.pc = "remove_broken" /\ wr[broker.current].pc = "idle" /\ Works /\ Return
      /\ UNCHANGED <<broker, be, native, input, rd, wr, line>>
  BY DEF RemoveBroken, At, OutputFree
<1>3. /\ ctl.op = "replace" /\ broker.current \in Consoles
      /\ broker.output = 0 /\ broker.broken
  BY <1>1, <1>2, ZenonT(30) DEF BrokerShape, CallShape, Replacing, Installed, Retired
<1>4. Returned /\ OutOnly(broker.current, 0)
  <2>1. con' = [con EXCEPT ![broker.current].out = 0]
    BY DEF RemoveBroken
  <2> QED BY <1>1, <1>2, <1>3, <2>1, Returns, ConUpdates, Zenon
<1>5. Spending /\ (Blame => Blame')
  BY <1>1, <1>2, <1>3, <1>4, Spends, BlameStays, Zenon DEF OutOnly
<1>6. heap' = heap \ {broker.gen}
  BY DEF RemoveBroken
<1>7. BrokerShape' /\ ConShape' /\ BackendShape' /\ ReaderShape' /\ WriterShape'
  BY <1>1, <1>2, <1>3, <1>4, ZenonT(30)
     DEF BrokerShape, ConShape, BackendShape, ReaderShape, WriterShape, Returned,
        OutOnly
<1>8. CallShape'
  BY <1>1, <1>2, <1>3, <1>4
     DEF CallShape, Replacing, Retiring, NoCall, Returned, OutOnly
<1>9. LockHeld'
  BY <1>1, <1>2, <1>3, <1>4, ZenonT(30) DEF LockHeld, Locking, Retiring, Returned, OutOnly
<1>10. OnScreen'
  BY <1>1, <1>2, <1>3, <1>4, ZenonT(30) DEF OnScreen, OutOnly, BackendShape
<1>11. WriterBound'
  <2>1. \A c \in Consoles : wr[c].pc # "idle" => con'[c].out = con[c].out
    BY <1>2, <1>4 DEF OutOnly
  <2> QED BY <1>1, <1>2, <2>1 DEF WriterBound
<1>12. Installed'
  <2>1. \A c \in Consoles : con'[c].out = Out(c)'
    <3>1. \A c \in Consoles : con[c].out = Out(c)
      BY <1>1 DEF Installed
    <3>2. \A c \in Consoles : con'[c].out = IF c = broker.current THEN 0 ELSE Out(c)
      BY <1>4, <3>1 DEF OutOnly
    <3>3. \A c \in Consoles : (IF c = broker.current THEN 0 ELSE Out(c)) = Out(c)'
      BY <1>1, <1>2, <1>3, <1>4, Zenon DEF Out, Both, Retiring, Installed, Returned
    <3> QED BY <3>2, <3>3
  <2>2. heap' = {g \in {broker.output, broker.gen - 1, broker.gen, broker.gen + 1} : Allocated(g)}'
    <3>1. \A g : g \in heap <=> Allocated(g)
      BY <1>1 DEF Installed, Allocated
    <3>2. \A g : Allocated(g)' <=> Allocated(g) /\ g # broker.gen
      BY <1>1, <1>2, <1>3, <1>4, ZenonT(30)
         DEF Allocated, Both, Retiring, Installed, BrokerShape, Returned
    <3>3. \A g : Allocated(g)' => g \in {broker.output, broker.gen - 1, broker.gen, broker.gen + 1}'
      BY DEF Allocated
    <3> QED BY <1>6, <3>1, <3>2, <3>3
  <2> QED BY <1>1, <1>2, <1>3, <1>4, <2>1, <2>2, Zenon DEF Installed, Returned
<1>13. InputTagged'
  BY <1>1, <1>2, <1>3, <1>4, ZenonT(30) DEF InputTagged, OutOnly, BackendShape, ReaderShape, Retired
<1>14. Retired'
  BY <1>1, <1>2, <1>3, <1>4, ZenonT(30) DEF Retired, Returned, OutOnly
<1>15. Agreed'
  BY <1>1, <1>2, <1>3, <1>4, ZenonT(30) DEF Agreed, Steady, Bound, Retiring, Returned, OutOnly
<1>16. Referred'
  <2>1. \A c \in Consoles : con'[c].refs = con[c].refs
    BY <1>4 DEF OutOnly
  <2> QED BY <1>1, <1>2, <1>3, <1>4, <2>1 DEF Referred, Returned
<1>17. Counted' /\ Blamed'
  BY <1>1, <1>2, <1>3, <1>4, <1>5 DEF Counted, Blamed, Returned, OutOnly, Spending
<1> QED BY <1>7, <1>8, <1>9, <1>10, <1>11, <1>12, <1>13, <1>14, <1>15, <1>16, <1>17 DEF IInv

(* A destruction takes the current console's binding.                      *)
LEMMA DestroyResetKeeps ==
  ASSUME IInv, DestroyReset, script' = script PROVE IInv'
<1>1. /\ BrokerShape /\ ConShape /\ BackendShape /\ CallShape /\ ReaderShape
      /\ WriterShape /\ LockHeld /\ OnScreen /\ WriterBound /\ Installed
      /\ InputTagged /\ Retired /\ Agreed /\ Referred /\ Counted /\ Blamed
  BY DEF IInv
<1>2. /\ ctl.pc = "reset" /\ ctl.op = "destroy" /\ Works /\ Goto("dispose") /\ native' = "free"
      /\ UNCHANGED <<broker, be, input, heap, rd, wr, line>>
  BY DEF DestroyReset, At
<1>3. /\ Moved("dispose", ctl.status) /\ GenOnly(broker.current, 0) /\ broker.current \in Consoles
      /\ be.reader = "none" /\ be.console = "none" /\ be.stop = "none" /\ rd.pc = "off"
      /\ native = "broker" /\ \A c \in Consoles : wr[c].pc # "write"
  <2>1. con' = [con EXCEPT ![broker.current].gen = 0] /\ broker.current \in Consoles
    BY <1>1 DEF DestroyReset, BrokerShape
  <2>2. GenOnly(broker.current, 0) /\ Moved("dispose", ctl.status)
    BY <1>1, <1>2, <2>1, CallMoves, ConUpdates, ZenonT(30)
  <2> QED BY <1>1, <1>2, <2>1, <2>2, ConsoleBrokerAssumption
             DEF Retired, ReaderShape, LockHeld, Locking
<1>4. Spending /\ (Blame => Blame')
  BY <1>1, <1>2, <1>3, Spends, BlameStays DEF GenOnly
<1>5. BrokerShape' /\ ConShape' /\ BackendShape' /\ ReaderShape' /\ WriterShape'
  BY <1>1, <1>2, <1>3, ZenonT(30)
     DEF BrokerShape, ConShape, BackendShape, ReaderShape, WriterShape, Moved, GenOnly
<1>6. CallShape'
  BY <1>1, <1>2, <1>3, ZenonT(30) DEF CallShape, Replacing, Retiring, NoCall, Moved, GenOnly
<1>7. LockHeld'
  BY <1>1, <1>2, <1>3, ConsoleBrokerAssumption, ZenonT(30)
     DEF LockHeld, Locking, Retiring, Moved, GenOnly
<1>8. OnScreen'
  BY <1>1, <1>2, <1>3 DEF OnScreen, GenOnly, BackendShape
<1>9. WriterBound'
  BY <1>1, <1>2, <1>3, ZenonT(30) DEF WriterBound, GenOnly
<1>10. Installed'
  BY <1>1, <1>2, <1>3, ZenonT(30) DEF Installed, Out, Allocated, Both, Retiring, Moved, GenOnly
<1>11. InputTagged'
  BY <1>1, <1>2, <1>3, ZenonT(30) DEF InputTagged, GenOnly, BackendShape, ReaderShape, Retired
<1>12. Retired'
  BY <1>1, <1>2, <1>3, Zenon DEF Retired, Moved, GenOnly
<1>13. Agreed'
  BY <1>1, <1>2, <1>3, ZenonT(30) DEF Agreed, Steady, Bound, Retiring, Moved, GenOnly
<1>14. Referred'
  BY <1>1, <1>2, <1>3, ZenonT(30) DEF Referred, Moved, GenOnly
<1>15. Counted' /\ Blamed'
  BY <1>1, <1>2, <1>3, <1>4, Zenon DEF Counted, Blamed, Moved, GenOnly, Spending
<1> QED BY <1>5, <1>6, <1>7, <1>8, <1>9, <1>10, <1>11, <1>12, <1>13, <1>14, <1>15 DEF IInv

(* ... and frees it.                                                       *)
LEMMA DisposeKeeps ==
  ASSUME IInv, Dispose, script' = script PROVE IInv'
<1>1. /\ BrokerShape /\ ConShape /\ BackendShape /\ CallShape /\ ReaderShape
      /\ WriterShape /\ LockHeld /\ OnScreen /\ WriterBound /\ Installed
      /\ InputTagged /\ Retired /\ Agreed /\ Referred /\ Counted /\ Blamed
  BY DEF IInv
<1>2. /\ ctl.pc = "dispose" /\ wr[broker.current].pc = "idle" /\ Works /\ Return
      /\ UNCHANGED <<be, native, input, rd, wr>>
  BY DEF Dispose, At, OutputFree
<1>3. /\ Returned /\ broker.current \in Consoles /\ Released(broker.current) /\ ctl.op = "destroy"
      /\ be.reader = "none" /\ be.console = "none" /\ broker.live
  <2>1. /\ con' = [con EXCEPT ![broker.current] =
                      [con[broker.current] EXCEPT !.out = 0, !.refs = @ - 1]]
        /\ broker.current \in Consoles /\ con[broker.current].refs = 1
    BY <1>1, <1>2 DEF Dispose, BrokerShape, Referred, Retired
  <2>2. Released(broker.current) /\ Returned
    BY <1>1, <1>2, <2>1, Returns, ConUpdates, Zenon
  <2> QED BY <1>1, <1>2, <2>1, <2>2 DEF BrokerShape, Retired, CallShape
<1>4. /\ DOMAIN broker' = DOMAIN broker /\ broker'.current = broker.current
      /\ broker'.gen = broker.gen /\ broker'.output = 0 /\ ~broker'.live
      /\ broker'.broken = broker.broken
  BY <1>1 DEF Dispose, BrokerShape
<1>5. Spending /\ (Blame => Blame')
  BY <1>1, <1>2, <1>3, Spends, BlameStays DEF Released
<1>6. heap' = heap \ {broker.output}
  BY DEF Dispose
<1>7. BrokerShape' /\ ConShape' /\ BackendShape' /\ ReaderShape' /\ WriterShape'
  BY <1>1, <1>2, <1>3, <1>4, ZenonT(30)
     DEF BrokerShape, ConShape, BackendShape, ReaderShape, WriterShape, Returned,
        Released
<1>8. CallShape'
  BY <1>1, <1>2, <1>3, <1>4, ZenonT(30)
     DEF CallShape, Replacing, Retiring, NoCall, Returned, Released
<1>9. LockHeld'
  BY <1>1, <1>2, <1>3, <1>4, ZenonT(30) DEF LockHeld, Locking, Retiring, Returned, Released
<1>10. OnScreen'
  BY <1>1, <1>2, <1>3, <1>4 DEF OnScreen, Released, BackendShape
<1>11. WriterBound'
  BY <1>1, <1>2, <1>3, <1>4 DEF WriterBound, Released
<1>12. Installed'
  BY <1>1, <1>2, <1>3, <1>4, <1>6, ZenonT(30)
     DEF Installed, Out, Allocated, Both, Retiring, Returned, Released, BrokerShape
<1>13. InputTagged'
  BY <1>1, <1>2, <1>3, <1>4, Zenon
     DEF InputTagged, Released, BackendShape, ReaderShape, Retired
<1>14. Retired'
  BY <1>1, <1>2, <1>3, <1>4, ZenonT(30) DEF Retired, Returned, Released
<1>15. Agreed'
  BY <1>1, <1>2, <1>3, <1>4, ZenonT(30) DEF Agreed, Steady, Bound, Retiring, Returned, Released
<1>16. Referred'
  BY <1>1, <1>2, <1>3, <1>4, ZenonT(30) DEF Referred, Returned, Released
<1>17. Counted' /\ Blamed'
  BY <1>1, <1>2, <1>3, <1>4, <1>5 DEF Counted, Blamed, Returned, Released, Spending
<1> QED BY <1>7, <1>8, <1>9, <1>10, <1>11, <1>12, <1>13, <1>14, <1>15, <1>16, <1>17 DEF IInv
=============================================================================
