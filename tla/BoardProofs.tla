------------------------------ MODULE BoardProofs -----------------------------
(***************************************************************************)
(* The interrupt path loses no interrupt and ends no handler but the one   *)
(* that asks, for any number of lines, plan of devices and depth of        *)
(* nesting.                                                                *)
(*                                                                         *)
(* BoardInv is inductive by itself: it relates what each controller        *)
(* believes it has signalled to what is signalled.  SignalInv, on top of   *)
(* it, says which deliverable requests are behind a raised INT line;       *)
(* NestInv that the lines in service are those of the handlers that run,   *)
(* each ahead of those below it.                                           *)
(***************************************************************************)
EXTENDS Board, PicProofs

(***************************************************************************)
(* The BIOS's return from protected mode.                                  *)
(***************************************************************************)

(* A controller reprogrammed with every line masked.                       *)
Blank(c) ==
  /\ DOMAIN c = Fields /\ c.irr = {} /\ c.isr = {} /\ c.imr = Lines
  /\ c.count = [l \in Lines |-> 0] /\ c.hipri = 0 /\ ~c.cpuInt
  /\ ~c.smm /\ ~c.sfnm /\ ~c.aeoi

Shape(u) == DOMAIN u = {"c", "hwInt", "lock", "delayed"} /\ DOMAIN u.c = Adapters

(* Replacing one controller of a board of which only the shape is known.   *)
LEMMA Reshapes ==
  ASSUME NEW u, Shape(u), NEW a \in Adapters, NEW c
  PROVE  LET v == [u EXCEPT !.c[a] = c] IN
         /\ Shape(v) /\ v.c[a] = c /\ \A b \in Adapters : b # a => v.c[b] = u.c[b]
         /\ v.hwInt = u.hwInt /\ v.lock = u.lock /\ v.delayed = u.delayed
  BY DEF Shape

(* Initialisation words leave a controller blank, whatever it was.         *)
LEMMA ReprogrammedIs ==
  ASSUME NEW u, Shape(u), NEW a \in Adapters, DOMAIN u.c[a] = Fields, NEW slaves, NEW id
  PROVE  LET v == Reprogrammed(u, a, slaves, id) IN
         /\ Shape(v) /\ Blank(v.c[a]) /\ v.c[a].slaves = slaves /\ v.c[a].id = id
         /\ \A b \in Adapters : b # a => v.c[b] = u.c[b]
         /\ v.hwInt = u.hwInt /\ v.lock = 0 /\ v.delayed = u.delayed
<1> DEFINE c == u.c[a]
           d1 == [c EXCEPT !.irr = {}, !.isr = {}, !.imr = {}, !.slaves = {}, !.id = 0,
                   !.hipri = 0, !.count = [l \in Lines |-> 0], !.cpuInt = FALSE,
                   !.smm = FALSE, !.sfnm = FALSE, !.aeoi = FALSE, !.raeoi = FALSE,
                   !.poll = FALSE, !.seq = 2]
           v1 == [u EXCEPT !.c[a] = d1]
           d2 == [v1.c[a] EXCEPT !.seq = 3]
           v2 == [v1 EXCEPT !.c[a] = d2]
           d3 == [v2.c[a] EXCEPT !.slaves = slaves, !.id = id, !.seq = 4]
           v3 == [v2 EXCEPT !.c[a] = d3]
           d4 == [v3.c[a] EXCEPT !.aeoi = FALSE, !.sfnm = FALSE, !.seq = 0]
           v4 == [v3 EXCEPT !.c[a] = d4]
           v5 == [v4 EXCEPT !.lock = 1]
           d6 == [v5.c[a] EXCEPT !.imr = Lines]
           v6 == [v5 EXCEPT !.c[a] = d6]
           v7 == [v6 EXCEPT !.lock = 0]
<1>1. /\ DOMAIN d1 = Fields /\ d1.irr = {} /\ d1.isr = {}
      /\ d1.count = [l \in Lines |-> 0] /\ d1.hipri = 0 /\ ~d1.cpuInt
      /\ ~d1.smm
  <2> HIDE DEF c
  <2>1. DOMAIN c = Fields
    BY DEF c
  <2> QED BY <2>1, Zenon DEF Fields
<1>2. v1 = icw1(u, a)
  BY DEF icw1
<1> HIDE DEF d1
<1>3. /\ Shape(v1) /\ v1.c[a] = d1 /\ \A b \in Adapters : b # a => v1.c[b] = u.c[b]
      /\ v1.hwInt = u.hwInt /\ v1.delayed = u.delayed
  BY Reshapes
<1> HIDE DEF v1
<1>4. v2 = icw2(v1, a)
  BY <1>3 DEF icw2, Shape
<1>5. SameBut(v1.c[a], d2, {"seq"})
  BY <1>1, <1>3 DEF SameBut, Fields
<1> HIDE DEF d2
<1>6. /\ Shape(v2) /\ v2.c[a] = d2 /\ \A b \in Adapters : b # a => v2.c[b] = u.c[b]
      /\ v2.hwInt = u.hwInt /\ v2.delayed = u.delayed
  BY <1>3, Reshapes
<1> HIDE DEF v2
<1>7. v3 = icw3(v2, a, slaves, id)
  BY DEF icw3
<1>8. SameBut(v2.c[a], d3, {"slaves", "id", "seq"}) /\ d3.slaves = slaves /\ d3.id = id
  BY <1>5, <1>6, Zenon DEF SameBut, Fields
<1> HIDE DEF d3
<1>9. /\ Shape(v3) /\ v3.c[a] = d3 /\ \A b \in Adapters : b # a => v3.c[b] = u.c[b]
      /\ v3.hwInt = u.hwInt /\ v3.delayed = u.delayed
  BY <1>6, Reshapes
<1> HIDE DEF v3
<1>10. v4 = icw4(v3, a, FALSE, FALSE)
  BY DEF icw4
<1>11. SameBut(v3.c[a], d4, {"aeoi", "sfnm", "seq"}) /\ ~d4.aeoi /\ ~d4.sfnm
  BY <1>8, <1>9, Zenon DEF SameBut, Fields
<1> HIDE DEF d4
<1>12. /\ Shape(v4) /\ v4.c[a] = d4 /\ \A b \in Adapters : b # a => v4.c[b] = u.c[b]
       /\ v4.hwInt = u.hwInt /\ v4.delayed = u.delayed
  BY <1>9, Reshapes
<1> HIDE DEF v4
<1>13. Shape(v5) /\ v5.c = v4.c /\ v5.hwInt = v4.hwInt /\ v5.delayed = v4.delayed
  BY <1>12 DEF Shape
<1> HIDE DEF v5
<1>14. v6 = [Locked(v4) EXCEPT !.c[a].imr = Lines]
  BY <1>13 DEF Locked, Shape, v5
<1>15. SameBut(v5.c[a], d6, {"imr"}) /\ d6.imr = Lines
  BY <1>11, <1>12, <1>13 DEF SameBut, Fields
<1> HIDE DEF d6
<1>16. /\ Shape(v6) /\ v6.c[a] = d6 /\ \A b \in Adapters : b # a => v6.c[b] = u.c[b]
       /\ v6.hwInt = u.hwInt /\ v6.delayed = u.delayed
  BY <1>12, <1>13, Reshapes
<1> HIDE DEF v6
<1>17. Blank(d6) /\ d6.slaves = slaves /\ d6.id = id
  <2>1. \A f \in {"irr", "isr", "count", "hipri", "cpuInt", "smm"} : d6[f] = d1[f]
    BY <1>3, <1>5, <1>6, <1>8, <1>9, <1>11, <1>12, <1>13, <1>15 DEF SameBut, Fields
  <2>2. d6.slaves = d3.slaves /\ d6.id = d3.id /\ d6.aeoi = d4.aeoi /\ d6.sfnm = d4.sfnm
    BY <1>9, <1>11, <1>12, <1>13, <1>15 DEF SameBut, Fields
  <2>3. DOMAIN d6 = Fields
    BY <1>15 DEF SameBut
  <2> QED BY <1>1, <1>8, <1>11, <1>15, <2>1, <2>2, <2>3 DEF Blank
<1>18. Unmasked(v6, a) = v6
  BY <1>16, <1>17 DEF Unmasked, Blank
<1>19. Signal(v6, a) = v6
  <2>1. Deliverable(v6, a) = {}
    BY <1>16, <1>17 DEF Deliverable, Blank
  <2> QED BY <2>1 DEF Signal
<1>20. ocw1(v4, a, Lines) = v7
  BY <1>14, <1>16, <1>17, <1>18, <1>19, Zenon DEF ocw1, Unlocked, Blank
<1>21. Shape(v7) /\ v7.c = v6.c /\ v7.lock = 0 /\ v7.hwInt = v6.hwInt /\ v7.delayed = v6.delayed
  BY <1>16 DEF Shape
<1> HIDE DEF v7
<1>22. Reprogrammed(u, a, slaves, id) = v7
  BY <1>2, <1>4, <1>7, <1>10, <1>20, Zenon DEF Reprogrammed
<1> QED BY <1>16, <1>17, <1>21, <1>22

(* The BIOS's return from protected mode leaves both controllers blank.    *)
LEMMA ShutdownKeeps ==
  ASSUME N \in Nat \ {0}, Cascade \in Lines, NEW u, Sane(u)
  PROVE  LET t == Reprogrammed(Reprogrammed(u, "m", {Cascade}, 0), "s", {}, Cascade)
             v == [ocw2_eoi(t, "m", None, FALSE) EXCEPT !.hwInt = FALSE] IN
         /\ Sane(v) /\ v.lock = 0 /\ Silent(v) /\ Single(v)
         /\ \A a \in Adapters : Blank(v.c[a])
<1> DEFINE x == Reprogrammed(u, "m", {Cascade}, 0)
           t == Reprogrammed(x, "s", {}, Cascade)
           y == ocw2_eoi(t, "m", None, FALSE)
           v == [y EXCEPT !.hwInt = FALSE]
<1>1. Shape(u) /\ DOMAIN u.c["m"] = Fields /\ DOMAIN u.c["s"] = Fields
  BY DEF Sane, Frame, Adapter, Shape
<1>2. /\ Shape(x) /\ Blank(x.c["m"]) /\ x.c["m"].slaves = {Cascade}
      /\ x.c["s"] = u.c["s"] /\ x.delayed = u.delayed
  BY <1>1, ReprogrammedIs DEF Adapters
<1> HIDE DEF x
<1>3. /\ Shape(t) /\ Blank(t.c["s"]) /\ t.c["s"].id = Cascade
      /\ t.c["m"] = x.c["m"] /\ t.delayed = x.delayed /\ t.lock = 0
  BY <1>1, <1>2, ReprogrammedIs DEF Adapters
<1> HIDE DEF t
<1>4. /\ Shape(y) /\ Blank(y.c["m"]) /\ y.c["m"].slaves = {Cascade}
      /\ y.c["s"] = t.c["s"] /\ y.lock = 0 /\ y.delayed = t.delayed
  <2> DEFINE t1 == [t EXCEPT !.lock = 1]
             d == [t1.c["m"] EXCEPT !.isr = @ \ {None}, !.hipri = @]
             t2 == [t1 EXCEPT !.c["m"] = d]
  <2>1. Shape(t1) /\ t1.c = t.c /\ t1.lock = 1 /\ t1.delayed = t.delayed
    BY <1>3 DEF Shape
  <2> HIDE DEF t1
  <2>2. EoiLine(t1, "m", None) = None
    BY <1>2, <1>3, <2>1 DEF EoiLine, Blank
  <2>3. Blank(d) /\ d.slaves = {Cascade}
    BY <1>2, <1>3, <2>1 DEF Blank, Fields
  <2>4. ica_eoi(t1, "m", None, FALSE) = Signal(t2, "m")
    BY <2>2, Zenon DEF ica_eoi
  <2> HIDE DEF d
  <2>5. /\ Shape(t2) /\ t2.c["m"] = d /\ t2.c["s"] = t.c["s"] /\ t2.delayed = t.delayed
    BY <2>1, Reshapes DEF Adapters
  <2> HIDE DEF t2
  <2>6. Signal(t2, "m") = t2
    <3>1. Deliverable(t2, "m") = {}
      BY <2>3, <2>5 DEF Deliverable, Blank
    <3> QED BY <3>1 DEF Signal
  <2>7. y = [t2 EXCEPT !.lock = 0]
    BY <2>4, <2>6, Zenon DEF ocw2_eoi, Locked, Unlocked, t1
  <2> HIDE DEF y
  <2> QED BY <2>3, <2>5, <2>7 DEF Shape
<1> HIDE DEF y
<1>5. v.c = y.c /\ v.lock = 0 /\ v.delayed = y.delayed /\ Shape(v)
  BY <1>4 DEF Shape
<1> HIDE DEF v
<1>6. \A c : Blank(c) => Adapter(c) /\ Requested(c) /\ c.count[Cascade] = 0
  <2>1. 0 \in Lines
    BY DEF Lines
  <2> QED BY <2>1 DEF Blank, Adapter, Requested
<1>7. DOMAIN v.delayed = Adapters
  BY <1>2, <1>3, <1>4, <1>5 DEF Sane, Frame
<1>8. Frame(v)
  BY <1>3, <1>4, <1>5, <1>6, <1>7 DEF Frame, Shape
<1>9. Sane(v)
  BY <1>3, <1>4, <1>5, <1>6, <1>8 DEF Sane, Seen, Linked, Blank
<1>10. Silent(v) /\ Single(v) /\ \A a \in Adapters : Blank(v.c[a])
  BY <1>3, <1>4, <1>5 DEF Silent, Single, Blank, Adapters
<1> QED BY <1>5, <1>9, <1>10, Zenon DEF v, y, t, x

(***************************************************************************)
(* What a raised INT line means.                                           *)
(***************************************************************************)
BoardInv ==
  /\ plan \in Plans
  /\ Sane(w) /\ w.lock = 0
  /\ "poll" \in plan.modes => Silent(w)

(* The invariant holds when the machine has been posted.                   *)
LEMMA BoardInvInit == BoardAssumption /\ Init => BoardInv
<1> SUFFICES ASSUME BoardAssumption, Init PROVE BoardInv
  OBVIOUS
<1>1. PICK masks : w = Post(masks)
  BY DEF Init
<1>2. Posted(w, masks)
  BY <1>1, PostIs DEF BoardAssumption
<1> QED BY <1>2 DEF BoardInv, Posted, Init

(* Devices.                                                                *)
LEMMA RaiseSteps ==
  ASSUME BoardAssumption, BoardInv, NEW a \in Adapters, NEW line \in Lines, Raise(a, line)
  PROVE  /\ Sane(w') /\ Quiet(w, w') /\ w'.lock = 0 /\ w'.delayed = w.delayed /\ Kept(w, w')
         /\ "poll" \in plan.modes => Silent(w')
         /\ Single(w) /\ plan.limit <= 1 => Single(w')
<1>1. a = "m" => line # Cascade
  BY DEF BoardAssumption, BoardInv, Raise
<1>2. "poll" \in plan.modes => a = "m"
  BY DEF BoardAssumption, BoardInv, Raise, Adapters
<1>3. plan.limit <= 1 /\ a = "m" => w.c["m"].count[line] = 0
  BY DEF Raise, BoardInv, BoardAssumption, Sane, Frame, Adapter
<1> DEFINE v == SWPIC_hw_interrupt(w, a, line, 1)
<1>4. w' = v
  BY DEF Raise
<1>5. /\ Sane(v) /\ Quiet(w, v) /\ v.lock = 0 /\ v.delayed = w.delayed /\ Kept(w, v)
      /\ a = "m" => v.c["s"] = w.c["s"]
      /\ Single(w) /\ (a = "m" => w.c["m"].count[line] = 0) => Single(v)
  BY <1>1, HwInterruptKeeps DEF BoardAssumption, BoardInv
<1> HIDE DEF v
<1> QED BY <1>2, <1>3, <1>4, <1>5 DEF BoardInv, Silent

(* Devices withdraw their requests.                                        *)
LEMMA ClearSteps ==
  ASSUME BoardAssumption, BoardInv, NEW a \in Adapters, NEW line \in Lines,
         Clear(a, line) \/ Cancel(a, line)
  PROVE  /\ Sane(w') /\ Quiet(w, w') /\ w'.lock = 0 /\ w'.delayed = w.delayed
         /\ Told(w, "m") => Told(w', "m")
         /\ Told(w, "s") => Told(w', "s")
         /\ Backed(w) => Backed(w')
         /\ plan.withdrawn \cap ({"s"} \X Lines) = {} => (Aimed(w) => Aimed(w'))
         /\ "poll" \in plan.modes => Silent(w')
         /\ Single(w) => Single(w')
<1>1. <<a, line>> \in plan.withdrawn
  BY DEF Clear, Cancel
<1>2. a = "m" => line # Cascade
  BY <1>1 DEF BoardAssumption, BoardInv
<1>3. "poll" \in plan.modes => a = "m"
  BY <1>1 DEF BoardAssumption, BoardInv, Adapters
<1>4. PICK v \in {SWPIC_clear_int(w, a, line), ica_hw_interrupt_cancel(w, a, line)} : w' = v
  BY DEF Clear, Cancel
<1>5. /\ Sane(v) /\ Quiet(w, v) /\ v.lock = w.lock /\ v.delayed = w.delayed
      /\ Told(w, "m") => Told(v, "m")
      /\ Single(w) => Single(v)
      /\ Told(w, "s") => Told(v, "s")
      /\ Backed(w) => Backed(v)
      /\ a = "m" => v.c["s"] = w.c["s"]
  <2>1. CASE v = SWPIC_clear_int(w, a, line)
    <3>1. Frame(w) /\ Seen(w) /\ Linked(w) /\ \A b \in Adapters : Requested(w.c[b])
      BY DEF BoardInv, Sane, Adapters
    <3>2. Slack(w.c[a], line)
      BY <3>1 DEF Slack, Requested
    <3> QED BY <1>2, <2>1, <3>1, <3>2, ClearIntKeeps DEF BoardAssumption
  <2>2. CASE v = ica_hw_interrupt_cancel(w, a, line)
    BY <1>2, <2>2, CancelKeeps DEF BoardAssumption, BoardInv
  <2> QED BY <2>1, <2>2
<1>6. a = "m" => (Aimed(w) => Aimed(v))
  <2>1. v.c["s"] = w.c["s"] => Deliverable(v, "s") = Deliverable(w, "s")
    BY <1>5, SameAdapter
  <2> QED BY <1>5, <2>1 DEF Aimed
<1>7. plan.withdrawn \cap ({"s"} \X Lines) = {} => a = "m"
  BY <1>1 DEF Adapters
<1> QED BY <1>3, <1>4, <1>5, <1>6, <1>7 DEF BoardInv, Silent

(* Lines held back.                                                        *)
LEMMA HeldSteps ==
  ASSUME BoardAssumption, BoardInv, NEW line \in Lines,
         \/ host_DelayHwInterrupt(line)
         \/ softpc_eoi_release(line)
         \/ StopDelayed(line)
  PROVE  /\ Sane(w') /\ Quiet(w, w') /\ w'.lock = 0
         /\ w'.c["s"] = w.c["s"] /\ w'.delayed["s"] = w.delayed["s"]
         /\ Single(w) /\ plan.limit <= 1 => Single(w')
         /\ \/ Told(w', "m")
            \/ StopDelayed(line) /\ ((Told(w, "m") /\ Single(w)) => Told(w', "m"))
<1>1. w.lock = 0 /\ Sane(w)
  BY DEF BoardInv
<1>2. CASE host_DelayHwInterrupt(line)
  <2> DEFINE x == [w EXCEPT !.delayed["m"] = w.delayed["m"] \cup {line}]
             v == SWPIC_hw_interrupt(x, "m", line, 1)
  <2>1. w' = v
    BY <1>2 DEF host_DelayHwInterrupt
  <2>2. Sane(x) /\ x.c = w.c /\ x.lock = w.lock /\ x.delayed["s"] = w.delayed["s"]
    BY <1>1, DelayIs
  <2> HIDE DEF x
  <2>3. line # Cascade
    BY <1>2 DEF host_DelayHwInterrupt, BoardAssumption, BoardInv
  <2>4. /\ Sane(v) /\ Quiet(x, v) /\ v.lock = 0 /\ v.delayed = x.delayed
        /\ v.c["s"] = x.c["s"] /\ Told(v, "m")
        /\ Single(x) /\ x.c["m"].count[line] = 0 => Single(v)
    BY <1>1, <2>2, <2>3, HwInterruptKeeps, Zenon DEF BoardAssumption, Adapters
  <2>5. plan.limit <= 1 => w.c["m"].count[line] = 0
    BY <1>2 DEF host_DelayHwInterrupt, BoardInv, BoardAssumption, Sane, Frame, Adapter
  <2>6. Single(w) /\ plan.limit <= 1 => Single(v)
    BY <2>2, <2>4, <2>5 DEF Single
  <2>7. Quiet(w, v)
    BY <2>2, <2>4 DEF Quiet
  <2> HIDE DEF v
  <2> QED BY <2>1, <2>2, <2>4, <2>6, <2>7
<1>3. CASE softpc_eoi_release(line)
  <2> DEFINE x == [w EXCEPT !.delayed["m"] = w.delayed["m"] \ {line}]
             v == Signal(x, "m")
  <2>1. w' = v
    BY <1>3 DEF softpc_eoi_release
  <2>2. Sane(x) /\ x.c = w.c /\ x.lock = w.lock /\ x.delayed["s"] = w.delayed["s"]
    BY <1>1, DelayIs
  <2> HIDE DEF x
  <2>3. /\ Sane(v) /\ Quiet(x, v) /\ v.lock = x.lock /\ v.delayed = x.delayed
        /\ v.c["s"] = x.c["s"] /\ Told(v, "m")
        /\ Single(x) => Single(v)
    BY <2>2, SignalKeeps DEF BoardAssumption, Adapters
  <2> HIDE DEF v
  <2>4. Quiet(w, v) /\ (Single(w) => Single(v))
    BY <2>2, <2>3 DEF Quiet, Single
  <2> QED BY <1>1, <2>1, <2>2, <2>3, <2>4
<1>4. CASE StopDelayed(line)
  <2> DEFINE x == [w EXCEPT !.delayed["m"] = w.delayed["m"] \ {line}]
             y == Withdraw(x, "m", line)
             v == SWPIC_clear_int(x, "m", line)
  <2>1. w' = v
    BY <1>4 DEF StopDelayed
  <2>2. /\ Sane(x) /\ x.c = w.c /\ x.lock = w.lock /\ x.delayed["s"] = w.delayed["s"]
        /\ x.delayed["m"] = w.delayed["m"] \ {line}
    BY <1>1, DelayIs
  <2> HIDE DEF x
  <2>3. line # Cascade
    BY <1>4 DEF StopDelayed, BoardAssumption, BoardInv
  <2>4. Frame(x) /\ Seen(x) /\ Linked(x) /\ \A b \in Adapters : Requested(x.c[b])
    BY <2>2 DEF Sane, Adapters
  <2>5. Slack(x.c["m"], line)
    BY <2>4 DEF Slack, Requested, Adapters
  <2>6. /\ Sane(v) /\ Quiet(x, v) /\ v.lock = x.lock /\ v.delayed = x.delayed
        /\ v.c["s"] = x.c["s"]
        /\ Single(x) => Single(v)
        /\ (Deliverable(y, "m") # {} => x.c["m"].cpuInt) => Told(v, "m")
    BY <2>3, <2>4, <2>5, ClearIntKeeps DEF BoardAssumption, Adapters
  <2> HIDE DEF v
  <2>7. Withdrawn(x, y, "m", line)
    BY <2>4, <2>5, WithdrawIs DEF Adapters
  <2> HIDE DEF y
  <2>8. ASSUME Single(w) PROVE Deliverable(y, "m") \subseteq Deliverable(w, "m")
    <3>1. line \notin y.c["m"].irr /\ y.c["m"].irr \subseteq w.c["m"].irr
      BY <2>2, <2>7, <2>8 DEF Withdrawn, Single
    <3>2. \A f \in Ordering : y.c["m"][f] = w.c["m"][f]
      BY <2>2, <2>7 DEF Withdrawn, Quiet, Adapters
    <3>3. /\ y.c["m"].isr = w.c["m"].isr /\ y.c["m"].imr = w.c["m"].imr
          /\ y.c["m"].hipri = w.c["m"].hipri /\ y.c["m"].smm = w.c["m"].smm
          /\ y.c["m"].sfnm = w.c["m"].sfnm
      BY <3>2 DEF Ordering
    <3>4. y.delayed["m"] = w.delayed["m"] \ {line}
      BY <2>2, <2>7 DEF Withdrawn
    <3>5. \A k : Rank(y.c["m"], k) = Rank(w.c["m"], k)
      BY <3>3 DEF Rank
    <3>6. y.c["m"].irr \ (y.c["m"].imr \cup y.delayed["m"])
            \subseteq w.c["m"].irr \ (w.c["m"].imr \cup w.delayed["m"])
      BY <3>1, <3>3, <3>4
    <3> QED BY <3>3, <3>5, <3>6 DEF Deliverable
  <2>9. Told(w, "m") /\ Single(w) => Told(v, "m")
    BY <2>2, <2>6, <2>8 DEF Told
  <2>10. Quiet(w, v) /\ (Single(w) => Single(v))
    BY <2>2, <2>6 DEF Quiet, Single
  <2> QED BY <1>1, <1>4, <2>1, <2>2, <2>6, <2>9, <2>10
<1> QED BY <1>2, <1>3, <1>4

(* What a controller owes its interrupter, while the guest leaves the      *)
(* order of the lines alone.                                               *)
Regular == plan.modes \cap {"smm", "priority", "rotate"} = {}

Promised ==
  /\ plan.masks["s"] = {{}} \/ plan.withdrawn \cap ({"s"} \X Lines) = {}
  /\ plan.held = {} \/ plan.limit <= 1

Signalled(u) ==
  /\ Told(u, "m") /\ Told(u, "s") /\ Backed(u)
  /\ plan.withdrawn \cap ({"s"} \X Lines) = {} => Aimed(u)

SignalInv ==
  Regular =>
    /\ Plain(w.c["m"]) /\ Plain(w.c["s"])
    /\ plan.limit <= 1 => Single(w)
    /\ plan.masks["s"] = {{}} => w.c["s"].imr = {}
    /\ Promised => Signalled(w)

(* A step that leaves the order and the slave's mask alone.                *)
LEMMA SignalStep ==
  ASSUME BoardInv, SignalInv, plan' = plan, Sane(w'), w'.lock = 0,
         "poll" \in plan.modes => Silent(w'),
         \A a \in Adapters, f \in {"smm", "sfnm"} : w'.c[a][f] = w.c[a][f],
         w'.c["s"].imr = w.c["s"].imr,
         Single(w) /\ plan.limit <= 1 => Single(w'),
         Regular /\ Promised => Signalled(w')
  PROVE  (BoardInv /\ SignalInv)'
<1>1. BoardInv'
  BY DEF BoardInv
<1>2. ASSUME Regular PROVE Plain(w'.c["m"]) /\ Plain(w'.c["s"])
  BY <1>2 DEF SignalInv, Plain, Adapters
<1>3. (Regular' <=> Regular) /\ (Promised' <=> Promised) /\ (Signalled(w)' <=> Signalled(w'))
  BY Zenon DEF Regular, Promised, Signalled, Told, Backed, Aimed, Deliverable, Rank
<1>4. SignalInv'
  <2> SUFFICES ASSUME Regular
               PROVE  /\ Plain(w'.c["m"]) /\ Plain(w'.c["s"])
                      /\ plan.limit <= 1 => Single(w')
                      /\ plan.masks["s"] = {{}} => w'.c["s"].imr = {}
                      /\ Promised => Signalled(w')
    BY <1>3 DEF SignalInv, Plain, Single
  <2> QED BY <1>2 DEF SignalInv
<1> QED BY <1>1, <1>4

(* The CPU acknowledges.                                                   *)
LEMMA TakeInterruptSteps ==
  ASSUME BoardAssumption, BoardInv, SignalInv, TakeInterrupt, plan' = plan
  PROVE  (BoardInv /\ SignalInv)'
<1> DEFINE v == Acknowledge(w)
<1>1. w' = v
  BY DEF TakeInterrupt
<1>2. /\ Sane(v) /\ Untouched(w, v)
      /\ Silent(w) => Silent(v)
      /\ Single(w) => Single(v)
      /\ Plain(w.c["m"]) /\ Plain(w.c["s"]) =>
           /\ Backed(w) => Told(v, "m")
           /\ Told(w, "s") => Told(v, "s")
           /\ Backed(w) => Backed(v)
           /\ Aimed(w) => Aimed(v)
  BY AcknowledgeKeeps DEF BoardAssumption, BoardInv
<1> HIDE DEF v
<1>3. v.lock = 0 /\ v.c["s"].imr = w.c["s"].imr
      /\ \A a \in Adapters, f \in {"smm", "sfnm"} : v.c[a][f] = w.c[a][f]
  BY <1>2 DEF Untouched, BoardInv, Adapters
<1>4. Regular /\ Promised => Signalled(v)
  BY <1>2 DEF SignalInv, Signalled
<1>5. "poll" \in plan.modes => Silent(v)
  BY <1>2 DEF BoardInv
<1> QED BY <1>1, <1>2, <1>3, <1>4, <1>5, SignalStep

(* The guest polls the master.                                             *)
LEMMA PollSteps ==
  ASSUME BoardAssumption, BoardInv, SignalInv, Poll, plan' = plan
  PROVE  (BoardInv /\ SignalInv)'
<1> DEFINE v == inb_poll(ocw3_poll(w, "m"), "m")
<1>1. w' = v /\ Silent(w)
  BY DEF Poll, BoardInv
<1>2. /\ Sane(v) /\ v.lock = 0 /\ v.delayed = w.delayed /\ v.c["s"] = w.c["s"]
      /\ \A f \in {"imr", "hipri", "smm", "sfnm"} : v.c["m"][f] = w.c["m"][f]
      /\ Single(w) => Single(v)
      /\ Plain(w.c["m"]) => Told(v, "m")
  BY <1>1, PollKeeps DEF BoardAssumption, BoardInv
<1> HIDE DEF v
<1>3. Deliverable(v, "s") = Deliverable(w, "s")
  BY <1>2, SameAdapter
<1>4. Regular /\ Promised => Signalled(v)
  BY <1>2, <1>3 DEF SignalInv, Signalled, Told, Backed, Aimed
<1>5. Silent(v) /\ \A a \in Adapters, f \in {"smm", "sfnm"} : v.c[a][f] = w.c[a][f]
  BY <1>1, <1>2 DEF Silent, Adapters
<1> QED BY <1>1, <1>2, <1>4, <1>5, SignalStep

(* The guest masks lines.                                                  *)
LEMMA MaskSteps ==
  ASSUME BoardAssumption, BoardInv, SignalInv, NEW a \in Adapters,
         NEW mask \in plan.masks[a], Mask(a, mask), plan' = plan
  PROVE  (BoardInv /\ SignalInv)'
<1> DEFINE v == ocw1(w, a, mask)
<1>1. w' = v
  BY DEF Mask
<1>2. /\ Sane(v) /\ v.lock = 0 /\ v.c[a].imr = mask
      /\ \A b \in Adapters, f \in Ordering \ {"imr"} : v.c[b][f] = w.c[b][f]
      /\ \A b \in Adapters \ {a} : v.c[b].imr = w.c[b].imr
      /\ \A b \in Adapters : Told(w, b) => Told(v, b)
      /\ Aimed(w) => Aimed(v)
      /\ (a = "s" => mask = w.c["s"].imr) => (Backed(w) => Backed(v))
      /\ Silent(w) => Silent(v)
      /\ Single(w) => Single(v)
  <2>1. N \in Nat \ {0} /\ Cascade \in Lines /\ Sane(w)
    BY DEF BoardAssumption, BoardInv
  <2> QED BY <2>1, Ocw1Keeps DEF MaskedBy
<1> HIDE DEF v
<1>3. BoardInv'
  BY <1>1, <1>2 DEF BoardInv
<1>4. (Regular' <=> Regular) /\ (Promised' <=> Promised) /\ (Signalled(w)' <=> Signalled(w'))
  BY DEF Regular, Promised, Signalled, Told, Backed, Aimed, Deliverable, Rank
<1>5. SignalInv'
  <2> SUFFICES ASSUME Regular
               PROVE  /\ Plain(v.c["m"]) /\ Plain(v.c["s"])
                      /\ plan.limit <= 1 => Single(v)
                      /\ plan.masks["s"] = {{}} => v.c["s"].imr = {}
                      /\ Promised => Signalled(v)
    BY <1>1, <1>4 DEF SignalInv, Plain, Single
  <2>1. Plain(v.c["m"]) /\ Plain(v.c["s"])
    BY <1>2 DEF SignalInv, Plain, Adapters, Ordering
  <2>2. plan.limit <= 1 => Single(v)
    BY <1>2 DEF SignalInv
  <2>3. plan.masks["s"] = {{}} => /\ v.c["s"].imr = {}
                                  /\ a = "s" => mask = w.c["s"].imr
    BY <1>2, ZenonT(30) DEF SignalInv, Adapters
  <2>4. (Aimed(v) => Backed(v)) /\ (Told(w, "m") => Told(v, "m"))
        /\ (Told(w, "s") => Told(v, "s"))
    BY <1>2 DEF Aimed, Backed, Adapters
  <2>5. Promised => Signalled(v)
    BY <1>2, <2>3, <2>4 DEF SignalInv, Promised, Signalled
  <2> QED BY <2>1, <2>2, <2>3, <2>5
<1> QED BY <1>3, <1>5

(* The guest ends a handler.                                               *)
LEMMA EndSteps ==
  ASSUME BoardAssumption, BoardInv, SignalInv, NEW a \in Adapters, NEW line,
         Ended(a, line), plan' = plan
  PROVE  (BoardInv /\ SignalInv)'
<1>1. PICK l \in {None, line}, rotate \in BOOLEAN :
        /\ w' = ocw2_eoi(w, a, l, rotate)
        /\ rotate => l = None /\ "rotate" \in plan.modes
  BY Zenon DEF Ended
<1> DEFINE v == ocw2_eoi(w, a, l, rotate)
<1>2. /\ Sane(v) /\ v.lock = 0
      /\ \A f \in {"imr", "smm", "sfnm"} : v.c[a][f] = w.c[a][f]
      /\ \A b \in Adapters \ {a}, f \in Ordering : v.c[b][f] = w.c[b][f]
      /\ ~rotate => Kept(w, v)
      /\ Silent(w) => Silent(v)
      /\ Single(w) => Single(v)
  <2>1. N \in Nat \ {0} /\ Cascade \in Lines /\ Sane(w)
    BY DEF BoardAssumption, BoardInv
  <2>2. v.lock = 0 /\ EndedBy(w, v, a, l, rotate)
    BY <1>1, <2>1, Ocw2EoiKeeps, Zenon
  <2> QED BY <2>2, Zenon DEF EndedBy
<1> HIDE DEF v
<1>3. v.c["s"].imr = w.c["s"].imr
      /\ \A b \in Adapters, f \in {"smm", "sfnm"} : v.c[b][f] = w.c[b][f]
  BY <1>2 DEF Adapters, Ordering
<1>4. Regular => ~rotate
  BY <1>1 DEF Regular
<1>5. Regular /\ Promised => Signalled(v)
  BY <1>2, <1>4 DEF SignalInv, Signalled, Kept
<1>6. "poll" \in plan.modes => Silent(v)
  BY <1>2 DEF BoardInv
<1>7. w' = v
  BY <1>1 DEF v
<1> QED BY <1>2, <1>3, <1>5, <1>6, <1>7, SignalStep

(* Every step keeps the invariant, and what the controllers owe.           *)
LEMMA BoardStep ==
  ASSUME BoardAssumption, BoardInv, SignalInv, [Next]_vars
  PROVE  (BoardInv /\ SignalInv)'
<1>1. CASE UNCHANGED w /\ plan' = plan
  BY <1>1 DEF BoardInv, SignalInv, Regular, Promised, Signalled, Plain, Single
<1>2. CASE Next
  <2> USE <1>2
  <2>1. plan' = plan
    BY DEF Next
  <2>2. ASSUME Quiet(w, w')
        PROVE  /\ \A a \in Adapters, f \in {"smm", "sfnm"} : w'.c[a][f] = w.c[a][f]
               /\ w'.c["s"].imr = w.c["s"].imr
    BY <2>2 DEF Quiet, Ordering, Adapters
  <2>3. ASSUME NEW a \in Adapters, NEW line \in Lines, Raise(a, line)
        PROVE  (BoardInv /\ SignalInv)'
    <3>1. /\ Sane(w') /\ Quiet(w, w') /\ w'.lock = 0 /\ Kept(w, w')
          /\ "poll" \in plan.modes => Silent(w')
          /\ Single(w) /\ plan.limit <= 1 => Single(w')
      BY <2>3, RaiseSteps
    <3>2. Regular /\ Promised => Signalled(w')
      BY <3>1 DEF SignalInv, Signalled, Kept
    <3> QED BY <2>1, <2>2, <3>1, <3>2, SignalStep
  <2>4. ASSUME NEW a \in Adapters, NEW line \in Lines, Clear(a, line) \/ Cancel(a, line)
        PROVE  (BoardInv /\ SignalInv)'
    <3>1. /\ Sane(w') /\ Quiet(w, w') /\ w'.lock = 0
          /\ Told(w, "m") => Told(w', "m")
          /\ Told(w, "s") => Told(w', "s")
          /\ Backed(w) => Backed(w')
          /\ plan.withdrawn \cap ({"s"} \X Lines) = {} => (Aimed(w) => Aimed(w'))
          /\ "poll" \in plan.modes => Silent(w')
          /\ Single(w) => Single(w')
      BY <2>4, ClearSteps
    <3>2. Regular /\ Promised => Signalled(w')
      BY <3>1 DEF SignalInv, Signalled
    <3> QED BY <2>1, <2>2, <3>1, <3>2, SignalStep
  <2>5. ASSUME NEW line \in Lines,
               \/ host_DelayHwInterrupt(line)
               \/ softpc_eoi_release(line)
               \/ StopDelayed(line)
        PROVE  (BoardInv /\ SignalInv)'
    <3>1. /\ Sane(w') /\ Quiet(w, w') /\ w'.lock = 0
          /\ w'.c["s"] = w.c["s"] /\ w'.delayed["s"] = w.delayed["s"]
          /\ Single(w) /\ plan.limit <= 1 => Single(w')
          /\ \/ Told(w', "m")
             \/ StopDelayed(line) /\ ((Told(w, "m") /\ Single(w)) => Told(w', "m"))
      BY <2>5, HeldSteps
    <3>2. Deliverable(w', "s") = Deliverable(w, "s")
      BY <3>1, SameAdapter
    <3>3. StopDelayed(line) => plan.held # {}
      BY DEF StopDelayed
    <3>4. Regular /\ Promised => Signalled(w')
      BY <3>1, <3>2, <3>3 DEF SignalInv, Signalled, Promised, Told, Backed, Aimed
    <3>5. "poll" \in plan.modes => Silent(w')
      BY <3>1 DEF BoardInv, Silent
    <3> QED BY <2>1, <2>2, <3>1, <3>4, <3>5, SignalStep
  <2>6. ASSUME NEW a \in Adapters,
               \/ \E line \in Lines : SetPriority(a, line)
               \/ \E on \in BOOLEAN : SpecialMask(a, on)
        PROVE  (BoardInv /\ SignalInv)'
    <3>1. PICK line \in Lines, on \in BOOLEAN :
            w' \in {ocw2_priority(w, a, line), ocw3_smm(w, a, on)}
      BY <2>6, Zenon DEF SetPriority, SpecialMask, BoardAssumption
    <3>2. Sane(w') /\ w'.lock = 0 /\ (Silent(w) => Silent(w'))
      BY <3>1, OrderKeeps DEF BoardAssumption, BoardInv
    <3>3. BoardInv'
      BY <2>1, <3>1, <3>2 DEF BoardInv
    <3>4. ~Regular'
      BY <2>1, <2>6 DEF Regular, SetPriority, SpecialMask
    <3> QED BY <3>3, <3>4 DEF SignalInv
  <2>7. CASE Shutdown
    <3> DEFINE t == Reprogrammed(Reprogrammed(w, "m", {Cascade}, 0), "s", {}, Cascade)
               v == [ocw2_eoi(t, "m", None, FALSE) EXCEPT !.hwInt = FALSE]
    <3>1. w' = v /\ Lines \in plan.masks["s"]
      BY <2>7 DEF Shutdown
    <3>2. /\ Sane(v) /\ v.lock = 0 /\ Silent(v) /\ Single(v)
          /\ \A a \in Adapters : Blank(v.c[a])
      BY ShutdownKeeps, Zenon DEF BoardAssumption, BoardInv
    <3> HIDE DEF v
    <3>3. BoardInv'
      BY <2>1, <3>1, <3>2 DEF BoardInv
    <3>4. plan.masks["s"] # {{}}
      BY <3>1, Zenon DEF BoardAssumption, Lines
    <3>5. /\ Plain(v.c["m"]) /\ Plain(v.c["s"]) /\ ~v.c["s"].cpuInt
          /\ v.c["m"].irr = {} /\ v.c["s"].irr = {}
      BY <3>2 DEF Blank, Plain, Adapters
    <3>6. Deliverable(v, "m") = {} /\ Deliverable(v, "s") = {}
      BY <3>5 DEF Deliverable
    <3>7. Signalled(v)
      BY <3>5, <3>6 DEF Signalled, Told, Backed, Aimed
    <3>8. SignalInv'
      BY <2>1, <3>1, <3>2, <3>4, <3>5, <3>7
         DEF SignalInv, Regular, Promised, Signalled, Plain, Single
    <3> QED BY <3>3, <3>8
  <2>8. CASE ColdReset
    <3>1. PICK mask \in plan.masks["m"], slave \in plan.masks["s"] :
            w' = [SWPIC_clear_int(Post([a \in Adapters |-> IF a = "m" THEN mask ELSE slave]),
                                  "m", 0)
                  EXCEPT !.hwInt = FALSE]
      BY <2>8, ZenonT(30) DEF ColdReset
    <3> DEFINE masks == [a \in Adapters |-> IF a = "m" THEN mask ELSE slave]
               v == [SWPIC_clear_int(Post(masks), "m", 0) EXCEPT !.hwInt = FALSE]
    <3>2. Posted(v, masks)
      BY ColdResetIs DEF BoardAssumption
    <3>3. w' = v
      BY <3>1
    <3> HIDE DEF v
    <3>4. masks["s"] = slave
      BY DEF Adapters
    <3> HIDE DEF masks
    <3>5. BoardInv'
      BY <2>1, <3>2, <3>3 DEF BoardInv, Posted
    <3>6. /\ Plain(v.c["m"]) /\ Plain(v.c["s"]) /\ ~v.c["s"].cpuInt
          /\ v.c["m"].irr = {} /\ v.c["s"].irr = {} /\ v.c["s"].imr = slave /\ Single(v)
      BY <3>2, <3>4 DEF Posted, Adapters
    <3>7. Deliverable(v, "m") = {} /\ Deliverable(v, "s") = {}
      BY <3>6 DEF Deliverable
    <3>8. Signalled(v)
      BY <3>6, <3>7 DEF Signalled, Told, Backed, Aimed
    <3>9. SignalInv'
      BY <2>1, <3>3, <3>6, <3>8 DEF SignalInv, Regular, Promised, Signalled, Plain, Single
    <3> QED BY <3>5, <3>9
  <2>9. CASE EndSlave
    BY <2>1, <2>9, EndSteps DEF EndSlave, Adapters
  <2>10. CASE EndMaster
    BY <2>1, <2>10, EndSteps DEF EndMaster, Adapters
  <2>11. CASE SetFlag
    BY <1>1, <2>1, <2>11 DEF SetFlag
  <2> QED BY <2>1, <2>3, <2>4, <2>5, <2>6, <2>7, <2>8, <2>9, <2>10, <2>11,
             MaskSteps, TakeInterruptSteps, PollSteps DEF Next
<1> QED BY <1>1, <1>2 DEF vars

(* A machine that has been posted owes nothing.                            *)
LEMMA SignalInvInit == BoardAssumption /\ Init => SignalInv
<1> SUFFICES ASSUME BoardAssumption, Init PROVE SignalInv
  OBVIOUS
<1>1. PICK masks : w = Post(masks) /\ masks["s"] \in plan.masks["s"]
  BY DEF Init, Adapters
<1>2. Posted(w, masks)
  BY <1>1, PostIs DEF BoardAssumption
<1>3. /\ Plain(w.c["m"]) /\ Plain(w.c["s"]) /\ ~w.c["s"].cpuInt
      /\ w.c["m"].irr = {} /\ w.c["s"].irr = {} /\ w.c["s"].imr = masks["s"] /\ Single(w)
  BY <1>2 DEF Posted, Adapters
<1>4. Deliverable(w, "m") = {} /\ Deliverable(w, "s") = {}
  BY <1>3 DEF Deliverable
<1> QED BY <1>1, <1>3, <1>4 DEF SignalInv, Signalled, Told, Backed, Aimed

(* Whatever devices and guest do, an INT line that is high is seen: the    *)
(* CPU's bit is set for the master's, and the master's cascade line is     *)
(* requested for the slave's.                                              *)
THEOREM RaisedIntIsSeen ==
  ASSUME BoardAssumption
  PROVE  Spec => []IntIsSeen
<1>1. Init => BoardInv /\ SignalInv
  BY BoardInvInit, SignalInvInit
<1>2. BoardInv /\ SignalInv /\ [Next]_vars => (BoardInv /\ SignalInv)'
  BY BoardStep
<1>3. BoardInv => IntIsSeen
  <2> SUFFICES ASSUME BoardInv PROVE IntIsSeen
    OBVIOUS
  <2>1. w.c["s"].cpuInt => Cascade \in w.c["m"].irr
    BY DEF BoardInv, Sane, Linked, Requested, BoardAssumption
  <2> QED BY <2>1 DEF BoardInv, Sane, Seen, Linked, Requested, IntIsSeen, Adapters
<1> QED BY <1>1, <1>2, <1>3, PTL DEF Spec

(* A request that may be delivered is signalled, in every regular plan     *)
(* that promises it: no mask, end of interrupt, withdrawal, released line  *)
(* or acknowledgement leaves a request behind that nobody looks for again. *)
THEOREM DeliverableRequestIsSignalled ==
  ASSUME BoardAssumption
  PROVE  Spec => []("rotate" \notin plan.modes => DeliverableIsSignalled)
<1>1. Init => BoardInv /\ SignalInv
  BY BoardInvInit, SignalInvInit
<1>2. BoardInv /\ SignalInv /\ [Next]_vars => (BoardInv /\ SignalInv)'
  BY BoardStep
<1>3. SignalInv => ("rotate" \notin plan.modes => DeliverableIsSignalled)
  BY DEF SignalInv, Regular, Promised, Signalled, Told, DeliverableIsSignalled,
         IrrGeneratesInterrupt, Adapters
<1> QED BY <1>1, <1>2, <1>3, PTL DEF Spec

(***************************************************************************)
(* The handlers that run.                                                  *)
(***************************************************************************)
(* The master's line that a handler was entered by.                        *)
MLine(v) == IF v[1] = "s" THEN Cascade ELSE v[2]

InM(st) == {MLine(st[i]) : i \in 1..Len(st)}
InS(st) == {st[i][2] : i \in {j \in 1..Len(st) : st[j][1] = "s"}}

(* Handlers nest: each was entered by a line of higher priority than all   *)
(* those below it.                                                         *)
Nest(st) ==
  /\ st \in Seq(Adapters \X Lines)
  /\ \A i \in 1..Len(st) : st[i] # <<"m", Cascade>>
  /\ \A i, j \in 1..Len(st) : i < j => MLine(st[j]) < MLine(st[i])

(* A line ahead of all those in service is entered.                        *)
LEMMA NestPush ==
  ASSUME N \in Nat \ {0}, Cascade \in Lines, NEW st, Nest(st),
         NEW e \in Adapters \X Lines, e # <<"m", Cascade>>, \A k \in InM(st) : MLine(e) < k
  PROVE  LET t == Append(st, e) IN
         /\ Nest(t) /\ InM(t) = InM(st) \cup {MLine(e)}
         /\ InS(t) = IF e[1] = "s" THEN InS(st) \cup {e[2]} ELSE InS(st)
         /\ e[1] = "s" => InS(st) = {}
<1> DEFINE t == Append(st, e)
           n == Len(st)
<1>1. st \in Seq(Adapters \X Lines) /\ n \in Nat
  BY DEF Nest
<1>2. /\ t \in Seq(Adapters \X Lines) /\ Len(t) = n + 1 /\ t[n + 1] = e
      /\ \A i \in 1..n : t[i] = st[i]
  BY <1>1
<1> HIDE DEF t, n
<1>3. \A i \in 1..(n + 1) : i = n + 1 \/ i \in 1..n
  BY <1>1
<1>4. \A i \in 1..n : MLine(st[i]) \in InM(st)
  BY DEF InM, n
<1>5. \A i \in 1..(n + 1) : t[i] # <<"m", Cascade>>
  BY <1>2, <1>3 DEF Nest, n
<1>6. ASSUME NEW i \in 1..(n + 1), NEW j \in 1..(n + 1), i < j PROVE MLine(t[j]) < MLine(t[i])
  <2>1. i \in 1..n /\ t[i] = st[i]
    BY <1>1, <1>2, <1>6
  <2>2. CASE j = n + 1
    BY <1>2, <1>4, <2>1, <2>2
  <2>3. CASE j \in 1..n
    BY <1>2, <1>6, <2>1, <2>3 DEF Nest, n
  <2> QED BY <1>3, <2>2, <2>3
<1>7. Nest(t)
  BY <1>2, <1>5, <1>6 DEF Nest
<1>8. InM(t) = InM(st) \cup {MLine(e)}
  <2>1. InM(t) \subseteq InM(st) \cup {MLine(e)}
    BY <1>2, <1>3 DEF InM, n
  <2>2. MLine(e) \in InM(t)
    BY <1>1, <1>2 DEF InM
  <2>3. InM(st) \subseteq InM(t)
    <3>1. \A i \in 1..n : i \in 1..(n + 1) /\ t[i] = st[i]
      BY <1>1, <1>2
    <3> QED BY <1>2, <3>1 DEF InM, n
  <2> QED BY <2>1, <2>2, <2>3
<1>9. InS(t) = IF e[1] = "s" THEN InS(st) \cup {e[2]} ELSE InS(st)
  <2>1. \A i \in 1..n : i \in 1..(n + 1) /\ t[i] = st[i]
    BY <1>1, <1>2
  <2>2. InS(st) \subseteq InS(t)
    BY <1>2, <2>1 DEF InS, n
  <2>3. n + 1 \in 1..(n + 1)
    BY <1>1
  <2>4. e[1] = "s" => e[2] \in InS(t)
    BY <1>2, <2>3 DEF InS
  <2>5. InS(t) \subseteq IF e[1] = "s" THEN InS(st) \cup {e[2]} ELSE InS(st)
    BY <1>2, <1>3 DEF InS, n
  <2> QED BY <2>2, <2>4, <2>5
<1>10. e[1] = "s" => InS(st) = {}
  <2> SUFFICES ASSUME e[1] = "s", NEW i \in 1..n, st[i][1] = "s" PROVE FALSE
    BY DEF InS, n
  <2>1. MLine(e) = Cascade /\ MLine(st[i]) = Cascade
    BY DEF MLine
  <2>2. Cascade < Cascade /\ Cascade \in Int
    BY <1>4, <2>1 DEF Lines
  <2> QED BY <2>2
<1> QED BY <1>7, <1>8, <1>9, <1>10 DEF t

(* The innermost handler ends: its line is ahead of all others, and it is  *)
(* the only one of the slave's if it is one.                               *)
LEMMA NestPop ==
  ASSUME N \in Nat \ {0}, Cascade \in Lines, NEW st, Nest(st), st # <<>>
  PROVE  LET t == SubSeq(st, 1, Len(st) - 1)
             top == st[Len(st)] IN
         /\ Nest(t) /\ InM(t) = InM(st) \ {MLine(top)}
         /\ MLine(top) \in InM(st) /\ \A k \in InM(st) : MLine(top) <= k
         /\ InS(t) = IF top[1] = "s" THEN {} ELSE InS(st)
         /\ top[1] = "s" => InS(st) = {top[2]}
         /\ top \in Adapters \X Lines
<1> DEFINE n == Len(st)
           t == SubSeq(st, 1, n - 1)
           top == st[n]
<1>1. st \in Seq(Adapters \X Lines) /\ n \in Nat \ {0} /\ top \in Adapters \X Lines
  BY DEF Nest
<1>2. /\ t \in Seq(Adapters \X Lines) /\ Len(t) = n - 1
      /\ \A i \in 1..(n - 1) : t[i] = st[i]
  <2> DEFINE m == n - 1
  <2>1. m \in Nat /\ m < n /\ 1..m \subseteq 1..n
    BY <1>1
  <2>2. \A i \in 1..m : st[i] \in Adapters \X Lines
    BY <1>1, <2>1
  <2> HIDE DEF m
  <2>3. Len(SubSeq(st, 1, m)) = m /\ \A i \in 1..m : SubSeq(st, 1, m)[i] = st[i]
    BY <1>1, <2>1
  <2>4. SubSeq(st, 1, m) \in Seq(Adapters \X Lines)
    BY <1>1, <2>1, <2>2
  <2> QED BY <2>3, <2>4 DEF m
<1> HIDE DEF t, n
<1>3. n \in 1..n /\ \A i \in 1..n : i = n \/ i \in 1..(n - 1)
  BY <1>1
<1>4. \A i \in 1..(n - 1) : i \in 1..n /\ i < n
  BY <1>1
<1>5. \A i \in 1..n : MLine(st[i]) \in Int
  <2>1. \A i \in 1..n : st[i] \in Adapters \X Lines
    BY <1>1 DEF n
  <2> QED BY <2>1 DEF MLine, Lines
<1>6. \A i \in 1..(n - 1) : MLine(top) < MLine(st[i])
  BY <1>3, <1>4 DEF Nest, n
<1>7. Nest(t)
  <2>1. \A i \in 1..(n - 1) : t[i] # <<"m", Cascade>>
    BY <1>2, <1>4, Zenon DEF Nest, n
  <2>2. \A i, j \in 1..(n - 1) : i < j => MLine(t[j]) < MLine(t[i])
    BY <1>2, <1>4 DEF Nest, n
  <2> QED BY <1>2, <2>1, <2>2 DEF Nest
<1>8. InM(st) = InM(t) \cup {MLine(top)} /\ MLine(top) \notin InM(t)
  <2>1. InM(st) \subseteq InM(t) \cup {MLine(top)}
    BY <1>2, <1>3 DEF InM, n
  <2>2. MLine(top) \in InM(st)
    BY <1>3 DEF InM, n
  <2>3. InM(t) \subseteq InM(st)
    BY <1>2, <1>4 DEF InM, n
  <2>4. MLine(top) \notin InM(t)
    <3> SUFFICES ASSUME NEW i \in 1..(n - 1), MLine(top) = MLine(t[i]) PROVE FALSE
      BY <1>2 DEF InM
    <3>1. MLine(top) < MLine(top) /\ MLine(top) \in Int
      BY <1>2, <1>3, <1>5, <1>6
    <3> QED BY <3>1
  <2> QED BY <2>1, <2>2, <2>3, <2>4
<1>9. \A k \in InM(st) : MLine(top) <= k
  <2> SUFFICES ASSUME NEW i \in 1..n PROVE MLine(top) <= MLine(st[i])
    BY DEF InM, n
  <2>1. CASE i = n
    BY <1>3, <1>5, <2>1
  <2>2. CASE i \in 1..(n - 1)
    BY <1>3, <1>4, <1>5, <1>6, <2>2
  <2> QED BY <1>3, <2>1, <2>2
<1>10. ASSUME top[1] = "s", NEW i \in 1..(n - 1), st[i][1] = "s" PROVE FALSE
  <2>1. MLine(top) = Cascade /\ MLine(st[i]) = Cascade
    BY <1>10 DEF MLine
  <2>2. Cascade < Cascade /\ Cascade \in Int
    BY <1>6, <2>1 DEF Lines
  <2> QED BY <2>2
<1>11. InS(t) = IF top[1] = "s" THEN {} ELSE InS(st)
  <2>1. CASE top[1] = "s"
    <3>1. \A i \in 1..(n - 1) : t[i][1] # "s"
      BY <1>2, <1>10, <2>1
    <3> QED BY <1>2, <2>1, <3>1 DEF InS
  <2>2. CASE top[1] # "s"
    <3>1. InS(st) \subseteq InS(t)
      BY <1>2, <1>3, <2>2 DEF InS, n
    <3>2. InS(t) \subseteq InS(st)
      BY <1>2, <1>4 DEF InS, n
    <3> QED BY <2>2, <3>1, <3>2, Zenon
  <2> QED BY <2>1, <2>2
<1>12. top[1] = "s" => InS(st) = {top[2]}
  <2> SUFFICES ASSUME top[1] = "s" PROVE InS(st) = {top[2]}
    OBVIOUS
  <2>1. InS(st) \subseteq {top[2]}
    BY <1>3, <1>10 DEF InS, n
  <2>2. top[2] \in InS(st)
    BY <1>3 DEF InS, n
  <2> QED BY <2>1, <2>2
<1>13. InM(t) = InM(st) \ {MLine(top)} /\ MLine(top) \in InM(st)
  BY <1>8
<1> QED BY <1>1, <1>7, <1>9, <1>11, <1>12, <1>13 DEF t, n

(* A line's rank is its number, in the order of the power-on.              *)
LEMMA RankIs ==
  ASSUME N \in Nat \ {0}, NEW c, c.hipri = 0, NEW l \in Lines
  PROVE  Rank(c, l) = l
<1>1. l \in Nat /\ l < N /\ l + N - 0 = l + N
  BY DEF Lines
<1>2. (l + N) % N = l
  BY <1>1, SMTT(60)
<1> QED BY <1>1, <1>2 DEF Rank

Nested(u, st, h) ==
  /\ u.c["m"].hipri = 0 /\ Nest(st)
  /\ u.c["m"].isr = InM(st)
  /\ u.c["s"].isr = InS(st) \ (IF h THEN {st[Len(st)][2]} ELSE {})

NestInv ==
  Regular =>
    /\ Nested(w, stack, half)
    /\ half \in BOOLEAN
    /\ half => stack # <<>> /\ Top[1] = "s" /\ ~flag

(* The board after a step: how the handlers nest is a matter of its state  *)
(* alone.                                                                  *)
LEMMA NestAfter ==
  ASSUME NEW v, w' = v, half' = FALSE, Nested(v, stack', FALSE)
  PROVE  NestInv'
<1>1. Nested(w', stack', half')
  BY Zenon
<1>2. Nested(w, stack, half)'
  BY <1>1, Zenon DEF Nested, Nest, InM, InS, MLine
<1> QED BY <1>2, Zenon DEF NestInv

(* The lines in service, by where they came from.                          *)
LEMMA InServiceIs ==
  ASSUME stack \in Seq(Adapters \X Lines)
  PROVE  InService("m") = InM(stack) /\ InService("s") = InS(stack)
<1>1. \A i \in 1..Len(stack) : stack[i] \in Adapters \X Lines /\ stack[i][1] \in {"m", "s"}
  BY DEF Adapters
<1>2. InService("m") \subseteq InM(stack)
  BY <1>1 DEF InService, InM, MLine
<1>3. InM(stack) \subseteq InService("m")
  BY <1>1 DEF InService, InM, MLine
<1>4. InService("s") = InS(stack)
  BY DEF InService, InS
<1> QED BY <1>2, <1>3, <1>4, Zenon

(* A line that may be delivered comes before all those in service.         *)
LEMMA DeliverableIsAhead ==
  ASSUME N \in Nat \ {0}, NEW u, Frame(u), Plain(u.c["m"]), u.c["m"].hipri = 0,
         NEW l \in Deliverable(u, "m")
  PROVE  l \in Lines /\ \A k \in u.c["m"].isr : l < k
<1>1. u.c["m"].isr \subseteq Lines /\ l \in Lines
  BY DEF Frame, Adapter, Deliverable, Adapters
<1>2. \A k \in u.c["m"].isr : Rank(u.c["m"], k) > Rank(u.c["m"], l)
  BY DEF Deliverable, Plain
<1>3. Rank(u.c["m"], l) = l /\ \A k \in u.c["m"].isr : Rank(u.c["m"], k) = k
  BY <1>1, RankIs
<1> QED BY <1>1, <1>2, <1>3 DEF Lines

(* A step that leaves the lines in service and the handlers alone.         *)
LEMMA NestSame ==
  ASSUME NestInv, plan' = plan, UNCHANGED <<stack, half>>,
         half => flag' = flag,
         \A a \in Adapters, f \in {"isr", "hipri"} : w'.c[a][f] = w.c[a][f]
  PROVE  NestInv'
<1>1. /\ w'.c["m"].isr = w.c["m"].isr /\ w'.c["s"].isr = w.c["s"].isr
      /\ w'.c["m"].hipri = w.c["m"].hipri
  BY DEF Adapters
<1>2. Regular => Nested(w', stack, half)
  BY <1>1 DEF NestInv, Nested
<1> QED BY <1>2 DEF NestInv, Nested, Regular, Top, Nest, InM, InS, MLine

(* The CPU acknowledges, and enters a handler unless it is rejected.       *)
LEMMA TakeInterruptNests ==
  ASSUME BoardAssumption, BoardInv, SignalInv, NestInv, TakeInterrupt, plan' = plan
  PROVE  NestInv'
<1> SUFFICES ASSUME Regular PROVE NestInv'
  BY DEF NestInv, Regular
<1> DEFINE v == Acknowledge(w)
<1>1. w' = v /\ flag /\ half' = half
  BY DEF TakeInterrupt
<1>2. half = FALSE /\ Nested(w, stack, half)
  BY <1>1, Zenon DEF NestInv
<1>3. Plain(w.c["m"]) /\ Frame(w) /\ N \in Nat \ {0} /\ Cascade \in Lines
  BY ZenonT(30) DEF SignalInv, BoardInv, Sane, BoardAssumption
<1>4. Untouched(w, v) /\ Taken(w, v)
  BY <1>3, AcknowledgeKeeps DEF BoardAssumption, BoardInv
<1> HIDE DEF v
<1>5. v.c["m"].hipri = 0
  BY <1>2, <1>4 DEF Untouched, Nested, Adapters
<1>6. Nest(stack) /\ w.c["m"].isr = InM(stack) /\ w.c["s"].isr = InS(stack)
  BY <1>2 DEF Nested
<1>7. ASSUME NEW l \in Deliverable(w, "m") PROVE l \in Lines /\ \A k \in InM(stack) : l < k
  BY <1>2, <1>3, <1>6, DeliverableIsAhead DEF Nested
<1>8. Nested(v, stack', FALSE)
  <2>1. CASE Vector(w) = Reject /\ v.c["m"].isr = w.c["m"].isr /\ v.c["s"].isr = w.c["s"].isr
    <3>1. stack' = stack
      BY <2>1 DEF TakeInterrupt
    <3> QED BY <1>5, <1>6, <2>1, <3>1 DEF Nested
  <2>2. ASSUME NEW l \in Lines \ {Cascade}, Vector(w) = <<"m", l>>, l \in Deliverable(w, "m"),
               v.c["m"].isr = w.c["m"].isr \cup {l}, v.c["s"].isr = w.c["s"].isr
        PROVE  Nested(v, stack', FALSE)
    <3> DEFINE e == <<"m", l>>
    <3>1. stack' = Append(stack, e)
      BY <2>2 DEF TakeInterrupt, Reject
    <3>2. e \in Adapters \X Lines /\ e # <<"m", Cascade>> /\ e[1] # "s" /\ MLine(e) = l
      BY DEF Adapters, MLine
    <3> HIDE DEF e
    <3>3. /\ Nest(stack') /\ InM(stack') = InM(stack) \cup {l} /\ InS(stack') = InS(stack)
      BY <1>3, <1>6, <1>7, <2>2, <3>1, <3>2, NestPush
    <3> QED BY <1>5, <1>6, <2>2, <3>3 DEF Nested
  <2>3. ASSUME NEW l \in Lines, Vector(w) = <<"s", l>>, Cascade \in Deliverable(w, "m"),
               v.c["m"].isr = w.c["m"].isr \cup {Cascade},
               v.c["s"].isr = w.c["s"].isr \cup {l}
        PROVE  Nested(v, stack', FALSE)
    <3> DEFINE e == <<"s", l>>
    <3>1. stack' = Append(stack, e)
      BY <2>3 DEF TakeInterrupt, Reject
    <3>2. /\ e \in Adapters \X Lines /\ e # <<"m", Cascade>> /\ e[1] = "s" /\ e[2] = l
          /\ MLine(e) = Cascade
      BY DEF Adapters, MLine
    <3> HIDE DEF e
    <3>3. /\ Nest(stack') /\ InM(stack') = InM(stack) \cup {Cascade}
          /\ InS(stack') = InS(stack) \cup {l}
      BY <1>3, <1>6, <1>7, <2>3, <3>1, <3>2, NestPush
    <3> QED BY <1>5, <1>6, <2>3, <3>3 DEF Nested
  <2> QED BY <1>4, <2>1, <2>2, <2>3, Zenon DEF Taken
<1> QED BY <1>1, <1>2, <1>8, NestAfter, Zenon

(* A guest that polls enters the handler of the line it reads.             *)
LEMMA PollNests ==
  ASSUME BoardAssumption, BoardInv, SignalInv, NestInv, Poll, plan' = plan
  PROVE  NestInv'
<1> SUFFICES ASSUME Regular PROVE NestInv'
  BY DEF NestInv, Regular
<1> DEFINE v == inb_poll(ocw3_poll(w, "m"), "m")
           l == Scan(w, "m")
           e == <<"m", l>>
<1>1. w' = v /\ half' = half /\ Silent(w)
  BY DEF Poll, BoardInv
<1>2. half = FALSE /\ Nested(w, stack, half)
  BY Zenon DEF NestInv, Poll
<1>3. Plain(w.c["m"]) /\ Frame(w) /\ N \in Nat \ {0} /\ Cascade \in Lines
  BY DEF SignalInv, BoardInv, Sane, BoardAssumption
<1>4. /\ v.c["s"] = w.c["s"]
      /\ \A f \in {"imr", "hipri", "smm", "sfnm"} : v.c["m"][f] = w.c["m"][f]
      /\ IF Deliverable(w, "m") = {} THEN v.c["m"].isr = w.c["m"].isr
         ELSE /\ v.c["m"].isr = w.c["m"].isr \cup {l}
              /\ l \in Deliverable(w, "m") /\ l # Cascade
  BY <1>1, <1>3, PollKeeps, ZenonT(30) DEF BoardInv
<1>5. stack' = IF Deliverable(w, "m") = {} THEN stack ELSE Append(stack, e)
  BY DEF Poll
<1> HIDE DEF v, l
<1>6. Nest(stack) /\ w.c["m"].isr = InM(stack) /\ w.c["s"].isr = InS(stack)
  BY <1>2 DEF Nested
<1>7. v.c["m"].hipri = 0 /\ v.c["s"].isr = InS(stack)
  BY <1>2, <1>4, <1>6 DEF Nested
<1>8. Nested(v, stack', FALSE)
  <2>1. CASE Deliverable(w, "m") = {}
    BY <1>4, <1>5, <1>6, <1>7, <2>1 DEF Nested
  <2>2. CASE Deliverable(w, "m") # {}
    <3>1. l \in Lines /\ \A k \in InM(stack) : l < k
      BY <1>2, <1>3, <1>4, <1>6, <2>2, DeliverableIsAhead DEF Nested
    <3>2. e \in Adapters \X Lines /\ e # <<"m", Cascade>> /\ e[1] # "s" /\ MLine(e) = l
      BY <1>4, <2>2, <3>1 DEF Adapters, MLine
    <3> HIDE DEF e
    <3>3. /\ Nest(stack') /\ InM(stack') = InM(stack) \cup {l} /\ InS(stack') = InS(stack)
      BY <1>3, <1>5, <1>6, <2>2, <3>1, <3>2, NestPush
    <3> QED BY <1>4, <1>6, <1>7, <2>2, <3>3 DEF Nested
  <2> QED BY <2>1, <2>2, ZenonT(30)
<1> QED BY <1>1, <1>2, <1>8, NestAfter, Zenon

(* The innermost handler's EOI to the slave takes the one line in service  *)
(* there.                                                                  *)
LEMMA EndSlaveNests ==
  ASSUME BoardAssumption, BoardInv, NestInv, EndSlave, plan' = plan
  PROVE  NestInv'
<1> SUFFICES ASSUME Regular PROVE NestInv'
  BY DEF NestInv, Regular
<1>1. /\ stack # <<>> /\ ~flag /\ ~half /\ Top[1] = "s" /\ half' = TRUE
      /\ flag' = flag /\ stack' = stack
  BY DEF EndSlave
<1>2. half = FALSE /\ Nested(w, stack, half)
  BY <1>1, Zenon DEF NestInv
<1>3. Nest(stack) /\ w.c["m"].isr = InM(stack) /\ w.c["s"].isr = InS(stack)
  BY <1>2 DEF Nested
<1>4. InS(stack) = {Top[2]} /\ Top[2] \in Lines
  BY <1>1, <1>3, NestPop DEF Top, BoardAssumption
<1>5. PICK line \in {None, Top[2]}, rotate \in BOOLEAN :
        rotate = FALSE /\ w' = ocw2_eoi(w, "s", line, rotate)
  BY Zenon DEF EndSlave, Ended, Regular
<1> DEFINE v == ocw2_eoi(w, "s", line, rotate)
<1>6. /\ v.c["s"].isr = w.c["s"].isr \ {EoiLine(w, "s", line)}
      /\ \A b \in Adapters \ {"s"}, f \in Ordering : v.c[b][f] = w.c[b][f]
  <2>1. N \in Nat \ {0} /\ Cascade \in Lines /\ Sane(w) /\ "s" \in Adapters
    BY DEF BoardAssumption, BoardInv, Adapters
  <2>2. EndedBy(w, v, "s", line, rotate)
    BY <1>5, <2>1, Ocw2EoiKeeps, Zenon
  <2> QED BY <1>5, <2>2, Zenon DEF EndedBy
<1> HIDE DEF v
<1>7. EoiLine(w, "s", line) = Top[2]
  <2>1. Adapter(w.c["s"]) /\ w.c["s"].isr \subseteq Lines
    BY DEF BoardInv, Sane, Frame, Adapter, Adapters
  <2>2. Highest(w.c["s"], w.c["s"].isr) \in {Top[2]}
    BY <1>3, <1>4, <2>1, HighestIs DEF BoardAssumption
  <2> QED BY <1>3, <1>4, <2>2 DEF EoiLine
<1>8. v.c["m"].isr = w.c["m"].isr /\ v.c["m"].hipri = w.c["m"].hipri
  BY <1>6 DEF Adapters, Ordering
<1>9. Nested(v, stack, TRUE)
  BY <1>2, <1>3, <1>6, <1>7, <1>8 DEF Nested, Top
<1>10. w' = v
  BY <1>5 DEF v
<1>11. Nested(w', stack', half')
  BY <1>1, <1>9, <1>10, Zenon
<1>12. Nested(w, stack, half)'
  BY <1>11, Zenon DEF Nested, Nest, InM, InS, MLine
<1>13. stack' # <<>> /\ Top'[1] = "s" /\ ~flag'
  BY <1>1, Zenon DEF Top
<1> QED BY <1>1, <1>12, <1>13, Zenon DEF NestInv

(* The innermost handler's EOI to the master takes the first line in       *)
(* service, which is the handler's own.                                    *)
LEMMA EndMasterNests ==
  ASSUME BoardAssumption, BoardInv, NestInv, EndMaster, plan' = plan
  PROVE  NestInv'
<1> SUFFICES ASSUME Regular PROVE NestInv'
  BY DEF NestInv, Regular
<1>1. /\ stack # <<>> /\ (Top[1] = "s") = half /\ half' = FALSE
      /\ stack' = SubSeq(stack, 1, Len(stack) - 1)
  BY DEF EndMaster
<1>2. half \in BOOLEAN /\ Nested(w, stack, half)
  BY Zenon DEF NestInv
<1>3. Nest(stack) /\ w.c["m"].isr = InM(stack) /\ w.c["m"].hipri = 0
  BY <1>2 DEF Nested
<1>4. /\ Nest(stack') /\ InM(stack') = InM(stack) \ {MLine(Top)}
      /\ MLine(Top) \in InM(stack) /\ \A k \in InM(stack) : MLine(Top) <= k
      /\ InS(stack') = IF Top[1] = "s" THEN {} ELSE InS(stack)
      /\ Top[1] = "s" => InS(stack) = {Top[2]}
      /\ Top \in Adapters \X Lines
  BY <1>1, <1>3, NestPop DEF Top, BoardAssumption
<1>5. PICK line \in {None, MLine(Top)}, rotate \in BOOLEAN :
        rotate = FALSE /\ w' = ocw2_eoi(w, "m", line, rotate)
  <2>1. MLine(Top) = IF half THEN Cascade ELSE Top[2]
    BY <1>1, <1>2 DEF MLine
  <2> QED BY <2>1, Zenon DEF EndMaster, Ended, Regular
<1> DEFINE v == ocw2_eoi(w, "m", line, rotate)
<1>6. /\ v.c["m"].isr = w.c["m"].isr \ {EoiLine(w, "m", line)}
      /\ v.c["m"].hipri = w.c["m"].hipri
      /\ \A b \in Adapters \ {"m"}, f \in Ordering : v.c[b][f] = w.c[b][f]
  <2>1. N \in Nat \ {0} /\ Cascade \in Lines /\ Sane(w) /\ "m" \in Adapters
    BY DEF BoardAssumption, BoardInv, Adapters
  <2>2. EndedBy(w, v, "m", line, rotate)
    BY <1>5, <2>1, Ocw2EoiKeeps, Zenon
  <2> QED BY <1>5, <2>2, Zenon DEF EndedBy
<1> HIDE DEF v
<1>7. EoiLine(w, "m", line) = MLine(Top)
  <2> DEFINE h == Highest(w.c["m"], w.c["m"].isr)
  <2>1. Adapter(w.c["m"]) /\ w.c["m"].isr \subseteq Lines
    BY DEF BoardInv, Sane, Frame, Adapter, Adapters
  <2>2. h \in w.c["m"].isr /\ \A k \in w.c["m"].isr : Rank(w.c["m"], h) <= Rank(w.c["m"], k)
    BY <1>3, <1>4, <2>1, HighestIs DEF BoardAssumption
  <2>3. \A k \in w.c["m"].isr : Rank(w.c["m"], k) = k /\ k \in Int /\ k # None
    BY <1>3, <2>1, RankIs DEF BoardAssumption, Lines, None
  <2> HIDE DEF h
  <2>4. h <= MLine(Top) /\ MLine(Top) <= h /\ h \in Int /\ MLine(Top) \in Int
    BY <1>3, <1>4, <2>2, <2>3
  <2>5. h = MLine(Top)
    BY <2>4
  <2> QED BY <1>3, <1>4, <2>3, <2>5 DEF EoiLine, h
<1>8. v.c["s"].isr = w.c["s"].isr
  BY <1>6 DEF Adapters, Ordering
<1>9. w.c["s"].isr = InS(stack')
  <2>1. CASE half = TRUE
    BY <1>1, <1>2, <1>4, <2>1, ZenonT(30) DEF Nested, Top
  <2>2. CASE half = FALSE
    BY <1>1, <1>2, <1>4, <2>2 DEF Nested, Top
  <2> QED BY <1>2, <2>1, <2>2, Zenon
<1>10. Nested(v, stack', FALSE)
  BY <1>3, <1>4, <1>6, <1>7, <1>8, <1>9 DEF Nested
<1>11. w' = v
  BY <1>5 DEF v
<1> QED BY <1>1, <1>10, <1>11, NestAfter, Zenon

(* No handler runs, and no line is in service.                             *)
LEMMA NoHandlerNests ==
  ASSUME N \in Nat \ {0}, NEW u, \A a \in Adapters : u.c[a].isr = {} /\ u.c[a].hipri = 0
  PROVE  Nested(u, <<>>, FALSE)
<1>1. InM(<<>>) = {} /\ InS(<<>>) = {} /\ Nest(<<>>)
  BY DEF InM, InS, Nest
<1> QED BY <1>1, Zenon DEF Nested, Adapters

(* So it is when the machine has been posted.                              *)
LEMMA NestInvInit == BoardAssumption /\ Init => NestInv
<1> SUFFICES ASSUME BoardAssumption, Init PROVE NestInv
  OBVIOUS
<1>1. PICK masks : w = Post(masks)
  BY DEF Init
<1>2. \A a \in Adapters : w.c[a].isr = {} /\ w.c[a].hipri = 0
  BY <1>1, PostIs DEF BoardAssumption, Posted
<1>3. Nested(w, <<>>, FALSE)
  BY <1>2, NoHandlerNests, ZenonT(30) DEF BoardAssumption
<1> QED BY <1>3, Zenon DEF NestInv, Init

(* Every step keeps the nesting.                                           *)
LEMMA NestStep ==
  ASSUME BoardAssumption, BoardInv, SignalInv, NestInv, [Next]_vars
  PROVE  NestInv'
<1>1. CASE UNCHANGED vars
  BY <1>1, NestSame DEF vars
<1>2. CASE Next
  <2> USE <1>2
  <2>1. plan' = plan
    BY DEF Next
  <2>2. ASSUME Quiet(w, w'), UNCHANGED <<flag, stack, half>> PROVE NestInv'
    <3>1. \A a \in Adapters, f \in {"isr", "hipri"} : w'.c[a][f] = w.c[a][f]
      BY <2>2 DEF Quiet, Ordering
    <3> QED BY <2>1, <2>2, <3>1, NestSame
  <2>3. ASSUME NEW a \in Adapters, NEW line \in Lines, Raise(a, line) PROVE NestInv'
    BY <2>2, <2>3, RaiseSteps DEF Raise
  <2>4. ASSUME NEW a \in Adapters, NEW line \in Lines, Clear(a, line) \/ Cancel(a, line)
        PROVE  NestInv'
    <3>1. UNCHANGED <<flag, stack, half>>
      BY <2>4 DEF Clear, Cancel
    <3> QED BY <2>2, <2>4, <3>1, ClearSteps
  <2>5. ASSUME NEW line \in Lines,
               \/ host_DelayHwInterrupt(line)
               \/ softpc_eoi_release(line)
               \/ StopDelayed(line)
        PROVE  NestInv'
    <3>1. UNCHANGED <<flag, stack, half>>
      BY <2>5 DEF host_DelayHwInterrupt, softpc_eoi_release, StopDelayed
    <3> QED BY <2>2, <2>5, <3>1, HeldSteps
  <2>6. ASSUME NEW a \in Adapters,
               \/ \E line \in Lines : SetPriority(a, line)
               \/ \E on \in BOOLEAN : SpecialMask(a, on)
        PROVE  NestInv'
    <3>1. ~Regular'
      BY <2>1, <2>6 DEF Regular, SetPriority, SpecialMask
    <3> QED BY <3>1 DEF NestInv
  <2>7. ASSUME NEW a \in Adapters, NEW mask \in plan.masks[a], Mask(a, mask) PROVE NestInv'
    <3>1. w' = ocw1(w, a, mask) /\ UNCHANGED <<flag, stack, half>>
      BY <2>7 DEF Mask
    <3>4. N \in Nat \ {0} /\ Cascade \in Lines /\ Sane(w)
      BY DEF BoardAssumption, BoardInv
    <3>5. MaskedBy(w, w', a, mask)
      BY <2>7, <3>1, <3>4, Ocw1Keeps
    <3>2. \A b \in Adapters, f \in Ordering \ {"imr"} : w'.c[b][f] = w.c[b][f]
      BY <3>5, Zenon DEF MaskedBy
    <3>3. \A b \in Adapters, f \in {"isr", "hipri"} : w'.c[b][f] = w.c[b][f]
      BY <3>2 DEF Ordering
    <3> QED BY <2>1, <3>1, <3>3, NestSame
  <2>8. CASE Shutdown
    <3> DEFINE t == Reprogrammed(Reprogrammed(w, "m", {Cascade}, 0), "s", {}, Cascade)
               v == [ocw2_eoi(t, "m", None, FALSE) EXCEPT !.hwInt = FALSE]
    <3>1. w' = v /\ stack' = <<>> /\ half' = FALSE
      BY <2>8 DEF Shutdown
    <3>2. \A a \in Adapters : v.c[a].isr = {} /\ v.c[a].hipri = 0
      BY ShutdownKeeps, Zenon DEF BoardAssumption, BoardInv, Blank
    <3> HIDE DEF v
    <3>3. Nested(v, <<>>, FALSE)
      BY <3>2, NoHandlerNests, Zenon DEF BoardAssumption
    <3>4. Nested(v, stack', FALSE)
      BY <3>1, <3>3, Zenon
    <3> QED BY <3>1, <3>4, NestAfter, Zenon
  <2>9. CASE ColdReset
    <3>1. stack' = <<>> /\ half' = FALSE
      BY <2>9 DEF ColdReset
    <3>2. PICK masks : w' = [SWPIC_clear_int(Post(masks), "m", 0) EXCEPT !.hwInt = FALSE]
      BY <2>9, Zenon DEF ColdReset
    <3> DEFINE v == [SWPIC_clear_int(Post(masks), "m", 0) EXCEPT !.hwInt = FALSE]
    <3>3. \A a \in Adapters : v.c[a].isr = {} /\ v.c[a].hipri = 0
      BY ColdResetIs, ZenonT(30) DEF BoardAssumption, Posted
    <3>4. w' = v
      BY <3>2
    <3> HIDE DEF v
    <3>5. Nested(v, <<>>, FALSE)
      BY <3>3, NoHandlerNests, Zenon DEF BoardAssumption
    <3>6. Nested(v, stack', FALSE)
      BY <3>1, <3>5, Zenon
    <3> QED BY <3>1, <3>4, <3>6, NestAfter, Zenon
  <2>10. CASE SetFlag
    BY <2>1, <2>10, NestSame DEF SetFlag
  <2> QED BY <2>1, <2>3, <2>4, <2>5, <2>6, <2>7, <2>8, <2>9, <2>10, TakeInterruptNests,
             PollNests, EndSlaveNests, EndMasterNests, Zenon DEF Next
<1> QED BY <1>1, <1>2

(* A handler's end of interrupt ends that handler: the lines in service    *)
(* are those of the handlers that run, however interrupts nest, as long as *)
(* the guest leaves the priorities and the mask mode alone.                *)
THEOREM EndOfInterruptEndsItsHandler ==
  ASSUME BoardAssumption
  PROVE  Spec => []EoiEndsItsHandler
<1>1. Init => BoardInv /\ SignalInv /\ NestInv
  BY BoardInvInit, SignalInvInit, NestInvInit
<1>2. BoardInv /\ SignalInv /\ NestInv /\ [Next]_vars => (BoardInv /\ SignalInv /\ NestInv)'
  BY BoardStep, NestStep
<1>3. NestInv => EoiEndsItsHandler
  <2> SUFFICES ASSUME NestInv, Regular
               PROVE  /\ w.c["m"].isr = InService("m")
                      /\ w.c["s"].isr = InService("s") \ (IF half THEN {Top[2]} ELSE {})
    BY DEF EoiEndsItsHandler, Regular
  <2>1. Nested(w, stack, half) /\ stack \in Seq(Adapters \X Lines)
    BY DEF NestInv, Nested, Nest
  <2> QED BY <2>1, InServiceIs DEF Nested, Top
<1> QED BY <1>1, <1>2, <1>3, PTL DEF Spec
=============================================================================
