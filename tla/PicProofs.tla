------------------------------- MODULE PicProofs ------------------------------
(***************************************************************************)
(* What the operations of the interrupt controllers keep, for any number   *)
(* of lines: the facts that the invariants of the interrupt path rest on.  *)
(***************************************************************************)
EXTENDS Pic, TLAPS

LOCAL INSTANCE WellFoundedInduction

(***************************************************************************)
(* The shape of the controllers.                                           *)
(***************************************************************************)
Fields ==
  {"irr", "isr", "imr", "count", "hipri", "intLine", "cpuInt", "slaves", "id", "smm",
   "sfnm", "aeoi", "raeoi", "poll", "seq"}

Adapter(c) ==
  /\ DOMAIN c = Fields
  /\ c.irr \subseteq Lines /\ c.isr \subseteq Lines /\ c.count \in [Lines -> Nat]
  /\ c.hipri \in Lines /\ ~c.aeoi

Frame(u) ==
  /\ DOMAIN u = {"c", "hwInt", "lock", "delayed"}
  /\ DOMAIN u.c = Adapters /\ DOMAIN u.delayed = Adapters
  /\ Adapter(u.c["m"]) /\ Adapter(u.c["s"])
  /\ u.c["m"].slaves = {Cascade} /\ u.c["s"].id = Cascade

Requested(c) == \A l \in Lines : l \in c.irr <=> c.count[l] > 0
Seen(u) == u.c["m"].cpuInt => u.hwInt
Linked(u) == u.c["m"].count[Cascade] = IF u.c["s"].cpuInt THEN 1 ELSE 0

Sane(u) ==
  /\ Frame(u) /\ Requested(u.c["m"]) /\ Requested(u.c["s"]) /\ Seen(u) /\ Linked(u)

(* Everything else in a controller, and what decides the order of lines in *)
(* both, is as it was.                                                     *)
SameBut(c, d, F) == DOMAIN d = Fields /\ \A f \in Fields \ F : d[f] = c[f]
Ordering == {"isr", "imr", "hipri", "smm", "sfnm"}
Quiet(u, v) == \A a \in Adapters, f \in Ordering : v.c[a][f] = u.c[a][f]

(* A request that may be delivered has its INT line high; the slave's INT  *)
(* line is high for a request that may be; it is high for that of intLine. *)
Told(u, a) == Deliverable(u, a) # {} => u.c[a].cpuInt
Backed(u) == u.c["s"].cpuInt => Deliverable(u, "s") # {}
Aimed(u) == u.c["s"].cpuInt => u.c["s"].intLine \in Deliverable(u, "s")

(* The slave has never been asked for anything.                            *)
Silent(u) == u.c["s"].irr = {} /\ ~u.c["s"].cpuInt

(* No line of the master has more than one request outstanding.            *)
Single(u) == \A l \in Lines : u.c["m"].count[l] <= 1

(* Replacing one controller.                                               *)
LEMMA Replaces ==
  ASSUME NEW u, Frame(u), NEW a \in Adapters, NEW c
  PROVE  LET v == [u EXCEPT !.c[a] = c] IN
         /\ DOMAIN v = {"c", "hwInt", "lock", "delayed"} /\ DOMAIN v.c = Adapters
         /\ v.c[a] = c /\ \A b \in Adapters : b # a => v.c[b] = u.c[b]
         /\ v.hwInt = u.hwInt /\ v.lock = u.lock /\ v.delayed = u.delayed
  BY DEF Frame

(***************************************************************************)
(* The line of the highest priority.                                       *)
(***************************************************************************)
(* A set of numbers has a least one.                                       *)
LEMMA Least ==
  ASSUME NEW T, T \subseteq Nat, T # {}
  PROVE  \E x \in T : \A y \in T : x <= y
<1> DEFINE R == OpToRel(<, Nat)
<1>1. \E x \in T : \A y \in T : ~ (<<y, x>> \in R)
  <2>1. IsWellFoundedOn(R, Nat)
    BY NatLessThanWellFounded, Zenon
  <2> HIDE DEF R
  <2> QED BY <2>1, WFMin, Zenon
<1>2. \A x, y \in Nat : ~ (<<y, x>> \in R) => x <= y
  BY DEF OpToRel
<1> QED BY <1>1, <1>2, Zenon

(* Ranks are numbers.                                                      *)
LEMMA Ranks ==
  ASSUME N \in Nat \ {0}, NEW c, Adapter(c), NEW l \in Lines
  PROVE  Rank(c, l) \in Nat
<1>1. l + N - c.hipri \in Int
  BY DEF Adapter, Lines
<1> QED BY <1>1, SMTT(30) DEF Rank

(* A set of lines that is not empty has one of the highest priority, which *)
(* Highest picks.                                                          *)
LEMMA HighestIs ==
  ASSUME N \in Nat \ {0}, NEW c, Adapter(c), NEW S, S \subseteq Lines, S # {}
  PROVE  /\ Highest(c, S) \in S
         /\ \A k \in S : Rank(c, Highest(c, S)) <= Rank(c, k)
<1> DEFINE T == {Rank(c, l) : l \in S}
<1>1. T \subseteq Nat /\ T # {}
  BY Ranks
<1>2. PICK x \in T : \A y \in T : x <= y
  <2> HIDE DEF T
  <2> QED BY <1>1, Least, Zenon
<1>3. \E l \in S : \A k \in S : Rank(c, l) <= Rank(c, k)
  BY <1>2
<1> QED BY <1>3 DEF Highest

(* What ica_scan_irr finds is a request that may be delivered, and none    *)
(* comes before it.                                                        *)
LEMMA ScanIs ==
  ASSUME N \in Nat \ {0}, NEW u, Frame(u), NEW a \in Adapters, Deliverable(u, a) # {}
  PROVE  /\ Scan(u, a) \in Deliverable(u, a) /\ Scan(u, a) \in Lines
         /\ \A k \in Deliverable(u, a) : Rank(u.c[a], Scan(u, a)) <= Rank(u.c[a], k)
<1>1. Adapter(u.c[a]) /\ Deliverable(u, a) \subseteq Lines
  BY DEF Frame, Adapter, Deliverable, Adapters
<1> QED BY <1>1, HighestIs DEF Scan

(***************************************************************************)
(* The master signals the CPU.                                             *)
(***************************************************************************)
Signals(u, v) ==
  /\ Frame(v) /\ v.c["s"] = u.c["s"] /\ v.lock = u.lock /\ v.delayed = u.delayed
  /\ SameBut(u.c["m"], v.c["m"], {"intLine", "cpuInt"})
  /\ Seen(u) => Seen(v)

(* ica_interrupt_cpu of the master raises its INT line and sets the CPU's  *)
(* bit.                                                                    *)
LEMMA RaiseMasterSignals ==
  ASSUME NEW u, Frame(u), NEW line
  PROVE  Signals(u, RaiseMaster(u, line)) /\ RaiseMaster(u, line).c["m"].cpuInt
<1> DEFINE c == u.c["m"]
           d == [c EXCEPT !.intLine = line]
           e == [c EXCEPT !.intLine = line, !.cpuInt = TRUE]
<1>1. /\ SameBut(c, d, {"intLine", "cpuInt"}) /\ d.cpuInt = c.cpuInt
      /\ SameBut(c, e, {"intLine", "cpuInt"}) /\ e.cpuInt
  BY Zenon DEF Frame, Adapter, SameBut, Fields
<1>2. Adapter(d) /\ Adapter(e) /\ d.slaves = {Cascade} /\ e.slaves = {Cascade}
  <2> HIDE DEF d, e
  <2> QED BY <1>1 DEF Frame, Adapter, SameBut, Fields
<1>3. CASE u.c["m"].cpuInt
  <2> DEFINE v == [u EXCEPT !.c["m"] = d]
  <2>1. RaiseMaster(u, line) = v
    BY <1>3 DEF RaiseMaster
  <2> HIDE DEF d
  <2>2. /\ DOMAIN v = {"c", "hwInt", "lock", "delayed"} /\ DOMAIN v.c = Adapters
        /\ v.c["m"] = d /\ v.c["s"] = u.c["s"]
        /\ v.hwInt = u.hwInt /\ v.lock = u.lock /\ v.delayed = u.delayed
    BY Replaces DEF Adapters
  <2> HIDE DEF v
  <2> QED BY <1>1, <1>2, <1>3, <2>1, <2>2, Zenon DEF Signals, Frame, Seen
<1>4. CASE ~u.c["m"].cpuInt
  <2> DEFINE x == [u EXCEPT !.c["m"] = e]
             v == [u EXCEPT !.c["m"] = e, !.hwInt = TRUE]
  <2>1. RaiseMaster(u, line) = v
    BY <1>4 DEF RaiseMaster
  <2> HIDE DEF e
  <2>2. /\ DOMAIN v = {"c", "hwInt", "lock", "delayed"} /\ DOMAIN v.c = Adapters
        /\ v.c["m"] = e /\ v.c["s"] = u.c["s"]
        /\ v.hwInt /\ v.lock = u.lock /\ v.delayed = u.delayed
    BY DEF Adapters, Frame
  <2> HIDE DEF v
  <2> QED BY <1>1, <1>2, <1>4, <2>1, <2>2 DEF Signals, Frame, Seen
<1> QED BY <1>3, <1>4

(* The same, only if a request may be delivered.                           *)
LEMMA SignalMasterSignals ==
  ASSUME NEW u, Frame(u)
  PROVE  /\ Signals(u, SignalMaster(u))
         /\ Deliverable(u, "m") # {} => SignalMaster(u).c["m"].cpuInt
         /\ Deliverable(u, "m") = {} => SignalMaster(u) = u
<1>1. Signals(u, u)
  BY DEF Signals, Frame, Adapter, SameBut
<1> QED BY <1>1, RaiseMasterSignals DEF SignalMaster

(* Signalling the CPU keeps the board sane.                                *)
LEMMA SignalsKeep ==
  ASSUME NEW u, NEW v, Sane(u), Signals(u, v)
  PROVE  Sane(v) /\ Quiet(u, v)
<1>1. \A f \in Fields \ {"intLine", "cpuInt"} : v.c["m"][f] = u.c["m"][f]
  BY DEF Signals, SameBut
<1>2. /\ v.c["m"].irr = u.c["m"].irr /\ v.c["m"].count = u.c["m"].count
      /\ v.c["m"].isr = u.c["m"].isr /\ v.c["m"].hipri = u.c["m"].hipri
      /\ v.c["m"].smm = u.c["m"].smm /\ v.c["m"].sfnm = u.c["m"].sfnm
      /\ v.c["m"].imr = u.c["m"].imr
  BY <1>1 DEF Fields
<1>3. Quiet(u, v)
  BY <1>2 DEF Quiet, Ordering, Adapters, Signals
<1> QED BY <1>2, <1>3 DEF Sane, Signals, Requested, Linked

(***************************************************************************)
(* A request, and the slave's way through the master.                      *)
(***************************************************************************)
LEMMA RequestCounts ==
  ASSUME NEW u, Frame(u), NEW a \in Adapters, NEW line \in Lines,
         Requested(u.c[a])
  PROVE  LET v == Request(u, a, line, 1) IN
         /\ Frame(v) /\ Requested(v.c[a]) /\ Quiet(u, v)
         /\ \A b \in Adapters : b # a => v.c[b] = u.c[b]
         /\ SameBut(u.c[a], v.c[a], {"irr", "count"})
         /\ v.c[a].count[line] = u.c[a].count[line] + 1
         /\ v.c[a].irr = u.c[a].irr \cup {line}
         /\ \A l \in Lines : l # line => v.c[a].count[l] = u.c[a].count[l]
         /\ v.hwInt = u.hwInt /\ v.lock = u.lock /\ v.delayed = u.delayed
<1> DEFINE c == u.c[a]
           d == [c EXCEPT !.irr = @ \cup {line}, !.count[line] = @ + 1]
           v == [u EXCEPT !.c[a] = d]
<1>1. Adapter(c)
  BY DEF Frame, Adapters
<1>2. /\ DOMAIN d = Fields /\ d.irr = c.irr \cup {line} /\ DOMAIN d.count = Lines
      /\ d.count[line] = c.count[line] + 1
      /\ \A l \in Lines : l # line => d.count[l] = c.count[l]
      /\ \A f \in Fields \ {"irr", "count"} : d[f] = c[f]
  <2> HIDE DEF c
  <2> QED BY <1>1, Zenon DEF Adapter, Fields
<1>3. Request(u, a, line, 1) = v
  BY DEF Request
<1> HIDE DEF d
<1>4. /\ DOMAIN v = {"c", "hwInt", "lock", "delayed"} /\ DOMAIN v.c = Adapters
      /\ v.c[a] = d /\ \A b \in Adapters : b # a => v.c[b] = u.c[b]
      /\ v.hwInt = u.hwInt /\ v.lock = u.lock /\ v.delayed = u.delayed
  BY Replaces
<1> HIDE DEF v
<1>5. /\ d.isr = c.isr /\ d.hipri = c.hipri /\ d.smm = c.smm /\ d.sfnm = c.sfnm
      /\ d.imr = c.imr /\ d.aeoi = c.aeoi /\ d.slaves = c.slaves /\ d.id = c.id
  BY <1>2 DEF Fields
<1>6. d.count \in [Lines -> Nat] /\ \A l \in Lines : l \in d.irr <=> d.count[l] > 0
  <2>1. d.count = [l \in Lines |-> IF l = line THEN c.count[line] + 1 ELSE c.count[l]]
    BY <1>1, <1>2 DEF Adapter, d
  <2> QED BY <1>1, <1>2, <2>1 DEF Adapter, Requested
<1>7. Adapter(d)
  BY <1>1, <1>2, <1>5, <1>6 DEF Adapter
<1>8. Frame(v)
  BY <1>4, <1>5, <1>7 DEF Frame, Adapters
<1>9. Quiet(u, v)
  BY <1>4, <1>5 DEF Quiet, Ordering, Adapters
<1> QED BY <1>2, <1>3, <1>4, <1>6, <1>8, <1>9 DEF Requested, SameBut

(* Which requests may be delivered does not depend on the INT line.        *)
LEMMA SameDeliverable ==
  ASSUME NEW u, NEW v, NEW a,
         SameBut(u.c[a], v.c[a], {"intLine", "cpuInt"}), v.delayed = u.delayed
  PROVE  Deliverable(v, a) = Deliverable(u, a)
<1>1. \A f \in {"irr", "isr", "imr", "hipri", "smm", "sfnm"} : v.c[a][f] = u.c[a][f]
  BY DEF SameBut, Fields
<1>2. /\ v.c[a].irr = u.c[a].irr /\ v.c[a].isr = u.c[a].isr /\ v.c[a].imr = u.c[a].imr
      /\ v.c[a].hipri = u.c[a].hipri /\ v.c[a].smm = u.c[a].smm /\ v.c[a].sfnm = u.c[a].sfnm
  BY <1>1
<1> QED BY <1>2, Zenon DEF Deliverable, Rank

(* Only the lock changes.                                                  *)
LEMMA LockKeeps ==
  ASSUME NEW u, Sane(u), NEW x
  PROVE  LET v == [u EXCEPT !.lock = x] IN
         /\ Sane(v) /\ v.c = u.c /\ v.lock = x
         /\ v.hwInt = u.hwInt /\ v.delayed = u.delayed
<1> DEFINE v == [u EXCEPT !.lock = x]
<1>1. /\ DOMAIN v = {"c", "hwInt", "lock", "delayed"}
      /\ v.c = u.c /\ v.lock = x /\ v.hwInt = u.hwInt /\ v.delayed = u.delayed
  BY DEF Sane, Frame
<1> HIDE DEF v
<1> QED BY <1>1 DEF Sane, Frame, Seen, Linked, v

(* The slave raises its INT line, and requests the cascade line if it was  *)
(* low.                                                                    *)
LEMMA RaiseSlaveKeeps ==
  ASSUME NEW u, Sane(u), u.lock = 1, Cascade \in Lines, NEW line
  PROVE  LET v == RaiseSlave(u, line) IN
         /\ Sane(v) /\ Quiet(u, v) /\ v.lock = 1 /\ v.delayed = u.delayed
         /\ SameBut(u.c["s"], v.c["s"], {"intLine", "cpuInt"})
         /\ v.c["s"].cpuInt /\ v.c["s"].intLine = line
         /\ SameBut(u.c["m"], v.c["m"], {"intLine", "cpuInt", "irr", "count"})
         /\ Told(u, "m") => Told(v, "m")
         /\ Single(u) => Single(v)
<1> DEFINE c == u.c["s"]
           d == [c EXCEPT !.intLine = line]
           e == [c EXCEPT !.intLine = line, !.cpuInt = TRUE]
<1>1. /\ SameBut(c, d, {"intLine", "cpuInt"}) /\ d.cpuInt = c.cpuInt /\ d.intLine = line
      /\ SameBut(c, e, {"intLine", "cpuInt"}) /\ e.cpuInt /\ e.intLine = line
  BY Zenon DEF Sane, Frame, Adapter, SameBut, Fields
<1>2. /\ Adapter(d) /\ Adapter(e) /\ d.id = Cascade /\ e.id = Cascade
      /\ Requested(d) /\ Requested(e)
  <2> HIDE DEF d, e
  <2>1. /\ d.irr = c.irr /\ d.count = c.count /\ d.isr = c.isr /\ d.hipri = c.hipri
        /\ d.aeoi = c.aeoi /\ d.id = c.id
        /\ e.irr = c.irr /\ e.count = c.count /\ e.isr = c.isr /\ e.hipri = c.hipri
        /\ e.aeoi = c.aeoi /\ e.id = c.id /\ DOMAIN d = Fields /\ DOMAIN e = Fields
    BY <1>1 DEF SameBut, Fields
  <2> QED BY <2>1 DEF Sane, Frame, Adapter, Requested
<1>3. CASE u.c["s"].cpuInt
  <2> DEFINE v == [u EXCEPT !.c["s"] = d]
  <2>1. RaiseSlave(u, line) = v
    BY <1>3 DEF RaiseSlave
  <2> HIDE DEF d
  <2>2. /\ DOMAIN v = {"c", "hwInt", "lock", "delayed"} /\ DOMAIN v.c = Adapters
        /\ v.c["s"] = d /\ v.c["m"] = u.c["m"]
        /\ v.hwInt = u.hwInt /\ v.lock = u.lock /\ v.delayed = u.delayed
    BY Replaces DEF Adapters, Sane
  <2> HIDE DEF v
  <2>3. Sane(v)
    BY <1>1, <1>2, <1>3, <2>2, Zenon DEF Sane, Frame, Seen, Linked
  <2>4. /\ d.isr = c.isr /\ d.imr = c.imr /\ d.hipri = c.hipri
        /\ d.smm = c.smm /\ d.sfnm = c.sfnm
    BY <1>1 DEF SameBut, Fields
  <2>5. Quiet(u, v)
    BY <2>2, <2>4 DEF Quiet, Ordering, Adapters
  <2>6. SameBut(u.c["m"], v.c["m"], {"intLine", "cpuInt", "irr", "count"})
    BY <2>2 DEF SameBut, Sane, Frame, Adapter
  <2>7. Told(u, "m") => Told(v, "m")
    BY <2>2 DEF Told, Deliverable, Rank
  <2>8. Single(u) => Single(v)
    BY <2>2 DEF Single
  <2> QED BY <1>1, <1>3, <2>1, <2>2, <2>3, <2>5, <2>6, <2>7, <2>8, Zenon
<1>4. CASE ~u.c["s"].cpuInt
  <2> DEFINE x == [u EXCEPT !.c["s"] = e, !.lock = (u.lock + 255) % 256]
             y == Request(x, "m", Cascade, 1)
             z == SignalMaster(y)
             z0 == [z EXCEPT !.lock = 0]
             v == [z0 EXCEPT !.lock = (z0.lock + 1) % 256]
  <2> HIDE DEF e
  <2>1. /\ DOMAIN x = {"c", "hwInt", "lock", "delayed"} /\ DOMAIN x.c = Adapters
        /\ x.c["s"] = e /\ x.c["m"] = u.c["m"] /\ x.hwInt = u.hwInt
        /\ x.delayed = u.delayed /\ x.lock = (u.lock + 255) % 256
    BY DEF Adapters, Sane, Frame
  <2>2. x.lock = 0
    BY <2>1
  <2>3. RaiseSlave(u, line) = v
    <3>1. HwInterruptMaster(x, Cascade) = z0
      BY <2>2 DEF HwInterruptMaster
    <3> HIDE DEF x, z0
    <3> QED BY <1>4, <3>1 DEF RaiseSlave, x, e, Sane, Frame
  <2> HIDE DEF x
  <2>4. Frame(x) /\ Requested(x.c["m"])
    BY <1>2, <2>1 DEF Sane, Frame
  <2>5. /\ Frame(y) /\ Requested(y.c["m"]) /\ Quiet(x, y) /\ y.c["s"] = x.c["s"]
        /\ SameBut(x.c["m"], y.c["m"], {"irr", "count"})
        /\ y.c["m"].count[Cascade] = x.c["m"].count[Cascade] + 1
        /\ \A l \in Lines : l # Cascade => y.c["m"].count[l] = x.c["m"].count[l]
        /\ y.hwInt = x.hwInt /\ y.lock = x.lock /\ y.delayed = x.delayed
    BY <2>4, RequestCounts DEF Adapters
  <2> HIDE DEF y
  <2>6. Sane(y)
    <3>1. y.c["m"].cpuInt = u.c["m"].cpuInt
      BY <2>1, <2>5 DEF SameBut, Fields
    <3>2. Seen(y)
      BY <2>1, <2>5, <3>1 DEF Seen, Sane
    <3>3. x.c["m"].count[Cascade] = 0
      BY <1>4, <2>1 DEF Sane, Linked
    <3>4. Linked(y)
      BY <1>1, <2>1, <2>5, <3>3 DEF Linked
    <3>5. Requested(y.c["s"])
      BY <1>2, <2>1, <2>5
    <3> QED BY <2>5, <3>2, <3>4, <3>5 DEF Sane
  <2>7. Signals(y, z) /\ (Deliverable(y, "m") # {} => z.c["m"].cpuInt)
    BY <2>5, SignalMasterSignals
  <2> HIDE DEF z
  <2>8. Sane(z) /\ Quiet(y, z)
    BY <2>6, <2>7, SignalsKeep
  <2>9. Sane(z0) /\ z0.c = z.c /\ z0.lock = 0 /\ z0.hwInt = z.hwInt /\ z0.delayed = z.delayed
    BY <2>8, LockKeeps
  <2> HIDE DEF z0
  <2>10. /\ Sane(v) /\ v.c = z0.c /\ v.lock = (z0.lock + 1) % 256
         /\ v.hwInt = z0.hwInt /\ v.delayed = z0.delayed
    BY <2>9, LockKeeps
  <2> HIDE DEF v
  <2>11. v.lock = 1
    BY <2>9, <2>10
  <2>12. v.c["s"] = e /\ v.c["m"] = z.c["m"] /\ v.delayed = u.delayed
    BY <2>1, <2>5, <2>7, <2>9, <2>10 DEF Signals
  <2>13. SameBut(u.c["m"], v.c["m"], {"intLine", "cpuInt", "irr", "count"})
    BY <2>1, <2>5, <2>7, <2>12 DEF SameBut, Signals
  <2>14. Quiet(u, v)
    <3>1. \A f \in Ordering : v.c["m"][f] = u.c["m"][f] /\ v.c["s"][f] = u.c["s"][f]
      BY <1>1, <2>12, <2>13 DEF SameBut, Ordering, Fields
    <3> QED BY <3>1 DEF Quiet, Adapters
  <2>15. Told(v, "m")
    <3>1. Deliverable(v, "m") = Deliverable(y, "m")
      BY <2>1, <2>5, <2>7, <2>12, SameDeliverable DEF Signals
    <3> QED BY <2>7, <2>12, <3>1 DEF Told
  <2>16. Single(u) => Single(v)
    <3>1. v.c["m"].count = y.c["m"].count
      BY <2>7, <2>12 DEF Signals, SameBut, Fields
    <3>2. v.c["m"].count[Cascade] <= 1
      BY <2>10 DEF Sane, Linked
    <3> QED BY <2>1, <2>5, <3>1, <3>2 DEF Single
  <2> QED BY <1>1, <2>3, <2>10, <2>11, <2>12, <2>13, <2>14, <2>15, <2>16
<1> QED BY <1>3, <1>4

Kept(u, v) ==
  /\ Told(u, "m") => Told(v, "m")
  /\ Told(u, "s") => Told(v, "s")
  /\ Backed(u) => Backed(v)
  /\ Aimed(u) => Aimed(v)

(* Which requests may be delivered depends on the controller alone.        *)
LEMMA SameAdapter ==
  ASSUME NEW u, NEW v, NEW a, v.c[a] = u.c[a], v.delayed[a] = u.delayed[a]
  PROVE  Deliverable(v, a) = Deliverable(u, a)
  BY Zenon DEF Deliverable

(* A scan, and the INT line raised for what it finds.                      *)
LEMMA SignalKeeps ==
  ASSUME N \in Nat \ {0}, Cascade \in Lines, NEW u, Sane(u), NEW a \in Adapters,
         a = "s" => u.lock = 1
  PROVE  LET v == Signal(u, a) IN
         /\ Sane(v) /\ Quiet(u, v) /\ v.lock = u.lock /\ v.delayed = u.delayed
         /\ SameBut(u.c["s"], v.c["s"], {"intLine", "cpuInt"})
         /\ SameBut(u.c["m"], v.c["m"], {"intLine", "cpuInt", "irr", "count"})
         /\ a = "m" => v.c["s"] = u.c["s"] /\ v.c["m"].irr = u.c["m"].irr
         /\ Told(v, a) /\ (Told(u, "m") => Told(v, "m"))
         /\ a = "s" => (Backed(u) => Aimed(v))
         /\ Silent(u) => Silent(v)
         /\ Single(u) => Single(v)
<1> DEFINE v == Signal(u, a)
<1>1. CASE a = "m"
  <2>1. v = SignalMaster(u)
    BY <1>1 DEF Signal, SignalMaster, ica_interrupt_cpu
  <2>2. Frame(u)
    BY DEF Sane
  <2>3. Signals(u, v) /\ (Deliverable(u, "m") # {} => v.c["m"].cpuInt)
    BY <2>1, <2>2, SignalMasterSignals
  <2> HIDE DEF v
  <2>4. Sane(v) /\ Quiet(u, v)
    BY <2>3, SignalsKeep
  <2>5. Deliverable(v, "m") = Deliverable(u, "m")
    BY <2>3, SameDeliverable DEF Signals
  <2>6. SameBut(u.c["s"], v.c["s"], {"intLine", "cpuInt"})
    BY <2>3 DEF Signals, SameBut, Sane, Frame, Adapter
  <2>7. /\ SameBut(u.c["m"], v.c["m"], {"intLine", "cpuInt", "irr", "count"})
        /\ v.c["m"].irr = u.c["m"].irr /\ v.c["m"].count = u.c["m"].count
    BY <2>3 DEF Signals, SameBut, Fields
  <2> QED BY <1>1, <2>3, <2>4, <2>5, <2>6, <2>7 DEF Signals, Told, Silent, Single, v
<1>2. CASE a = "s"
  <2>1. CASE Deliverable(u, "s") = {}
    <3>1. v = u
      BY <1>2, <2>1 DEF Signal
    <3> HIDE DEF v
    <3>2. /\ SameBut(u.c["s"], v.c["s"], {"intLine", "cpuInt"})
          /\ SameBut(u.c["m"], v.c["m"], {"intLine", "cpuInt", "irr", "count"})
      BY <3>1 DEF SameBut, Sane, Frame, Adapter
    <3>3. Quiet(u, v)
      BY <3>1 DEF Quiet
    <3> QED BY <1>2, <2>1, <3>1, <3>2, <3>3 DEF Told, Backed, Aimed, v
  <2>2. CASE Deliverable(u, "s") # {}
    <3>1. v = RaiseSlave(u, Scan(u, "s"))
      BY <1>2, <2>2 DEF Signal, ica_interrupt_cpu
    <3>2. Scan(u, "s") \in Deliverable(u, "s")
      BY <2>2, ScanIs DEF Sane, Adapters
    <3>3. /\ Sane(v) /\ Quiet(u, v) /\ v.lock = 1 /\ v.delayed = u.delayed
          /\ SameBut(u.c["s"], v.c["s"], {"intLine", "cpuInt"})
          /\ v.c["s"].cpuInt /\ v.c["s"].intLine = Scan(u, "s")
          /\ SameBut(u.c["m"], v.c["m"], {"intLine", "cpuInt", "irr", "count"})
          /\ Told(u, "m") => Told(v, "m")
          /\ Single(u) => Single(v)
      BY <1>2, <3>1, RaiseSlaveKeeps
    <3> HIDE DEF v
    <3>4. Deliverable(v, "s") = Deliverable(u, "s")
      BY <3>3, SameDeliverable
    <3>5. Told(v, "s") /\ Aimed(v)
      BY <3>2, <3>3, <3>4 DEF Told, Aimed
    <3>6. ~Silent(u)
      BY <2>2 DEF Silent, Deliverable
    <3> QED BY <1>2, <3>3, <3>5, <3>6 DEF v
  <2> QED BY <2>1, <2>2
<1> QED BY <1>1, <1>2 DEF Adapters

(* With the order of lines as it was, more requests leave more that may be *)
(* delivered, and fewer leave fewer.                                       *)
LEMMA Widens ==
  ASSUME NEW u, NEW v, NEW a \in Adapters, Quiet(u, v), v.delayed[a] = u.delayed[a]
  PROVE  /\ u.c[a].irr \subseteq v.c[a].irr => Deliverable(u, a) \subseteq Deliverable(v, a)
         /\ v.c[a].irr \subseteq u.c[a].irr => Deliverable(v, a) \subseteq Deliverable(u, a)
<1>1. \A f \in {"isr", "imr", "hipri", "smm", "sfnm"} : v.c[a][f] = u.c[a][f]
  BY DEF Quiet, Ordering
<1>2. /\ v.c[a].isr = u.c[a].isr /\ v.c[a].imr = u.c[a].imr /\ v.c[a].hipri = u.c[a].hipri
      /\ v.c[a].smm = u.c[a].smm /\ v.c[a].sfnm = u.c[a].sfnm
  BY <1>1
<1> QED BY <1>2, Zenon DEF Deliverable, Rank

(* Three steps that keep the order of lines.                               *)
LEMMA QuietChain ==
  ASSUME NEW u, NEW x, NEW y, NEW v, Quiet(u, x), y.c = x.c \/ Quiet(x, y),
         v.c = y.c \/ Quiet(y, v)
  PROVE  Quiet(u, v)
<1>1. Quiet(u, y)
  BY DEF Quiet
<1> QED BY <1>1 DEF Quiet

(* SWPIC_hw_interrupt.                                                     *)
LEMMA HwInterruptKeeps ==
  ASSUME N \in Nat \ {0}, Cascade \in Lines, NEW u, Sane(u), u.lock = 0,
         NEW a \in Adapters, NEW line \in Lines, a = "m" => line # Cascade
  PROVE  LET v == SWPIC_hw_interrupt(u, a, line, 1) IN
         /\ Sane(v) /\ Quiet(u, v) /\ v.lock = 0 /\ v.delayed = u.delayed /\ Kept(u, v)
         /\ a = "m" => v.c["s"] = u.c["s"] /\ Told(v, "m")
         /\ Single(u) /\ (a = "m" => u.c["m"].count[line] = 0) => Single(v)
<1> DEFINE x == Request(u, a, line, 1)
           y == [x EXCEPT !.lock = 1]
           z == Signal(y, a)
           v == [z EXCEPT !.lock = 0]
<1>1. SWPIC_hw_interrupt(u, a, line, 1) = v
  BY DEF SWPIC_hw_interrupt
<1>2. /\ Frame(x) /\ Requested(x.c[a]) /\ Quiet(u, x)
      /\ \A b \in Adapters : b # a => x.c[b] = u.c[b]
      /\ SameBut(u.c[a], x.c[a], {"irr", "count"})
      /\ x.c[a].irr = u.c[a].irr \cup {line}
      /\ x.c[a].count[line] = u.c[a].count[line] + 1
      /\ \A l \in Lines : l # line => x.c[a].count[l] = u.c[a].count[l]
      /\ x.hwInt = u.hwInt /\ x.delayed = u.delayed
  <2>1. Frame(u) /\ Requested(u.c[a])
    BY DEF Sane, Adapters
  <2> HIDE DEF x
  <2> QED BY <2>1, RequestCounts DEF x
<1> HIDE DEF x
<1>3. Sane(x)
  <2>1. x.c[a].cpuInt = u.c[a].cpuInt
    BY <1>2 DEF SameBut, Fields
  <2>2. x.c["m"].cpuInt = u.c["m"].cpuInt /\ x.c["s"].cpuInt = u.c["s"].cpuInt
    BY <1>2, <2>1 DEF Adapters
  <2>3. x.c["m"].count[Cascade] = u.c["m"].count[Cascade]
    BY <1>2 DEF Adapters
  <2>4. Requested(x.c["m"]) /\ Requested(x.c["s"])
    BY <1>2 DEF Sane, Adapters
  <2> QED BY <1>2, <2>2, <2>3, <2>4 DEF Sane, Seen, Linked
<1>4. Sane(y) /\ y.c = x.c /\ y.lock = 1 /\ y.delayed = x.delayed
  BY <1>3, LockKeeps
<1> HIDE DEF y
<1>5. /\ Sane(z) /\ Quiet(y, z) /\ z.delayed = y.delayed
      /\ a = "m" => z.c["s"] = y.c["s"]
      /\ Told(z, a) /\ (Told(y, "m") => Told(z, "m"))
      /\ a = "s" => (Backed(y) => Aimed(z))
      /\ Single(y) => Single(z)
  BY <1>4, SignalKeeps
<1> HIDE DEF z
<1>6. Sane(v) /\ v.c = z.c /\ v.lock = 0 /\ v.delayed = z.delayed
  BY <1>5, LockKeeps
<1> HIDE DEF v
<1>7. Quiet(u, v)
  <2>1. Quiet(u, z)
    BY <1>2, <1>4, <1>5, QuietChain
  <2> QED BY <1>6, <2>1, QuietChain
<1>8. \A b \in Adapters : Deliverable(v, b) = Deliverable(z, b)
  BY <1>6, SameAdapter
<1>9. Single(u) /\ (a = "m" => u.c["m"].count[line] = 0) => Single(v)
  <2>1. Single(u) /\ (a = "m" => u.c["m"].count[line] = 0) => Single(x)
    BY <1>2 DEF Single, Adapters
  <2> QED BY <1>4, <1>5, <1>6, <2>1 DEF Single
<1>10. CASE a = "m"
  <2>1. v.c["s"] = u.c["s"] /\ v.delayed = u.delayed
    BY <1>2, <1>4, <1>5, <1>6, <1>10 DEF Adapters
  <2>2. Deliverable(v, "s") = Deliverable(u, "s")
    BY <2>1, SameAdapter
  <2>3. Told(v, "m")
    BY <1>5, <1>6, <1>8, <1>10 DEF Told, Adapters
  <2>4. Kept(u, v)
    BY <2>1, <2>2, <2>3 DEF Kept, Told, Backed, Aimed
  <2> QED BY <1>1, <1>6, <1>7, <1>9, <1>10, <2>1, <2>3, <2>4 DEF Adapters
<1>11. CASE a = "s"
  <2>1. y.c["m"] = u.c["m"] /\ y.delayed = u.delayed
    BY <1>2, <1>4, <1>11 DEF Adapters
  <2>2. Deliverable(y, "m") = Deliverable(u, "m")
    BY <2>1, SameAdapter
  <2>3. Told(u, "m") => Told(v, "m")
    BY <1>5, <1>6, <1>8, <2>1, <2>2 DEF Told, Adapters
  <2>4. Told(v, "s")
    BY <1>5, <1>6, <1>8, <1>11 DEF Told, Adapters
  <2>5. Deliverable(u, "s") \subseteq Deliverable(x, "s")
    BY <1>2, <1>11, Widens DEF Adapters
  <2>6. Deliverable(y, "s") = Deliverable(x, "s")
    BY <1>4, SameAdapter
  <2>7. y.c["s"].cpuInt = u.c["s"].cpuInt
    BY <1>2, <1>4, <1>11 DEF SameBut, Fields
  <2>8. Backed(u) => Backed(y)
    BY <2>5, <2>6, <2>7 DEF Backed
  <2>9. Backed(u) => Aimed(v)
    BY <1>5, <1>6, <1>8, <1>11, <2>8 DEF Aimed, Adapters
  <2>10. (Aimed(v) => Backed(v)) /\ (Aimed(u) => Backed(u))
    BY DEF Aimed, Backed
  <2>11. Kept(u, v)
    BY <2>3, <2>4, <2>9, <2>10 DEF Kept
  <2> QED BY <1>1, <1>2, <1>4, <1>5, <1>6, <1>7, <1>9, <1>11, <2>11 DEF Adapters
<1> QED BY <1>10, <1>11 DEF Adapters

(***************************************************************************)
(* Withdrawing a request.                                                  *)
(***************************************************************************)
(* Only a line about to be withdrawn may be requested with no request      *)
(* outstanding.                                                            *)
Slack(c, line) ==
  \A l \in Lines : l # line \/ c.count[l] > 1 => (l \in c.irr <=> c.count[l] > 0)

Withdrawn(u, v, a, line) ==
  /\ Frame(v) /\ Requested(v.c[a]) /\ Quiet(u, v)
  /\ \A b \in Adapters : b # a => v.c[b] = u.c[b]
  /\ SameBut(u.c[a], v.c[a], {"irr", "count"})
  /\ v.c[a].irr \subseteq u.c[a].irr
  /\ u.c[a].count[line] <= 1 => line \notin v.c[a].irr
  /\ u.c[a].count[line] > 1 => v.c[a].irr = u.c[a].irr
  /\ \A l \in Lines : l # line => v.c[a].count[l] = u.c[a].count[l]
  /\ v.c[a].count[line] <= u.c[a].count[line]
  /\ v.hwInt = u.hwInt /\ v.lock = u.lock /\ v.delayed = u.delayed

(* One outstanding request fewer, and the line no longer requested with    *)
(* the last.                                                               *)
LEMMA WithdrawIs ==
  ASSUME NEW u, Frame(u), NEW a \in Adapters, NEW line \in Lines, Slack(u.c[a], line)
  PROVE  Withdrawn(u, Withdraw(u, a, line), a, line)
<1> DEFINE c == u.c[a]
           some == c.count[line] <= 1
           left == [l \in Lines |-> IF l # line THEN c.count[l]
                                    ELSE IF some THEN 0 ELSE c.count[line] - 1]
           d == [c EXCEPT !.irr = IF some THEN @ \ {line} ELSE @, !.count = left]
           v == [u EXCEPT !.c[a] = d]
<1>1. Adapter(c)
  BY DEF Frame, Adapters
<1>2. Withdraw(u, a, line) = v
  <2>1. CASE some
    <3>1. [c EXCEPT !.irr = @ \ {line}, !.count[line] = 0] = d
      <4>1. [c.count EXCEPT ![line] = 0] = left
        BY <1>1, <2>1 DEF Adapter
      <4> QED BY <2>1, <4>1, Zenon
    <3> QED BY <2>1, <3>1 DEF Withdraw
  <2>2. CASE ~some
    <3>1. [c EXCEPT !.count[line] = @ - 1] = d
      <4>1. [c.count EXCEPT ![line] = @ - 1] = left
        BY <1>1, <2>2 DEF Adapter
      <4> HIDE DEF left
      <4> QED BY <1>1, <2>2, <4>1, Zenon DEF Adapter, Fields
    <3> QED BY <2>2, <3>1 DEF Withdraw
  <2> QED BY <2>1, <2>2
<1>3. /\ DOMAIN d = Fields /\ d.irr = (IF some THEN c.irr \ {line} ELSE c.irr)
      /\ d.count = left /\ \A f \in Fields \ {"irr", "count"} : d[f] = c[f]
  <2> HIDE DEF c, left
  <2> QED BY <1>1, Zenon DEF Adapter, Fields
<1> HIDE DEF d
<1>4. /\ DOMAIN v = {"c", "hwInt", "lock", "delayed"} /\ DOMAIN v.c = Adapters
      /\ v.c[a] = d /\ \A b \in Adapters : b # a => v.c[b] = u.c[b]
      /\ v.hwInt = u.hwInt /\ v.lock = u.lock /\ v.delayed = u.delayed
  BY Replaces
<1> HIDE DEF v
<1>5. /\ d.isr = c.isr /\ d.imr = c.imr /\ d.hipri = c.hipri /\ d.smm = c.smm
      /\ d.sfnm = c.sfnm /\ d.aeoi = c.aeoi /\ d.slaves = c.slaves /\ d.id = c.id
  BY <1>3 DEF Fields
<1>6. left \in [Lines -> Nat] /\ (\A l \in Lines : l # line => left[l] = c.count[l])
      /\ left[line] = IF some THEN 0 ELSE c.count[line] - 1
  BY <1>1 DEF Adapter
<1> HIDE DEF left
<1>7. Requested(d)
  BY <1>1, <1>3, <1>6 DEF Requested, Slack, Adapter
<1>8. Adapter(d)
  BY <1>1, <1>3, <1>5, <1>6 DEF Adapter
<1>9. Frame(v)
  BY <1>4, <1>5, <1>8 DEF Frame, Adapters
<1>10. Quiet(u, v)
  BY <1>4, <1>5 DEF Quiet, Ordering, Adapters
<1>11. /\ d.irr \subseteq c.irr /\ (some => line \notin d.irr) /\ (~some => d.irr = c.irr)
  BY <1>3
<1>12. SameBut(c, d, {"irr", "count"})
  BY <1>3 DEF SameBut
<1>13. c.count[line] \in Nat
  BY <1>1 DEF Adapter
<1>14. d.count[line] <= c.count[line]
  BY <1>3, <1>6, <1>13
<1> QED BY <1>2, <1>3, <1>4, <1>6, <1>7, <1>9, <1>10, <1>11, <1>12, <1>13, <1>14
        DEF Withdrawn

(* A withdrawal at the master lowers its INT line when nothing deliverable *)
(* is left.                                                                *)
LEMMA ClearMasterKeeps ==
  ASSUME NEW u, Frame(u), NEW line \in Lines, Slack(u.c["m"], line),
         Requested(u.c["s"]), Seen(u), Cascade \in Lines,
         IF line = Cascade THEN ~u.c["s"].cpuInt /\ u.c["m"].count[Cascade] <= 1
                           ELSE Linked(u)
  PROVE  LET v == ClearMaster(u, line)
             x == Withdraw(u, "m", line) IN
         /\ Sane(v) /\ Quiet(u, v) /\ v.lock = u.lock /\ v.delayed = u.delayed
         /\ v.c["s"] = u.c["s"] /\ SameBut(u.c["m"], v.c["m"], {"irr", "count", "cpuInt"})
         /\ (Deliverable(x, "m") # {} => u.c["m"].cpuInt) => Told(v, "m")
         /\ Deliverable(x, "m") \subseteq Deliverable(u, "m")
         /\ Told(u, "m") => Told(v, "m")
         /\ Single(u) => Single(v)
<1> DEFINE x == Withdraw(u, "m", line)
           d == [x.c["m"] EXCEPT !.cpuInt = FALSE]
           y == [x EXCEPT !.c["m"].cpuInt = FALSE, !.hwInt = FALSE]
           drop == u.c["m"].count[line] <= 1 /\ x.c["m"].cpuInt /\ Deliverable(x, "m") = {}
           v == IF drop THEN y ELSE x
<1>1. ClearMaster(u, line) = v
  BY DEF ClearMaster
<1>2. Withdrawn(u, x, "m", line)
  BY WithdrawIs DEF Adapters
<1> HIDE DEF x
<1>3. /\ DOMAIN y = {"c", "hwInt", "lock", "delayed"} /\ DOMAIN y.c = Adapters
      /\ y.c["m"] = d /\ y.c["s"] = x.c["s"] /\ ~y.hwInt
      /\ y.lock = x.lock /\ y.delayed = x.delayed
  BY <1>2, Zenon DEF Withdrawn, Frame, Adapters
<1>4. SameBut(x.c["m"], d, {"cpuInt"}) /\ ~d.cpuInt
  BY <1>2 DEF Withdrawn, Frame, Adapter, SameBut, Fields
<1> HIDE DEF d, y
<1>5. /\ d.irr = x.c["m"].irr /\ d.count = x.c["m"].count /\ d.isr = x.c["m"].isr
      /\ d.hipri = x.c["m"].hipri /\ d.aeoi = x.c["m"].aeoi /\ d.slaves = x.c["m"].slaves
      /\ d.imr = x.c["m"].imr /\ d.smm = x.c["m"].smm /\ d.sfnm = x.c["m"].sfnm
  BY <1>4 DEF SameBut, Fields
<1>6. x.c["s"] = u.c["s"] /\ x.c["m"].cpuInt = u.c["m"].cpuInt
  BY <1>2 DEF Withdrawn, SameBut, Fields, Adapters
<1>7. Linked(x)
  <2>1. CASE line = Cascade
    <3>1. Cascade \notin x.c["m"].irr
      BY <1>2, <2>1 DEF Withdrawn
    <3>2. x.c["m"].count[Cascade] = 0
      BY <1>2, <3>1 DEF Withdrawn, Requested, Frame, Adapter
    <3> QED BY <1>6, <2>1, <3>2 DEF Linked
  <2>2. CASE line # Cascade
    BY <1>2, <1>6, <2>2 DEF Withdrawn, Linked
  <2> QED BY <2>1, <2>2
<1>8. Sane(x)
  BY <1>2, <1>6, <1>7 DEF Sane, Withdrawn, Seen
<1>9. Sane(y)
  <2>1. Adapter(d) /\ Requested(d)
    BY <1>4, <1>5, <1>8 DEF Adapter, Requested, SameBut, Sane, Frame
  <2>2. Frame(y)
    BY <1>3, <1>5, <1>8, <2>1 DEF Sane, Frame
  <2> QED BY <1>3, <1>4, <1>5, <1>8, <2>1, <2>2 DEF Sane, Seen, Linked
<1>10. Quiet(x, y)
  BY <1>3, <1>5 DEF Quiet, Ordering, Adapters
<1>11. Quiet(u, v)
  BY <1>2, <1>10, QuietChain DEF Withdrawn
<1>12. SameBut(u.c["m"], v.c["m"], {"irr", "count", "cpuInt"})
  BY <1>2, <1>3, <1>4 DEF Withdrawn, SameBut
<1>13. Deliverable(y, "m") = Deliverable(x, "m")
  BY <1>3, <1>5, Zenon DEF Deliverable, Rank
<1>14. (Deliverable(x, "m") # {} => u.c["m"].cpuInt) => Told(v, "m")
  BY <1>6, <1>13 DEF Told
<1>15. Deliverable(x, "m") \subseteq Deliverable(u, "m")
  BY <1>2, Widens DEF Withdrawn, Adapters
<1>16. Told(u, "m") => Told(v, "m")
  BY <1>14, <1>15 DEF Told
<1>17. Sane(v) /\ v.lock = u.lock /\ v.delayed = u.delayed /\ v.c["s"] = u.c["s"]
  BY <1>2, <1>3, <1>6, <1>8, <1>9 DEF Withdrawn
<1>18. Single(u) => Single(v)
  <2>1. /\ \A l \in Lines : x.c["m"].count[l] <= u.c["m"].count[l]
        /\ \A l \in Lines : x.c["m"].count[l] \in Nat /\ u.c["m"].count[l] \in Nat
    BY <1>2 DEF Withdrawn, Frame, Adapter
  <2>2. v.c["m"].count = x.c["m"].count
    BY <1>3, <1>5
  <2> HIDE DEF v
  <2> QED BY <2>1, <2>2 DEF Single
<1> HIDE DEF v
<1> QED BY <1>1, <1>11, <1>12, <1>14, <1>15, <1>16, <1>17, <1>18 DEF x

(* A withdrawal at the slave, and that of the cascade line with its last   *)
(* request.                                                                *)
LEMMA ClearSlaveKeeps ==
  ASSUME NEW u, Frame(u), NEW line \in Lines, Slack(u.c["s"], line),
         Requested(u.c["m"]), Seen(u), Linked(u), Cascade \in Lines
  PROVE  LET v == ClearSlave(u, line) IN
         /\ Sane(v) /\ Quiet(u, v) /\ v.lock = u.lock /\ v.delayed = u.delayed
         /\ Told(u, "m") => Told(v, "m")
         /\ Single(u) => Single(v)
         /\ Told(u, "s") => Told(v, "s")
         /\ Backed(u) => Backed(v)
<1> DEFINE x == Withdraw(u, "s", line)
           d == [x.c["s"] EXCEPT !.cpuInt = FALSE]
           y == [x EXCEPT !.c["s"].cpuInt = FALSE]
           drop == u.c["s"].count[line] <= 1 /\ Deliverable(x, "s") = {}
           z == ClearMaster(y, Cascade)
           v == IF drop THEN z ELSE x
<1>1. Withdrawn(u, x, "s", line)
  BY WithdrawIs DEF Adapters
<1>2. ClearSlave(u, line) = v
  <2>1. x.c["s"].id = Cascade
    BY <1>1 DEF Withdrawn, Frame
  <2> HIDE DEF x, z
  <2> QED BY <2>1 DEF ClearSlave, x, z
<1> HIDE DEF x
<1>3. /\ DOMAIN y = {"c", "hwInt", "lock", "delayed"} /\ DOMAIN y.c = Adapters
      /\ y.c["s"] = d /\ y.c["m"] = x.c["m"] /\ y.hwInt = x.hwInt
      /\ y.lock = x.lock /\ y.delayed = x.delayed
  BY <1>1, Zenon DEF Withdrawn, Frame, Adapters
<1>4. SameBut(x.c["s"], d, {"cpuInt"}) /\ ~d.cpuInt
  BY <1>1 DEF Withdrawn, Frame, Adapter, SameBut, Fields
<1> HIDE DEF d, y
<1>5. /\ d.irr = x.c["s"].irr /\ d.count = x.c["s"].count /\ d.isr = x.c["s"].isr
      /\ d.hipri = x.c["s"].hipri /\ d.aeoi = x.c["s"].aeoi /\ d.id = x.c["s"].id
      /\ d.imr = x.c["s"].imr /\ d.smm = x.c["s"].smm /\ d.sfnm = x.c["s"].sfnm
  BY <1>4 DEF SameBut, Fields
<1>6. x.c["m"] = u.c["m"] /\ x.c["s"].cpuInt = u.c["s"].cpuInt
  BY <1>1 DEF Withdrawn, SameBut, Fields, Adapters
<1>7. Sane(x)
  BY <1>1, <1>6 DEF Sane, Withdrawn, Seen, Linked
<1>8. Frame(y) /\ Requested(y.c["s"]) /\ Requested(y.c["m"]) /\ Seen(y)
  <2>1. Adapter(d) /\ Requested(d)
    BY <1>4, <1>5, <1>7 DEF Adapter, Requested, SameBut, Sane, Frame
  <2>2. Frame(y)
    BY <1>3, <1>5, <1>7, <2>1 DEF Sane, Frame
  <2> QED BY <1>3, <1>7, <2>1, <2>2 DEF Sane, Seen
<1>9. Slack(y.c["m"], Cascade)
  BY <1>8 DEF Slack, Requested
<1>10. ~y.c["s"].cpuInt /\ y.c["m"].count[Cascade] <= 1
  BY <1>3, <1>4, <1>7 DEF Sane, Linked
<1>11. /\ Sane(z) /\ Quiet(y, z) /\ z.lock = y.lock /\ z.delayed = y.delayed
       /\ z.c["s"] = y.c["s"] /\ (Told(y, "m") => Told(z, "m"))
       /\ Single(y) => Single(z)
  BY <1>8, <1>9, <1>10, ClearMasterKeeps
<1> HIDE DEF z
<1>12. Quiet(x, y)
  BY <1>3, <1>5 DEF Quiet, Ordering, Adapters
<1>13. Quiet(u, v)
  BY <1>1, <1>11, <1>12, QuietChain DEF Withdrawn
<1>14. Sane(v) /\ v.lock = u.lock /\ v.delayed = u.delayed
  BY <1>1, <1>3, <1>7, <1>11 DEF Withdrawn
<1>15. /\ Deliverable(x, "m") = Deliverable(u, "m")
       /\ Deliverable(y, "m") = Deliverable(x, "m")
       /\ Deliverable(z, "s") = Deliverable(y, "s")
  BY <1>1, <1>3, <1>6, <1>11, SameAdapter DEF Withdrawn
<1>16. Deliverable(y, "s") = Deliverable(x, "s")
  BY <1>3, <1>5, Zenon DEF Deliverable, Rank
<1>17. Told(u, "m") => Told(v, "m")
  BY <1>3, <1>6, <1>11, <1>15 DEF Told
<1>18. /\ Deliverable(x, "s") \subseteq Deliverable(u, "s")
       /\ u.c["s"].count[line] > 1 => Deliverable(u, "s") \subseteq Deliverable(x, "s")
  BY <1>1, Widens DEF Withdrawn, Adapters
<1>19. ~(u.c["s"].count[line] <= 1) => u.c["s"].count[line] > 1
  BY DEF Frame, Adapter
<1>20. Told(u, "s") => Told(v, "s")
  BY <1>6, <1>15, <1>16, <1>18 DEF Told
<1>21. Backed(u) => Backed(v)
  BY <1>3, <1>4, <1>6, <1>11, <1>18, <1>19 DEF Backed
<1>22. Single(u) => Single(v)
  BY <1>3, <1>6, <1>11 DEF Single
<1> QED BY <1>2, <1>13, <1>14, <1>17, <1>20, <1>21, <1>22

(* SWPIC_clear_int.                                                        *)
LEMMA ClearIntKeeps ==
  ASSUME NEW u, Frame(u), NEW a \in Adapters, NEW line \in Lines, Slack(u.c[a], line),
         \A b \in Adapters : b # a => Requested(u.c[b]),
         Seen(u), Linked(u), Cascade \in Lines, a = "m" => line # Cascade
  PROVE  LET v == SWPIC_clear_int(u, a, line) IN
         /\ Sane(v) /\ Quiet(u, v) /\ v.lock = u.lock /\ v.delayed = u.delayed
         /\ Told(u, "m") => Told(v, "m")
         /\ Single(u) => Single(v)
         /\ Told(u, "s") => Told(v, "s")
         /\ Backed(u) => Backed(v)
         /\ a = "m" =>
              /\ v.c["s"] = u.c["s"]
              /\ (Deliverable(Withdraw(u, "m", line), "m") # {} => u.c["m"].cpuInt)
                   => Told(v, "m")
<1> DEFINE v == SWPIC_clear_int(u, a, line)
<1>1. CASE a = "m"
  <2>1. v = ClearMaster(u, line)
    BY <1>1 DEF SWPIC_clear_int
  <2>2. Slack(u.c["m"], line) /\ Requested(u.c["s"])
    BY <1>1 DEF Adapters
  <2>3. /\ Sane(v) /\ Quiet(u, v) /\ v.lock = u.lock /\ v.delayed = u.delayed
        /\ v.c["s"] = u.c["s"]
        /\ (Deliverable(Withdraw(u, "m", line), "m") # {} => u.c["m"].cpuInt) => Told(v, "m")
        /\ Told(u, "m") => Told(v, "m")
        /\ Single(u) => Single(v)
    BY <1>1, <2>1, <2>2, ClearMasterKeeps
  <2> HIDE DEF v
  <2>4. Deliverable(v, "s") = Deliverable(u, "s")
    BY <2>3, SameAdapter
  <2>5. (Told(u, "s") => Told(v, "s")) /\ (Backed(u) => Backed(v))
    BY <2>3, <2>4 DEF Told, Backed
  <2> QED BY <2>3, <2>5 DEF v
<1>2. CASE a = "s"
  <2>1. v = ClearSlave(u, line)
    BY <1>2 DEF SWPIC_clear_int
  <2>2. Slack(u.c["s"], line) /\ Requested(u.c["m"])
    BY <1>2 DEF Adapters
  <2> QED BY <1>2, <2>1, <2>2, ClearSlaveKeeps
<1> QED BY <1>1, <1>2 DEF Adapters

(* ica_hw_interrupt_cancel.                                                *)
LEMMA CancelKeeps ==
  ASSUME NEW u, Sane(u), NEW a \in Adapters, NEW line \in Lines,
         Cascade \in Lines, a = "m" => line # Cascade
  PROVE  LET v == ica_hw_interrupt_cancel(u, a, line) IN
         /\ Sane(v) /\ Quiet(u, v) /\ v.lock = u.lock /\ v.delayed = u.delayed
         /\ Told(u, "m") => Told(v, "m")
         /\ Single(u) => Single(v)
         /\ Told(u, "s") => Told(v, "s")
         /\ Backed(u) => Backed(v)
         /\ a = "m" => v.c["s"] = u.c["s"]
<1> DEFINE c == u.c[a]
           d == [c EXCEPT !.count[line] = 0]
           x == [u EXCEPT !.c[a].count[line] = 0]
           v == SWPIC_clear_int(x, a, line)
<1>1. ica_hw_interrupt_cancel(u, a, line) = v
  BY DEF ica_hw_interrupt_cancel
<1>2. Adapter(c) /\ Requested(c) /\ Frame(u)
  BY DEF Sane, Frame, Adapters
<1>3. /\ DOMAIN x = {"c", "hwInt", "lock", "delayed"} /\ DOMAIN x.c = Adapters
      /\ x.c[a] = d /\ \A b \in Adapters : b # a => x.c[b] = u.c[b]
      /\ x.hwInt = u.hwInt /\ x.lock = u.lock /\ x.delayed = u.delayed
  BY <1>2 DEF Frame
<1>4. /\ SameBut(c, d, {"count"})
      /\ d.count = [l \in Lines |-> IF l = line THEN 0 ELSE c.count[l]]
  <2> HIDE DEF c
  <2> QED BY <1>2 DEF Adapter, SameBut, Fields
<1> HIDE DEF d, x
<1>5. /\ d.irr = c.irr /\ d.isr = c.isr /\ d.imr = c.imr /\ d.hipri = c.hipri
      /\ d.smm = c.smm /\ d.sfnm = c.sfnm /\ d.aeoi = c.aeoi /\ d.slaves = c.slaves
      /\ d.id = c.id /\ d.cpuInt = c.cpuInt
  BY <1>4 DEF SameBut, Fields
<1>6. Adapter(d) /\ Slack(d, line)
  BY <1>2, <1>4, <1>5 DEF Adapter, SameBut, Slack, Requested
<1>7. Frame(x)
  BY <1>2, <1>3, <1>5, <1>6 DEF Frame, Adapters
<1>8. Seen(x) /\ Linked(x)
  BY <1>3, <1>4, <1>5 DEF Sane, Seen, Linked, Adapters
<1>9. \A b \in Adapters : b # a => Requested(x.c[b])
  BY <1>3 DEF Sane, Adapters
<1>10. /\ Sane(v) /\ Quiet(x, v) /\ v.lock = x.lock /\ v.delayed = x.delayed
       /\ Told(x, "m") => Told(v, "m")
       /\ Single(x) => Single(v)
       /\ Told(x, "s") => Told(v, "s")
       /\ Backed(x) => Backed(v)
       /\ a = "m" => v.c["s"] = x.c["s"]
  BY <1>3, <1>6, <1>7, <1>8, <1>9, ClearIntKeeps
<1> HIDE DEF v
<1>11. Quiet(u, x)
  BY <1>3, <1>5 DEF Quiet, Ordering, Adapters
<1>12. \A b \in Adapters : x.c[b].irr = u.c[b].irr /\ x.c[b].cpuInt = u.c[b].cpuInt
  BY <1>3, <1>5
<1>13. \A b \in Adapters : Deliverable(x, b) = Deliverable(u, b)
  <2> TAKE b \in Adapters
  <2>1. x.c[b].irr \subseteq u.c[b].irr /\ u.c[b].irr \subseteq x.c[b].irr
    BY <1>12
  <2>2. /\ Deliverable(u, b) \subseteq Deliverable(x, b)
        /\ Deliverable(x, b) \subseteq Deliverable(u, b)
    BY <1>3, <1>11, <2>1, Widens
  <2> QED BY <2>2
<1>14. /\ Told(u, "m") => Told(v, "m")
       /\ Told(u, "s") => Told(v, "s")
       /\ Backed(u) => Backed(v)
  BY <1>10, <1>12, <1>13 DEF Told, Backed, Adapters
<1>15. Quiet(u, v)
  BY <1>10, <1>11, QuietChain
<1>16. Single(u) => Single(x)
  <2>1. CASE a = "m"
    <3>1. \A l \in Lines : x.c["m"].count[l] = IF l = line THEN 0 ELSE u.c["m"].count[l]
      BY <1>3, <1>4, <2>1
    <3> QED BY <3>1 DEF Single
  <2>2. CASE a = "s"
    BY <1>3, <2>2 DEF Single, Adapters
  <2> QED BY <2>1, <2>2 DEF Adapters
<1> QED BY <1>1, <1>3, <1>10, <1>14, <1>15, <1>16 DEF Adapters

(***************************************************************************)
(* The end of an interrupt.                                                *)
(***************************************************************************)
EndedBy(u, v, a, line, rotate) ==
  /\ Sane(v) /\ v.delayed = u.delayed
  /\ v.c[a].isr = u.c[a].isr \ {EoiLine(u, a, line)}
  /\ ~rotate => v.c[a].hipri = u.c[a].hipri
  /\ \A f \in {"imr", "smm", "sfnm"} : v.c[a][f] = u.c[a][f]
  /\ \A b \in Adapters \ {a}, f \in Ordering : v.c[b][f] = u.c[b][f]
  /\ ~rotate => Kept(u, v)
  /\ Silent(u) => Silent(v)
  /\ Single(u) => Single(v)

(* ica_eoi takes the line out of service and signals the next one.         *)
LEMMA EoiKeeps ==
  ASSUME N \in Nat \ {0}, Cascade \in Lines, NEW u, Sane(u), u.lock = 1,
         NEW a \in Adapters, NEW line, NEW rotate \in BOOLEAN, rotate => line = None
  PROVE  LET v == ica_eoi(u, a, line, rotate) IN
         v.lock = 1 /\ Told(v, a) /\ EndedBy(u, v, a, line, rotate)
<1> DEFINE c == u.c[a]
           l == EoiLine(u, a, line)
           h == IF rotate /\ l # None THEN (l + 1) % N ELSE c.hipri
           d == [c EXCEPT !.isr = @ \ {l}, !.hipri = h]
           x == [u EXCEPT !.c[a] = d]
           v == Signal(x, a)
<1>1. ica_eoi(u, a, line, rotate) = v
  BY DEF ica_eoi
<1>2. Adapter(c) /\ Requested(c) /\ Frame(u)
  BY DEF Sane, Frame, Adapters
<1>3. h \in Lines
  <2>1. CASE rotate /\ l # None
    <3>1. c.isr # {} /\ c.isr \subseteq Lines
      BY <1>2, <2>1 DEF EoiLine, Adapter
    <3>2. l \in Lines
      BY <1>2, <2>1, <3>1, HighestIs DEF EoiLine
    <3> HIDE DEF l
    <3>3. h = (l + 1) % N
      BY <2>1
    <3> HIDE DEF h
    <3> QED BY <3>2, <3>3, SMTT(30) DEF Lines
  <2>2. CASE ~(rotate /\ l # None)
    BY <1>2, <2>2 DEF Adapter
  <2> QED BY <2>1, <2>2
<1>4. ~rotate => h = c.hipri
  OBVIOUS
<1> HIDE DEF h, l
<1>5. SameBut(c, d, {"isr", "hipri"}) /\ d.isr = c.isr \ {l} /\ d.hipri = h
  <2> HIDE DEF c
  <2> QED BY <1>2, Zenon DEF Adapter, SameBut, Fields
<1> HIDE DEF d
<1>6. /\ DOMAIN x = {"c", "hwInt", "lock", "delayed"} /\ DOMAIN x.c = Adapters
      /\ x.c[a] = d /\ \A b \in Adapters : b # a => x.c[b] = u.c[b]
      /\ x.hwInt = u.hwInt /\ x.lock = u.lock /\ x.delayed = u.delayed
  BY <1>2, Replaces
<1> HIDE DEF x
<1>7. /\ d.irr = c.irr /\ d.imr = c.imr /\ d.count = c.count /\ d.cpuInt = c.cpuInt
      /\ d.intLine = c.intLine
      /\ d.smm = c.smm /\ d.sfnm = c.sfnm /\ d.aeoi = c.aeoi /\ d.slaves = c.slaves
      /\ d.id = c.id
  BY <1>5 DEF SameBut, Fields
<1>8. Sane(x)
  <2>1. Adapter(d) /\ Requested(d)
    BY <1>2, <1>3, <1>5, <1>7 DEF Adapter, Requested, SameBut
  <2>2. Frame(x)
    BY <1>2, <1>6, <1>7, <2>1 DEF Frame, Adapters
  <2>3. Requested(x.c["m"]) /\ Requested(x.c["s"]) /\ Seen(x) /\ Linked(x)
    BY <1>6, <1>7, <2>1 DEF Sane, Seen, Linked, Adapters
  <2> QED BY <2>2, <2>3 DEF Sane
<1>9. /\ Sane(v) /\ Quiet(x, v) /\ v.lock = x.lock /\ v.delayed = x.delayed
      /\ a = "m" => v.c["s"] = x.c["s"]
      /\ Told(v, a) /\ (Told(x, "m") => Told(v, "m"))
      /\ a = "s" => (Backed(x) => Aimed(v))
      /\ Silent(x) => Silent(v)
      /\ Single(x) => Single(v)
  BY <1>6, <1>8, SignalKeeps
<1> HIDE DEF v
<1>10. \A b \in Adapters, f \in Ordering : v.c[b][f] = x.c[b][f]
  BY <1>9 DEF Quiet
<1>11. v.c[a].isr = c.isr \ {l} /\ (~rotate => v.c[a].hipri = c.hipri)
  BY <1>4, <1>5, <1>6, <1>10 DEF Ordering
<1>12. \A f \in {"imr", "smm", "sfnm"} : v.c[a][f] = c[f]
  BY <1>6, <1>7, <1>10 DEF Ordering
<1>13. \A b \in Adapters \ {a}, f \in Ordering : v.c[b][f] = u.c[b][f]
  BY <1>6, <1>10
<1>14. ASSUME ~rotate PROVE Kept(u, v)
  <2>1. CASE a = "m"
    <3>1. v.c["s"] = u.c["s"] /\ v.delayed = u.delayed
      BY <1>6, <1>9, <2>1 DEF Adapters
    <3>2. Deliverable(v, "s") = Deliverable(u, "s")
      BY <3>1, SameAdapter
    <3> QED BY <1>9, <2>1, <3>1, <3>2 DEF Kept, Told, Backed, Aimed
  <2>2. CASE a = "s"
    <3>1. x.c["m"] = u.c["m"] /\ x.delayed = u.delayed
      BY <1>6, <2>2 DEF Adapters
    <3>2. Deliverable(x, "m") = Deliverable(u, "m")
      BY <3>1, SameAdapter
    <3>3. Told(u, "m") => Told(v, "m")
      BY <1>9, <3>1, <3>2 DEF Told
    <3>4. d.hipri = c.hipri
      BY <1>4, <1>5, <1>14
    <3>5. Deliverable(u, "s") \subseteq Deliverable(x, "s")
      BY <1>5, <1>6, <1>7, <2>2, <3>4, Zenon DEF Deliverable, Rank
    <3>6. Backed(u) => Backed(x)
      BY <1>6, <1>7, <2>2, <3>5 DEF Backed
    <3>7. (Aimed(v) => Backed(v)) /\ (Aimed(u) => Backed(u))
      BY DEF Aimed, Backed
    <3> QED BY <1>9, <2>2, <3>3, <3>6, <3>7 DEF Kept
  <2> QED BY <2>1, <2>2 DEF Adapters
<1>15. (Silent(u) => Silent(x)) /\ (Single(u) => Single(x))
  BY <1>6, <1>7 DEF Silent, Single, Adapters
<1>16. EndedBy(u, v, a, line, rotate)
  BY <1>6, <1>9, <1>11, <1>12, <1>13, <1>14, <1>15, Zenon DEF EndedBy, l
<1> QED BY <1>1, <1>6, <1>9, <1>16

(***************************************************************************)
(* The acknowledgement.                                                    *)
(***************************************************************************)
Plain(c) == ~c.smm /\ ~c.sfnm

AcceptedBy(u, v, a) ==
  LET line == Accepted(u, a) IN
  /\ Frame(v) /\ Requested(v.c[a]) /\ ~v.c[a].cpuInt
  /\ \A b \in Adapters : b # a => v.c[b] = u.c[b]
  /\ SameBut(u.c[a], v.c[a], {"irr", "isr", "count", "cpuInt"})
  /\ v.c[a].isr = IF line = None THEN u.c[a].isr ELSE u.c[a].isr \cup {line}
  /\ \A l \in Lines : l # line => v.c[a].count[l] = u.c[a].count[l]
  /\ \A l \in Lines : v.c[a].count[l] <= u.c[a].count[l]
  /\ line # None =>
       /\ line \in Deliverable(u, a) /\ line \in Lines
       /\ u.c[a].count[line] <= 1 => v.c[a].count[line] = 0
  /\ v.hwInt = u.hwInt /\ v.lock = u.lock /\ v.delayed = u.delayed
  /\ line = None <=> Deliverable(u, a) = {}
  /\ Plain(u.c[a]) => Deliverable(v, a) = {}

(* ica_accept takes the first deliverable request into service.            *)
LEMMA AcceptIs ==
  ASSUME N \in Nat \ {0}, NEW u, Frame(u), NEW a \in Adapters, Requested(u.c[a])
  PROVE  AcceptedBy(u, ica_accept(u, a), a)
<1> DEFINE c == u.c[a]
           line == Accepted(u, a)
           d == [c EXCEPT !.cpuInt = FALSE]
           v == [u EXCEPT !.c[a].cpuInt = FALSE]
<1>1. Adapter(c)
  BY DEF Frame, Adapters
<1>2. /\ DOMAIN v = {"c", "hwInt", "lock", "delayed"} /\ DOMAIN v.c = Adapters
      /\ v.c[a] = d /\ \A b \in Adapters : b # a => v.c[b] = u.c[b]
      /\ v.hwInt = u.hwInt /\ v.lock = u.lock /\ v.delayed = u.delayed
  BY Zenon DEF Frame
<1>3. SameBut(c, d, {"cpuInt"}) /\ ~d.cpuInt
  <2> HIDE DEF c
  <2> QED BY <1>1 DEF Adapter, SameBut, Fields
<1> HIDE DEF d, v
<1>4. /\ d.irr = c.irr /\ d.isr = c.isr /\ d.imr = c.imr /\ d.hipri = c.hipri
      /\ d.smm = c.smm /\ d.sfnm = c.sfnm /\ d.aeoi = c.aeoi /\ d.slaves = c.slaves
      /\ d.id = c.id /\ d.count = c.count
  BY <1>3 DEF SameBut, Fields
<1>5. line = None <=> Deliverable(u, a) = {}
  <2>1. Deliverable(u, a) # {} => Scan(u, a) \in Lines
    BY ScanIs
  <2>2. \A l \in Lines : l # None
    BY DEF Lines, None
  <2> QED BY <2>1, <2>2 DEF Accepted
<1>6. CASE line = None
  <2>1. ica_accept(u, a) = v
    BY <1>6 DEF ica_accept, v
  <2>2. Deliverable(v, a) = Deliverable(u, a)
    BY <1>2, <1>4, Zenon DEF Deliverable, Rank
  <2>3. Adapter(d) /\ Requested(d)
    BY <1>1, <1>3, <1>4 DEF Adapter, Requested, SameBut
  <2>4. Frame(v)
    BY <1>2, <1>4, <2>3 DEF Frame, Adapters
  <2>5. SameBut(c, d, {"irr", "isr", "count", "cpuInt"})
    BY <1>3 DEF SameBut
  <2> HIDE DEF line
  <2>6. AcceptedBy(u, v, a)
    <3>1. \A l \in Lines : d.count[l] <= c.count[l]
      BY <1>1, <1>4 DEF Adapter
    <3> QED BY <1>2, <1>3, <1>4, <1>5, <1>6, <2>2, <2>3, <2>4, <2>5, <3>1
            DEF AcceptedBy, line
  <2> QED BY <2>1, <2>6
<1>7. CASE line # None
  <2> DEFINE e == [d EXCEPT !.isr = @ \cup {line}]
             x == [v EXCEPT !.c[a].isr = @ \cup {line}]
             y == Withdraw(x, a, line)
  <2>1. line = Scan(u, a) /\ Deliverable(u, a) # {}
    BY <1>5, <1>7 DEF Accepted
  <2>2. /\ line \in Deliverable(u, a) /\ line \in Lines
        /\ \A k \in Deliverable(u, a) : Rank(c, line) <= Rank(c, k)
    BY <2>1, ScanIs
  <2>3. ica_accept(u, a) = IF y.c[a].aeoi THEN ica_eoi(y, a, None, y.c[a].raeoi) ELSE y
    BY <1>7 DEF ica_accept, v
  <2> HIDE DEF line
  <2>4. /\ DOMAIN x = {"c", "hwInt", "lock", "delayed"} /\ DOMAIN x.c = Adapters
        /\ x.c[a] = e /\ \A b \in Adapters : b # a => x.c[b] = v.c[b]
        /\ x.hwInt = v.hwInt /\ x.lock = v.lock /\ x.delayed = v.delayed
    BY <1>2 DEF Frame
  <2>5. SameBut(d, e, {"isr"}) /\ e.isr = d.isr \cup {line}
    BY <1>3 DEF SameBut, Fields
  <2> HIDE DEF x, e
  <2>6. /\ e.irr = c.irr /\ e.imr = c.imr /\ e.hipri = c.hipri
        /\ e.smm = c.smm /\ e.sfnm = c.sfnm /\ e.aeoi = c.aeoi /\ e.slaves = c.slaves
        /\ e.id = c.id /\ e.count = c.count /\ e.cpuInt = d.cpuInt /\ e.isr = c.isr \cup {line}
    BY <1>4, <2>5 DEF SameBut, Fields
  <2>7. Adapter(e) /\ Slack(e, line)
    BY <1>1, <2>2, <2>5, <2>6 DEF Adapter, SameBut, Slack, Requested
  <2>8. Frame(x)
    BY <1>2, <2>4, <2>6, <2>7 DEF Frame, Adapters
  <2>9. Withdrawn(x, y, a, line)
    BY <2>2, <2>4, <2>7, <2>8, WithdrawIs
  <2> HIDE DEF y
  <2>10. ica_accept(u, a) = y
    <3>1. ~y.c[a].aeoi
      BY <2>9 DEF Withdrawn, Frame, Adapter, Adapters
    <3> QED BY <2>3, <3>1
  <2>11. SameBut(c, y.c[a], {"irr", "isr", "count", "cpuInt"})
    BY <1>3, <2>4, <2>5, <2>9 DEF SameBut, Withdrawn
  <2>12. y.c[a].isr = c.isr \cup {line} /\ ~y.c[a].cpuInt
    BY <1>3, <2>4, <2>6, <2>9 DEF Withdrawn, SameBut, Fields
  <2>13. c.count[line] <= 1 => y.c[a].count[line] = 0
    <3> SUFFICES ASSUME c.count[line] <= 1 PROVE y.c[a].count[line] = 0
      OBVIOUS
    <3>1. line \notin y.c[a].irr
      BY <2>4, <2>6, <2>9 DEF Withdrawn
    <3>2. y.c[a].count \in [Lines -> Nat]
      BY <2>9 DEF Withdrawn, Frame, Adapter, Adapters
    <3> QED BY <2>2, <2>9, <3>1, <3>2 DEF Withdrawn, Requested
  <2>14. ASSUME Plain(c), NEW k \in Deliverable(y, a) PROVE FALSE
    <3>1. Deliverable(y, a) \subseteq Deliverable(x, a)
      BY <2>9, Widens DEF Withdrawn
    <3>2. k \in Deliverable(x, a)
      BY <2>14, <3>1
    <3>3. /\ k \in c.irr \ (c.imr \cup u.delayed[a])
          /\ \A j \in c.isr \cup {line} : Rank(e, j) > Rank(e, k)
      BY <1>2, <2>4, <2>6, <2>14, <3>2 DEF Deliverable, Plain
    <3>4. \A j : Rank(e, j) = Rank(c, j)
      BY <2>6 DEF Rank
    <3>5. k \in Deliverable(u, a)
      BY <3>3, <3>4 DEF Deliverable
    <3>6. Rank(c, line) <= Rank(c, k) /\ Rank(c, line) > Rank(c, k)
      BY <2>2, <3>3, <3>4, <3>5
    <3>7. Rank(c, line) \in Nat /\ Rank(c, k) \in Nat
      BY <1>1, <2>2, <3>3, Ranks DEF Adapter
    <3> QED BY <3>6, <3>7
  <2>15. Plain(c) => Deliverable(y, a) = {}
    BY <2>14
  <2>16. \A b \in Adapters : b # a => y.c[b] = u.c[b]
    BY <1>2, <2>4, <2>9 DEF Withdrawn
  <2>17. \A l \in Lines : l # line => y.c[a].count[l] = c.count[l]
    BY <2>4, <2>6, <2>9 DEF Withdrawn
  <2>18. \A l \in Lines : y.c[a].count[l] <= c.count[l]
    BY <1>1, <2>4, <2>6, <2>9, <2>17 DEF Withdrawn, Adapter
  <2>19. y.hwInt = u.hwInt /\ y.lock = u.lock /\ y.delayed = u.delayed
    BY <1>2, <2>4, <2>9 DEF Withdrawn
  <2>20. Frame(y) /\ Requested(y.c[a])
    BY <2>9 DEF Withdrawn
  <2>21. AcceptedBy(u, y, a)
    BY <1>5, <1>7, <2>2, <2>11, <2>12, <2>13, <2>15, <2>16, <2>17, <2>19, <2>20, <2>18
       DEF AcceptedBy, line
  <2> QED BY <2>10, <2>21
<1> QED BY <1>6, <1>7

(* How an acknowledgement answers: with a rejection, a line of the master  *)
(* or a line of the slave through the cascade.                             *)
Taken(u, v) ==
  \/ /\ Vector(u) = Reject
     /\ v.c["m"].isr = u.c["m"].isr /\ v.c["s"].isr = u.c["s"].isr
  \/ \E l \in Lines \ {Cascade} :
       /\ Vector(u) = <<"m", l>> /\ l \in Deliverable(u, "m")
       /\ v.c["m"].isr = u.c["m"].isr \cup {l} /\ v.c["s"].isr = u.c["s"].isr
  \/ \E l \in Lines :
       /\ Vector(u) = <<"s", l>> /\ Cascade \in Deliverable(u, "m") /\ l \in Deliverable(u, "s")
       /\ v.c["m"].isr = u.c["m"].isr \cup {Cascade} /\ v.c["s"].isr = u.c["s"].isr \cup {l}

Untouched(u, v) ==
  /\ v.lock = u.lock /\ v.delayed = u.delayed
  /\ \A a \in Adapters, f \in {"imr", "hipri", "smm", "sfnm"} : v.c[a][f] = u.c[a][f]

(* Acknowledged with the CPU's bit lowered.                                *)
LEMMA IntackKeeps ==
  ASSUME N \in Nat \ {0}, Cascade \in Lines, NEW u, Sane(u)
  PROVE  LET z == ica_intack(u) IN
         /\ Frame(z) /\ Requested(z.c["m"]) /\ Requested(z.c["s"]) /\ Linked(z)
         /\ ~z.c["m"].cpuInt /\ Untouched(u, z)
         /\ Plain(u.c["m"]) => Taken(u, z)
         /\ Silent(u) => Silent(z)
         /\ Single(u) => Single(z)
         /\ Plain(u.c["m"]) /\ Plain(u.c["s"]) =>
              /\ Backed(u) => Deliverable(z, "m") = {}
              /\ Told(u, "s") => Told(z, "s")
              /\ Backed(u) => Backed(z)
              /\ Aimed(u) => Aimed(z)
<1> DEFINE line == Accepted(u, "m")
           v == ica_accept(u, "m")
           below == Accepted(v, "s")
           x == ica_accept(v, "s")
           z == ica_intack(u)
<1>1. AcceptedBy(u, v, "m")
  BY AcceptIs DEF Sane, Adapters
<1>2. u.c["m"].slaves = {Cascade}
  BY DEF Sane, Frame
<1>3. /\ z = IF line = None \/ line \notin {Cascade} THEN v
             ELSE IF below = None THEN [x EXCEPT !.c["m"].isr = @ \ {line}] ELSE x
      /\ Vector(u) = IF line = None THEN Reject
                     ELSE IF line \notin {Cascade} THEN <<"m", line>>
                     ELSE IF below = None THEN Reject ELSE <<"s", below>>
  <2> HIDE DEF line, v, x, below
  <2> QED BY <1>2 DEF ica_intack, Vector, line, v, x, below
<1> HIDE DEF v, x, z, line
<1>4. v.c["s"] = u.c["s"] /\ v.delayed = u.delayed /\ v.lock = u.lock
  BY <1>1 DEF AcceptedBy, Adapters
<1>5. Deliverable(v, "s") = Deliverable(u, "s")
  BY <1>4, SameAdapter
<1>6. /\ v.c["m"].imr = u.c["m"].imr /\ v.c["m"].hipri = u.c["m"].hipri
      /\ v.c["m"].smm = u.c["m"].smm /\ v.c["m"].sfnm = u.c["m"].sfnm
  BY <1>1 DEF AcceptedBy, SameBut, Fields
<1>7. Untouched(u, v)
  BY <1>4, <1>6 DEF Untouched, Adapters
<1>8. Single(u) => Single(v)
  <2>1. \A l \in Lines : v.c["m"].count[l] \in Nat /\ u.c["m"].count[l] \in Nat
    BY <1>1 DEF AcceptedBy, Sane, Frame, Adapter
  <2> QED BY <1>1, <2>1 DEF AcceptedBy, Single
<1>9. CASE line = None \/ line # Cascade
  <2>1. z = v
    BY <1>3, <1>9
  <2>2. v.c["m"].count[Cascade] = u.c["m"].count[Cascade]
    <3>1. line # Cascade
      BY <1>9 DEF Lines, None
    <3> QED BY <1>1, <3>1 DEF AcceptedBy, line
  <2>3. Frame(v) /\ Requested(v.c["m"]) /\ Requested(v.c["s"]) /\ ~v.c["m"].cpuInt
    BY <1>1, <1>4 DEF AcceptedBy, Sane
  <2>4. Linked(v)
    BY <1>4, <2>2 DEF Sane, Linked
  <2>5. Taken(u, v)
    <3>1. CASE line = None
      <4>1. Vector(u) = Reject
        BY <1>3, <3>1
      <4>2. v.c["m"].isr = u.c["m"].isr
        BY <1>1, <3>1 DEF AcceptedBy, line
      <4> QED BY <1>4, <4>1, <4>2 DEF Taken
    <3>2. CASE line # None
      <4>1. line # Cascade
        BY <1>9, <3>2
      <4>2. Vector(u) = <<"m", line>>
        BY <1>3, <3>2, <4>1
      <4>3. /\ v.c["m"].isr = u.c["m"].isr \cup {line}
            /\ line \in Lines /\ line \in Deliverable(u, "m")
        BY <1>1, <3>2 DEF AcceptedBy, line
      <4> QED BY <1>4, <4>1, <4>2, <4>3 DEF Taken
    <3> QED BY <3>1, <3>2
  <2>6. Plain(u.c["m"]) => Deliverable(v, "m") = {}
    BY <1>1 DEF AcceptedBy
  <2>7. /\ Told(u, "s") => Told(v, "s")
        /\ Backed(u) => Backed(v)
        /\ Aimed(u) => Aimed(v)
    BY <1>4, <1>5 DEF Told, Backed, Aimed
  <2> QED BY <1>7, <2>1, <2>3, <2>4, <2>5, <2>6, <2>7, <1>4, <1>8 DEF Silent, z
<1>10. CASE line = Cascade
  <2>1. line # None
    BY <1>10 DEF Lines, None
  <2>2. /\ Cascade \in Deliverable(u, "m") /\ v.c["m"].isr = u.c["m"].isr \cup {Cascade}
        /\ u.c["m"].count[Cascade] <= 1 => v.c["m"].count[Cascade] = 0
    BY <1>1, <1>10, <2>1 DEF AcceptedBy, line
  <2>3. u.c["s"].cpuInt /\ v.c["m"].count[Cascade] = 0
    <3>1. Cascade \in u.c["m"].irr
      BY <2>2 DEF Deliverable
    <3>2. u.c["m"].count[Cascade] > 0
      BY <3>1 DEF Sane, Requested
    <3> QED BY <2>2, <3>2 DEF Sane, Linked
  <2>4. AcceptedBy(v, x, "s")
    BY <1>1, <1>4, AcceptIs, ZenonT(30) DEF AcceptedBy, Sane, Adapters, x
  <2>5. /\ Frame(x) /\ x.c["m"] = v.c["m"] /\ ~x.c["s"].cpuInt /\ Requested(x.c["s"])
        /\ x.lock = v.lock /\ x.delayed = v.delayed
    BY <2>4 DEF AcceptedBy, Adapters
  <2>6. Requested(x.c["m"]) /\ ~x.c["m"].cpuInt /\ Linked(x)
    BY <1>1, <2>3, <2>5 DEF AcceptedBy, Linked
  <2>7. /\ x.c["s"].imr = u.c["s"].imr /\ x.c["s"].hipri = u.c["s"].hipri
        /\ x.c["s"].smm = u.c["s"].smm /\ x.c["s"].sfnm = u.c["s"].sfnm
    BY <1>4, <2>4 DEF AcceptedBy, SameBut, Fields
  <2>8. Untouched(u, x)
    BY <1>4, <1>6, <2>5, <2>7 DEF Untouched, Adapters
  <2>9. below = None <=> Deliverable(u, "s") = {}
    BY <1>5, <2>4 DEF AcceptedBy
  <2>10. (Told(x, "s") \/ ~Plain(u.c["s"])) /\ Backed(x) /\ Aimed(x)
    BY <1>4, <2>4, <2>5 DEF AcceptedBy, Told, Backed, Aimed
  <2>11. CASE below # None
    <3>1. z = x /\ Vector(u) = <<"s", below>>
      BY <1>3, <1>10, <2>1, <2>11
    <3>2. /\ below \in Deliverable(u, "s") /\ below \in Lines
          /\ x.c["s"].isr = u.c["s"].isr \cup {below}
      BY <1>4, <1>5, <2>4, <2>11 DEF AcceptedBy
    <3>3. Taken(u, x)
      <4> HIDE DEF below
      <4> QED BY <2>2, <2>5, <3>1, <3>2 DEF Taken
    <3>4. Plain(u.c["m"]) => Deliverable(x, "m") = {}
      <4>1. Plain(u.c["m"]) => Deliverable(v, "m") = {}
        BY <1>1 DEF AcceptedBy
      <4>2. Deliverable(x, "m") = Deliverable(v, "m")
        BY <2>5, SameAdapter
      <4> QED BY <4>1, <4>2
    <3> QED BY <2>3, <2>5, <2>6, <2>8, <2>10, <3>1, <3>3, <3>4, <1>8, Zenon
            DEF Silent, Single, z
  <2>12. CASE below = None
    <3> DEFINE d == [x.c["m"] EXCEPT !.isr = @ \ {Cascade}]
               y == [x EXCEPT !.c["m"].isr = @ \ {Cascade}]
    <3>1. z = y /\ Vector(u) = Reject
      BY <1>3, <1>10, <2>1, <2>12
    <3>2. /\ DOMAIN y = {"c", "hwInt", "lock", "delayed"} /\ DOMAIN y.c = Adapters
          /\ y.c["m"] = d /\ y.c["s"] = x.c["s"]
          /\ y.lock = x.lock /\ y.delayed = x.delayed
      BY <2>5 DEF Frame, Adapters
    <3>3. SameBut(x.c["m"], d, {"isr"}) /\ d.isr = x.c["m"].isr \ {Cascade}
      BY <2>5 DEF Frame, Adapter, SameBut, Fields
    <3> HIDE DEF d, y
    <3>4. /\ d.irr = x.c["m"].irr /\ d.count = x.c["m"].count /\ d.cpuInt = x.c["m"].cpuInt
          /\ d.hipri = x.c["m"].hipri /\ d.aeoi = x.c["m"].aeoi
          /\ d.slaves = x.c["m"].slaves
          /\ d.imr = x.c["m"].imr /\ d.smm = x.c["m"].smm /\ d.sfnm = x.c["m"].sfnm
      BY <3>3 DEF SameBut, Fields
    <3>5. Adapter(d) /\ Requested(d)
      BY <2>5, <2>6, <3>3, <3>4 DEF Frame, Adapter, Requested, SameBut
    <3>6. Frame(y)
      BY <2>5, <3>2, <3>4, <3>5 DEF Frame
    <3>7. Linked(y) /\ ~y.c["m"].cpuInt
      BY <2>6, <3>2, <3>4 DEF Linked
    <3>8. Untouched(u, y)
      BY <2>8, <3>2, <3>4 DEF Untouched, Adapters
    <3>9. ASSUME Plain(u.c["m"]) PROVE Taken(u, y)
      <4>1. Rank(u.c["m"], Cascade) \in Nat
        BY Ranks DEF Sane, Frame
      <4>2. Cascade \notin u.c["m"].isr
        BY <2>2, <3>9, <4>1 DEF Deliverable, Plain
      <4>3. y.c["m"].isr = u.c["m"].isr
        BY <2>2, <2>5, <3>2, <3>3, <4>2
      <4>4. y.c["s"].isr = u.c["s"].isr
        BY <1>4, <2>4, <2>12, <3>2 DEF AcceptedBy
      <4> QED BY <3>1, <4>3, <4>4 DEF Taken
    <3>10. ~Backed(u)
      BY <2>3, <2>9, <2>12 DEF Backed
    <3>11. Aimed(u) => Backed(u)
      BY DEF Aimed, Backed
    <3>12. Told(y, "s") \/ ~Plain(u.c["s"])
      <4>1. Deliverable(y, "s") = Deliverable(x, "s")
        BY <3>2, SameAdapter
      <4> QED BY <2>10, <3>2, <4>1 DEF Told
    <3> QED BY <2>3, <2>5, <3>1, <3>2, <3>5, <3>6, <3>7, <3>8, <3>9, <3>10, <3>11, <3>12,
               <1>8, <3>4, ZenonT(30) DEF Silent, Single, z
  <2> QED BY <2>11, <2>12, Zenon
<1> QED BY <1>9, <1>10, ZenonT(30)

(***************************************************************************)
(* The guest's commands.                                                   *)
(***************************************************************************)
LEMMA AcknowledgeKeeps ==
  ASSUME N \in Nat \ {0}, Cascade \in Lines, NEW u, Sane(u)
  PROVE  LET v == Acknowledge(u) IN
         /\ Sane(v) /\ Untouched(u, v)
         /\ Plain(u.c["m"]) => Taken(u, v)
         /\ Silent(u) => Silent(v)
         /\ Single(u) => Single(v)
         /\ Plain(u.c["m"]) /\ Plain(u.c["s"]) =>
              /\ Backed(u) => Told(v, "m")
              /\ Told(u, "s") => Told(v, "s")
              /\ Backed(u) => Backed(v)
              /\ Aimed(u) => Aimed(v)
<1> DEFINE z == ica_intack(u)
           v == [z EXCEPT !.hwInt = FALSE]
<1>1. Acknowledge(u) = v
  BY DEF Acknowledge
<1>2. /\ Frame(z) /\ Requested(z.c["m"]) /\ Requested(z.c["s"]) /\ Linked(z)
      /\ ~z.c["m"].cpuInt /\ Untouched(u, z)
      /\ Plain(u.c["m"]) => Taken(u, z)
      /\ Silent(u) => Silent(z)
      /\ Single(u) => Single(z)
      /\ Plain(u.c["m"]) /\ Plain(u.c["s"]) =>
           /\ Backed(u) => Deliverable(z, "m") = {}
           /\ Told(u, "s") => Told(z, "s")
           /\ Backed(u) => Backed(z)
           /\ Aimed(u) => Aimed(z)
  BY IntackKeeps, Zenon
<1> HIDE DEF z
<1>3. /\ DOMAIN v = {"c", "hwInt", "lock", "delayed"} /\ v.c = z.c
      /\ v.lock = z.lock /\ v.delayed = z.delayed /\ ~v.hwInt
  BY <1>2 DEF Frame
<1> HIDE DEF v
<1>4. Sane(v)
  BY <1>2, <1>3 DEF Sane, Frame, Seen, Linked
<1>5. /\ Untouched(u, v) /\ (Taken(u, z) => Taken(u, v)) /\ (Silent(u) => Silent(v))
      /\ (Single(u) => Single(v))
  BY <1>2, <1>3, ZenonT(30) DEF Untouched, Taken, Silent, Single
<1>6. Deliverable(v, "m") = Deliverable(z, "m") /\ Deliverable(v, "s") = Deliverable(z, "s")
  BY <1>3, SameAdapter
<1> QED BY <1>1, <1>2, <1>3, <1>4, <1>5, <1>6, Zenon DEF Told, Backed, Aimed

(* The mask of a line whose interrupt is pending takes the interrupt back. *)
LEMMA UnmaskedKeeps ==
  ASSUME NEW u, Sane(u), Cascade \in Lines, NEW a \in Adapters
  PROVE  LET v == Unmasked(u, a) IN
         /\ Sane(v) /\ Quiet(u, v) /\ v.lock = u.lock /\ v.delayed = u.delayed
         /\ a = "m" => v.c["s"] = u.c["s"]
         /\ a = "s" => (Told(u, "m") => Told(v, "m"))
         /\ v.c[a].cpuInt => v = u /\ u.c[a].intLine \notin u.c[a].imr
         /\ Silent(u) => Silent(v)
         /\ Single(u) => Single(v)
<1> DEFINE c == u.c[a]
           d == [c EXCEPT !.cpuInt = FALSE]
           x == [u EXCEPT !.c[a].cpuInt = FALSE]
           v == Unmasked(u, a)
<1>1. CASE ~c.cpuInt \/ c.intLine \notin c.imr
  <2>1. v = u
    BY <1>1 DEF Unmasked
  <2>2. Quiet(u, v)
    BY <2>1 DEF Quiet
  <2> QED BY <1>1, <2>1, <2>2
<1>2. CASE ~(~c.cpuInt \/ c.intLine \notin c.imr)
  <2>1. Adapter(c) /\ Requested(c) /\ Frame(u)
    BY DEF Sane, Frame, Adapters
  <2>2. /\ DOMAIN x = {"c", "hwInt", "lock", "delayed"} /\ DOMAIN x.c = Adapters
        /\ x.c[a] = d /\ \A b \in Adapters : b # a => x.c[b] = u.c[b]
        /\ x.hwInt = u.hwInt /\ x.lock = u.lock /\ x.delayed = u.delayed
    BY <2>1, ZenonT(30) DEF Frame
  <2>3. SameBut(c, d, {"cpuInt"}) /\ ~d.cpuInt
    <3> HIDE DEF c
    <3> QED BY <2>1 DEF Adapter, SameBut, Fields
  <2>4. v = IF a = "m" THEN [x EXCEPT !.hwInt = FALSE] ELSE ClearMaster(x, u.c["s"].id)
    BY <1>2 DEF Unmasked
  <2> HIDE DEF d, x
  <2>5. /\ d.irr = c.irr /\ d.isr = c.isr /\ d.imr = c.imr /\ d.hipri = c.hipri
        /\ d.smm = c.smm /\ d.sfnm = c.sfnm /\ d.aeoi = c.aeoi /\ d.slaves = c.slaves
        /\ d.id = c.id /\ d.count = c.count
    BY <2>3 DEF SameBut, Fields
  <2>6. Frame(x) /\ Requested(x.c["m"]) /\ Requested(x.c["s"])
    <3>1. Adapter(d) /\ Requested(d)
      BY <2>1, <2>3, <2>5 DEF Adapter, Requested, SameBut
    <3> QED BY <2>1, <2>2, <2>5, <3>1 DEF Sane, Frame, Adapters
  <2>7. Quiet(u, x)
    BY <2>2, <2>5 DEF Quiet, Ordering, Adapters
  <2>8. CASE a = "m"
    <3>1. /\ DOMAIN v = {"c", "hwInt", "lock", "delayed"} /\ v.c = x.c
          /\ v.lock = x.lock /\ v.delayed = x.delayed /\ ~v.hwInt
      BY <2>4, <2>6, <2>8 DEF Frame
    <3> HIDE DEF v
    <3>2. ~v.c["m"].cpuInt /\ v.c["s"] = u.c["s"] /\ v.c["m"].count = u.c["m"].count
      BY <2>2, <2>3, <2>5, <2>8, <3>1 DEF Adapters
    <3>3. Sane(v)
      BY <2>6, <3>1, <3>2 DEF Sane, Frame, Seen, Linked
    <3>4. Quiet(u, v)
      BY <2>7, <3>1 DEF Quiet
    <3> QED BY <2>2, <2>8, <3>1, <3>2, <3>3, <3>4 DEF Silent, Single, v
  <2>9. CASE a = "s"
    <3>1. v = ClearMaster(x, Cascade)
      BY <2>1, <2>4, <2>9 DEF Frame
    <3>2. ~x.c["s"].cpuInt /\ x.c["m"] = u.c["m"]
      BY <2>2, <2>3, <2>9 DEF Adapters
    <3>3. x.c["m"].count[Cascade] <= 1 /\ Seen(x) /\ Slack(x.c["m"], Cascade)
      BY <2>2, <2>6, <3>2 DEF Sane, Linked, Seen, Slack, Requested
    <3>4. /\ Sane(v) /\ Quiet(x, v) /\ v.lock = x.lock /\ v.delayed = x.delayed
          /\ v.c["s"] = x.c["s"] /\ (Told(x, "m") => Told(v, "m"))
          /\ Single(x) => Single(v)
      BY <2>6, <3>1, <3>2, <3>3, ClearMasterKeeps, Zenon
    <3> HIDE DEF v
    <3>5. Deliverable(x, "m") = Deliverable(u, "m")
      BY <2>2, <3>2, SameAdapter
    <3>6. Told(u, "m") => Told(v, "m")
      BY <3>2, <3>4, <3>5 DEF Told
    <3>7. Quiet(u, v)
      BY <2>7, <3>4, QuietChain
    <3> QED BY <1>2, <2>2, <2>9, <3>2, <3>4, <3>6, <3>7
            DEF Silent, Single, v
  <2> QED BY <2>8, <2>9 DEF Adapters
<1> QED BY <1>1, <1>2, Zenon

(* A command that changes only one controller's mask.                      *)
LEMMA MaskIs ==
  ASSUME NEW u, Sane(u), NEW a \in Adapters, NEW mask
  PROVE  LET v == [Locked(u) EXCEPT !.c[a].imr = mask] IN
         /\ Sane(v) /\ v.lock = 1 /\ v.delayed = u.delayed /\ v.c[a].imr = mask
         /\ SameBut(u.c[a], v.c[a], {"imr"})
         /\ \A b \in Adapters : b # a => v.c[b] = u.c[b]
<1> DEFINE c == u.c[a]
           d == [c EXCEPT !.imr = mask]
           t == [u EXCEPT !.lock = 1]
           v == [t EXCEPT !.c[a].imr = mask]
<1>1. Sane(t) /\ t.c = u.c /\ t.lock = 1 /\ t.hwInt = u.hwInt /\ t.delayed = u.delayed
  BY LockKeeps
<1> HIDE DEF t
<1>2. Adapter(c) /\ Requested(c) /\ Frame(u) /\ Frame(t)
  BY <1>1 DEF Sane, Frame, Adapters
<1>3. /\ DOMAIN v = {"c", "hwInt", "lock", "delayed"} /\ DOMAIN v.c = Adapters
      /\ v.c[a] = d /\ \A b \in Adapters : b # a => v.c[b] = u.c[b]
      /\ v.hwInt = u.hwInt /\ v.lock = 1 /\ v.delayed = u.delayed
  BY <1>1, <1>2 DEF Frame
<1>4. SameBut(c, d, {"imr"}) /\ d.imr = mask
  <2> HIDE DEF c
  <2> QED BY <1>2 DEF Adapter, SameBut, Fields
<1> HIDE DEF d, v
<1>5. /\ d.irr = c.irr /\ d.isr = c.isr /\ d.hipri = c.hipri /\ d.cpuInt = c.cpuInt
      /\ d.aeoi = c.aeoi /\ d.slaves = c.slaves /\ d.id = c.id /\ d.count = c.count
  BY <1>4 DEF SameBut, Fields
<1>6. Sane(v)
  <2>1. Adapter(d) /\ Requested(d)
    BY <1>2, <1>4, <1>5 DEF Adapter, Requested, SameBut
  <2>2. Frame(v)
    BY <1>2, <1>3, <1>5, <2>1 DEF Frame, Adapters
  <2>3. Requested(v.c["m"]) /\ Requested(v.c["s"]) /\ Seen(v) /\ Linked(v)
    BY <1>3, <1>5, <2>1 DEF Sane, Seen, Linked, Adapters
  <2> QED BY <2>2, <2>3 DEF Sane
<1>7. [Locked(u) EXCEPT !.c[a].imr = mask] = v
  BY DEF Locked, v, t
<1> QED BY <1>3, <1>4, <1>6, <1>7

MaskedBy(u, v, a, mask) ==
  /\ Sane(v) /\ v.lock = 0 /\ v.delayed = u.delayed /\ v.c[a].imr = mask
  /\ \A b \in Adapters, f \in Ordering \ {"imr"} : v.c[b][f] = u.c[b][f]
  /\ \A b \in Adapters \ {a} : v.c[b].imr = u.c[b].imr
  /\ Told(v, a)
  /\ \A b \in Adapters : Told(u, b) => Told(v, b)
  /\ Aimed(u) => Aimed(v)
  /\ (a = "s" => mask = u.c["s"].imr) => (Backed(u) => Backed(v))
  /\ Silent(u) => Silent(v)
  /\ Single(u) => Single(v)

(* A mask: the INT line is lowered for a masked line, and raised for what  *)
(* the mask lets through.                                                  *)
LEMMA Ocw1Keeps ==
  ASSUME N \in Nat \ {0}, Cascade \in Lines, NEW u, Sane(u), NEW a \in Adapters, NEW mask
  PROVE  MaskedBy(u, ocw1(u, a, mask), a, mask)
<1> DEFINE x == [Locked(u) EXCEPT !.c[a].imr = mask]
           y == Unmasked(x, a)
           z == IF y.c[a].cpuInt THEN y ELSE Signal(y, a)
           v == [z EXCEPT !.lock = 0]
<1>1. ocw1(u, a, mask) = v
  BY DEF ocw1, Unlocked
<1>2. /\ Sane(x) /\ x.lock = 1 /\ x.delayed = u.delayed /\ x.c[a].imr = mask
      /\ SameBut(u.c[a], x.c[a], {"imr"})
      /\ \A b \in Adapters : b # a => x.c[b] = u.c[b]
  BY MaskIs
<1> HIDE DEF x
<1>3. /\ x.c[a].irr = u.c[a].irr /\ x.c[a].isr = u.c[a].isr
      /\ x.c[a].hipri = u.c[a].hipri /\ x.c[a].smm = u.c[a].smm
      /\ x.c[a].sfnm = u.c[a].sfnm /\ x.c[a].cpuInt = u.c[a].cpuInt
      /\ x.c[a].intLine = u.c[a].intLine /\ x.c[a].count = u.c[a].count
  BY <1>2 DEF SameBut, Fields
<1>4. /\ Sane(y) /\ Quiet(x, y) /\ y.lock = 1 /\ y.delayed = x.delayed
      /\ a = "m" => y.c["s"] = x.c["s"]
      /\ a = "s" => (Told(x, "m") => Told(y, "m"))
      /\ y.c[a].cpuInt => y = x /\ x.c[a].intLine \notin x.c[a].imr
      /\ Silent(x) => Silent(y)
      /\ Single(x) => Single(y)
  BY <1>2, UnmaskedKeeps
<1> HIDE DEF y
<1>5. /\ Sane(z) /\ Quiet(y, z) /\ z.delayed = y.delayed
      /\ a = "m" => z.c["s"] = y.c["s"]
      /\ Told(z, a) /\ (Told(y, "m") => Told(z, "m"))
      /\ Silent(y) => Silent(z)
      /\ Single(y) => Single(z)
  <2>1. CASE y.c[a].cpuInt
    BY <1>4, <2>1 DEF Quiet, Told
  <2>2. CASE ~y.c[a].cpuInt
    BY <1>4, <2>2, SignalKeeps, Zenon
  <2> QED BY <2>1, <2>2, ZenonT(30)
<1>6. a = "s" /\ ~y.c["s"].cpuInt => Aimed(z)
  <2> SUFFICES ASSUME a = "s", ~y.c["s"].cpuInt PROVE Aimed(z)
    OBVIOUS
  <2>1. Backed(y)
    BY DEF Backed
  <2>2. Backed(y) => Aimed(Signal(y, a))
    BY <1>4, SignalKeeps
  <2> QED BY <2>1, <2>2
<1>7. y.c[a].cpuInt => z = x
  BY <1>4
<1> HIDE DEF z
<1>8. Sane(v) /\ v.c = z.c /\ v.lock = 0 /\ v.delayed = z.delayed
  BY <1>5, LockKeeps
<1> HIDE DEF v
<1>9. \A b \in Adapters : Deliverable(v, b) = Deliverable(z, b)
  BY <1>8, SameAdapter
<1>10. \A b \in Adapters, f \in Ordering : v.c[b][f] = x.c[b][f]
  BY <1>4, <1>5, <1>8 DEF Quiet
<1>11. \A b \in Adapters, f \in Ordering \ {"imr"} : x.c[b][f] = u.c[b][f]
  BY <1>2, <1>3 DEF Ordering
<1>12. \A b \in Adapters, f \in Ordering \ {"imr"} : v.c[b][f] = u.c[b][f]
  BY <1>10, <1>11
<1>13. v.c[a].imr = mask /\ \A b \in Adapters \ {a} : v.c[b].imr = u.c[b].imr
  BY <1>2, <1>10 DEF Ordering
<1>14. Told(v, a)
  BY <1>5, <1>8, <1>9 DEF Told
<1>15. (Silent(u) => Silent(v)) /\ (Single(u) => Single(v))
  <2>1. (Silent(u) => Silent(x)) /\ (Single(u) => Single(x))
    BY <1>2, <1>3 DEF Silent, Single, Adapters
  <2> QED BY <1>4, <1>5, <1>8, <2>1 DEF Silent, Single
<1>16. CASE a = "m"
  <2>1. v.c["s"] = u.c["s"] /\ v.delayed = u.delayed
    BY <1>2, <1>4, <1>5, <1>8, <1>16 DEF Adapters
  <2>2. Deliverable(v, "s") = Deliverable(u, "s")
    BY <2>1, SameAdapter
  <2>3. /\ Told(u, "s") => Told(v, "s")
        /\ Aimed(u) => Aimed(v)
        /\ Backed(u) => Backed(v)
    BY <2>1, <2>2 DEF Told, Aimed, Backed
  <2>4. \A b \in Adapters : Told(u, b) => Told(v, b)
    BY <1>14, <1>16, <2>3 DEF Adapters
  <2> QED BY <1>1, <1>8, <1>12, <1>13, <1>14, <1>15, <2>1, <2>3, <2>4, Zenon DEF MaskedBy
<1>17. CASE a = "s"
  <2>1. x.c["m"] = u.c["m"]
    BY <1>2, <1>17 DEF Adapters
  <2>2. Deliverable(x, "m") = Deliverable(u, "m")
    BY <1>2, <2>1, SameAdapter
  <2>3. Told(u, "m") => Told(v, "m")
    BY <1>4, <1>5, <1>8, <1>9, <1>17, <2>1, <2>2 DEF Told, Adapters
  <2>4. ~y.c["s"].cpuInt => Aimed(v)
    BY <1>6, <1>8, <1>9, <1>17 DEF Aimed, Adapters
  <2>5. Aimed(u) => Aimed(v)
    <3> SUFFICES ASSUME Aimed(u), y.c["s"].cpuInt PROVE Aimed(v)
      BY <2>4
    <3>1. z = x /\ y = x /\ x.c["s"].intLine \notin x.c["s"].imr
      BY <1>4, <1>7, <1>17
    <3>2. x.c["s"].intLine \in Deliverable(u, "s")
      BY <1>3, <1>17, <3>1 DEF Aimed
    <3>3. x.c["s"].intLine \in Deliverable(x, "s")
      BY <1>2, <1>3, <1>17, <3>1, <3>2, Zenon DEF Deliverable, Rank
    <3> QED BY <1>8, <1>9, <3>1, <3>3 DEF Aimed, Adapters
  <2>6. mask = u.c["s"].imr => (Backed(u) => Backed(v))
    <3> SUFFICES ASSUME Backed(u), y.c["s"].cpuInt, mask = u.c["s"].imr PROVE Backed(v)
      BY <2>4 DEF Aimed, Backed
    <3>1. z = x /\ y = x
      BY <1>4, <1>7, <1>17
    <3>2. Deliverable(x, "s") = Deliverable(u, "s")
      BY <1>2, <1>3, <1>17, Zenon DEF Deliverable, Rank
    <3> QED BY <1>3, <1>8, <1>9, <1>17, <3>1, <3>2 DEF Backed, Adapters
  <2>7. v.delayed = u.delayed
    BY <1>2, <1>4, <1>5, <1>8
  <2>8. \A b \in Adapters : Told(u, b) => Told(v, b)
    BY <1>14, <1>17, <2>3 DEF Adapters
  <2> QED BY <1>1, <1>8, <1>12, <1>13, <1>14, <1>15, <1>17, <2>5, <2>6, <2>7, <2>8, Zenon
          DEF MaskedBy
<1> QED BY <1>16, <1>17, Zenon DEF Adapters

(* The end of interrupt as the guest writes it, under the lock.            *)
LEMMA Ocw2EoiKeeps ==
  ASSUME N \in Nat \ {0}, Cascade \in Lines, NEW u, Sane(u),
         NEW a \in Adapters, NEW line, NEW rotate \in BOOLEAN, rotate => line = None
  PROVE  LET v == ocw2_eoi(u, a, line, rotate) IN
         v.lock = 0 /\ EndedBy(u, v, a, line, rotate)
<1> DEFINE x == [u EXCEPT !.lock = 1]
           y == ica_eoi(x, a, line, rotate)
           v == [y EXCEPT !.lock = 0]
<1>1. ocw2_eoi(u, a, line, rotate) = v
  BY DEF ocw2_eoi, Locked, Unlocked
<1>2. Sane(x) /\ x.c = u.c /\ x.lock = 1 /\ x.delayed = u.delayed
  BY LockKeeps
<1> HIDE DEF x
<1>3. EndedBy(x, y, a, line, rotate)
  BY <1>2, EoiKeeps, Zenon
<1> HIDE DEF y
<1>4. Sane(v) /\ v.c = y.c /\ v.lock = 0 /\ v.delayed = y.delayed
  BY <1>3, LockKeeps DEF EndedBy
<1> HIDE DEF v
<1>5. EoiLine(x, a, line) = EoiLine(u, a, line)
  BY <1>2, Zenon DEF EoiLine
<1>6. /\ Deliverable(v, "m") = Deliverable(y, "m") /\ Deliverable(v, "s") = Deliverable(y, "s")
      /\ Deliverable(x, "m") = Deliverable(u, "m") /\ Deliverable(x, "s") = Deliverable(u, "s")
  BY <1>2, <1>4, SameAdapter
<1>7. Kept(x, y) => Kept(u, v)
  BY <1>2, <1>4, <1>6, Zenon DEF Kept, Told, Backed, Aimed
<1>8. /\ (Silent(u) => Silent(x)) /\ (Silent(y) => Silent(v))
      /\ (Single(u) => Single(x)) /\ (Single(y) => Single(v))
  BY <1>2, <1>4, Zenon DEF Silent, Single
<1>9. EndedBy(u, v, a, line, rotate)
  BY <1>2, <1>3, <1>4, <1>5, <1>7, <1>8, Zenon DEF EndedBy
<1> QED BY <1>1, <1>4, <1>9

(* A poll of the master, of a board whose slave is silent.                 *)
LEMMA PollKeeps ==
  ASSUME N \in Nat \ {0}, Cascade \in Lines, NEW u, Sane(u), Silent(u)
  PROVE  LET v == inb_poll(ocw3_poll(u, "m"), "m") IN
         /\ Sane(v) /\ v.lock = 0 /\ v.delayed = u.delayed /\ v.c["s"] = u.c["s"]
         /\ \A f \in {"imr", "hipri", "smm", "sfnm"} : v.c["m"][f] = u.c["m"][f]
         /\ Single(u) => Single(v)
         /\ Plain(u.c["m"]) => Told(v, "m")
         /\ IF Deliverable(u, "m") = {} THEN v.c["m"].isr = u.c["m"].isr
            ELSE /\ v.c["m"].isr = u.c["m"].isr \cup {Scan(u, "m")}
                 /\ Scan(u, "m") \in Deliverable(u, "m") /\ Scan(u, "m") # Cascade
<1> DEFINE c == u.c["m"]
           d == [c EXCEPT !.poll = FALSE]
           p == ocw3_poll(u, "m")
           x == [Locked(p) EXCEPT !.c["m"].poll = FALSE]
           y == ica_accept(x, "m")
           z == IF Deliverable(x, "m") = {} THEN x ELSE [y EXCEPT !.hwInt = FALSE]
           v == [z EXCEPT !.lock = 0]
<1>1. inb_poll(p, "m") = v
  BY DEF inb_poll, Unlocked
<1>2. /\ DOMAIN x = {"c", "hwInt", "lock", "delayed"} /\ DOMAIN x.c = Adapters
      /\ x.c["m"] = d /\ x.c["s"] = u.c["s"] /\ x.lock = 1
      /\ x.hwInt = u.hwInt /\ x.delayed = u.delayed
  BY ZenonT(30) DEF ocw3_poll, Locked, Unlocked, Sane, Frame, Adapter, Adapters, Fields
<1>3. SameBut(c, d, {"poll"})
  BY DEF Sane, Frame, Adapter, SameBut, Fields
<1> HIDE DEF d, x, p
<1>4. /\ d.irr = c.irr /\ d.isr = c.isr /\ d.imr = c.imr /\ d.hipri = c.hipri
      /\ d.smm = c.smm /\ d.sfnm = c.sfnm /\ d.aeoi = c.aeoi /\ d.slaves = c.slaves
      /\ d.cpuInt = c.cpuInt /\ d.count = c.count
  BY <1>3 DEF SameBut, Fields
<1>5. Sane(x)
  <2>1. Adapter(d) /\ Requested(d)
    BY <1>3, <1>4 DEF Adapter, Requested, SameBut, Sane, Frame
  <2>2. Frame(x)
    BY <1>2, <1>4, <2>1 DEF Sane, Frame
  <2> QED BY <1>2, <1>4, <2>1, <2>2 DEF Sane, Seen, Linked
<1>6. Deliverable(x, "m") = Deliverable(u, "m") /\ Scan(x, "m") = Scan(u, "m")
  <2>1. Deliverable(x, "m") = Deliverable(u, "m")
    BY <1>2, <1>4, Zenon DEF Deliverable, Rank
  <2>2. x.c["m"].hipri = u.c["m"].hipri
    BY <1>2, <1>4
  <2> QED BY <2>1, <2>2, Zenon DEF Scan, Highest, Rank
<1>7. Single(u) => Single(x)
  BY <1>2, <1>4 DEF Single
<1>8. CASE Deliverable(u, "m") = {}
  <2>1. z = x
    BY <1>6, <1>8
  <2> HIDE DEF z
  <2>2. Sane(v) /\ v.c = x.c /\ v.lock = 0 /\ v.delayed = x.delayed
    BY <1>5, <2>1, LockKeeps
  <2> HIDE DEF v
  <2>3. Deliverable(v, "m") = {}
    BY <1>6, <1>8, <2>2, SameAdapter
  <2> QED BY <1>1, <1>2, <1>4, <1>7, <1>8, <2>2, <2>3 DEF Told, Single, p
<1>9. CASE Deliverable(u, "m") # {}
  <2> DEFINE q == [y EXCEPT !.hwInt = FALSE]
  <2>1. z = q
    BY <1>6, <1>9
  <2>2. AcceptedBy(x, y, "m")
    BY <1>5, AcceptIs, Zenon DEF Sane, Adapters
  <2>3. Accepted(x, "m") = Scan(u, "m")
    BY <1>6, <1>9 DEF Accepted
  <2>4. Scan(u, "m") \in Deliverable(u, "m") /\ Scan(u, "m") \in Lines
    BY <1>9, ScanIs DEF Sane, Adapters
  <2>5. Scan(u, "m") # Cascade /\ Scan(u, "m") # None
    <3>1. Cascade \notin u.c["m"].irr
      BY DEF Sane, Silent, Linked, Requested
    <3>2. Scan(u, "m") \in u.c["m"].irr
      BY <2>4 DEF Deliverable
    <3> QED BY <2>4, <3>1, <3>2 DEF Lines, None
  <2> HIDE DEF y, z
  <2>6. /\ Frame(y) /\ Requested(y.c["m"]) /\ ~y.c["m"].cpuInt /\ y.c["s"] = u.c["s"]
        /\ y.delayed = u.delayed /\ y.c["m"].isr = u.c["m"].isr \cup {Scan(u, "m")}
        /\ y.c["m"].count[Cascade] = u.c["m"].count[Cascade]
        /\ Plain(u.c["m"]) => Deliverable(y, "m") = {}
        /\ SameBut(d, y.c["m"], {"irr", "isr", "count", "cpuInt"})
        /\ \A l \in Lines : y.c["m"].count[l] <= x.c["m"].count[l]
    BY <1>2, <1>4, <2>2, <2>3, <2>5, ZenonT(30) DEF AcceptedBy, Adapters, Plain
  <2>7. /\ y.c["m"].imr = c.imr /\ y.c["m"].hipri = c.hipri
        /\ y.c["m"].smm = c.smm /\ y.c["m"].sfnm = c.sfnm
    BY <1>4, <2>6, ZenonT(30) DEF SameBut, Fields
  <2>8. /\ DOMAIN q = {"c", "hwInt", "lock", "delayed"} /\ q.c = y.c
        /\ q.delayed = y.delayed
    BY <2>6 DEF Frame
  <2> HIDE DEF q
  <2>9. Sane(q)
    BY <2>6, <2>8, Zenon DEF Sane, Frame, Seen, Linked
  <2>10. Sane(v) /\ v.c = q.c /\ v.lock = 0 /\ v.delayed = q.delayed
    BY <2>1, <2>9, LockKeeps
  <2> HIDE DEF v
  <2>11. Plain(u.c["m"]) => Told(v, "m")
    <3>1. Deliverable(v, "m") = Deliverable(y, "m")
      BY <2>8, <2>10, SameAdapter
    <3> QED BY <2>6, <3>1 DEF Told
  <2>12. Single(u) => Single(v)
    <3>1. \A l \in Lines : y.c["m"].count[l] \in Nat /\ x.c["m"].count[l] \in Nat
      BY <1>5, <2>6, ZenonT(30) DEF Sane, Frame, Adapter
    <3>2. Single(x) => Single(y)
      BY <2>6, <3>1 DEF Single
    <3> QED BY <1>7, <2>8, <2>10, <3>2 DEF Single
  <2> QED BY <1>1, <1>9, <2>4, <2>5, <2>6, <2>7, <2>8, <2>10, <2>11, <2>12, ZenonT(30) DEF p
<1> QED BY <1>8, <1>9, Zenon

(* Priorities and the mask mode.                                           *)
LEMMA OrderKeeps ==
  ASSUME N \in Nat \ {0}, NEW u, Sane(u), NEW a \in Adapters, NEW line \in Lines, NEW on,
         NEW v, v \in {ocw2_priority(u, a, line), ocw3_smm(u, a, on)}
  PROVE  /\ Sane(v) /\ v.lock = 0 /\ v.delayed = u.delayed
         /\ \A b \in Adapters : v.c[b].imr = u.c[b].imr
         /\ Silent(u) => Silent(v)
         /\ Single(u) => Single(v)
<1> DEFINE c == u.c[a]
           h == (line + 1) % N
           d == [c EXCEPT !.hipri = h]
           e == [c EXCEPT !.smm = on]
<1>1. Adapter(c) /\ Requested(c) /\ Frame(u)
  BY DEF Sane, Frame, Adapters
<1>2. h \in Lines
  BY SMTT(30) DEF Lines
<1> HIDE DEF h
<1>3. /\ SameBut(c, d, {"hipri"}) /\ d.hipri = h
      /\ SameBut(c, e, {"smm"})
  <2> HIDE DEF c
  <2> QED BY <1>1 DEF Adapter, SameBut, Fields
<1> HIDE DEF d, e
<1>4. PICK k \in {d, e} : /\ DOMAIN v = {"c", "hwInt", "lock", "delayed"}
                          /\ DOMAIN v.c = Adapters
                          /\ v.c[a] = k /\ \A b \in Adapters : b # a => v.c[b] = u.c[b]
                          /\ v.hwInt = u.hwInt /\ v.lock = 0 /\ v.delayed = u.delayed
  <2>1. CASE v = ocw2_priority(u, a, line)
    <3>1. /\ DOMAIN v = {"c", "hwInt", "lock", "delayed"} /\ DOMAIN v.c = Adapters
          /\ v.c[a] = d /\ \A b \in Adapters : b # a => v.c[b] = u.c[b]
          /\ v.hwInt = u.hwInt /\ v.lock = 0 /\ v.delayed = u.delayed
      BY <1>1, <2>1 DEF Frame, ocw2_priority, Unlocked, d, h
    <3> QED BY <3>1
  <2>2. CASE v = ocw3_smm(u, a, on)
    <3>1. /\ DOMAIN v = {"c", "hwInt", "lock", "delayed"} /\ DOMAIN v.c = Adapters
          /\ v.c[a] = e /\ \A b \in Adapters : b # a => v.c[b] = u.c[b]
          /\ v.hwInt = u.hwInt /\ v.lock = 0 /\ v.delayed = u.delayed
      BY <1>1, <2>2 DEF Frame, ocw3_smm, Unlocked, e
    <3> QED BY <3>1
  <2> QED BY <2>1, <2>2
<1>5. /\ k.irr = c.irr /\ k.isr = c.isr /\ k.imr = c.imr /\ k.hipri \in Lines
      /\ k.aeoi = c.aeoi /\ k.slaves = c.slaves /\ k.id = c.id
      /\ k.cpuInt = c.cpuInt /\ k.count = c.count /\ DOMAIN k = Fields
  <2>1. CASE k = d
    BY <1>2, <1>3, <2>1 DEF SameBut, Fields
  <2>2. CASE k = e
    BY <1>1, <1>3, <2>2 DEF SameBut, Fields, Adapter
  <2> QED BY <2>1, <2>2
<1>6. Sane(v)
  <2>1. Adapter(k) /\ Requested(k)
    BY <1>1, <1>5 DEF Adapter, Requested
  <2>2. Frame(v)
    BY <1>1, <1>4, <1>5, <2>1 DEF Frame, Adapters
  <2>3. Requested(v.c["m"]) /\ Requested(v.c["s"]) /\ Seen(v) /\ Linked(v)
    BY <1>4, <1>5, <2>1 DEF Sane, Seen, Linked, Adapters
  <2> QED BY <2>2, <2>3 DEF Sane
<1>7. (Silent(u) => Silent(v)) /\ (Single(u) => Single(v))
  BY <1>4, <1>5 DEF Silent, Single, Adapters
<1> QED BY <1>4, <1>5, <1>6, <1>7

(* A posted board.                                                         *)
Posted(u, masks) ==
  /\ Sane(u) /\ u.lock = 0 /\ Silent(u) /\ Single(u)
  /\ \A a \in Adapters : /\ u.c[a].isr = {} /\ u.c[a].irr = {} /\ ~u.c[a].cpuInt
                         /\ u.c[a].hipri = 0 /\ Plain(u.c[a])
                         /\ u.c[a].imr = masks[a]

(* The power-on self-test leaves both controllers idle.                    *)
LEMMA PostIs ==
  ASSUME N \in Nat \ {0}, Cascade \in Lines, NEW masks
  PROVE  Posted(Post(masks), masks)
<1> DEFINE m == Controller(masks["m"], {Cascade}, 0)
           s == Controller(masks["s"], {}, Cascade)
           u == Post(masks)
<1>1. /\ DOMAIN m = Fields /\ m.irr = {} /\ m.isr = {} /\ m.count = [l \in Lines |-> 0]
      /\ m.hipri = 0 /\ ~m.cpuInt /\ m.slaves = {Cascade} /\ ~m.smm /\ ~m.sfnm /\ ~m.aeoi
      /\ m.imr = masks["m"]
  BY ZenonT(30) DEF Controller, Fields
<1>2. /\ DOMAIN s = Fields /\ s.irr = {} /\ s.isr = {} /\ s.count = [l \in Lines |-> 0]
      /\ s.hipri = 0 /\ ~s.cpuInt /\ s.id = Cascade /\ ~s.smm /\ ~s.sfnm /\ ~s.aeoi
      /\ s.imr = masks["s"]
  BY ZenonT(30) DEF Controller, Fields
<1> HIDE DEF m, s
<1>3. /\ DOMAIN u = {"c", "hwInt", "lock", "delayed"} /\ DOMAIN u.c = Adapters
      /\ u.c["m"] = m /\ u.c["s"] = s /\ u.lock = 0 /\ DOMAIN u.delayed = Adapters
  BY DEF Post, Adapters, m, s
<1> HIDE DEF u
<1>4. 0 \in Lines
  BY DEF Lines
<1>5. Frame(u) /\ Requested(u.c["m"]) /\ Requested(u.c["s"])
  BY <1>1, <1>2, <1>3, <1>4 DEF Frame, Adapter, Requested
<1>6. Sane(u)
  BY <1>1, <1>2, <1>3, <1>5 DEF Sane, Seen, Linked
<1> QED BY <1>1, <1>2, <1>3, <1>6 DEF Posted, Silent, Single, Adapters, Plain, u

(* So does a cold run.                                                     *)
LEMMA ColdResetIs ==
  ASSUME N \in Nat \ {0}, Cascade \in Lines, NEW masks
  PROVE  Posted([SWPIC_clear_int(Post(masks), "m", 0) EXCEPT !.hwInt = FALSE], masks)
<1> DEFINE u == Post(masks)
           x == SWPIC_clear_int(u, "m", 0)
           v == [x EXCEPT !.hwInt = FALSE]
<1>1. Posted(u, masks)
  BY PostIs
<1> HIDE DEF u
<1>2. /\ Frame(u) /\ Slack(u.c["m"], 0) /\ Requested(u.c["s"]) /\ Seen(u) /\ Linked(u)
      /\ 0 \in Lines /\ ~u.c["s"].cpuInt /\ u.c["m"].count[Cascade] <= 1
  BY <1>1 DEF Posted, Sane, Slack, Requested, Lines, Single, Silent
<1>3. x = ClearMaster(u, 0)
  BY DEF SWPIC_clear_int
<1>4. /\ Sane(x) /\ Quiet(u, x) /\ x.lock = u.lock /\ x.c["s"] = u.c["s"]
      /\ SameBut(u.c["m"], x.c["m"], {"irr", "count", "cpuInt"})
      /\ Single(u) => Single(x)
  BY <1>2, <1>3, ClearMasterKeeps, Zenon
<1>5. x.c["m"].irr = {} /\ ~x.c["m"].cpuInt
  <2> DEFINE y == Withdraw(u, "m", 0)
  <2>1. Withdrawn(u, y, "m", 0)
    BY <1>2, WithdrawIs DEF Adapters
  <2>2. y.c["m"].irr = {} /\ ~y.c["m"].cpuInt
    BY <1>1, <2>1, Zenon DEF Withdrawn, Posted, Adapters, SameBut, Fields
  <2>3. x = y
    BY <1>3, <2>2 DEF ClearMaster
  <2> QED BY <2>2, <2>3
<1> HIDE DEF x
<1>6. /\ DOMAIN v = {"c", "hwInt", "lock", "delayed"} /\ v.c = x.c /\ v.lock = 0
      /\ v.delayed = x.delayed
  BY <1>1, <1>4 DEF Sane, Frame, Posted
<1> HIDE DEF v
<1>7. Sane(v)
  BY <1>4, <1>5, <1>6 DEF Sane, Frame, Seen, Linked
<1>8. \A a \in Adapters, f \in Ordering : v.c[a][f] = u.c[a][f]
  BY <1>4, <1>6 DEF Quiet
<1>9. \A a \in Adapters : /\ v.c[a].isr = {} /\ v.c[a].hipri = 0 /\ Plain(v.c[a])
                          /\ v.c[a].imr = masks[a]
  BY <1>1, <1>8 DEF Posted, Ordering, Plain
<1>10. \A a \in Adapters : v.c[a].irr = {} /\ ~v.c[a].cpuInt
  BY <1>1, <1>4, <1>5, <1>6 DEF Posted, Adapters
<1>11. Silent(v) /\ Single(v)
  BY <1>1, <1>4, <1>6, <1>10 DEF Posted, Silent, Single, Adapters
<1>12. Posted(v, masks)
  BY <1>6, <1>7, <1>9, <1>10, <1>11 DEF Posted
<1> QED BY <1>12 DEF v, x, u

(* A line is held back, or no longer.                                      *)
LEMMA DelayIs ==
  ASSUME NEW u, Sane(u), NEW D
  PROVE  LET v == [u EXCEPT !.delayed["m"] = D] IN
         /\ Sane(v) /\ v.c = u.c /\ v.lock = u.lock
         /\ v.delayed["m"] = D /\ v.delayed["s"] = u.delayed["s"]
<1> DEFINE v == [u EXCEPT !.delayed["m"] = D]
<1>1. /\ DOMAIN v = {"c", "hwInt", "lock", "delayed"}
      /\ v.c = u.c /\ v.lock = u.lock /\ v.hwInt = u.hwInt
      /\ DOMAIN v.delayed = Adapters /\ v.delayed["m"] = D
      /\ v.delayed["s"] = u.delayed["s"]
  BY DEF Sane, Frame, Adapters
<1> HIDE DEF v
<1> QED BY <1>1 DEF Sane, Frame, Seen, Linked, v
=============================================================================
