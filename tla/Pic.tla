-------------------------------- MODULE Pic --------------------------------
(***************************************************************************)
(* The two interrupt controllers of the AT (base/system/ica.c) as          *)
(* operators on their joint state: a master whose INT line is the CPU's    *)
(* hardware-interrupt bit and a slave whose INT line is one line of the    *)
(* master.  The call chain of ica.c is kept: a slave raises the master     *)
(* through ica_hw_interrupt, under the lock counter that this call tests.  *)
(*                                                                         *)
(* A register is the set of its lines.  IRET hooks are never enabled by    *)
(* this CPU and no device registers an interrupt action: the branches of   *)
(* ica.c that they alone reach are left out.                               *)
(***************************************************************************)
EXTENDS Integers, FiniteSets

CONSTANTS
  N,        \* lines of a controller: 8
  Cascade   \* the master's line that the slave drives: 2

Lines == 0..(N - 1)
Adapters == {"m", "s"}
None == -1

(* ADAPTER_STATE.  ssr is the master's set of slave lines, and the slave's *)
(* own line number; seq is the static sequence of SWPIC_outb.              *)
Controllers ==
  [irr : SUBSET Lines, isr : SUBSET Lines, imr : SUBSET Lines, count : [Lines -> Int],
   hipri : Lines, intLine : Lines, cpuInt : BOOLEAN, slaves : SUBSET Lines, id : Lines,
   smm : BOOLEAN, sfnm : BOOLEAN, aeoi : BOOLEAN, raeoi : BOOLEAN, poll : BOOLEAN,
   seq : {-1, 0, 2, 3, 4}]

(* Both controllers, the CPU's hardware-interrupt bit, ica_lock, and the   *)
(* lines held back by a delayed delivery (DelayIrqLine).                   *)
Boards ==
  [c : [Adapters -> Controllers], hwInt : BOOLEAN, lock : 0..255,
   delayed : [Adapters -> SUBSET Lines]]

(***************************************************************************)
(* ica_scan_irr: requests that are neither masked nor held back, and not   *)
(* blocked by a line in service of the same or a higher priority.          *)
(***************************************************************************)
Rank(c, line) == (line + N - c.hipri) % N

Deliverable(w, a) ==
  LET c == w.c[a]
  IN {l \in c.irr \ (c.imr \cup w.delayed[a]) :
        c.smm \/ c.sfnm \/ \A k \in c.isr : Rank(c, k) > Rank(c, l)}

Highest(c, S) == CHOOSE l \in S : \A k \in S : Rank(c, l) <= Rank(c, k)
Scan(w, a) == Highest(w.c[a], Deliverable(w, a))

(***************************************************************************)
(* ica_interrupt_cpu and SWPIC_hw_interrupt.                               *)
(***************************************************************************)
RaiseMaster(w, line) ==
  IF w.c["m"].cpuInt THEN [w EXCEPT !.c["m"].intLine = line]
  ELSE [w EXCEPT !.c["m"] = [w.c["m"] EXCEPT !.intLine = line, !.cpuInt = TRUE], !.hwInt = TRUE]

Request(w, a, line, n) ==
  [w EXCEPT !.c[a] = [w.c[a] EXCEPT !.irr = @ \cup {line}, !.count[line] = @ + n]]

SignalMaster(w) ==
  IF Deliverable(w, "m") = {} THEN w ELSE RaiseMaster(w, Scan(w, "m"))

(* A call that finds the lock taken leaves its request for a later pass.   *)
HwInterruptMaster(w, line) ==
  LET v == Request(w, "m", line, 1)
  IN IF w.lock # 0 THEN v ELSE [SignalMaster(v) EXCEPT !.lock = 0]

(* The slave drops the lock by one around its call to the master.          *)
RaiseSlave(w, line) ==
  IF w.c["s"].cpuInt THEN [w EXCEPT !.c["s"].intLine = line]
  ELSE [HwInterruptMaster(
          [w EXCEPT !.c["s"] = [w.c["s"] EXCEPT !.intLine = line, !.cpuInt = TRUE],
                    !.lock = (@ + 255) % 256],
          w.c["s"].id)
        EXCEPT !.lock = (@ + 1) % 256]

ica_interrupt_cpu(w, a, line) == IF a = "m" THEN RaiseMaster(w, line) ELSE RaiseSlave(w, line)

Signal(w, a) ==
  IF Deliverable(w, a) = {} THEN w ELSE ica_interrupt_cpu(w, a, Scan(w, a))

SWPIC_hw_interrupt(w, a, line, n) ==
  LET v == Request(w, a, line, n)
  IN IF w.lock # 0 THEN v ELSE [Signal([v EXCEPT !.lock = 1], a) EXCEPT !.lock = 0]

(***************************************************************************)
(* SWPIC_clear_int: one request is withdrawn; with the last one the INT    *)
(* line drops if nothing else can be delivered.                            *)
(***************************************************************************)
Withdraw(w, a, line) ==
  IF w.c[a].count[line] <= 1
  THEN [w EXCEPT !.c[a] = [w.c[a] EXCEPT !.irr = @ \ {line}, !.count[line] = 0]]
  ELSE [w EXCEPT !.c[a].count[line] = @ - 1]

(* Mutant: the CPU's bit is lowered and the INT line forgotten.            *)
ClearMasterStale(w, line) ==
  LET v == Withdraw(w, "m", line)
  IN IF w.c["m"].count[line] <= 1 /\ v.c["m"].cpuInt /\ Deliverable(v, "m") = {}
     THEN [v EXCEPT !.hwInt = FALSE]
     ELSE v

ClearMaster(w, line) ==
  LET v == Withdraw(w, "m", line)
  IN IF w.c["m"].count[line] <= 1 /\ v.c["m"].cpuInt /\ Deliverable(v, "m") = {}
     THEN [v EXCEPT !.c["m"].cpuInt = FALSE, !.hwInt = FALSE]
     ELSE v

ClearSlave(w, line) ==
  LET v == Withdraw(w, "s", line)
  IN IF w.c["s"].count[line] <= 1 /\ Deliverable(v, "s") = {}
     THEN ClearMaster([v EXCEPT !.c["s"].cpuInt = FALSE], v.c["s"].id)
     ELSE v

SWPIC_clear_int(w, a, line) == IF a = "m" THEN ClearMaster(w, line) ELSE ClearSlave(w, line)

ica_hw_interrupt_cancel(w, a, line) ==
  SWPIC_clear_int([w EXCEPT !.c[a].count[line] = 0], a, line)

(***************************************************************************)
(* ica_eoi, of a line or (None) of the highest line in service.            *)
(***************************************************************************)
EoiLine(w, a, line) ==
  IF line # None \/ w.c[a].isr = {} THEN line ELSE Highest(w.c[a], w.c[a].isr)

(* Mutant: the end of a handler does not look for what it held back.       *)
EoiWithoutScan(w, a, line, rotate) ==
  LET l == EoiLine(w, a, line)
  IN [w EXCEPT !.c[a] = [w.c[a] EXCEPT
        !.isr = @ \ {l}, !.hipri = IF rotate /\ l # None THEN (l + 1) % N ELSE @]]

ica_eoi(w, a, line, rotate) ==
  LET l == EoiLine(w, a, line)
  IN Signal([w EXCEPT !.c[a] = [w.c[a] EXCEPT
               !.isr = @ \ {l}, !.hipri = IF rotate /\ l # None THEN (l + 1) % N ELSE @]], a)

(***************************************************************************)
(* ica_accept and ica_intack.                                              *)
(***************************************************************************)

(* The INT line drops first; a spurious acknowledgement takes no line.     *)
Accepted(w, a) == IF Deliverable(w, a) = {} THEN None ELSE Scan(w, a)

ica_accept(w, a) ==
  LET line == Accepted(w, a)
      v == [w EXCEPT !.c[a].cpuInt = FALSE]
      u == Withdraw([v EXCEPT !.c[a].isr = @ \cup {line}], a, line)
  IN IF line = None THEN v
     ELSE IF u.c[a].aeoi THEN ica_eoi(u, a, None, u.c[a].raeoi) ELSE u

Reject == <<"none", None>>

(* The vector as the controller and line it stands for.                    *)
Vector(w) ==
  LET line == Accepted(w, "m")
      below == Accepted(ica_accept(w, "m"), "s")
  IN IF line = None THEN Reject
     ELSE IF line \notin w.c["m"].slaves THEN <<"m", line>>
     ELSE IF below = None THEN Reject ELSE <<"s", below>>

(* Mutant: a rejected slave leaves the cascade line in service.            *)
IntackKeepsCascade(w) ==
  LET line == Accepted(w, "m")
      v == ica_accept(w, "m")
  IN IF line = None \/ line \notin w.c["m"].slaves THEN v ELSE ica_accept(v, "s")

ica_intack(w) ==
  LET line == Accepted(w, "m")
      v == ica_accept(w, "m")
      u == ica_accept(v, "s")
  IN IF line = None \/ line \notin w.c["m"].slaves THEN v
     ELSE IF Accepted(v, "s") = None THEN [u EXCEPT !.c["m"].isr = @ \ {line}]
     ELSE u

(* The CPU's acknowledge cycle lowers its own bit after ica_intack.        *)
Acknowledge(w) == [ica_intack(w) EXCEPT !.hwInt = FALSE]

(***************************************************************************)
(* SWPIC_outb and SWPIC_inb.                                               *)
(***************************************************************************)
icw1(w, a) ==
  [w EXCEPT !.c[a] = [w.c[a] EXCEPT !.irr = {}, !.isr = {}, !.imr = {}, !.slaves = {}, !.id = 0,
     !.hipri = 0, !.count = [l \in Lines |-> 0], !.cpuInt = FALSE, !.smm = FALSE,
     !.sfnm = FALSE, !.aeoi = FALSE, !.raeoi = FALSE, !.poll = FALSE, !.seq = 2]]

(* In cascade mode with ICW4, as every ICW1 of the BIOS asks for.          *)
icw2(w, a) == [w EXCEPT !.c[a].seq = 3]
icw3(w, a, slaves, id) ==
  [w EXCEPT !.c[a] = [w.c[a] EXCEPT !.slaves = slaves, !.id = id, !.seq = 4]]
icw4(w, a, aeoi, sfnm) ==
  [w EXCEPT !.c[a] = [w.c[a] EXCEPT !.aeoi = aeoi, !.sfnm = sfnm, !.seq = 0]]

Locked(w) == [w EXCEPT !.lock = 1]
Unlocked(w) == [w EXCEPT !.lock = 0]

(* OCW1: a pending interrupt that is now masked is taken back, and one     *)
(* that is now unmasked is raised.                                         *)
Unmasked(w, a) ==
  LET v == [w EXCEPT !.c[a].cpuInt = FALSE]
  IN IF ~w.c[a].cpuInt \/ w.c[a].intLine \notin w.c[a].imr THEN w
     ELSE IF a = "m" THEN [v EXCEPT !.hwInt = FALSE]
     ELSE ClearMaster(v, w.c["s"].id)

ocw1(w, a, mask) ==
  LET v == Unmasked([Locked(w) EXCEPT !.c[a].imr = mask], a)
  IN Unlocked(IF v.c[a].cpuInt THEN v ELSE Signal(v, a))

ocw2_eoi(w, a, line, rotate) == Unlocked(ica_eoi(Locked(w), a, line, rotate))
ocw2_priority(w, a, line) == Unlocked([w EXCEPT !.c[a].hipri = (line + 1) % N])
ocw3_smm(w, a, on) == Unlocked([w EXCEPT !.c[a].smm = on])
ocw3_poll(w, a) == Unlocked([w EXCEPT !.c[a].poll = TRUE])

(* A read that answers a poll acknowledges for the CPU.                    *)
inb_poll(w, a) ==
  LET v == [Locked(w) EXCEPT !.c[a].poll = FALSE]
  IN Unlocked(IF Deliverable(v, a) = {} THEN v
              ELSE [ica_accept(v, a) EXCEPT !.hwInt = FALSE])

(* ica0_post and ica1_post, with the given masks.                          *)
Controller(mask, slaves, id) ==
  [irr |-> {}, isr |-> {}, imr |-> mask, count |-> [l \in Lines |-> 0], hipri |-> 0,
   intLine |-> 0, cpuInt |-> FALSE, slaves |-> slaves, id |-> id, smm |-> FALSE,
   sfnm |-> FALSE, aeoi |-> FALSE, raeoi |-> FALSE, poll |-> FALSE, seq |-> 0]

Post(masks) ==
  [c |-> [a \in Adapters |-> IF a = "m" THEN Controller(masks["m"], {Cascade}, 0)
                             ELSE Controller(masks["s"], {}, Cascade)],
   hwInt |-> FALSE, lock |-> 0, delayed |-> [a \in Adapters |-> {}]]
=============================================================================
