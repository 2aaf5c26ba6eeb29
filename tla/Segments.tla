------------------------------ MODULE Segments ------------------------------
(***************************************************************************)
(* Selectors, descriptors and the loading of segment registers             *)
(* (ccpu386/c_bsic.c, c_seg.c, c_prot.c, and the instructions that load or *)
(* examine a selector).  A descriptor is a record whose field t is its     *)
(* kind; the accessed bit is left out, since descriptor_super_type maps a  *)
(* segment as if it were accessed.  The processor is a record m; an        *)
(* operator that may fault returns m with the exception in m.exc.          *)
(***************************************************************************)
EXTENDS Integers

CONSTANTS
  Ldts,       \* the local descriptor tables: descriptors by address, then by index
  RealLimit   \* words of a 64K segment of real and virtual 8086 mode

SegmentsAssumption == RealLimit \in Nat \ {0}

(***************************************************************************)
(* A selector is the number the program handles: index, table, privilege.  *)
(***************************************************************************)
Selector(idx, ti, rpl) == idx * 8 + ti * 4 + rpl
INDEX(sel) == sel \div 8
TI(sel) == (sel \div 4) % 2
RPL(sel) == sel % 4
Null == 0
selector_is_null(sel) == INDEX(sel) = 0 /\ TI(sel) = 0
Stamped(sel, rpl) == (sel - RPL(sel)) + rpl

(***************************************************************************)
(* Exceptions: the number and the error code without its EXT bit.          *)
(***************************************************************************)
Exc(nr, code) == [nr |-> nr, code |-> code]
NoExc == Exc(-1, 0)
TS(sel) == Exc(10, Stamped(sel, 0))
NP(sel) == Exc(11, Stamped(sel, 0))
SF(sel) == Exc(12, Stamped(sel, 0))
GP(sel) == Exc(13, Stamped(sel, 0))
PF == Exc(14, 0)
IdtCode(vector) == vector * 8 + 2
NP_INT(vector) == Exc(11, IdtCode(vector))
GP_INT(vector) == Exc(13, IdtCode(vector))

Raise(m, e) == [m EXCEPT !.exc = e]
Sound(m) == m.exc = NoExc

(* Real mode or virtual 8086 mode.                                         *)
Flat(m) == ~ m.pe \/ m.vm

(***************************************************************************)
(* Tables                                                                  *)
(***************************************************************************)
selector_outside_GDT(m, sel) == TI(sel) = 1 \/ INDEX(sel) = 0 \/ INDEX(sel) \notin DOMAIN m.gdt

selector_outside_GDT_LDT(m, sel) ==
  IF TI(sel) = 0 THEN INDEX(sel) = 0 \/ INDEX(sel) \notin DOMAIN m.gdt
  ELSE selector_is_null(m.ldt.sel) \/ INDEX(sel) \notin DOMAIN Ldts[m.ldt.base]

read_descriptor_linear(m, sel) ==
  IF TI(sel) = 0 THEN m.gdt[INDEX(sel)] ELSE Ldts[m.ldt.base][INDEX(sel)]

IsCode(d) == d.t = "code"
IsData(d) == d.t = "data"
IsStack(d) == IsData(d) /\ d.w
IsTss(d) == d.t = "tss"
IsSystem(d) == d.t \in {"tss", "ldt", "call", "task", "int", "trap"}
Conforming(d) == IsCode(d) /\ d.c
Readable(d) == IsData(d) \/ (IsCode(d) /\ d.r)

(* The access check of data: CPL <= DPL and RPL <= DPL.                    *)
Reaches(m, sel, d) == m.cpl <= d.dpl /\ RPL(sel) <= d.dpl

(***************************************************************************)
(* Segment registers: the selector and the hidden cache                    *)
(***************************************************************************)
RealBase(sel) == sel * 16

load_CS_cache(m, sel, d) ==
  [m EXCEPT !.sr["CS"] =
     IF Flat(m)
     THEN [@ EXCEPT !.sel = sel, !.base = RealBase(sel), !.w = TRUE, !.r = TRUE, !.c = FALSE,
                    !.x = FALSE, !.dpl = IF m.vm THEN 3 ELSE 0]
     ELSE [sel |-> sel, base |-> d.base, limit |-> d.limit, dpl |-> d.dpl,
           r |-> d.r, w |-> FALSE, c |-> d.c, x |-> d.x]]

load_SS_cache(m, sel, d) ==
  [m EXCEPT !.sr["SS"] =
     [sel |-> sel, base |-> d.base, limit |-> d.limit, dpl |-> d.dpl,
      r |-> TRUE, w |-> TRUE, c |-> FALSE, x |-> d.x]]

(* The cache of a data register that nothing may be reached through.       *)
Closed(cache, sel) == [cache EXCEPT !.sel = sel, !.base = 0, !.limit = 0, !.w = FALSE, !.r = FALSE]

load_pseudo_descr(m, reg) ==
  [m EXCEPT !.sr[reg] =
     [@ EXCEPT !.limit = RealLimit, !.w = TRUE, !.r = TRUE, !.c = FALSE, !.x = FALSE,
               !.dpl = IF m.vm THEN 3 ELSE 0]]

DataFault(m, sel) ==
  IF selector_outside_GDT_LDT(m, sel) THEN GP(sel)
  ELSE LET d == read_descriptor_linear(m, sel)
       IN  IF ~ Readable(d) \/ (~ Conforming(d) /\ ~ Reaches(m, sel, d)) THEN GP(sel)
           ELSE IF ~ d.p THEN NP(sel)
           ELSE NoExc

DataCache(sel, d) ==
  [sel |-> sel, base |-> d.base, limit |-> d.limit, dpl |-> d.dpl, r |-> TRUE,
   w |-> IsData(d) /\ d.w, c |-> Conforming(d), x |-> d.x]

load_data_seg(m, reg, sel) ==
  IF Flat(m) THEN [m EXCEPT !.sr[reg] = [m.sr[reg] EXCEPT !.sel = sel, !.base = RealBase(sel)]]
  ELSE IF selector_is_null(sel) THEN [m EXCEPT !.sr[reg] = Closed(@, sel)]
  ELSE IF DataFault(m, sel) # NoExc THEN Raise(m, DataFault(m, sel))
  ELSE [m EXCEPT !.sr[reg] = DataCache(sel, read_descriptor_linear(m, sel))]

check_SS(m, sel, privilege) ==
  IF selector_outside_GDT_LDT(m, sel) THEN GP(sel)
  ELSE LET d == read_descriptor_linear(m, sel)
       IN  IF ~ IsStack(d) \/ RPL(sel) # privilege \/ d.dpl # privilege THEN GP(sel)
           ELSE IF ~ d.p THEN SF(sel)
           ELSE NoExc

load_stack_seg(m, sel) ==
  IF Flat(m) THEN [m EXCEPT !.sr["SS"] = [m.sr["SS"] EXCEPT !.sel = sel, !.base = RealBase(sel)]]
  ELSE IF check_SS(m, sel, m.cpl) # NoExc THEN Raise(m, check_SS(m, sel, m.cpl))
  ELSE load_SS_cache(m, sel, read_descriptor_linear(m, sel))

(* On a return to an outer level a register is closed that could not have  *)
(* been loaded there.                                                      *)
(* Mutant: the registers are left as they are.                             *)
KeepDataSeg(m, reg) == m

load_data_seg_new_privilege(m, reg) ==
  LET cache == m.sr[reg]
      valid == /\ ~ selector_outside_GDT_LDT(m, cache.sel)
               /\ cache.c \/ (cache.dpl >= m.cpl /\ cache.dpl >= RPL(cache.sel))
  IN  IF valid THEN m ELSE [m EXCEPT !.sr[reg] = Closed(@, Null)]

validate_SS_on_stack_change(m, priv, sel) ==
  IF selector_outside_GDT_LDT(m, sel) THEN TS(sel)
  ELSE LET d == read_descriptor_linear(m, sel)
       IN  IF RPL(sel) # priv \/ d.dpl # priv \/ ~ IsStack(d) THEN TS(sel)
           ELSE IF ~ d.p THEN SF(sel)
           ELSE NoExc

(* Mutant: a busy task may be entered.                                     *)
ValidateAnyTss(m, sel, is_switch) ==
  IF selector_outside_GDT(m, sel) \/ ~ IsTss(m.gdt[INDEX(sel)])
  THEN IF is_switch THEN TS(sel) ELSE GP(sel)
  ELSE IF ~ m.gdt[INDEX(sel)].p THEN NP(sel)
  ELSE NoExc

validate_TSS(m, sel, is_switch) ==
  IF selector_outside_GDT(m, sel) \/ ~ IsTss(m.gdt[INDEX(sel)]) \/ m.gdt[INDEX(sel)].busy # is_switch
  THEN IF is_switch THEN TS(sel) ELSE GP(sel)
  ELSE IF ~ m.gdt[INDEX(sel)].p THEN NP(sel)
  ELSE NoExc

(***************************************************************************)
(* Instructions                                                            *)
(***************************************************************************)
MOV_SR(m, reg, sel) == IF reg = "SS" THEN load_stack_seg(m, sel) ELSE load_data_seg(m, reg, sel)

TaskRegister(sel, d) == [sel |-> sel, base |-> d.base, size |-> d.size, room |-> d.room]

LTR(m, sel) ==
  IF validate_TSS(m, sel, FALSE) # NoExc THEN Raise(m, validate_TSS(m, sel, FALSE))
  ELSE [m EXCEPT !.gdt[INDEX(sel)].busy = TRUE, !.tr = TaskRegister(sel, m.gdt[INDEX(sel)])]

LLDT(m, sel) ==
  IF selector_is_null(sel) THEN [m EXCEPT !.ldt = [sel |-> sel, base |-> 0]]
  ELSE IF selector_outside_GDT(m, sel) \/ m.gdt[INDEX(sel)].t # "ldt" THEN Raise(m, GP(sel))
  ELSE IF ~ m.gdt[INDEX(sel)].p THEN Raise(m, NP(sel))
  ELSE [m EXCEPT !.ldt = [sel |-> sel, base |-> m.gdt[INDEX(sel)].base]]

(* What the instructions that only ask leave in ZF.                        *)
(* Mutant: the requested privilege of the selector is not considered.      *)
VerrWithoutRpl(m, sel) ==
  /\ ~ selector_outside_GDT_LDT(m, sel)
  /\ LET d == read_descriptor_linear(m, sel)
     IN  Readable(d) /\ (Conforming(d) \/ m.cpl <= d.dpl)

VERR(m, sel) ==
  /\ ~ selector_outside_GDT_LDT(m, sel)
  /\ LET d == read_descriptor_linear(m, sel)
     IN  Readable(d) /\ (Conforming(d) \/ Reaches(m, sel, d))

VERW(m, sel) ==
  /\ ~ selector_outside_GDT_LDT(m, sel)
  /\ LET d == read_descriptor_linear(m, sel) IN IsStack(d) /\ Reaches(m, sel, d)

LAR(m, sel) ==
  /\ ~ selector_outside_GDT_LDT(m, sel)
  /\ LET d == read_descriptor_linear(m, sel)
     IN  Conforming(d) \/ ((IsSystem(d) \/ IsData(d) \/ IsCode(d)) /\ Reaches(m, sel, d))

LSL(m, sel) ==
  /\ ~ selector_outside_GDT_LDT(m, sel)
  /\ LET d == read_descriptor_linear(m, sel)
     IN  Conforming(d) \/ (d.t \in {"tss", "ldt", "data", "code"} /\ Reaches(m, sel, d))

ARPL(sel, rpl) == IF RPL(sel) < rpl THEN Stamped(sel, rpl) ELSE sel

(***************************************************************************)
(* What holds of them at every state of the processor                      *)
(***************************************************************************)

(* Could the register have been loaded at this level?                      *)
InRing(m, cache) == cache.c \/ (cache.dpl >= m.cpl /\ cache.dpl >= RPL(cache.sel))
DataInRing(m, reg) == m.sr[reg].r => InRing(m, m.sr[reg])
StackInRing(m) == m.sr["SS"].r => m.sr["SS"].dpl = m.cpl /\ RPL(m.sr["SS"].sel) = m.cpl

(* VERR and VERW tell, without a fault, whether a load of the selector     *)
(* would be refused, and whether the segment could then be written to; the *)
(* limit and the rights of what VERR accepts can be asked for; and after   *)
(* ARPL they tell a service of an inner ring what its caller could reach.  *)
VerifyAgrees(m, sel) ==
  LET loaded == load_data_seg(m, "DS", sel)
      caller == [m EXCEPT !.cpl = 3]
  IN  /\ VERR(m, sel) <=> ~ selector_is_null(sel) /\ loaded.exc.nr # 13
      /\ Sound(loaded) /\ loaded.sr["DS"].r => (VERW(m, sel) <=> loaded.sr["DS"].w)
      /\ VERR(m, sel) => LAR(m, sel) /\ LSL(m, sel)
      /\ VERR(m, ARPL(sel, 3)) <=> VERR(caller, sel)
      /\ VERW(m, ARPL(sel, 3)) <=> VERW(caller, sel)
=============================================================================
