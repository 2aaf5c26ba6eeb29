-------------------------------- MODULE Tasks --------------------------------
(***************************************************************************)
(* The flags, the stack and the switching of tasks (ccpu386/c_bsic.c,      *)
(* c_stack.c, c_tsksw.c).  Stack offsets and limits count words; m.w is    *)
(* the operand size in words, and what is kept of memory is the stacks and *)
(* the task state segments.  Stacks expand up.                             *)
(***************************************************************************)
EXTENDS Segments

DataRegs == <<"DS", "ES", "FS", "GS">>

Bit(b) == IF b THEN 1 ELSE 0
High == 65536   \* the weight of the upper word
OperandSize(x) == IF x THEN 2 ELSE 1

(* The rest of a handler runs only when nothing was raised so far.         *)
Then(m, Rest(_)) == IF Sound(m) THEN Rest(m) ELSE m

(***************************************************************************)
(* EFLAGS: IF, NT and IOPL in the lower word, RF and VM in the upper.      *)
(***************************************************************************)
getFLAGS(m) == Bit(m.iff) + 2 * Bit(m.nt) + 4 * m.iopl
c_getEFLAGS(m) == getFLAGS(m) + High * (Bit(m.rf) + 2 * Bit(m.vm))

setFLAGS(m, flags) ==
  [m EXCEPT !.iff = IF m.cpl <= m.iopl THEN flags % 2 = 1 ELSE @,
            !.nt = (flags \div 2) % 2 = 1,
            !.iopl = IF m.cpl = 0 THEN (flags \div 4) % 4 ELSE @]

HasVM(flags) == (flags \div (2 * High)) % 2 = 1

c_setEFLAGS(m, flags) ==
  [setFLAGS(m, flags) EXCEPT !.rf = (flags \div High) % 2 = 1,
                             !.vm = IF m.cpl = 0 THEN HasVM(flags) ELSE @]

set_current_FLAGS(m, flags) == IF m.w = 1 THEN setFLAGS(m, flags) ELSE c_setEFLAGS(m, flags)

(***************************************************************************)
(* The stack.  In a 64K segment the pointer wraps; memory that holds no    *)
(* stack reads as 0 and is not kept.                                       *)
(***************************************************************************)
change_SP(m, words) == [m EXCEPT !.sp = IF Flat(m) THEN (@ + words) % RealLimit ELSE @ + words]

Word(m, offset) ==
  LET base == m.sr["SS"].base
      o == IF Flat(m) THEN offset % RealLimit ELSE offset
  IN  IF base \in DOMAIN m.mem /\ o \in DOMAIN m.mem[base] THEN m.mem[base][o] ELSE 0

Store(m, offset, word) ==
  LET base == m.sr["SS"].base
  IN  IF base \in DOMAIN m.mem /\ offset \in DOMAIN m.mem[base]
      THEN [m EXCEPT !.mem[base][offset] = word] ELSE m

spush(m, value) ==
  LET d == change_SP(m, - m.w)
      l == Store(d, d.sp, value % High)
  IN  IF m.w = 1 THEN l ELSE Store(l, d.sp + 1, value \div High)

(* The upper word of a 32-bit item keeps what the stack held before.       *)
spush16(m, value) == LET d == change_SP(m, - m.w) IN Store(d, d.sp, value % High)

(* Item number i, below some more words.                                   *)
tpop(m, i, words) ==
  LET offset == m.sp + i * m.w + words
  IN  Word(m, offset) + (IF m.w = 1 THEN 0 ELSE High * Word(m, offset + 1))

Selected(value) == value % High

StackAccess(m, allowed, low, high) ==
  IF ~ allowed THEN IF Flat(m) THEN GP(0) ELSE SF(0)
  ELSE IF ~ Flat(m) /\ (low < 0 \/ high > m.sr["SS"].limit) THEN SF(0)
  ELSE IF m.sr["SS"].base \in m.absent THEN PF
  ELSE NoExc

validate_stack_space(m, items) ==
  StackAccess(m, m.sr["SS"].w, m.sp - items * m.w, m.sp)

validate_stack_exists(m, items) ==
  StackAccess(m, m.sr["SS"].r, m.sp, m.sp + items * m.w)

validate_new_stack_space(m, items, sp, d) ==
  IF sp < items * m.w \/ sp > d.limit THEN SF(0)
  ELSE IF d.base \in m.absent THEN PF
  ELSE NoExc

(***************************************************************************)
(* Task switch                                                             *)
(***************************************************************************)
Saved(m, returning, return_ip) ==
  LET flags == IF m.tr.size = 2 THEN c_getEFLAGS(m) ELSE getFLAGS(m)
  IN  [m.tss[m.tr.base] EXCEPT
         !.eip = return_ip, !.esp = m.sp,
         !.flags = IF returning /\ m.nt THEN flags - 2 ELSE flags,
         !.sel = [reg \in DOMAIN @ |-> IF m.tr.size = 1 /\ reg \in {"FS", "GS"} THEN @[reg]
                                       ELSE m.sr[reg].sel]]

(* The outgoing state is saved, and TR names the incoming task.            *)
TaskRegisterLoaded(m, returning, nesting, sel, return_ip) ==
  LET d == m.gdt[INDEX(sel)]
      out == [m EXCEPT !.tss[m.tr.base] = Saved(m, returning, return_ip),
                       !.gdt[INDEX(sel)].busy = TRUE,
                       !.tr = TaskRegister(sel, d)]
  IN  IF nesting THEN [out EXCEPT !.tss[d.base].link = m.tr.sel]
      ELSE [out EXCEPT !.gdt[INDEX(m.tr.sel)].busy = FALSE]

Extracted(m, returning, nesting) ==
  LET t == m.tss[m.tr.base]
      long == m.tr.size = 2
      flagged == LET all == [m EXCEPT !.cpl = 0]
                 IN  IF long THEN c_setEFLAGS(all, t.flags)
                     ELSE [setFLAGS(all, t.flags) EXCEPT !.vm = FALSE]
  IN  [flagged EXCEPT
         !.cpl = m.cpl, !.eip = t.eip, !.sp = t.esp,
         !.nt = nesting \/ (returning /\ @),
         !.ldt.sel = t.ldt,
         !.sr = [reg \in DOMAIN @ |->
                   [@[reg] EXCEPT
                      !.sel = IF ~ long /\ reg \in {"FS", "GS"} THEN Null ELSE t.sel[reg],
                      !.r = FALSE, !.w = FALSE]]]

load_LDT_in_task_switch(m, tss_selector) ==
  LET sel == m.ldt.sel
  IN  IF selector_is_null(sel) THEN m
      ELSE IF selector_outside_GDT(m, sel) \/ m.gdt[INDEX(sel)].t # "ldt"
              \/ ~ m.gdt[INDEX(sel)].p
      THEN Raise([m EXCEPT !.ldt.sel = Null], TS(tss_selector))
      ELSE [m EXCEPT !.ldt.base = m.gdt[INDEX(sel)].base]

(* A task in virtual 8086 mode gets CS from a variable that nothing set.   *)
LoadCode(m, unset) ==
  IF m.vm THEN load_CS_cache([m EXCEPT !.cpl = 3], unset, {})
  ELSE LET cs == m.sr["CS"].sel
           in == [m EXCEPT !.cpl = RPL(cs)]
       IN  IF selector_outside_GDT_LDT(m, cs) THEN Raise(in, TS(cs))
           ELSE LET d == read_descriptor_linear(m, cs)
                IN  IF ~ IsCode(d) THEN Raise(in, TS(cs))
                    ELSE IF ~ d.p THEN Raise(in, NP(cs))
                    ELSE IF IF d.c THEN d.dpl > in.cpl ELSE d.dpl # in.cpl
                         THEN Raise(in, TS(cs))
                    ELSE load_CS_cache(in, cs, d)

LoadStack(m) ==
  LET ss == m.sr["SS"].sel
      fault == validate_SS_on_stack_change(m, m.cpl, ss)
  IN  IF m.vm THEN load_pseudo_descr(load_stack_seg(m, ss), "SS")
      ELSE IF fault # NoExc THEN Raise(m, fault)
      ELSE load_SS_cache(m, ss, read_descriptor_linear(m, ss))

load_data_seg_new_task(m, reg) ==
  LET loaded == load_data_seg(m, reg, m.sr[reg].sel)
  IN  IF m.vm THEN load_pseudo_descr(loaded, reg) ELSE loaded

LoadData(m) ==
  LET ds == load_data_seg_new_task(m, "DS")
      es == Then(ds, LAMBDA n : load_data_seg_new_task(n, "ES"))
      fs == Then(es, LAMBDA n : load_data_seg_new_task(n, "FS"))
  IN  Then(fs, LAMBDA n : load_data_seg_new_task(n, "GS"))

(* From TaskRegisterLoaded on, an exception finds the incoming task.       *)
switch_tasks(m, returning, nesting, sel, return_ip, unset) ==
  IF m.tr.sel = 0 \/ ~ m.tr.room THEN Raise(m, TS(sel))
  ELSE LET in == TaskRegisterLoaded(m, returning, nesting, sel, return_ip)
           ldt == load_LDT_in_task_switch(Extracted(in, returning, nesting), sel)
           cs == Then(ldt, LAMBDA n : LoadCode(n, unset))
           ss == Then(cs, LoadStack)
       IN  IF ~ in.tr.room THEN Raise(in, TS(sel)) ELSE Then(ss, LoadData)
=============================================================================
