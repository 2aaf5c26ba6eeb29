------------------------------ MODULE Transfers ------------------------------
(***************************************************************************)
(* Transfers of control between segments, privilege levels, tasks and      *)
(* modes (ccpu386/c_xfer.c, call.c, jmp.c, ret.c, iret.c, c_intr.c,        *)
(* c_xcptn.c).  An instruction finds m.eip past itself and m.save at       *)
(* itself; it checks everything before it changes anything, except that a  *)
(* task switch goes on checking in the incoming task and that a call finds *)
(* its parameters on a stack nothing has checked.                          *)
(***************************************************************************)
EXTENDS Tasks

(* Destination types; a more privileged one is the privilege itself.       *)
SAME_LEVEL == -1
NEW_TASK == -2

Dest(exc, to, sel, ip, count, w) ==
  [exc |-> exc, to |-> to, sel |-> sel, ip |-> ip, count |-> count, w |-> w]
Refused(e) == Dest(e, SAME_LEVEL, Null, 0, 0, 1)

validate_task_dest(m, sel) == validate_TSS(m, sel, FALSE)

GateLevel(m, sel) ==
  LET d == read_descriptor_linear(m, sel)
  IN  IF ~ d.c /\ d.dpl < m.cpl THEN d.dpl ELSE SAME_LEVEL

validate_gate_dest(m, is_jmp, sel, w) ==
  IF selector_outside_GDT_LDT(m, sel) THEN GP(sel)
  ELSE LET d == read_descriptor_linear(m, sel)
       IN  IF ~ IsCode(d) \/ d.dpl > m.cpl \/ (~ d.c /\ is_jmp /\ d.dpl # m.cpl) THEN GP(sel)
           ELSE IF m.vm /\ (GateLevel(m, sel) # 0 \/ w # 2) THEN GP(sel)
           ELSE IF ~ d.p THEN NP(sel)
           ELSE NoExc

validate_far_dest(m, sel, ip, is_jmp) ==
  IF selector_outside_GDT_LDT(m, sel) THEN Refused(GP(sel))
  ELSE LET d == read_descriptor_linear(m, sel)
           gated == validate_gate_dest(m, is_jmp, d.sel, d.size)
           task == validate_task_dest(m, d.sel)
       IN  IF IsCode(d)
           THEN IF IF d.c THEN d.dpl > m.cpl ELSE RPL(sel) > m.cpl \/ d.dpl # m.cpl
                THEN Refused(GP(sel))
                ELSE IF ~ d.p THEN Refused(NP(sel))
                ELSE Dest(NoExc, SAME_LEVEL, sel, ip, 0, m.w)
           ELSE IF \/ d.t \notin {"call", "task", "tss"}
                   \/ d.t = "tss" /\ (d.busy \/ TI(sel) = 1)
                   \/ ~ Reaches(m, sel, d)
                THEN Refused(GP(sel))
           ELSE IF ~ d.p THEN Refused(NP(sel))
           ELSE CASE d.t = "call" ->
                       IF gated # NoExc THEN Refused(gated)
                       ELSE Dest(NoExc, GateLevel(m, d.sel), d.sel, d.off, d.count, d.size)
                  [] d.t = "task" ->
                       IF task # NoExc THEN Refused(task)
                       ELSE Dest(NoExc, NEW_TASK, d.sel, 0, 0, m.w)
                  [] d.t = "tss" -> Dest(NoExc, NEW_TASK, sel, 0, 0, m.w)

(* The stack of an inner level, from the current task.                     *)
NewStack(m, level) == [sel |-> m.tss[m.tr.base].ss[level], sp |-> m.tss[m.tr.base].sp[level]]

NewStackFault(m, level, items) ==
  LET new == NewStack(m, level)
      fault == validate_SS_on_stack_change(m, level, new.sel)
  IN  IF fault # NoExc THEN fault
      ELSE validate_new_stack_space(m, items, new.sp, read_descriptor_linear(m, new.sel))

OnNewStack(m, level) ==
  LET new == NewStack(m, level)
  IN  [load_SS_cache(m, new.sel, read_descriptor_linear(m, new.sel)) EXCEPT !.sp = new.sp]

Limit(m, sel) == read_descriptor_linear(m, sel).limit

EnterCode(m, sel, ip) ==
  [load_CS_cache(m, sel, IF Flat(m) THEN {} ELSE read_descriptor_linear(m, sel)) EXCEPT !.eip = ip]

PushReturn(m, cs, ip) == spush(spush16(m, cs), ip)

(* The limit check of the new IP, "now in new task".                       *)
InLimit(m) == IF m.eip > m.sr["CS"].limit THEN Raise(m, GP(0)) ELSE m

(***************************************************************************)
(* CALLF, JMPF                                                             *)
(***************************************************************************)
(* The parameters, from the old stack to the new, the last one first.      *)
PushParams(m, from, count) ==
  LET pushed[n \in 0 .. count] ==
        IF n = 0 THEN m ELSE spush(pushed[n - 1], tpop(from, count - n, 0))
  IN  pushed[count]

CallInner(m, dest) ==
  LET fault == NewStackFault(m, dest.to, dest.count + 4)
      frame == spush(spush16(OnNewStack([m EXCEPT !.cpl = dest.to], dest.to), m.sr["SS"].sel), m.sp)
      full == PushReturn(PushParams(frame, m, dest.count), m.sr["CS"].sel, m.eip)
      Enter(n) == EnterCode(n, Stamped(dest.sel, dest.to), dest.ip)
  IN  IF fault # NoExc THEN Raise(m, fault)
      ELSE IF dest.ip > Limit(m, dest.sel) THEN Raise(m, GP(0))
      ELSE IF dest.count > 0 /\ m.sr["SS"].base \in m.absent
      THEN Raise(Enter([m EXCEPT !.cpl = dest.to]), PF)
      ELSE Enter(full)

CallSame(m, sel, ip) ==
  IF validate_stack_space(m, 2) # NoExc THEN Raise(m, validate_stack_space(m, 2))
  ELSE IF ~ Flat(m) /\ ip > Limit(m, sel) THEN Raise(m, GP(0))
  ELSE EnterCode(PushReturn(m, m.sr["CS"].sel, m.eip), sel, ip)

CALLF(m, sel, ip, unset) ==
  LET Call(dest, sized) ==
        IF dest.exc # NoExc THEN Raise(m, dest.exc)
        ELSE IF dest.to = NEW_TASK
             THEN Then(switch_tasks(m, FALSE, TRUE, dest.sel, m.eip, unset), InLimit)
        ELSE IF dest.to = SAME_LEVEL THEN CallSame(sized, Stamped(dest.sel, m.cpl), dest.ip)
        ELSE CallInner(sized, dest)
      CallTo(dest) == Call(dest, [m EXCEPT !.w = dest.w])
  IN  IF Flat(m) THEN CallSame(m, sel, ip) ELSE CallTo(validate_far_dest(m, sel, ip, FALSE))

JMPF(m, sel, ip, unset) ==
  LET JumpTo(dest) ==
        IF dest.exc # NoExc THEN Raise(m, dest.exc)
        ELSE IF dest.to = NEW_TASK
             THEN Then(switch_tasks(m, FALSE, FALSE, dest.sel, m.eip, unset), InLimit)
        ELSE IF dest.ip > Limit(m, dest.sel) THEN Raise(m, GP(0))
        ELSE EnterCode(m, Stamped(dest.sel, m.cpl), dest.ip)
  IN  IF Flat(m) THEN EnterCode(m, sel, ip) ELSE JumpTo(validate_far_dest(m, sel, ip, TRUE))

(***************************************************************************)
(* RETF, IRET                                                              *)
(***************************************************************************)
(* The code segment on the stack, at the level its selector requests.      *)
ReturnFault(m, cs) ==
  IF selector_outside_GDT_LDT(m, cs) THEN GP(cs)
  ELSE LET d == read_descriptor_linear(m, cs)
       IN  IF ~ IsCode(d) THEN GP(cs)
           ELSE IF IF d.c THEN d.dpl > RPL(cs) ELSE d.dpl # RPL(cs) THEN GP(cs)
           ELSE IF ~ d.p THEN NP(cs)
           ELSE NoExc

(* items: what the stack must hold for a return to an outer level.         *)
(* ss: the selector of the outer stack.                                    *)
TransferFault(m, cs, ip, items, ss) ==
  LET outer == RPL(cs) > m.cpl
  IN  IF RPL(cs) < m.cpl THEN GP(cs)
      ELSE IF outer /\ validate_stack_exists(m, items) # NoExc THEN validate_stack_exists(m, items)
      ELSE IF ReturnFault(m, cs) # NoExc THEN ReturnFault(m, cs)
      ELSE IF outer /\ check_SS(m, ss, RPL(cs)) # NoExc THEN check_SS(m, ss, RPL(cs))
      ELSE IF ip > Limit(m, cs) THEN GP(0)
      ELSE NoExc

RevalidateData(m) ==
  LET ds == load_data_seg_new_privilege(m, "DS")
      es == load_data_seg_new_privilege(ds, "ES")
  IN  load_data_seg_new_privilege(load_data_seg_new_privilege(es, "FS"), "GS")

OnOuterStack(m, ss, sp) ==
  [load_SS_cache(m, ss, read_descriptor_linear(m, ss)) EXCEPT !.sp = sp]

(* words: the immediate operand, parameters to release from both stacks.   *)
RETF(m, words) ==
  LET ip == tpop(m, 0, 0)
      cs == Selected(tpop(m, 1, 0))
      sp == tpop(m, 2, words)
      ss == Selected(tpop(m, 3, words))
      exists == validate_stack_exists(m, 2)
      fault == TransferFault(m, cs, ip, 4 + (words \div m.w), ss)
      outer == OnOuterStack(EnterCode([m EXCEPT !.cpl = RPL(cs)], cs, ip), ss, sp)
  IN  IF exists # NoExc THEN Raise(m, exists)
      ELSE IF Flat(m) THEN change_SP(EnterCode(m, cs, ip), 2 * m.w + words)
      ELSE IF fault # NoExc THEN Raise(m, fault)
      ELSE IF RPL(cs) = m.cpl THEN change_SP(EnterCode(m, cs, ip), 2 * m.w + words)
      ELSE change_SP(RevalidateData(outer), words)

(* Data registers of virtual 8086 mode, in the order of the stack.         *)
VmRegs == <<"ES", "DS", "FS", "GS">>

IretToVm(m, cs, ip, flags) ==
  LET entered == [EnterCode([c_setEFLAGS(m, flags) EXCEPT !.cpl = 3], cs, ip)
                    EXCEPT !.sr["CS"].limit = RealLimit]
      loaded[n \in 0 .. 4] ==
        IF n = 0 THEN entered
        ELSE load_data_seg(loaded[n - 1], VmRegs[n], Selected(tpop(m, 4 + n, 0)))
      stacked == [load_stack_seg(loaded[4], Selected(tpop(m, 4, 0))) EXCEPT !.sp = tpop(m, 3, 0)]
      pseudo[n \in 0 .. 4] ==
        IF n = 0 THEN load_pseudo_descr(stacked, "SS")
        ELSE load_pseudo_descr(pseudo[n - 1], VmRegs[n])
  IN  IF validate_stack_exists(m, 9) # NoExc THEN Raise(m, validate_stack_exists(m, 9))
      ELSE IF ip >= High THEN Raise(m, GP(0))
      ELSE pseudo[4]

IretNested(m, unset) ==
  LET link == m.tss[m.tr.base].link
      fault == validate_TSS(m, link, TRUE)
  IN  IF fault # NoExc THEN Raise(m, fault)
      ELSE Then(switch_tasks(m, TRUE, FALSE, link, m.eip, unset), InLimit)

IretSameTask(m) ==
  LET ip == tpop(m, 0, 0)
      cs == Selected(tpop(m, 1, 0))
      flags == tpop(m, 2, 0)
      sp == tpop(m, 3, 0)
      ss == Selected(tpop(m, 4, 0))
      fault == TransferFault(m, cs, ip, 5, ss)
      same == set_current_FLAGS(change_SP(EnterCode(m, cs, ip), 3 * m.w), flags)
      outer == OnOuterStack(set_current_FLAGS(EnterCode(m, cs, ip), flags), ss, sp)
  IN  IF validate_stack_exists(m, 3) # NoExc THEN Raise(m, validate_stack_exists(m, 3))
      ELSE IF Flat(m) THEN same
      ELSE IF m.cpl = 0 /\ HasVM(flags) THEN IretToVm(m, cs, ip, flags)
      ELSE IF fault # NoExc THEN Raise(m, fault)
      ELSE IF RPL(cs) = m.cpl THEN same
      ELSE RevalidateData([outer EXCEPT !.cpl = RPL(cs)])

(* In virtual 8086 mode only with an IOPL that allows it.                  *)
IRET(m, unset) ==
  IF m.vm /\ m.cpl > m.iopl THEN Raise(m, GP(0))
  ELSE IF ~ Flat(m) /\ m.nt THEN IretNested(m, unset)
  ELSE IretSameTask(m)

(***************************************************************************)
(* Interrupts                                                              *)
(***************************************************************************)
validate_int_dest(m, vector, do_priv) ==
  IF vector \notin DOMAIN m.idt THEN Refused(GP_INT(vector))
  ELSE LET g == m.idt[vector]
           gated == validate_gate_dest(m, FALSE, g.sel, g.size)
           task == validate_task_dest(m, g.sel)
       IN  IF g.t \notin {"int", "trap", "task"} \/ (do_priv /\ m.cpl > g.dpl)
           THEN Refused(GP_INT(vector))
           ELSE IF ~ g.p THEN Refused(NP_INT(vector))
           ELSE IF g.t = "task"
           THEN IF task # NoExc THEN Refused(task)
                ELSE Dest(NoExc, NEW_TASK, g.sel, 0, 0, m.gdt[INDEX(g.sel)].size)
           ELSE IF gated # NoExc THEN Refused(gated)
           ELSE Dest(NoExc, GateLevel(m, g.sel), g.sel, g.off, 0, g.size)

(* A fault pushes RF set, so that its restart is not a breakpoint again.   *)
PushedFlags(m) == IF m.doing.fault /\ ~ m.rf THEN c_getEFLAGS(m) + High ELSE c_getEFLAGS(m)

(* codes: no error code, or one.                                           *)
PushCode(m, codes) == IF codes = <<>> THEN m ELSE spush(m, codes[1])
Extra(codes) == IF codes = <<>> THEN 0 ELSE 1

PushFrame(m, old, codes) ==
  PushCode(PushReturn(spush(m, PushedFlags(old)), old.sr["CS"].sel, old.eip), codes)

Masked(m, t) == [m EXCEPT !.iff = @ /\ t # "int", !.nt = FALSE]

InterruptReal(m, vector) ==
  LET fault == validate_stack_space(m, 3)
  IN  IF fault # NoExc THEN Raise(m, fault)
      ELSE [EnterCode(PushFrame(m, m, <<>>), m.ivt[vector].cs, m.ivt[vector].ip)
              EXCEPT !.iff = FALSE]

(* In the new task the error code is checked for and pushed first.         *)
PushTaskCode(m, codes) ==
  LET fault == validate_stack_space(m, 1)
  IN  IF codes # <<>> /\ fault # NoExc THEN Raise(m, fault) ELSE PushCode(m, codes)

InterruptTask(m, dest, codes, unset) ==
  Then(Then(switch_tasks(m, FALSE, TRUE, dest.sel, m.eip, unset),
            LAMBDA in : PushTaskCode(in, codes)), InLimit)

(* Mutant: the frame is on the stack before the limit is checked.          *)
PushedBeforeLimit(m, dest, t, codes) ==
  LET fault == validate_stack_space(m, 3 + Extra(codes))
      pushed == PushFrame(m, m, codes)
  IN  IF fault # NoExc THEN Raise(m, fault)
      ELSE IF dest.ip > Limit(m, dest.sel) THEN Raise(pushed, GP(0))
      ELSE Masked(EnterCode(pushed, Stamped(dest.sel, m.cpl), dest.ip), t)

InterruptSame(m, dest, t, codes) ==
  LET fault == validate_stack_space(m, 3 + Extra(codes))
  IN  IF fault # NoExc THEN Raise(m, fault)
      ELSE IF dest.ip > Limit(m, dest.sel) THEN Raise(m, GP(0))
      ELSE Masked(EnterCode(PushFrame(m, m, codes), Stamped(dest.sel, m.cpl), dest.ip), t)

(* Out of virtual 8086 mode the data registers are pushed and closed.      *)
PushVmRegs(m, old) ==
  LET pushed[n \in 0 .. 4] ==
        IF n = 0 THEN m
        ELSE load_data_seg(spush16(pushed[n - 1], old.sr[VmRegs[5 - n]].sel), VmRegs[5 - n], Null)
  IN  IF old.vm THEN pushed[4] ELSE m

InterruptInner(m, dest, t, codes) ==
  LET fault == NewStackFault(m, dest.to, (IF m.vm THEN 9 ELSE 5) + Extra(codes))
      frame == OnNewStack([m EXCEPT !.cpl = dest.to, !.vm = FALSE], dest.to)
      stacked == spush(spush16(PushVmRegs(frame, m), m.sr["SS"].sel), m.sp)
  IN  IF fault # NoExc THEN Raise(m, fault)
      ELSE IF dest.ip > Limit(m, dest.sel) THEN Raise(m, GP(0))
      ELSE Masked(EnterCode(PushFrame(stacked, m, codes), Stamped(dest.sel, dest.to), dest.ip), t)

Nothing == [fault |-> FALSE, contributory |-> FALSE, page |-> FALSE, double |-> FALSE]

(* vec: history, the vector that was last given to do_intrupt.             *)
do_intrupt(m, vector, priv_check, codes, unset) ==
  LET tried == [m EXCEPT !.vec = vector]
      Taken(dest, sized) ==
        IF dest.exc # NoExc THEN Raise(tried, dest.exc)
        ELSE IF dest.to = NEW_TASK THEN InterruptTask(sized, dest, codes, unset)
        ELSE IF dest.to = SAME_LEVEL
        THEN InterruptSame(sized, dest, m.idt[vector].t, codes)
        ELSE InterruptInner(sized, dest, m.idt[vector].t, codes)
      Gated(dest) == Taken(dest, [tried EXCEPT !.w = dest.w])
  IN  Then(IF ~ m.pe THEN InterruptReal(tried, vector)
           ELSE Gated(validate_int_dest(m, vector, priv_check)),
           LAMBDA n : [n EXCEPT !.ext = FALSE, !.doing = Nothing])

INTx(m, vector, unset) ==
  IF m.vm /\ m.cpl > m.iopl THEN Raise(m, GP(0))
  ELSE do_intrupt([m EXCEPT !.ext = FALSE], vector, TRUE, <<>>, unset)

(***************************************************************************)
(* Exceptions                                                              *)
(***************************************************************************)
(* Mutant: the handler returns behind the instruction that faulted.        *)
GoneOn(m) == [m EXCEPT !.w = OperandSize(m.sr["CS"].x)]

Restarted(m) == [m EXCEPT !.eip = m.save, !.w = OperandSize(m.sr["CS"].x)]

Shutdown(m) ==
  [m EXCEPT !.reset = TRUE, !.ext = FALSE, !.doing = [Nothing EXCEPT !.fault = m.doing.fault]]

(* What an exception handler gives to do_intrupt; after a shutdown nothing. *)
Vectored(m, nr, codes) == [m |-> m, nr |-> nr, codes |-> codes]

DoubleFault(m) ==
  LET aborted == [Restarted(m) EXCEPT !.doing.fault = FALSE, !.doing.double = m.pe, !.ext = FALSE]
  IN  IF m.pe /\ m.doing.double THEN Vectored(Shutdown([m EXCEPT !.doing.fault = FALSE]), 8, <<>>)
      ELSE Vectored(aborted, 8, <<0>>)

(* Mutant: a second fault while a page fault is delivered is taken as one. *)
ContributoryAfterPage(m, e) ==
  LET faulting == [m EXCEPT !.doing.fault = TRUE]
  IN  IF m.doing.double THEN Vectored(Shutdown(faulting), e.nr, <<>>)
      ELSE IF m.doing.contributory THEN DoubleFault(faulting)
      ELSE Vectored([Restarted(faulting) EXCEPT !.doing.contributory = TRUE, !.ext = FALSE],
                    e.nr, <<e.code + Bit(m.ext)>>)

contributory_exception(m, e) ==
  LET faulting == [m EXCEPT !.doing.fault = TRUE]
  IN  IF m.doing.double THEN Vectored(Shutdown(faulting), e.nr, <<>>)
      ELSE IF m.doing.contributory \/ m.doing.page THEN DoubleFault(faulting)
      ELSE Vectored([Restarted(faulting) EXCEPT !.doing.contributory = TRUE, !.ext = FALSE],
                    e.nr, <<e.code + Bit(m.ext)>>)

PageFault(m, e) ==
  LET faulting == [m EXCEPT !.doing.fault = TRUE]
  IN  IF m.doing.double THEN Vectored(Shutdown(faulting), 14, <<>>)
      ELSE IF m.doing.page THEN DoubleFault(faulting)
      ELSE Vectored([Restarted(faulting) EXCEPT !.doing.page = TRUE], 14, <<e.code>>)

Int0(m) ==
  Vectored([Restarted(m) EXCEPT !.doing.fault = TRUE, !.ext = FALSE,
                                !.doing.contributory = @ \/ m.pe], 0, <<>>)

(* Bounds, opcode, coprocessor not available, coprocessor error.           *)
External == {16}

benign_exception(m, nr) ==
  Vectored([Restarted(m) EXCEPT !.doing.fault = TRUE, !.ext = nr \in External], nr, <<>>)

(* What was raised is delivered; that may raise again.                     *)
Deliver(m, unset) ==
  LET n == Raise(m, NoExc)
      Handler(e) == CASE e.nr \in 10 .. 13 -> contributory_exception(n, e)
                      [] e.nr = 14 -> PageFault(n, e)
                      [] e.nr = 0 -> Int0(n)
                      [] e.nr \in {5, 6, 7, 16} -> benign_exception(n, e.nr)
      Enter(v) == IF v.m.reset THEN v.m ELSE do_intrupt(v.m, v.nr, FALSE, v.codes, unset)
  IN  Enter(Handler(m.exc))
=============================================================================
