----------------------------- MODULE Protection -----------------------------
(***************************************************************************)
(* The processor between rings, tasks and modes: programs that call, jump, *)
(* return, interrupt and load segments, an operating system that takes     *)
(* pages away, and interrupts of the board.  One step is one instruction,  *)
(* or the delivery of what it raised (which may raise again).  A plan      *)
(* fixes tables, memory and the instructions that take part.               *)
(***************************************************************************)
EXTENDS Transfers, SequencesExt

CONSTANTS Plans

VARIABLES
  m,        \* the processor, its tables and its stacks
  start,    \* history: what the program saw when the instruction began
  chain,    \* history: the exceptions raised since then
  outside,  \* history: whether a source outside the program began this
  frames,   \* history: the transfers that are still to be returned from
  came,     \* history: what the last such return brought, and what it should have
  steps,    \* instructions executed, at most plan.steps
  plan

history == <<start, chain, outside, frames, came>>
vars == <<m, history, steps, plan>>

(***************************************************************************)
(* Instructions                                                            *)
(***************************************************************************)
(* Instructions that go on to NEXT_INST past the check for interrupts.     *)
Quiet(op) == op.op \in {"STI", "IRET"} \/ (op.op = "MOV" /\ op.reg = "SS")

(* DO_INST: RF is cleared before the instruction; flip is the size prefix. *)
Fetched(op) ==
  [m EXCEPT !.save = m.eip, !.eip = @ + 1, !.rf = FALSE, !.quiet = Quiet(op),
            !.w = OperandSize(m.sr["CS"].x # op.flip)]

Completed(n) ==
  IF Sound(n) THEN [n EXCEPT !.w = OperandSize(n.sr["CS"].x), !.save = n.eip] ELSE n

(* LLDT, LTR: system instructions, unknown outside protected mode.         *)
Privileged(n, op) ==
  IF Flat(n) THEN Raise(n, Exc(6, 0))
  ELSE IF n.cpl # 0 THEN Raise(n, GP(0))
  ELSE IF op.op = "LTR" THEN LTR(n, op.sel) ELSE LLDT(n, op.sel)

SetIF(n, on) == IF n.cpl > n.iopl THEN Raise(n, GP(0)) ELSE [n EXCEPT !.iff = on]

(* POP of a value nobody asks for: an error code, a parameter.             *)
POP(n) ==
  IF validate_stack_exists(n, 1) # NoExc THEN Raise(n, validate_stack_exists(n, 1))
  ELSE change_SP(n, n.w)

PUSH(n, value) ==
  IF validate_stack_space(n, 1) # NoExc THEN Raise(n, validate_stack_space(n, 1))
  ELSE spush(n, value)

(***************************************************************************)
(* History                                                                 *)
(***************************************************************************)
(* What a program may rely on to find again.                               *)
Visible(n, eip) ==
  [cs |-> n.sr["CS"].sel, eip |-> eip, ss |-> n.sr["SS"].sel, sp |-> n.sp, cpl |-> n.cpl,
   iff |-> n.iff, nt |-> n.nt, iopl |-> n.iopl, vm |-> n.vm, rf |-> n.rf, tr |-> n.tr.sel,
   data |-> IF n.vm THEN [k \in 1 .. 4 |-> n.sr[VmRegs[k]].sel] ELSE <<>>]

Frame(kind, n, above, want) ==
  [kind |-> kind, base |-> n.sr["SS"].base, sp |-> n.sp + above, w |-> n.w, want |-> want]

Switched(n) == n.tr.sel # start'.tr

(* n left for a procedure, a handler or a task.                            *)
Left(n, kind, above, want) ==
  Append(frames, Frame(IF Switched(n) THEN "task" ELSE kind, n, above, want))

(* A program that takes a return address off its stack does not return.    *)
Kept(n, fs) ==
  IF \A i \in DOMAIN fs : fs[i].base = n.sr["SS"].base => n.sp <= fs[i].sp THEN fs ELSE <<>>

(* The frame the instruction, fetched as f, returns from.                  *)
Matches(f, kind) ==
  /\ frames # <<>>
  /\ LET top == Last(frames)
     IN  \/ kind = "int" /\ top.kind = "task" /\ f.nt /\ ~ Flat(f)
         \/ /\ top.kind = kind /\ ~ (kind = "int" /\ f.nt /\ ~ Flat(f))
            /\ top.base = f.sr["SS"].base /\ top.sp = f.sp /\ top.w = f.w

(* A 16-bit return restores no RF, one above IOPL no IF, RETF no flag, and *)
(* none within virtual 8086 mode the data registers.                       *)
Wanted(f, n, kind, words) ==
  LET want == Last(frames).want
      got == Visible(n, n.eip)
  IN  IF Last(frames).kind = "task" THEN want
      ELSE IF kind = "call"
      THEN [want EXCEPT !.sp = change_SP([n EXCEPT !.sp = want.sp], words).sp,
                        !.iff = got.iff, !.rf = got.rf, !.nt = got.nt, !.data = got.data]
      ELSE [want EXCEPT !.iff = IF f.cpl > f.iopl THEN got.iff ELSE @,
                        !.rf = IF f.w = 1 THEN got.rf ELSE @,
                        !.data = IF f.vm THEN got.data ELSE @]

NoReturn == [got |-> 0, want |-> 0]

(***************************************************************************)
(* Steps.  n is what the instruction, fetched as f, made of the machine.   *)
(***************************************************************************)
Running == Sound(m) /\ ~ m.reset /\ steps < plan.steps

Ends(f, n, external) ==
  /\ m' = Completed(n)
  /\ start' = Visible(f, f.save)
  /\ chain' = IF Sound(n) THEN <<>> ELSE <<n.exc>>
  /\ outside' = external
  /\ steps' = steps + 1
  /\ UNCHANGED plan

Straight(f, n) == Ends(f, n, FALSE) /\ came' = NoReturn /\ UNCHANGED frames

(* No return is expected in a task that was left for good.                 *)
Moves(f, n) ==
  /\ Ends(f, n, FALSE)
  /\ came' = NoReturn
  /\ frames' = IF Switched(n) THEN <<>> ELSE frames

Leaves(f, n, kind, external) ==
  /\ Ends(f, n, external)
  /\ came' = NoReturn
  /\ frames' = IF Sound(n) THEN Left(n, kind, 0, Visible(f, f.eip)) ELSE frames

Returns(f, n, kind, words) ==
  /\ Ends(f, n, FALSE)
  /\ came' = IF Sound(n) /\ Matches(f, kind)
             THEN [got |-> Visible(n, n.eip), want |-> Wanted(f, n, kind, words)]
             ELSE NoReturn
  /\ frames' = IF ~ Sound(n) THEN frames
               ELSE IF Matches(f, kind) THEN Kept(n, Front(frames)) ELSE <<>>

CallFar(op, unset) ==
  /\ Running /\ op.op = "CALLF"
  /\ LET f == Fetched(op) IN Leaves(f, CALLF(f, op.sel, op.ip, unset), "call", FALSE)

JumpFar(op, unset) ==
  /\ Running /\ op.op = "JMPF"
  /\ LET f == Fetched(op) IN Moves(f, JMPF(f, op.sel, op.ip, unset))

ReturnFar(op) ==
  /\ Running /\ op.op = "RETF"
  /\ LET f == Fetched(op) IN Returns(f, RETF(f, op.words), "call", op.words)

InterruptReturn(op, unset) ==
  /\ Running /\ op.op = "IRET"
  /\ LET f == Fetched(op) IN Returns(f, IRET(f, unset), "int", 0)

SoftwareInterrupt(op, unset) ==
  /\ Running /\ op.op = "INT"
  /\ LET f == Fetched(op) IN Leaves(f, INTx(f, op.vector, unset), "int", FALSE)

(* Between two instructions, when IF and the first of them allow it.       *)
HardwareInterrupt(op, unset) ==
  /\ Running /\ op.op = "HWINT" /\ m.iff /\ ~ m.quiet
  /\ Leaves([m EXCEPT !.save = m.eip],
            do_intrupt([m EXCEPT !.ext = TRUE, !.quiet = TRUE], op.vector, FALSE, <<>>, unset),
            "int", TRUE)

LoadSegment(op) ==
  /\ Running /\ op.op = "MOV"
  /\ LET f == Fetched(op) IN Straight(f, MOV_SR(f, op.reg, op.sel))

LoadSystem(op) ==
  /\ Running /\ op.op \in {"LTR", "LLDT"}
  /\ LET f == Fetched(op) IN Moves(f, Privileged(f, op))

Stays(f, n) == Ends(f, n, FALSE) /\ came' = NoReturn /\ frames' = Kept(n, frames)

UseStack(op) ==
  /\ Running /\ op.op \in {"POP", "PUSH"}
  /\ LET f == Fetched(op) IN Stays(f, IF op.op = "POP" THEN POP(f) ELSE PUSH(f, op.value))

ChangeIF(op) ==
  /\ Running /\ op.op \in {"CLI", "STI"}
  /\ LET f == Fetched(op) IN Straight(f, SetIF(f, op.op = "STI"))

(* An instruction that only faults: division, opcode, coprocessor, page.   *)
Fault(op) ==
  /\ Running /\ op.op = "FAULT"
  /\ LET f == Fetched(op)
     IN  /\ Ends(f, Raise(f, Exc(op.nr, 0)), op.nr \in External)
         /\ came' = NoReturn /\ UNCHANGED frames

(* The operating system, elsewhere, takes a stack's page away or back.     *)
Page(op) ==
  /\ Running /\ op.op = "PAGE"
  /\ m' = [m EXCEPT !.absent = IF op.base \in @ THEN @ \ {op.base} ELSE @ \cup {op.base}]
  /\ steps' = steps + 1
  /\ UNCHANGED <<history, plan>>

Pushes(nr) == IF m.pe /\ nr \in {8, 10, 11, 12, 13, 14} THEN 1 ELSE 0

(* A double fault aborts; the other exceptions are faults and restart.     *)
Delivered(n) ==
  /\ m' = Completed(n)
  /\ chain' = IF Sound(n) THEN chain ELSE Append(chain, n.exc)
  /\ start' = start
  /\ frames' = IF start.tr # m.tr.sel THEN <<>>
               ELSE IF Sound(n) /\ ~ n.reset
               THEN Left(n, "int", IF Switched(n) THEN 0 ELSE Pushes(n.vec) * n.w,
                         [start EXCEPT !.rf = @ \/ (n.vec # 8 /\ ~ Switched(n))])
               ELSE frames
  /\ came' = NoReturn
  /\ UNCHANGED <<outside, steps, plan>>

DeliverException(unset) ==
  /\ ~ Sound(m)
  /\ Delivered(Deliver([m EXCEPT !.quiet = TRUE], unset))

Init ==
  /\ \E p \in Plans : m = p.machine /\ plan = p.program
  /\ start = Visible(m, m.eip)
  /\ chain = <<>> /\ outside = FALSE /\ frames = <<>> /\ came = NoReturn
  /\ steps = 0

Next ==
  \E unset \in plan.unset :
    \/ \E op \in plan.ops :
         \/ CallFar(op, unset) \/ JumpFar(op, unset) \/ ReturnFar(op)
         \/ InterruptReturn(op, unset) \/ SoftwareInterrupt(op, unset)
         \/ HardwareInterrupt(op, unset)
         \/ LoadSegment(op) \/ LoadSystem(op) \/ UseStack(op) \/ ChangeIF(op)
         \/ Fault(op) \/ Page(op)
    \/ DeliverException(unset)

Spec == Init /\ [][Next]_vars

(***************************************************************************)
(* Properties                                                              *)
(***************************************************************************)
(* Between instructions the level in CPL is the one CS was entered at, the *)
(* stack belongs to exactly that level, and a data register through which  *)
(* memory can be reached could be loaded at that level: gates, returns and *)
(* task switches never leave a segment of an inner ring behind.            *)
RingsHold ==
  Sound(m) /\ ~ m.reset /\ m.pe =>
    IF m.vm THEN m.cpl = 3 /\ \A reg \in DOMAIN m.sr : m.sr[reg].dpl = 3
    ELSE /\ RPL(m.sr["CS"].sel) = m.cpl
         /\ IF m.sr["CS"].c THEN m.sr["CS"].dpl <= m.cpl ELSE m.sr["CS"].dpl = m.cpl
         /\ StackInRing(m)
         /\ \A k \in 1 .. 4 : DataInRing(m, DataRegs[k])

(* RETF and IRET bring a program back to where its CALL, INT, exception or *)
(* task switch took it away: code, stack, level, mode and flags, with the  *)
(* faulting instruction restarted and RF set for it.                       *)
ReturnRestores == came.got = came.want

(* An instruction that faults has done nothing: its handler, and every one *)
(* after it when delivery faults again, finds the program as it was before *)
(* the instruction, so that it can be restarted ("Stack Checking MUST have *)
(* been completed earlier", say the routines that move a stack).           *)
FaultChangesNothing == ~ Sound(m) /\ m.tr.sel = start.tr => Visible(m, m.save) = start

(* A call through a gate has the inner level and its code, and faults on   *)
(* the page of the caller's stack it then reads its parameters from.       *)
HalfCalled ==
  /\ chain[1].nr = 14 /\ m.cpl < start.cpl
  /\ m.sr["SS"].sel = start.ss /\ m.sr["SS"].base \in m.absent

(* The same of every instruction but one: CALLF takes a gate's parameters  *)
(* off the caller's stack unchecked, after it has entered the gate         *)
(* (call.c:179-192).                                                       *)
FaultIsPrecise == ~ Sound(m) /\ ~ HalfCalled => FaultChangesNothing

(* Handlers as the rules of double faults give them (c_xcptn.c's two       *)
(* checks): a second contributory exception or one after a page fault is a *)
(* double fault, and one more shuts the processor down.                    *)
Contributory == {0, 10, 11, 12, 13}
ShutDown == -2

Escalated(handling, nr) ==
  CASE handling = 8 -> ShutDown
    [] handling \in Contributory /\ nr \in Contributory -> 8
    [] handling = 14 /\ nr \in Contributory \cup {14} -> 8
    [] OTHER -> nr

Expected == FoldLeft(LAMBDA handling, e : Escalated(handling, e.nr), -1, chain)

ExpectedCode ==
  IF Expected \in {8, 14} THEN 0 ELSE Last(chain).code + Bit(outside)

(* When delivery is over, the handler that runs is the one the chain of    *)
(* exceptions calls for, the error code on its stack names the selector or *)
(* vector of the last one and who began it, and nothing of the chain is    *)
(* remembered for the next exception.                                      *)
RightHandlerRuns ==
  Sound(m) /\ chain # <<>> =>
    IF m.reset THEN Expected = ShutDown
    ELSE /\ m.vec = Expected /\ m.doing = Nothing /\ ~ m.ext
         /\ Pushes(Expected) = 1 => Word(m, m.sp) = ExpectedCode

(* Tasks that were left by a nesting switch wait: each stays busy, none is *)
(* the current one, and the back links lead from the current task through  *)
(* all of them in the order they were left (validate_TSS never lets a busy *)
(* task be entered, which would overwrite its link).                       *)
Nested == SelectSeq(frames, LAMBDA f : f.kind = "task")
Entered(i) == IF i = Len(Nested) THEN m.tr.sel ELSE Nested[i + 1].want.tr

BackLinksNameWaiting ==
  Sound(m) /\ ~ m.reset =>
    \A i \in 1 .. Len(Nested) :
      LET waiting == Nested[i].want.tr
      IN  /\ m.gdt[INDEX(waiting)].busy /\ waiting # m.tr.sel
          /\ m.tss[m.gdt[INDEX(Entered(i))].base].link = waiting

(* In every state an instruction can find, VERR, VERW, LAR, LSL and ARPL   *)
(* agree with what loading the selector would do (verr.c to arpl.c against *)
(* load_data_seg): a service that asks first is never faulted, and one     *)
(* that is refused was not refused needlessly.                             *)
VerifyPredictsLoad ==
  Sound(m) /\ ~ Flat(m) => \A sel \in plan.asked : VerifyAgrees(m, sel)

(* A task that is entered goes on where it was left: "CS selector requires *)
(* no checks" in virtual 8086 mode, but it must be loaded.                 *)
TaskStartsWhereItStopped ==
  [][m'.tr.sel # m.tr.sel /\ Sound(m') =>
       m'.sr["CS"].sel = m.tss[m'.tr.base].sel["CS"]]_vars
=============================================================================
