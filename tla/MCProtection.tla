---------------------------- MODULE MCProtection ----------------------------
(***************************************************************************)
(* Two rings with their stacks, a ring between them of 16-bit code, three  *)
(* tasks, an LDT, conforming code and gates of every kind.  Every stack    *)
(* has room for one frame out of virtual 8086 mode and little more, so     *)
(* that nested transfers run out of it.                                    *)
(***************************************************************************)
EXTENDS Protection

Top == 24
MCRealLimit == 24

Code(dpl, c, x, limit) ==
  [t |-> "code", dpl |-> dpl, p |-> TRUE, c |-> c, r |-> TRUE, x |-> x, base |-> 0, limit |-> limit]
Data(dpl, w, base, p) ==
  [t |-> "data", dpl |-> dpl, p |-> p, w |-> w, x |-> TRUE, base |-> base, limit |-> Top]
CallGate(dpl, sel, off, count, size) ==
  [t |-> "call", dpl |-> dpl, p |-> TRUE, sel |-> sel, off |-> off, count |-> count, size |-> size]
Gate(t, dpl, sel, off) ==
  [t |-> t, dpl |-> dpl, p |-> TRUE, sel |-> sel, off |-> off, size |-> 2]
Tss(base, busy) ==
  [t |-> "tss", dpl |-> 3, p |-> TRUE, size |-> 2, busy |-> busy, base |-> base, room |-> TRUE]

G(idx) == Selector(idx, 0, 0)
At(idx, rpl) == Selector(idx, 0, rpl)
L(idx, rpl) == Selector(idx, 1, rpl)

CS0 == G(1)
SS0 == G(2)
CS3 == At(3, 3)
SS3 == At(4, 3)
TaskA == G(7)
TaskB == G(8)
TaskC == G(9)

GDT ==
  1 :> Code(0, FALSE, TRUE, 400) @@ 2 :> Data(0, TRUE, 1, TRUE) @@
  3 :> Code(3, FALSE, TRUE, 400) @@ 4 :> Data(3, TRUE, 4, TRUE) @@
  5 :> Code(0, TRUE, TRUE, 400) @@ 6 :> CallGate(3, CS0, 50, 1, 2) @@
  7 :> Tss(1, TRUE) @@ 8 :> Tss(2, FALSE) @@ 9 :> [Tss(3, FALSE) EXCEPT !.size = 1] @@
  10 :> Gate("task", 3, TaskB, 0) @@ 11 :> Data(0, TRUE, 9, TRUE) @@
  12 :> Code(1, FALSE, FALSE, 400) @@ 13 :> Data(1, TRUE, 2, TRUE) @@
  14 :> CallGate(3, At(12, 0), 60, 2, 1) @@
  15 :> [t |-> "ldt", dpl |-> 0, p |-> TRUE, base |-> 1] @@
  16 :> Data(3, FALSE, 9, TRUE) @@ 17 :> Data(3, TRUE, 9, FALSE) @@
  18 :> CallGate(3, G(5), 70, 0, 2) @@ 19 :> CallGate(0, CS0, 50, 0, 2) @@
  22 :> Gate("task", 3, TaskA, 0)

MCLdts == 0 :> <<>> @@ 1 :> (0 :> Data(3, TRUE, 9, TRUE) @@ 1 :> Code(3, FALSE, TRUE, 400))

Handlers == {0, 6, 8, 10, 11, 12, 13, 14, 16, 32}
IDT == [v \in Handlers |-> Gate("int", 0, CS0, 100 + v)] @@
       33 :> Gate("trap", 3, CS0, 133) @@ 34 :> Gate("task", 3, TaskB, 0) @@
       35 :> Gate("trap", 3, G(5), 135) @@ 36 :> [Gate("int", 3, At(12, 0), 136) EXCEPT !.size = 1]

IVT == [v \in {6, 13, 32, 33} |-> [cs |-> 3, ip |-> 200 + v]]

Task(cs, ss, ss0, ds, ldt) ==
  [link |-> Null, ss |-> 0 :> ss0 @@ 1 :> At(13, 1) @@ 2 :> Null, sp |-> [level \in 0 .. 2 |-> Top],
   eip |-> 10, flags |-> 1, esp |-> Top, ldt |-> ldt,
   sel |-> "CS" :> cs @@ "SS" :> ss @@ "DS" :> ds @@ "ES" :> Null @@ "FS" :> Null @@ "GS" :> Null]

Blank == [o \in 0 .. Top - 1 |-> 0]

(* Ring 0, 1 and 3 stacks of task A; ring 0 and 3 of B; of 8086 mode.      *)
Stacks == [base \in {1, 2, 3, 4, 5, 6, 32, 48} |-> Blank]

TSSs == 1 :> Task(CS3, SS3, SS0, Null, Null) @@
        2 :> Task(CS0, G(20), G(20), G(11), G(15)) @@
        3 :> Task(CS3, At(21, 3), G(23), At(16, 3), Null)

AllTables == GDT @@ 20 :> Data(0, TRUE, 3, TRUE) @@ 21 :> Data(3, TRUE, 5, TRUE) @@
             23 :> Data(0, TRUE, 6, TRUE)

Cache(sel, d) ==
  [sel |-> sel, base |-> d.base, limit |-> d.limit, dpl |-> d.dpl, r |-> TRUE,
   w |-> d.t = "data", c |-> FALSE, x |-> d.x]
Unused == [sel |-> 0, base |-> 0, limit |-> 0, dpl |-> 0, r |-> FALSE, w |-> FALSE, c |-> FALSE,
           x |-> FALSE]

Machine(cs, ss, cpl) ==
  [pe |-> TRUE, vm |-> FALSE, iff |-> TRUE, nt |-> FALSE, iopl |-> 0, rf |-> FALSE, cpl |-> cpl,
   eip |-> 1, save |-> 1, w |-> 2, sp |-> Top,
   sr |-> "CS" :> Cache(cs, AllTables[INDEX(cs)]) @@ "SS" :> Cache(ss, AllTables[INDEX(ss)]) @@
          [k \in {"DS", "ES", "FS", "GS"} |-> Unused],
   tr |-> [sel |-> TaskA, base |-> 1, size |-> 2, room |-> TRUE],
   ldt |-> [sel |-> Null, base |-> 0],
   gdt |-> AllTables, idt |-> IDT, ivt |-> IVT, tss |-> TSSs, mem |-> Stacks, absent |-> {},
   ext |-> FALSE, doing |-> Nothing, exc |-> NoExc, vec |-> -1, reset |-> FALSE,
   quiet |-> FALSE]

User == Machine(CS3, SS3, 3)
Kernel == Machine(CS0, SS0, 0)

RealCache(sel, dpl) == [sel |-> sel, base |-> RealBase(sel), limit |-> MCRealLimit, dpl |-> dpl,
                        r |-> TRUE, w |-> TRUE, c |-> FALSE, x |-> FALSE]
RealRegs(dpl) == "CS" :> RealCache(1, dpl) @@ "SS" :> RealCache(2, dpl) @@ "DS" :> RealCache(3, dpl) @@
                 "ES" :> RealCache(4, dpl) @@ "FS" :> RealCache(5, dpl) @@ "GS" :> RealCache(6, dpl)
Virtual8086 == [User EXCEPT !.vm = TRUE, !.w = 1, !.sr = RealRegs(3), !.sp = 2]
RealMode == [Kernel EXCEPT !.pe = FALSE, !.w = 1, !.sr = RealRegs(0), !.sp = 2]

Op(op) == [op |-> op, flip |-> FALSE]
Call(sel) == Op("CALLF") @@ [sel |-> sel, ip |-> 20]
Jump(sel) == Op("JMPF") @@ [sel |-> sel, ip |-> 30]
Ret(words) == Op("RETF") @@ [words |-> words]
IRet == Op("IRET")
Flipped(op) == [op EXCEPT !.flip = TRUE]
SoftInt(vector) == Op("INT") @@ [vector |-> vector]
HwInt(vector) == Op("HWINT") @@ [vector |-> vector]
Mov(reg, sel) == Op("MOV") @@ [reg |-> reg, sel |-> sel]
Load(op, sel) == Op(op) @@ [sel |-> sel]
Pop == Op("POP")
Push(value) == Op("PUSH") @@ [value |-> value]
Faults(nr) == Op("FAULT") @@ [nr |-> nr]
PageOf(base) == Op("PAGE") @@ [base |-> base]

Program(limit, ops) ==
  [ops |-> ops, steps |-> limit, unset |-> {Null},
   asked |-> {Null, CS3, SS0, At(5, 3), TaskA, G(11), At(16, 3), At(17, 3), L(0, 3), L(2, 0)}]
Plan(machine, limit, ops) == [machine |-> machine, program |-> Program(limit, ops)]

Calls ==
  Plan(User, 4,
       {Call(At(6, 3)), Call(At(14, 3)), Call(At(18, 3)), Call(At(5, 3)), Call(CS3), Call(At(19, 0)),
        Ret(0), Ret(2), Flipped(Ret(2)), Push(7), Jump(At(6, 3)), Jump(At(5, 3)),
        Mov("DS", At(16, 3)), Mov("ES", G(11)), Mov("SS", SS0)})

Interrupts ==
  Plan(User, 4,
       {SoftInt(33), SoftInt(35), SoftInt(36), SoftInt(32), HwInt(32), IRet, Flipped(IRet), Pop, Faults(6),
        Mov("DS", G(11)), Op("CLI"), Op("STI")})

(* Gates with parameters, of both sizes, and stacks without their pages.   *)
Parameters ==
  Plan(User, 4, {PageOf(4), PageOf(1), PageOf(2), Call(At(6, 3)), Call(At(14, 3)), IRet, Pop, Ret(2)})

(* Handlers that are missing, not present, or of the wrong kind, and a     *)
(* kernel stack without its page.                                          *)
Without(idt, vectors) == [v \in DOMAIN idt \ vectors |-> idt[v]]
Chain(idt) ==
  Plan([User EXCEPT !.idt = idt, !.sp = 3], 3,
       {SoftInt(33), HwInt(32), HwInt(40), Faults(0), Faults(6), Faults(14), Faults(16), Call(CS3),
        Mov("DS", At(17, 3)), PageOf(1), PageOf(4), IRet, Pop})

Chains ==
  {[Chain(IDT) EXCEPT !.program.steps = 4], Chain(Without(IDT, {13})), Chain(Without(IDT, {0, 16, 32})),
   Chain([IDT EXCEPT ![14] = Gate("int", 0, G(12), 20)]),
   Chain([IDT EXCEPT ![8] = Gate("task", 0, TaskB, 0), ![13].p = FALSE]),
   Chain([IDT EXCEPT ![13] = Gate("task", 0, TaskB, 0), ![14] = Gate("task", 0, TaskA, 0)]),
   Chain([IDT EXCEPT ![32] = Gate("int", 0, G(2), 20), ![6] = Gate("int", 0, CS0, 500)])}

Switches ==
  Plan(Kernel, 4,
       {Call(TaskB), Call(G(10)), Call(G(22)), Jump(TaskB), Call(TaskA), Call(TaskC), Jump(TaskC), Jump(TaskA),
        SoftInt(34), HwInt(34), IRet, Mov("DS", G(11))})

(* The incoming task cannot run.                                           *)
Broken(task) == Plan([Kernel EXCEPT !.tss[2] = task, !.idt[13] = Gate("int", 0, CS0, 113)], 3,
                     {Call(TaskB), Jump(TaskB), IRet, Pop})
BrokenTasks ==
  LET Good == TSSs[2]
  IN  {Broken([Good EXCEPT !.ldt = G(2)]), Broken([Good EXCEPT !.sel["CS"] = SS0]),
       Broken([Good EXCEPT !.sel["CS"] = At(1, 3)]), Broken([Good EXCEPT !.sel["SS"] = SS3]),
       Broken([Good EXCEPT !.sel["DS"] = At(17, 3)]), Broken([Good EXCEPT !.eip = 500]),
       [Broken(Good) EXCEPT !.machine.tr.sel = Null],
       [Broken(Good) EXCEPT !.machine.gdt[8].room = FALSE]}

LoadsOfTables ==
  Plan([Kernel EXCEPT !.ldt = [sel |-> G(15), base |-> 1]], 4,
       {Mov("DS", L(0, 3)), Mov("ES", G(11)), Mov("FS", G(5)), Load("LLDT", Null), Load("LLDT", G(15)),
        Load("LLDT", G(2)), Load("LTR", TaskB), Load("LTR", TaskA), Call(G(6)), Ret(0), Pop,
        Push(CS3), Push(SS3), Push(5)})

Leaving ==
  Plan([Kernel EXCEPT !.sr["DS"] = Cache(G(11), AllTables[11]), !.sr["ES"] = Cache(At(16, 3), AllTables[16]),
                      !.mem[1][16] = 5, !.mem[1][18] = CS3, !.mem[1][20] = 20, !.mem[1][22] = SS3,
                      !.sp = 16], 4,
       {Ret(0), IRet, Mov("DS", G(5)), Mov("FS", G(11)), Call(At(6, 3)), SoftInt(33)})

Mode8086(iopl) ==
  Plan([Virtual8086 EXCEPT !.iopl = iopl], 4,
       {SoftInt(33), SoftInt(36), HwInt(32), IRet, Call(2), Ret(0), Mov("DS", 9), Faults(6), Op("CLI"), Pop,
        Load("LLDT", G(15))})

Real == Plan(RealMode, 4, {SoftInt(33), HwInt(32), IRet, Call(2), Jump(2), Ret(0), Mov("SS", 3),
                           Faults(6), Push(5), Load("LTR", TaskB)})

MCPlans == {Calls, Interrupts, Parameters, Switches, LoadsOfTables, Leaving, Real, Mode8086(0), Mode8086(3)}
           \cup Chains \cup BrokenTasks

(* Parameters of a call gate on a stack that is paged out.                 *)
MCParameters == {Plan(User, 2, {PageOf(4), Call(At(6, 3))})}

(* A task of virtual 8086 mode.                                            *)
MCTaskOf8086 ==
  {[Plan([Kernel EXCEPT
            !.tss[2].flags = 2 * High,
            !.tss[2].sel = [reg \in DOMAIN @ |-> 2]], 1, {Call(TaskB)})
    EXCEPT !.program.unset = {0, 1, 2}]}
=============================================================================
