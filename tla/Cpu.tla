-------------------------------- MODULE Cpu --------------------------------
(***************************************************************************)
(* Short programs of the integer instructions of Alu, run one instruction  *)
(* at a time: what a compiler relies on is not one instruction but the     *)
(* flags that one leaves for the next.                                     *)
(*                                                                         *)
(* The registers are a, b, c and d for AX, BX, CX and DX of the operand    *)
(* size (AL, BL, CL and AH of a byte program).  An instruction is a tuple  *)
(* of its name and operands.  Decoding, memory operands and the move       *)
(* instructions are left out.                                              *)
(***************************************************************************)
EXTENDS Alu, Sequences

(* A program is [text, regs, flags]: its text [name, group, code, h, w,    *)
(* doubled] with the instructions and the operand size, and the registers  *)
(* and flags it may be started with.                                       *)
CONSTANT Programs

VARIABLES text, pc, reg, f, trap,
          start   (* the registers and flags the program began with *)

programVars == <<text, pc, reg, f, trap, start>>

RegisterNames == {"a", "b", "c", "d"}
Running == pc <= Len(text.code) /\ trap = "none"
I == text.code[pc]
X == reg[I[2]]
Y == reg[I[3]]

ProgramInit ==
  /\ \E p \in Programs : text = p.text /\ reg \in p.regs /\ f \in p.flags
  /\ pc = 1 /\ trap = "none"
  /\ start = [reg |-> reg, f |-> f]

Operation(op, x, y, g, h) ==
  CASE op = "ADD" -> ADD(x, y, g, h) [] op = "ADC" -> ADC(x, y, g, h)
    [] op = "SUB" -> SUB(x, y, g, h) [] op = "SBB" -> SBB(x, y, g, h)
    [] op = "CMP" -> CMP(x, y, g, h) [] op = "AND" -> AND(x, y, g, h)
    [] op = "OR" -> OR(x, y, g, h) [] op = "XOR" -> XOR(x, y, g, h)
    [] op = "TEST" -> TEST(x, y, g, h) [] op = "SHL" -> SHL(x, y, g, h)
    [] op = "SHR" -> SHR(x, y, g, h) [] op = "SAR" -> SAR(x, y, g, h)
    [] op = "ROL" -> ROL(x, y, g, h) [] op = "ROR" -> ROR(x, y, g, h)
    [] op = "RCL" -> RCL(x, y, g, h) [] op = "RCR" -> RCR(x, y, g, h)
    [] op = "BSF" -> BSF(x, y, g, h) [] op = "BSR" -> BSR(x, y, g, h)
    [] op = "BT" -> BT(x, y, g, h) [] op = "BTS" -> BTS(x, y, g, h)
    [] op = "BTR" -> BTR(x, y, g, h) [] op = "BTC" -> BTC(x, y, g, h)

(* The registers and flags take what an instruction returned. *)
Stored(values, g) ==
  /\ reg' = values
  /\ f' = g
  /\ pc' = pc + 1
  /\ UNCHANGED <<text, trap, start>>

Trapped(kind) ==
  /\ trap' = kind
  /\ UNCHANGED <<text, pc, reg, f, start>>

TwoOperand ==
  /\ I[1] \in {"ADD", "ADC", "SUB", "SBB", "CMP", "AND", "OR", "XOR", "TEST", "SHL", "SHR", "SAR",
               "ROL", "ROR", "RCL", "RCR", "BSF", "BSR", "BT", "BTS", "BTR", "BTC"}
  /\ LET r == Operation(I[1], X, Y, f, text.h) IN Stored([reg EXCEPT ![I[2]] = r.v], r.f)

OneOperand ==
  /\ I[1] \in {"INC", "DEC", "NEG", "NOT"}
  /\ LET r == CASE I[1] = "INC" -> INC(X, f, text.h) [] I[1] = "DEC" -> DEC(X, f, text.h)
                [] I[1] = "NEG" -> NEG(X, f, text.h) [] I[1] = "NOT" -> NOT(X, f, text.h)
     IN  Stored([reg EXCEPT ![I[2]] = r.v], r.f)

DoubleShift ==
  /\ I[1] \in {"SHLD", "SHRD"}
  /\ LET r == IF I[1] = "SHLD" THEN SHLD(X, Y, reg[I[4]], f, text.h, text.doubled)
                               ELSE SHRD(X, Y, reg[I[4]], f, text.h, text.doubled)
     IN  Stored([reg EXCEPT ![I[2]] = r.v], r.f)

Multiply ==
  /\ I[1] \in {"MUL8", "MUL32", "IMUL8", "IMUL32"}
  /\ LET r == CASE I[1] = "MUL8" -> MUL8(reg.a, X, f, text.h)
                [] I[1] = "MUL32" -> MUL32(reg.a, X, f, text.h, text.w)
                [] I[1] = "IMUL8" -> IMUL8(reg.a, X, f, text.h)
                [] I[1] = "IMUL32" -> IMUL32(reg.a, X, f, text.h, text.w)
     IN  Stored([reg EXCEPT !.a = r.lo, !.d = r.hi], r.f)

(* IMUL with a destination of its own keeps the lower half only. *)
MultiplyTruncated ==
  /\ I[1] \in {"IMUL16T", "IMUL32T"}
  /\ LET r == IF I[1] = "IMUL16T" THEN IMUL8(X, Y, f, text.h) ELSE IMUL32(X, Y, f, text.h, text.w)
     IN  Stored([reg EXCEPT ![I[2]] = r.lo], r.f)

Divided(r) ==
  IF r.trap # "none" THEN Trapped(r.trap)
  ELSE Stored([reg EXCEPT !.a = r.q, !.d = r.r], r.f)

Divide ==
  /\ I[1] \in {"DIV8", "DIV32", "IDIV8", "IDIV16", "IDIV32"}
  /\ Divided(CASE I[1] = "DIV8" -> DIV8(reg.d, reg.a, X, text.h)
               [] I[1] = "DIV32" -> DIV32(reg.d, reg.a, X, text.h)
               [] I[1] = "IDIV8" -> IDIV8(reg.d, reg.a, X, text.h)
               [] I[1] = "IDIV16" -> IDIV16(reg.d, reg.a, X, text.h)
               [] I[1] = "IDIV32" -> IDIV32(reg.d, reg.a, X, text.h))

AdjustPacked ==
  /\ I[1] \in {"DAA", "DAS"}
  /\ LET r == IF I[1] = "DAA" THEN DAA(reg.a, f) ELSE DAS(reg.a, f)
     IN  Stored([reg EXCEPT !.a = r.v], r.f)

AdjustUnpacked ==
  /\ I[1] \in {"AAA", "AAS", "AAM", "AAD"}
  /\ LET r == CASE I[1] = "AAA" -> AAA(reg.a, reg.d, f) [] I[1] = "AAS" -> AAS(reg.a, reg.d, f)
                [] I[1] = "AAM" -> AAM(reg.a, reg.d, I[2]) [] I[1] = "AAD" -> AAD(reg.a, reg.d, I[2])
     IN  IF r.trap # "none" THEN Trapped(r.trap)
         ELSE Stored([reg EXCEPT !.a = r.al, !.d = r.ah], r.f)

SignExtend ==
  /\ I[1] = "CWD"
  /\ Stored([reg EXCEPT !.d = CWD(reg.a, text.h)], f)

SetByte ==
  /\ I[1] = "SET"
  /\ Stored([reg EXCEPT ![I[2]] = setxx(I[3], f)], f)

Goto(taken, target) ==
  /\ pc' = IF taken THEN target ELSE pc + 1
  /\ UNCHANGED <<text, f, trap, start>>

Jump ==
  /\ I[1] \in {"J", "JCXZ"}
  /\ Goto(IF I[1] = "J" THEN jxx(f)[I[3]] ELSE JCXZ(reg.c), I[2])
  /\ UNCHANGED reg

Loop ==
  /\ I[1] \in {"LOOP", "LOOPE", "LOOPNE"}
  /\ LET r == loopxx(I[1], reg.c, f, text.h)
     IN  reg' = [reg EXCEPT !.c = r.cx] /\ Goto(r.taken, I[2])

ProgramNext ==
  /\ Running
  /\ \/ TwoOperand \/ OneOperand \/ DoubleShift \/ Multiply \/ MultiplyTruncated
     \/ Divide \/ AdjustPacked \/ AdjustUnpacked \/ SignExtend \/ SetByte \/ Jump \/ Loop

ProgramSpec == ProgramInit /\ [][ProgramNext]_programVars

(* Every register holds an operand of the program's size, c or a shift count. *)
ProgramTypeOK ==
  /\ reg \in [RegisterNames -> Operand(text.h) \cup Operand(32)]
  /\ \A r \in RegisterNames \ {"c"} : reg[r] \in Operand(text.h)
  /\ f \in Flags
  /\ trap \in {"none", "Int0", "host"}
============================================================================
