-------------------------------- MODULE Alu --------------------------------
(***************************************************************************)
(* The integer instructions of the recovered 80386 (base/ccpu386), each as *)
(* an operator from operands and flags to results and flags.               *)
(*                                                                         *)
(* The C routines are generic in the operand size and take it as a bit     *)
(* count; here it is h, the value of SZ2MSB(op_sz): an operand of that     *)
(* size lies in 0 .. 2*h - 1 and its top bit is set when it is at least h. *)
(* h is 128, 32768 or 2^31 in the program and any power of two here.       *)
(*                                                                         *)
(* A result is [v, f]: the value stored back and the flags.  The build     *)
(* sets every flag Intel leaves undefined to UNDEFINED_FLAG, which is 0.   *)
(***************************************************************************)
EXTENDS Integers, FiniteSets

FlagNames == {"CF", "PF", "AF", "ZF", "SF", "OF"}
Flags == [FlagNames -> BOOLEAN]

Operand(h) == 0 .. (2 * h) - 1

(* (x & b) != 0, b a single bit. *)
Has(x, b) == (x \div b) % 2 = 1
Msb(x, h) == x >= h
Carry(f) == IF f.CF THEN 1 ELSE 0
pf_table(x) == Cardinality({i \in 0 .. 7 : Has(x, 2 ^ i)}) % 2 = 0

(* The value an operand stands for in two's complement. *)
Signed(x, h) == IF x >= h THEN x - (2 * h) ELSE x

(* PF, ZF and SF of a result, the other three as given. *)
Status(r, h, cf, af, of) ==
  [CF |-> cf, PF |-> pf_table(r), AF |-> af, ZF |-> r = 0, SF |-> Msb(r, h), OF |-> of]

(***************************************************************************)
(* Addition and subtraction                                                *)
(***************************************************************************)

AuxCarry(x, y, r) == (Has(x, 16) # Has(y, 16)) # Has(r, 16)
TopCarry(x, y, r, h) == (Msb(x, h) # Msb(y, h)) # Msb(r, h)

(* CF and OF of r = x + y [+ carry], from the three top bits. *)
AddOverflow(x, y, r, h) == Msb(x, h) = Msb(y, h) /\ Msb(y, h) # Msb(r, h)
AddCarry(x, y, r, h) == TopCarry(x, y, r, h) # AddOverflow(x, y, r, h)

SubOverflow(x, y, r, h) == Msb(x, h) # Msb(y, h) /\ Msb(x, h) # Msb(r, h)
SubBorrow(x, y, r, h) == TopCarry(x, y, r, h) # SubOverflow(x, y, r, h)

ADD(x, y, f, h) ==
  LET r == (x + y) % (2 * h)
  IN  [v |-> r, f |-> Status(r, h, AddCarry(x, y, r, h), AuxCarry(x, y, r), AddOverflow(x, y, r, h))]

(* Mutant: the incoming carry is left out of the sum. *)
ADCWithoutCarry(x, y, f, h) ==
  LET r == (x + y) % (2 * h)
  IN  [v |-> r, f |-> Status(r, h, AddCarry(x, y, r, h), AuxCarry(x, y, r), AddOverflow(x, y, r, h))]

ADC(x, y, f, h) ==
  LET r == (x + y + Carry(f)) % (2 * h)
  IN  [v |-> r, f |-> Status(r, h, AddCarry(x, y, r, h), AuxCarry(x, y, r), AddOverflow(x, y, r, h))]

SUB(x, y, f, h) ==
  LET r == (x - y) % (2 * h)
  IN  [v |-> r, f |-> Status(r, h, SubBorrow(x, y, r, h), AuxCarry(x, y, r), SubOverflow(x, y, r, h))]

SBB(x, y, f, h) ==
  LET r == (x - y - Carry(f)) % (2 * h)
  IN  [v |-> r, f |-> Status(r, h, SubBorrow(x, y, r, h), AuxCarry(x, y, r), SubOverflow(x, y, r, h))]

CMP(x, y, f, h) ==
  LET r == (x - y) % (2 * h)
  IN  [v |-> x, f |-> Status(r, h, SubBorrow(x, y, r, h), AuxCarry(x, y, r), SubOverflow(x, y, r, h))]

(* INC and DEC leave CF alone, which multi-word loops rely on. *)
INC(x, f, h) ==
  LET r == (x + 1) % (2 * h)
  IN  [v |-> r, f |-> Status(r, h, f.CF, Has(x, 16) # Has(r, 16), ~Msb(x, h) /\ Msb(r, h))]

DEC(x, f, h) ==
  LET r == (x - 1) % (2 * h)
  IN  [v |-> r, f |-> Status(r, h, f.CF, Has(x, 16) # Has(r, 16), Msb(x, h) /\ ~Msb(r, h))]

NEG(x, f, h) ==
  LET r == (-x) % (2 * h)
  IN  [v |-> r, f |-> Status(r, h, Msb(x, h) \/ Msb(r, h), Has(x, 16) # Has(r, 16),
                             Msb(x, h) /\ Msb(r, h))]

(***************************************************************************)
(* Bitwise operations                                                      *)
(***************************************************************************)

BitAnd[x \in Nat, y \in Nat] ==
  IF x = 0 \/ y = 0 THEN 0
  ELSE (2 * BitAnd[x \div 2, y \div 2]) + ((x % 2) * (y % 2))

Logical(r, h) == [v |-> r, f |-> Status(r, h, FALSE, FALSE, FALSE)]

AND(x, y, f, h) == Logical(BitAnd[x, y], h)
OR(x, y, f, h) == Logical(x + y - BitAnd[x, y], h)
XOR(x, y, f, h) == Logical(x + y - (2 * BitAnd[x, y]), h)
TEST(x, y, f, h) == [v |-> x, f |-> AND(x, y, f, h).f]
NOT(x, f, h) == [v |-> (2 * h) - 1 - x, f |-> f]

(* Scans: with a zero source the destination x stays as it is. *)
BSF(x, y, f, h) ==
  IF y = 0 THEN [v |-> x, f |-> [f EXCEPT !.ZF = TRUE]]
  ELSE LET low[i \in Nat] == IF Has(y, 2 ^ i) THEN i ELSE low[i + 1]
       IN  [v |-> low[0], f |-> [f EXCEPT !.ZF = FALSE]]

BSR(x, y, f, h) ==
  IF y = 0 THEN [v |-> x, f |-> [f EXCEPT !.ZF = TRUE]]
  ELSE LET size == CHOOSE n \in 1 .. 32 : 2 ^ (n - 1) = h
           high[i \in Nat] == IF Has(y, 2 ^ i) THEN i ELSE high[i - 1]
       IN  [v |-> high[size - 1], f |-> [f EXCEPT !.ZF = FALSE]]

(* The bit number is taken modulo the operand size. *)
BitMask(y, h) == LET size == CHOOSE n \in 1 .. 32 : 2 ^ (n - 1) = h IN 2 ^ (y % size)
Tested(x, y, f, h) == [f EXCEPT !.CF = Has(x, BitMask(y, h))]

BT(x, y, f, h) == [v |-> x, f |-> Tested(x, y, f, h)]
BTS(x, y, f, h) ==
  [v |-> IF Has(x, BitMask(y, h)) THEN x ELSE x + BitMask(y, h), f |-> Tested(x, y, f, h)]
BTR(x, y, f, h) ==
  [v |-> IF Has(x, BitMask(y, h)) THEN x - BitMask(y, h) ELSE x, f |-> Tested(x, y, f, h)]
BTC(x, y, f, h) ==
  [v |-> IF Has(x, BitMask(y, h)) THEN x - BitMask(y, h) ELSE x + BitMask(y, h),
   f |-> Tested(x, y, f, h)]

(***************************************************************************)
(* Shifts and rotates.  The count is taken modulo 32; a zero count changes *)
(* neither operand nor flags.  OF of a longer shift is that of its last    *)
(* bit (do_multiple_shiftrot_of, with its environment switch off).         *)
(***************************************************************************)

Count(n) == n % 32

SHL(x, n, f, h) ==
  LET k == Count(n)
      prelim == (x * (2 ^ (k - 1))) % (2 * h)
      r == (2 * prelim) % (2 * h)
  IN  IF k = 0 THEN [v |-> x, f |-> f]
      ELSE [v |-> r, f |-> Status(r, h, Msb(prelim, h), FALSE, Msb(prelim, h) # Msb(r, h))]

SHR(x, n, f, h) ==
  LET k == Count(n)
      prelim == x \div (2 ^ (k - 1))
      r == prelim \div 2
  IN  IF k = 0 THEN [v |-> x, f |-> f]
      ELSE [v |-> r, f |-> Status(r, h, Has(prelim, 1), FALSE, Msb(prelim, h))]

(* One arithmetic shift: the top bit feeds itself. *)
ShiftIn(x, top, h) == (x \div 2) + (IF top THEN h ELSE 0)

SAR(x, n, f, h) ==
  LET k == Count(n)
      shifted[i \in Nat] == IF i = 0 THEN x ELSE ShiftIn(shifted[i - 1], Msb(x, h), h)
      r == shifted[k]
  IN  IF k = 0 THEN [v |-> x, f |-> f]
      ELSE [v |-> r, f |-> Status(r, h, Has(shifted[k - 1], 1), FALSE, FALSE)]

(* Rotates touch CF and OF only.  Bits above the operand size never come  *)
(* back in ROL and RCL and are dropped where the result is stored.        *)
Rotated(r, f, of) == [v |-> r.v, f |-> [f EXCEPT !.CF = r.cf, !.OF = of]]

ROL(x, n, f, h) ==
  LET k == Count(n)
      turn[i \in Nat] == IF i = 0 THEN [v |-> x, cf |-> f.CF]
                         ELSE LET p == turn[i - 1].v
                              IN  [v |-> ((2 * p) % (2 * h)) + (IF Msb(p, h) THEN 1 ELSE 0),
                                   cf |-> Msb(p, h)]
      r == turn[k]
  IN  IF k = 0 THEN [v |-> x, f |-> f] ELSE Rotated(r, f, r.cf # Msb(r.v, h))

(* OF of a right rotate: the two top bits of the result differ. *)
TopsDiffer(x, h) == Msb(x, h) # Msb((2 * x) % (2 * h), h)

ROR(x, n, f, h) ==
  LET k == Count(n)
      turn[i \in Nat] == IF i = 0 THEN [v |-> x, cf |-> f.CF]
                         ELSE LET p == turn[i - 1].v
                              IN  [v |-> ShiftIn(p, Has(p, 1), h), cf |-> Has(p, 1)]
      r == turn[k]
  IN  IF k = 0 THEN [v |-> x, f |-> f] ELSE Rotated(r, f, TopsDiffer(r.v, h))

RCL(x, n, f, h) ==
  LET k == Count(n)
      turn[i \in Nat] == IF i = 0 THEN [v |-> x, cf |-> f.CF]
                         ELSE LET p == turn[i - 1]
                              IN  [v |-> ((2 * p.v) % (2 * h)) + (IF p.cf THEN 1 ELSE 0),
                                   cf |-> Msb(p.v, h)]
      r == turn[k]
  IN  IF k = 0 THEN [v |-> x, f |-> f] ELSE Rotated(r, f, r.cf # Msb(r.v, h))

RCR(x, n, f, h) ==
  LET k == Count(n)
      turn[i \in Nat] == IF i = 0 THEN [v |-> x, cf |-> f.CF]
                         ELSE LET p == turn[i - 1]
                              IN  [v |-> ShiftIn(p.v, p.cf, h), cf |-> Has(p.v, 1)]
      r == turn[k]
  IN  IF k = 0 THEN [v |-> x, f |-> f] ELSE Rotated(r, f, TopsDiffer(r.v, h))

(* The double shifts.  A word's filler is doubled up to fill the 32-bit    *)
(* host register, whose modulus is g; a dword's fills it already.          *)
Register(h, doubled) == IF doubled THEN (2 * h) * (2 * h) ELSE 2 * h
Filler(y, h, doubled) == IF doubled THEN (y * 2 * h) + y ELSE y

SHLD(x, y, n, f, h, doubled) ==
  LET k == Count(n) - 1
      g == Register(h, doubled)
      fill == Filler(y, h, doubled)
      prelim == ((x * (2 ^ k)) % g) + (fill \div (g \div (2 ^ k)))
      r == ((2 * prelim) + (((fill * (2 ^ k)) % g) \div (g \div 2))) % (2 * h)
      cf == Has(prelim, h)
  IN  IF Count(n) = 0 THEN [v |-> x, f |-> f]
      ELSE [v |-> r, f |-> Status(r, h, cf, FALSE,
                                  IF k = 0 THEN cf # Msb(r, h) ELSE Msb(r, h) # Msb(x, h))]

SHRD(x, y, n, f, h, doubled) ==
  LET k == Count(n) - 1
      g == Register(h, doubled)
      wide == IF doubled THEN (y * 2 * h) + x ELSE x
      prelim == (wide \div (2 ^ k)) + (IF k = 0 THEN 0 ELSE (y * (g \div (2 ^ k))) % g)
      r == ((prelim \div 2) + (((y \div (2 ^ k)) * (g \div 2)) % g)) % (2 * h)
  IN  IF Count(n) = 0 THEN [v |-> x, f |-> f]
      ELSE [v |-> r, f |-> Status(r, h, Has(prelim, 1), FALSE,
                                  IF k = 0 THEN Has(prelim, h) # Msb(r, h)
                                           ELSE Msb(r, h) # Msb(x, h))]

(***************************************************************************)
(* Decimal adjustments, on AL and AH (here al and ah, h = 128)             *)
(***************************************************************************)

LowDigitOver(al, f) == al % 16 > 9 \/ f.AF

DAA(al, f) ==
  LET low == IF LowDigitOver(al, f) THEN (al + 6) % 256 ELSE al
      over == al > 153 \/ f.CF
      r == IF over THEN (low + 96) % 256 ELSE low
  IN  [v |-> r, f |-> Status(r, 128, over, LowDigitOver(al, f), FALSE)]

DAS(al, f) ==
  LET low == IF LowDigitOver(al, f) THEN (al - 6) % 256 ELSE al
      over == al > 153 \/ f.CF
      r == IF over THEN (low - 96) % 256 ELSE low
  IN  [v |-> r, f |-> Status(r, 128, over \/ low > 159, LowDigitOver(al, f), FALSE)]

(* A divide error (Int0) leaves registers and flags alone. *)
Fault == [trap |-> "Int0"]

(* The adjustments of unpacked digits go through AX. *)
Unpacked(ax, step, over) ==
  [trap |-> "none", al |-> ax % 16, ah |-> ((ax \div 256) + step) % 256,
   f |-> [[n \in FlagNames |-> FALSE] EXCEPT !.CF = over, !.AF = over]]

AAA(al, ah, f) ==
  IF LowDigitOver(al, f) THEN Unpacked(((256 * ah) + al + 6) % 65536, 1, TRUE)
  ELSE Unpacked((256 * ah) + al, 0, FALSE)

AAS(al, ah, f) ==
  IF LowDigitOver(al, f) THEN Unpacked(((256 * ah) + al - 6) % 65536, -1, TRUE)
  ELSE Unpacked((256 * ah) + al, 0, FALSE)

AAM(al, ah, base) ==
  IF base = 0 THEN Fault ELSE
  [trap |-> "none", al |-> al % base, ah |-> al \div base, f |-> Status(al % base, 128, FALSE, FALSE, FALSE)]

AAD(al, ah, base) ==
  LET r == ((ah * base) + al) % 256
  IN  [trap |-> "none", al |-> r, ah |-> 0, f |-> Status(r, 128, FALSE, FALSE, FALSE)]

(***************************************************************************)
(* Multiplication and division.  Bytes and words use the host's own        *)
(* arithmetic, dwords go by halves; w is the modulus of half an operand,   *)
(* w * w = 2 * h.                                                          *)
(***************************************************************************)

Complement(x, h) == (-x) % (2 * h)

neg64(p, h) ==
  LET hi == (2 * h) - 1 - p.hi
      lo == (2 * h) - 1 - p.lo
  IN  IF lo = (2 * h) - 1 THEN [hi |-> (hi + 1) % (2 * h), lo |-> 0] ELSE [hi |-> hi, lo |-> lo + 1]

(* The carry of lr + (res << half), told from the top bits. *)
HalfCarry(lr, res, sum, h, w) ==
  LET b == Has(res, w \div 2)
  IN  \/ Msb(lr, h) /\ b
      \/ ~Msb(sum, h) /\ (Msb(lr, h) \/ b)

mulu64(x, y, h, w) ==
  LET res1 == (x % w) * (y % w)
      res2 == (x \div w) * (y % w)
      res3 == (x % w) * (y \div w)
      res4 == (x \div w) * (y \div w)
      lr == (res1 + (res2 * w)) % (2 * h)
      temp == (lr + (res3 * w)) % (2 * h)
      carry1 == IF HalfCarry(res1, res2, lr, h, w) THEN 1 ELSE 0
      carry2 == IF HalfCarry(lr, res3, temp, h, w) THEN 1 ELSE 0
  IN  [hi |-> ((res2 \div w) + carry1 + (res3 \div w) + carry2 + res4) % (2 * h), lo |-> temp]

mul64(x, y, h, w) ==
  LET p == mulu64(IF Msb(x, h) THEN Complement(x, h) ELSE x,
                  IF Msb(y, h) THEN Complement(y, h) ELSE y, h, w)
  IN  IF Msb(x, h) # Msb(y, h) THEN neg64(p, h) ELSE p

(* One bit of the long division. *)
DivideStep(s, divisor, h) ==
  LET hd == ((2 * s.hi) % (2 * h)) + (IF Msb(s.lo, h) THEN 1 ELSE 0)
      par == ((2 * s.rem) % (2 * h)) + (IF Msb(s.hi, h) THEN 1 ELSE 0)
      goes == Msb(s.rem, h) \/ divisor <= par
  IN  [hi |-> hd, lo |-> ((2 * s.lo) % (2 * h)) + (IF goes THEN 1 ELSE 0),
       rem |-> IF goes THEN (par - divisor) % (2 * h) ELSE par]

divu64(p, divisor, h) ==
  LET size == CHOOSE n \in 1 .. 32 : 2 ^ (n - 1) = h
      after[i \in Nat] == IF i = 0 THEN [hi |-> p.hi, lo |-> p.lo, rem |-> 0]
                          ELSE DivideStep(after[i - 1], divisor, h)
  IN  after[2 * size]

div64(p, divisor, h) ==
  LET u == divu64(IF Msb(p.hi, h) THEN neg64(p, h) ELSE [hi |-> p.hi, lo |-> p.lo],
                  IF Msb(divisor, h) THEN Complement(divisor, h) ELSE divisor, h)
      q == [hi |-> u.hi, lo |-> u.lo]
      quotient == IF Msb(p.hi, h) # Msb(divisor, h) THEN neg64(q, h) ELSE q
  IN  [hi |-> quotient.hi, lo |-> quotient.lo,
       rem |-> IF Msb(p.hi, h) THEN Complement(u.rem, h) ELSE u.rem]

(* CF and OF alone say whether the upper half matters. *)
Product(p, f, overflow) == [lo |-> p.lo, hi |-> p.hi, f |-> [f EXCEPT !.CF = overflow, !.OF = overflow]]

MUL8(x, y, f, h) ==
  LET p == [hi |-> (x * y) \div (2 * h), lo |-> (x * y) % (2 * h)] IN Product(p, f, p.hi # 0)

MUL32(x, y, f, h, w) == LET p == mulu64(x, y, h, w) IN Product(p, f, p.hi # 0)

(* The upper half is only the sign of the lower one. *)
SignFill(p, h) == p.hi = (IF Msb(p.lo, h) THEN (2 * h) - 1 ELSE 0)

IMUL8(x, y, f, h) ==
  LET r == (Signed(x, h) * Signed(y, h)) % (4 * h * h)
      p == [hi |-> r \div (2 * h), lo |-> r % (2 * h)]
  IN  Product(p, f, ~SignFill(p, h))

IMUL32(x, y, f, h, w) == LET p == mul64(x, y, h, w) IN Product(p, f, ~SignFill(p, h))

DivFlags == [[n \in FlagNames |-> FALSE] EXCEPT !.CF = TRUE]
IdivFlags == [n \in FlagNames |-> FALSE]

DIV8(hi, lo, y, h) ==
  LET n == (hi * 2 * h) + lo
  IN  IF y = 0 \/ n \div y >= 2 * h THEN Fault
      ELSE [trap |-> "none", q |-> n \div y, r |-> n % y, f |-> DivFlags]

DIV32(hi, lo, y, h) ==
  LET s == divu64([hi |-> hi, lo |-> lo], y, h)
  IN  IF y = 0 \/ s.hi # 0 THEN Fault
      ELSE [trap |-> "none", q |-> s.lo, r |-> s.rem, f |-> DivFlags]

(* C division truncates towards zero; the remainder has the dividend's sign. *)
Quotient(n, d) ==
  LET abs(i) == IF i < 0 THEN -i ELSE i
      q == abs(n) \div abs(d)
  IN  IF (n < 0) # (d < 0) THEN -q ELSE q

IDIV8(hi, lo, y, h) ==
  LET n == Signed((hi * 2 * h) + lo, 2 * h * h)
      q == Quotient(n, Signed(y, h))
  IN  IF y = 0 \/ q \notin (-h) .. (h - 1) THEN Fault
      ELSE [trap |-> "none", q |-> q % (2 * h), r |-> (n - (q * Signed(y, h))) % (2 * h), f |-> IdivFlags]

(* IDIV16 divides two 32-bit integers of the host.  The most negative one  *)
(* by -1 is undefined in C; the host's divide instruction faults.          *)
IDIV16(hi, lo, y, h) ==
  IF hi = h /\ lo = 0 /\ y = (2 * h) - 1 THEN [trap |-> "host"] ELSE IDIV8(hi, lo, y, h)

IDIV32(hi, lo, y, h) ==
  LET s == div64([hi |-> hi, lo |-> lo], y, h)
  IN  IF y = 0 \/ ~SignFill(s, h) THEN Fault
      ELSE [trap |-> "none", q |-> s.lo, r |-> s.rem, f |-> IdivFlags]

(* CBW, CWD, CDQ: the upper half takes the sign of the lower. *)
CWD(x, h) == IF Msb(x, h) THEN (2 * h) - 1 ELSE 0

(***************************************************************************)
(* Conditions                                                              *)
(***************************************************************************)

jxx(f) ==
  [B |-> f.CF, BE |-> f.CF \/ f.ZF, L |-> f.SF # f.OF, LE |-> f.SF # f.OF \/ f.ZF,
   NB |-> ~f.CF, NBE |-> ~f.CF /\ ~f.ZF, NL |-> f.SF = f.OF, NLE |-> f.SF = f.OF /\ ~f.ZF,
   O |-> f.OF, NO |-> ~f.OF, P |-> f.PF, NP |-> ~f.PF, S |-> f.SF, NS |-> ~f.SF,
   Z |-> f.ZF, NZ |-> ~f.ZF]

setxx(cc, f) == IF jxx(f)[cc] THEN 1 ELSE 0

(* LOOP and its variants: count down, then jump while the count lasts. *)
loopxx(kind, cx, f, h) ==
  LET n == (cx - 1) % (2 * h)
  IN  [cx |-> n,
       taken |-> n # 0 /\ CASE kind = "LOOP" -> TRUE [] kind = "LOOPE" -> f.ZF [] kind = "LOOPNE" -> ~f.ZF]

JCXZ(cx) == cx = 0
============================================================================
