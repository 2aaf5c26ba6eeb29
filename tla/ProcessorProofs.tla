---------------------------- MODULE ProcessorProofs ---------------------------
(***************************************************************************)
(* Proofs about the operators of the processor.                            *)
(*                                                                         *)
(* The arithmetic: what the carry, overflow and order conditions of Alu    *)
(* mean, for every operand size: base/ccpu386 computes them from the top   *)
(* bits of operands and result alone.                                      *)
(*                                                                         *)
(* The segments: what loading and examining a selector does, whatever the  *)
(* descriptor tables hold: the facts that RingsHold and VerifyPredictsLoad *)
(* of Protection rest on.                                                  *)
(*                                                                         *)
(* The translation buffer: the fast lookup of base/ccpu386 answers as the  *)
(* buffer itself would, through every fill, flush and change of ring.      *)
(***************************************************************************)
EXTENDS Alu, Segments, Tlb, TLAPS

(***************************************************************************)
(* The arithmetic.                                                         *)
(***************************************************************************)

(* A number in range is its own remainder.                                 *)
LEMMA InRange ==
  ASSUME NEW c \in Nat \ {0}, NEW n \in 0..(c - 1)
  PROVE  n % c = n
BY SMT

(* A remainder just above or below the range.                              *)
LEMMA Wrapped ==
  ASSUME NEW span \in Nat \ {0}, NEW n \in Int, -span <= n, n < 2 * span
  PROVE  n % span = IF n < 0 THEN n + span ELSE IF n < span THEN n ELSE n - span
BY SMT

(* CF of an addition is its carry out and OF its signed overflow; the      *)
(* three top bits tell both, with or without a carry coming in.            *)
LEMMA AddFlags ==
  ASSUME NEW h \in Nat \ {0}, NEW x \in Operand(h), NEW y \in Operand(h), NEW c \in {0, 1},
         NEW r \in Int, r = (x + y + c) % (2 * h)
  PROVE  /\ r \in Operand(h)
         /\ AddCarry(x, y, r, h) <=> x + y + c >= 2 * h
         /\ r = IF x + y + c >= 2 * h THEN x + y + c - (2 * h) ELSE x + y + c
         /\ AddOverflow(x, y, r, h) <=> Signed(x, h) + Signed(y, h) + c \notin (-h) .. (h - 1)
<1> DEFINE n == x + y + c
           span == 2 * h
<1>1. span \in Nat \ {0} /\ n \in Int /\ -span <= n /\ n < 2 * span
  BY SMT DEF Operand
<1>2. r = IF n < 0 THEN n + span ELSE IF n < span THEN n ELSE n - span
  <2> HIDE DEF n, span
  <2>1. n % span = IF n < 0 THEN n + span ELSE IF n < span THEN n ELSE n - span
    BY <1>1, Wrapped, Zenon
  <2> QED
    BY <2>1 DEF n, span
<1>3. r \in Operand(h) /\ r = IF x + y + c >= 2 * h THEN x + y + c - (2 * h) ELSE x + y + c
  BY <1>2, SMT DEF Operand
<1>4. AddCarry(x, y, r, h) <=> x + y + c >= 2 * h
  BY <1>3, SMT DEF AddCarry, TopCarry, AddOverflow, Msb, Operand
<1>5. AddOverflow(x, y, r, h) <=> Signed(x, h) + Signed(y, h) + c \notin (-h) .. (h - 1)
  BY <1>3, SMT DEF AddOverflow, Msb, Operand, Signed
<1> QED
  BY <1>3, <1>4, <1>5

(* CF of a subtraction is its borrow and OF its signed overflow.           *)
LEMMA SubFlags ==
  ASSUME NEW h \in Nat \ {0}, NEW x \in Operand(h), NEW y \in Operand(h), NEW c \in {0, 1},
         NEW r \in Int, r = (x - y - c) % (2 * h)
  PROVE  /\ r \in Operand(h)
         /\ SubBorrow(x, y, r, h) <=> x < y + c
         /\ r = IF x < y + c THEN x - y - c + (2 * h) ELSE x - y - c
         /\ SubOverflow(x, y, r, h) <=> Signed(x, h) - Signed(y, h) - c \notin (-h) .. (h - 1)
<1> DEFINE n == x - y - c
           span == 2 * h
<1>1. span \in Nat \ {0} /\ n \in Int /\ -span <= n /\ n < 2 * span
  BY SMT DEF Operand
<1>2. r = IF n < 0 THEN n + span ELSE IF n < span THEN n ELSE n - span
  <2> HIDE DEF n, span
  <2>1. n % span = IF n < 0 THEN n + span ELSE IF n < span THEN n ELSE n - span
    BY <1>1, Wrapped, Zenon
  <2> QED
    BY <2>1 DEF n, span
<1>3. r \in Operand(h) /\ r = IF x < y + c THEN x - y - c + (2 * h) ELSE x - y - c
  BY <1>2, SMT DEF Operand
<1>4. SubBorrow(x, y, r, h) <=> x < y + c
  BY <1>3, SMT DEF SubBorrow, TopCarry, SubOverflow, Msb, Operand
<1>5. SubOverflow(x, y, r, h) <=> Signed(x, h) - Signed(y, h) - c \notin (-h) .. (h - 1)
  BY <1>3, SMT DEF SubOverflow, Msb, Operand, Signed
<1> QED
  BY <1>3, <1>4, <1>5

(* After CMP the ten conditions that order two operands order them, as     *)
(* unsigned numbers by CF and ZF and as signed ones by SF, OF and ZF, at   *)
(* every operand size: cmp.c, jxx.c and setxx.c.                           *)
THEOREM CompareOrders ==
  ASSUME NEW h \in Nat \ {0}, NEW x \in Operand(h), NEW y \in Operand(h), NEW f \in Flags
  PROVE  LET j == jxx(CMP(x, y, f, h).f)
         IN  /\ j.B <=> x < y
             /\ j.BE <=> x <= y
             /\ j.NB <=> x >= y
             /\ j.NBE <=> x > y
             /\ j.L <=> Signed(x, h) < Signed(y, h)
             /\ j.LE <=> Signed(x, h) <= Signed(y, h)
             /\ j.NL <=> Signed(x, h) >= Signed(y, h)
             /\ j.NLE <=> Signed(x, h) > Signed(y, h)
             /\ j.Z <=> x = y
             /\ j.NZ <=> x # y
<1> DEFINE r == (x - y) % (2 * h)
           g == CMP(x, y, f, h).f
<1>1. r \in Int /\ r = (x - y - 0) % (2 * h) /\ 0 \in {0, 1}
  BY SMT DEF Operand
<1>2. g = Status(r, h, SubBorrow(x, y, r, h), AuxCarry(x, y, r), SubOverflow(x, y, r, h))
  BY DEF CMP
<1> HIDE DEF r, g
<1>3. /\ r \in Operand(h)
      /\ SubBorrow(x, y, r, h) <=> x < y + 0
      /\ r = IF x < y + 0 THEN x - y - 0 + (2 * h) ELSE x - y - 0
      /\ SubOverflow(x, y, r, h) <=> Signed(x, h) - Signed(y, h) - 0 \notin (-h) .. (h - 1)
  BY <1>1, SubFlags, Zenon
<1>4. /\ g.CF <=> x < y
      /\ g.ZF <=> x = y
  <2>1. g.CF = SubBorrow(x, y, r, h) /\ g.ZF = (r = 0)
    BY <1>2 DEF Status
  <2>2. (SubBorrow(x, y, r, h) <=> x < y) /\ (r = 0 <=> x = y)
    BY <1>3, SMT DEF Operand
  <2> QED
    BY <2>1, <2>2, Zenon
<1>5. (g.SF # g.OF) <=> Signed(x, h) < Signed(y, h)
  <2>1. g.SF = Msb(r, h) /\ g.OF = SubOverflow(x, y, r, h)
    BY <1>2 DEF Status
  <2>2. (Msb(r, h) # SubOverflow(x, y, r, h)) <=> Signed(x, h) < Signed(y, h)
    BY <1>3, SMT DEF Msb, SubOverflow, Signed, Operand
  <2> QED
    BY <2>1, <2>2
<1>6. /\ Signed(x, h) \in Int /\ Signed(y, h) \in Int
      /\ Signed(x, h) = Signed(y, h) <=> x = y
  BY SMT DEF Signed, Operand
<1>7. /\ g.CF \in BOOLEAN /\ g.ZF \in BOOLEAN /\ g.SF \in BOOLEAN /\ g.OF \in BOOLEAN
  BY <1>2 DEF Status, Msb, SubBorrow, SubOverflow, TopCarry
<1>8. /\ x <= y <=> (x < y \/ x = y)
      /\ x >= y <=> ~(x < y)
      /\ x > y <=> (~(x < y) /\ x # y)
      /\ Signed(x, h) <= Signed(y, h) <=> (Signed(x, h) < Signed(y, h) \/ x = y)
      /\ Signed(x, h) >= Signed(y, h) <=> ~(Signed(x, h) < Signed(y, h))
      /\ Signed(x, h) > Signed(y, h) <=> (~(Signed(x, h) < Signed(y, h)) /\ x # y)
  BY <1>6, SMT DEF Operand
<1>9. LET j == jxx(g)
      IN  /\ j.B <=> g.CF
          /\ j.BE <=> g.CF \/ g.ZF
          /\ j.NB <=> ~g.CF
          /\ j.NBE <=> ~g.CF /\ ~g.ZF
          /\ j.L <=> g.SF # g.OF
          /\ j.LE <=> g.SF # g.OF \/ g.ZF
          /\ j.NL <=> ~(g.SF # g.OF)
          /\ j.NLE <=> ~(g.SF # g.OF) /\ ~g.ZF
          /\ j.Z <=> g.ZF
          /\ j.NZ <=> ~g.ZF
  BY <1>7, Zenon DEF jxx
<1> QED
  BY <1>4, <1>5, <1>8, <1>9 DEF g

(* The flags an operation leaves are flags.                                *)
LEMMA StatusType ==
  ASSUME NEW r, NEW h, NEW cf \in BOOLEAN, NEW af \in BOOLEAN, NEW of \in BOOLEAN
  PROVE  Status(r, h, cf, af, of) \in Flags
<1> DEFINE s == Status(r, h, cf, af, of)
<1>1. Msb(r, h) \in BOOLEAN /\ pf_table(r) \in BOOLEAN /\ (r = 0) \in BOOLEAN
  BY DEF Msb, pf_table
<1>2. s = [n \in FlagNames |-> s[n]]
  BY DEF Status, FlagNames
<1>3. \A n \in FlagNames : s[n] \in BOOLEAN
  <2>1. s["CF"] \in BOOLEAN /\ s["AF"] \in BOOLEAN /\ s["OF"] \in BOOLEAN
    BY DEF Status
  <2>2. s["PF"] \in BOOLEAN /\ s["ZF"] \in BOOLEAN /\ s["SF"] \in BOOLEAN
    BY <1>1 DEF Status
  <2> HIDE DEF s
  <2> QED
    BY <2>1, <2>2 DEF FlagNames
<1> QED
  BY <1>2, <1>3 DEF Flags

(* ADC is exact: value and carry together are the sum of both operands and *)
(* the carry that came in.                                                 *)
LEMMA AdcExact ==
  ASSUME NEW h \in Nat \ {0}, NEW x \in Operand(h), NEW y \in Operand(h), NEW f \in Flags
  PROVE  LET s == ADC(x, y, f, h)
         IN  /\ s.v \in Operand(h)
             /\ s.v + (2 * h * Carry(s.f)) = x + y + Carry(f)
             /\ Carry(s.f) \in {0, 1}
<1> DEFINE c == Carry(f)
           r == (x + y + c) % (2 * h)
           s == ADC(x, y, f, h)
<1>1. c \in {0, 1}
  BY DEF Carry
<1>2. r \in Int /\ r = (x + y + c) % (2 * h)
  BY <1>1, SMT DEF Operand
<1>3. s.v = r /\ s.f.CF = AddCarry(x, y, r, h)
  BY DEF ADC, Status
<1> HIDE DEF c, r, s
<1>4. /\ r \in Operand(h)
      /\ AddCarry(x, y, r, h) <=> x + y + c >= 2 * h
      /\ r = IF x + y + c >= 2 * h THEN x + y + c - (2 * h) ELSE x + y + c
      /\ AddOverflow(x, y, r, h) <=> Signed(x, h) + Signed(y, h) + c \notin (-h) .. (h - 1)
  <2>1. r \in Int
    BY <1>2
  <2>2. r = (x + y + c) % (2 * h)
    BY <1>2
  <2> QED
    BY <1>1, <2>1, <2>2, AddFlags, SMTT(60)
<1>5. Carry(s.f) = IF x + y + c >= 2 * h THEN 1 ELSE 0
  BY <1>3, <1>4 DEF Carry
<1>6. r + (2 * h * Carry(s.f)) = x + y + c
  <2>1. CASE x + y + c >= 2 * h
    BY <1>1, <1>4, <1>5, <2>1, SMT DEF Operand
  <2>2. CASE ~(x + y + c >= 2 * h)
    BY <1>1, <1>4, <1>5, <2>2, SMT DEF Operand
  <2> QED
    BY <2>1, <2>2
<1> QED
  BY <1>3, <1>4, <1>5, <1>6 DEF s, c

(* ADD leaves what ADC would with no carry coming in.                      *)
LEMMA AddIsAdc ==
  ASSUME NEW h \in Nat \ {0}, NEW x \in Operand(h), NEW y \in Operand(h), NEW f \in Flags, ~f.CF
  PROVE  ADD(x, y, f, h) = ADC(x, y, f, h)
<1>1. x + y + Carry(f) = x + y
  BY SMT DEF Carry, Operand
<1> QED
  BY <1>1 DEF ADD, ADC

(* ADD does not look at the flags.                                         *)
LEMMA AddIgnoresFlags ==
  ASSUME NEW h, NEW x, NEW y, NEW f, NEW g
  PROVE  ADD(x, y, f, h) = ADD(x, y, g, h)
BY DEF ADD

(* ADD of the lower words and ADC of the upper ones add two-word numbers,  *)
(* at every word size: what compilers emit for long additions.             *)
THEOREM TwoWordAdd ==
  ASSUME NEW h \in Nat \ {0}, NEW f \in Flags,
         NEW a \in Operand(h), NEW b \in Operand(h), NEW c \in Operand(h), NEW d \in Operand(h)
  PROVE  LET span == 2 * h
             low == ADD(a, b, f, h)
             high == ADC(d, c, low.f, h)
         IN  (span * high.v) + low.v + (span * span * Carry(high.f))
               = (span * d) + a + (span * c) + b
<1> DEFINE span == 2 * h
           zero == [n \in FlagNames |-> FALSE]
           low == ADD(a, b, f, h)
           high == ADC(d, c, low.f, h)
           k == Carry(low.f)
           l == Carry(high.f)
<1>1. zero \in Flags /\ ~zero.CF
  BY DEF Flags, FlagNames
<1>2. low = ADC(a, b, zero, h)
  BY <1>1, AddIsAdc, AddIgnoresFlags
<1>3. low.v \in Operand(h) /\ low.v + (span * k) = a + b + Carry(zero) /\ k \in {0, 1}
  <2> HIDE DEF zero, low
  <2> QED
    BY <1>1, <1>2, AdcExact
<1>4. Carry(zero) = 0
  BY <1>1 DEF Carry
<1>5. low.f \in Flags
  <2> DEFINE r == (a + b) % (2 * h)
  <2>1. /\ AddCarry(a, b, r, h) \in BOOLEAN /\ AuxCarry(a, b, r) \in BOOLEAN
        /\ AddOverflow(a, b, r, h) \in BOOLEAN
    BY DEF AddCarry, AuxCarry, AddOverflow
  <2>2. low.f = Status(r, h, AddCarry(a, b, r, h), AuxCarry(a, b, r), AddOverflow(a, b, r, h))
    BY DEF ADD
  <2> HIDE DEF r, low
  <2> QED
    BY <2>1, <2>2, StatusType
<1>6. high.v \in Operand(h) /\ high.v + (span * l) = d + c + k /\ l \in {0, 1}
  <2> HIDE DEF low
  <2> QED
    BY <1>5, AdcExact
<1>7. span \in Nat
  OBVIOUS
<1> SUFFICES (span * high.v) + low.v + (span * span * l) = (span * d) + a + (span * c) + b
  OBVIOUS
<1> DEFINE u == low.v
           v == high.v
<1>8. u \in Int /\ v \in Int /\ k \in Int /\ l \in Int /\ span \in Int
      /\ a \in Int /\ b \in Int /\ c \in Int /\ d \in Int
  BY <1>3, <1>6, SMT DEF Operand
<1>9. u + (span * k) = a + b /\ v + (span * l) = d + c + k
  BY <1>3, <1>4, <1>6, <1>8, SMT
<1> HIDE DEF u, v, k, l, span
<1>10. (span * v) + (span * (span * l)) = (span * d) + (span * c) + (span * k)
  <2>1. span * (v + (span * l)) = span * (d + c + k)
    BY <1>9
  <2>2. span * (v + (span * l)) = (span * v) + (span * (span * l))
        /\ span * (d + c + k) = (span * d) + (span * c) + (span * k)
    BY <1>8, SMT
  <2> QED
    BY <2>1, <2>2
<1>11. span * span * l = span * (span * l)
  BY <1>8, SMT
<1> QED
  BY <1>8, <1>9, <1>10, <1>11, SMT DEF u, v

(* neg64 negates a two-word number: the carry into the upper word happens  *)
(* exactly when the complemented lower word is all ones.                   *)
THEOREM Neg64Negates ==
  ASSUME NEW h \in Nat \ {0}, NEW p \in [hi : Operand(h), lo : Operand(h)]
  PROVE  LET span == 2 * h
             q == neg64(p, h)
         IN  /\ q \in [hi : Operand(h), lo : Operand(h)]
             /\ (span * p.hi) + p.lo + (span * q.hi) + q.lo \in {0, span * span}
<1> DEFINE span == 2 * h
           x == span - 1 - p.hi
           q == neg64(p, h)
<1>1. p.hi \in Operand(h) /\ p.lo \in Operand(h)
  OBVIOUS
<1>2. span \in Nat \ {0} /\ x \in Operand(h) /\ x \in Int /\ x + 1 \in Int
  BY <1>1, SMT DEF Operand
<1>3. CASE span - 1 - p.lo = span - 1
  <2>1. q = [hi |-> (x + 1) % span, lo |-> 0] /\ p.lo = 0
    BY <1>1, <1>3, SMT DEF neg64, Operand
  <2>2. (x + 1) % span = IF x + 1 < span THEN x + 1 ELSE 0
    <3> DEFINE n == x + 1
    <3>1. n \in Int /\ -span <= n /\ n < 2 * span /\ ~(n < 0) /\ (~(n < span) => n - span = 0)
      BY <1>2, SMT DEF Operand
    <3> HIDE DEF n, span
    <3>2. n % span = IF n < 0 THEN n + span ELSE IF n < span THEN n ELSE n - span
      BY <1>2, <3>1, Wrapped, Zenon
    <3>3. n % span = IF n < span THEN n ELSE 0
      BY <3>1, <3>2
    <3> QED
      BY <3>3 DEF n
  <2>3. CASE x + 1 < span
    <3>1. q.hi = span - p.hi /\ q.lo = 0 /\ q \in [hi : Operand(h), lo : Operand(h)]
      BY <1>1, <1>2, <2>1, <2>2, <2>3, SMT DEF Operand
    <3>2. span * p.hi + (span * (span - p.hi)) = span * span
      BY <1>1, <1>2, SMT DEF Operand
    <3> QED
      BY <1>1, <1>2, <2>1, <3>1, <3>2, SMT DEF Operand
  <2>4. CASE ~(x + 1 < span)
    <3>1. q.hi = 0 /\ q.lo = 0 /\ p.hi = 0 /\ q \in [hi : Operand(h), lo : Operand(h)]
      BY <1>1, <1>2, <2>1, <2>2, <2>4, SMT DEF Operand
    <3> QED
      BY <1>1, <1>2, <2>1, <3>1, SMT DEF Operand
  <2> QED
    BY <2>3, <2>4
<1>4. CASE ~(span - 1 - p.lo = span - 1)
  <2>1. q = [hi |-> x, lo |-> span - 1 - p.lo + 1]
    BY <1>4 DEF neg64
  <2>2. q.hi = x /\ q.lo = span - p.lo /\ q \in [hi : Operand(h), lo : Operand(h)]
    BY <1>1, <1>2, <1>4, <2>1, SMT DEF Operand
  <2>3. span * p.hi + (span * x) = (span * span) - span
    BY <1>1, <1>2, SMT DEF Operand
  <2> QED
    BY <1>1, <1>2, <2>2, <2>3, SMT DEF Operand
<1> QED
  BY <1>3, <1>4

(* One round of divu64: the doubled remainder and the next dividend bit    *)
(* are the divisor times the bit put out, plus a remainder below the       *)
(* divisor, also when the doubled remainder does not fit its register.     *)
THEOREM DivideStepDivides ==
  ASSUME NEW h \in Nat \ {0}, NEW divisor \in Operand(h),
         NEW s \in [hi : Operand(h), lo : Operand(h), rem : Operand(h)], s.rem < divisor
  PROVE  LET t == DivideStep(s, divisor, h)
         IN  \E bit \in {0, 1} :
               /\ t.lo = ((2 * s.lo) % (2 * h)) + bit
               /\ (2 * s.rem) + (IF Msb(s.hi, h) THEN 1 ELSE 0) = (divisor * bit) + t.rem
               /\ t.rem \in 0 .. (divisor - 1)
<1> DEFINE span == 2 * h
           in == IF Msb(s.hi, h) THEN 1 ELSE 0
           n == 2 * s.rem
           par == (n % span) + in
           goes == Msb(s.rem, h) \/ divisor <= par
           t == DivideStep(s, divisor, h)
<1>1. s.rem \in Operand(h) /\ in \in {0, 1} /\ span \in Nat \ {0} /\ n \in Int
      /\ -span <= n /\ n < 2 * span
  BY SMT DEF Operand
<1>2. t.lo = ((2 * s.lo) % span) + (IF goes THEN 1 ELSE 0)
      /\ t.rem = IF goes THEN (par - divisor) % span ELSE par
  BY DEF DivideStep
<1>3. n % span = IF s.rem >= h THEN n - span ELSE n
  <2>1. n % span = IF n < 0 THEN n + span ELSE IF n < span THEN n ELSE n - span
    <3> HIDE DEF n, span
    <3> QED
      BY <1>1, Wrapped, Zenon
  <2> QED
    BY <1>1, <2>1, SMT DEF Operand
<1>4. par \in Int /\ par = IF s.rem >= h THEN n - span + in ELSE n + in
  BY <1>1, <1>3, SMT
<1>5. CASE goes
  <2> DEFINE k == par - divisor
  <2>1. k \in Int /\ -span <= k /\ k < 2 * span
    BY <1>1, <1>4, SMT DEF Operand
  <2>2. k % span = IF k < 0 THEN k + span ELSE IF k < span THEN k ELSE k - span
    <3> HIDE DEF k, span
    <3> QED
      BY <1>1, <2>1, Wrapped, Zenon
  <2>3. k % span = n + in - divisor /\ k % span \in 0 .. (divisor - 1)
    BY <1>1, <1>4, <1>5, <2>2, SMT DEF Operand, Msb
  <2>4. t.lo = ((2 * s.lo) % span) + 1 /\ t.rem = k % span
    BY <1>2, <1>5
  <2>5. n + in = (divisor * 1) + t.rem
    BY <1>1, <2>3, <2>4, SMT DEF Operand
  <2> QED
    BY <2>3, <2>4, <2>5
<1>6. CASE ~goes
  <2>1. t.lo = ((2 * s.lo) % span) + 0 /\ t.rem = par
    BY <1>2, <1>6
  <2>2. par = n + in /\ par \in 0 .. (divisor - 1)
    BY <1>1, <1>4, <1>6, SMT DEF Operand, Msb
  <2>3. n + in = (divisor * 0) + t.rem
    BY <1>1, <2>1, <2>2, SMT DEF Operand
  <2> QED
    BY <2>1, <2>2, <2>3
<1> QED
  BY <1>5, <1>6

(* Quotient and remainder of a number written as such.                     *)
LEMMA Division ==
  ASSUME NEW v \in Nat \ {0}, NEW k \in Int, NEW r \in 0 .. (v - 1)
  PROVE  ((v * k) + r) \div v = k /\ ((v * k) + r) % v = r
BY SMT

LEMMA Divided ==
  ASSUME NEW v \in Nat \ {0}, NEW n \in Nat
  PROVE  /\ n \div v \in Nat
         /\ n % v \in 0 .. (v - 1)
         /\ n = (v * (n \div v)) + (n % v)
BY SMT

(* The top bit of the lower half.                                          *)
LEMMA HalfTop ==
  ASSUME NEW v \in Nat \ {0}, NEW n \in Nat
  PROVE  Has(n, v) <=> n % (2 * v) >= v
<1> DEFINE w == 2 * v
           q == n \div w
           r == n % w
<1>1. w \in Nat \ {0} /\ w = 2 * v
  OBVIOUS
<1>2. q \in Nat /\ r \in 0 .. (w - 1) /\ n = (w * q) + r
  <2> HIDE DEF w
  <2> QED
    BY <1>1, Divided, Zenon
<1> HIDE DEF q, r, w
<1>3. CASE r >= v
  <2> DEFINE k == (2 * q) + 1
             u == r - v
  <2>1. k \in Int /\ u \in 0 .. (v - 1) /\ n = (v * k) + u
    BY <1>1, <1>2, <1>3, SMT
  <2>2. k % 2 = 1
    BY <1>2, SMT
  <2> HIDE DEF k, u
  <2>3. n \div v = k
    BY <2>1, Division
  <2> QED
    BY <1>3, <2>2, <2>3 DEF Has, r, w
<1>4. CASE ~(r >= v)
  <2> DEFINE k == 2 * q
  <2>1. k \in Int /\ r \in 0 .. (v - 1) /\ n = (v * k) + r
    BY <1>1, <1>2, <1>4, SMT
  <2>2. k % 2 = 0
    BY <1>2, SMT
  <2> HIDE DEF k
  <2>3. n \div v = k
    BY <2>1, Division
  <2> QED
    BY <1>4, <2>2, <2>3 DEF Has, r, w
<1> QED
  BY <1>3, <1>4

(* Adding a shifted partial product: HalfCarry is the carry out.           *)
LEMMA HalfSum ==
  ASSUME NEW v \in Nat \ {0}, NEW w \in Nat \ {0}, w = 2 * v, NEW h \in Nat \ {0}, h = w * v
  PROVE  \A lr \in Operand(h), res \in Nat, sum \in Int, c \in {0, 1} :
            (sum = (lr + (res * w)) % (2 * h) /\ c = IF HalfCarry(lr, res, sum, h, w) THEN 1 ELSE 0)
              => sum \in Operand(h) /\ (2 * h * (res \div w)) + (2 * h * c) + sum = lr + (res * w)
<1> TAKE lr \in Operand(h), res \in Nat, sum \in Int, c \in {0, 1}
<1> HAVE sum = (lr + (res * w)) % (2 * h) /\ c = IF HalfCarry(lr, res, sum, h, w) THEN 1 ELSE 0
<1> DEFINE span == 2 * h
           q == res \div w
           r == res % w
           t == w * r
           n == lr + t
<1>1. span \in Nat \ {0} /\ span = w * w
  BY SMT
<1>2. q \in Nat /\ r \in 0 .. (w - 1) /\ res = (w * q) + r
  BY Divided, Zenon
<1> HIDE DEF q, r
<1>3. t \in Nat /\ t <= w * (w - 1)
  BY <1>2, SMT
<1>4. t < span
  BY <1>1, <1>3, SMT
<1>5. res * w = (span * q) + t
  BY <1>1, <1>2, SMT
<1>6. (t >= h) <=> (r >= v)
  <2>1. CASE r >= v
    BY <1>2, <2>1, SMT
  <2>2. CASE ~(r >= v)
    <3>1. w * r < w * v
      BY <1>2, <2>2, SMT
    <3> QED
      BY <2>2, <3>1, <1>3, SMT
  <2> QED
    BY <2>1, <2>2
<1>7. w \div 2 = v
  BY SMT
<1>8. Has(res, w \div 2) <=> t >= h
  BY <1>6, <1>7, HalfTop DEF r
<1> HIDE DEF t, span
<1>9. n \in Nat /\ n < 2 * span
  BY <1>1, <1>3, <1>4, SMT DEF Operand, span
<1>10. sum = IF n < span THEN n ELSE n - span
  <2> DEFINE o == IF n < span THEN n ELSE n - span
             k == IF n < span THEN q ELSE q + 1
  <2>1. lr + (res * w) = (span * k) + o /\ k \in Int /\ o \in 0 .. (span - 1)
    <3>1. lr + (res * w) = (span * q) + n
      BY <1>1, <1>2, <1>3, <1>5, SMT DEF Operand
    <3>2. CASE n < span
      BY <1>1, <1>2, <1>9, <3>1, <3>2, SMT
    <3>3. CASE ~(n < span)
      <4>1. span * (q + 1) = (span * q) + span
        BY <1>1, <1>2, SMT
      <4>2. k = q + 1 /\ o = n - span
        BY <3>3
      <4> QED
        BY <1>1, <1>2, <1>9, <3>1, <3>3, <4>1, <4>2, SMT
    <3> QED
      BY <3>2, <3>3
  <2> HIDE DEF o, k
  <2>2. ((span * k) + o) % span = o
    BY <1>1, <2>1, Division, ZenonT(60)
  <2>3. sum = o
    BY <2>1, <2>2 DEF span
  <2> QED
    BY <2>3 DEF o
<1>11. sum \in Operand(h)
  BY <1>1, <1>9, <1>10, SMT DEF Operand, span
<1>12. c = IF n < span THEN 0 ELSE 1
  BY <1>3, <1>4, <1>8, <1>9, <1>10, SMT DEF HalfCarry, Msb, Operand, span
<1>13. (span * q) + (span * c) + sum = lr + (res * w)
  <2>1. span * c + sum = n
    BY <1>1, <1>9, <1>10, <1>12, SMT
  <2>2. span * q \in Int /\ span * c \in Int /\ sum \in Int /\ lr \in Int /\ t \in Int
    BY <1>1, <1>2, <1>3, SMT DEF Operand
  <2> DEFINE e == span * q
             g == span * c
             j == res * w
  <2>3. g + sum = lr + t /\ j = e + t
    BY <1>5, <2>1
  <2> HIDE DEF e, g, j
  <2>4. e + g + sum = lr + j
    BY <2>2, <2>3, SMT DEF e, g
  <2> QED
    BY <2>4 DEF e, g, j
<1> QED
  BY <1>11, <1>13 DEF span, q

(* mulu64 multiplies: four half-width products and two carries make the    *)
(* exact two-word product, for every even half width.                      *)
THEOREM Mulu64Multiplies ==
  ASSUME NEW v \in Nat \ {0}, NEW w \in Nat \ {0}, w = 2 * v, NEW h \in Nat \ {0}, h = w * v,
         NEW x \in Operand(h), NEW y \in Operand(h)
  PROVE  LET p == mulu64(x, y, h, w)
         IN  /\ p.lo \in Operand(h) /\ p.hi \in Operand(h)
             /\ (2 * h * p.hi) + p.lo = x * y
<1> DEFINE span == 2 * h
           la == x % w
           ha == x \div w
           lb == y % w
           hb == y \div w
           res1 == la * lb
           res2 == ha * lb
           res3 == la * hb
           res4 == ha * hb
           lr == (res1 + (res2 * w)) % span
           temp == (lr + (res3 * w)) % span
           c1 == IF HalfCarry(res1, res2, lr, h, w) THEN 1 ELSE 0
           c2 == IF HalfCarry(lr, res3, temp, h, w) THEN 1 ELSE 0
           top == (res2 \div w) + c1 + (res3 \div w) + c2 + res4
           p == mulu64(x, y, h, w)
<1>1. p.lo = temp /\ p.hi = top % span
  BY DEF mulu64
<1>2. span \in Nat \ {0} /\ span = w * w /\ span = 2 * h
  BY SMT
<1>3. x \in Nat /\ y \in Nat /\ x < span /\ y < span
  BY SMT DEF Operand
<1>4. /\ la \in 0 .. (w - 1) /\ ha \in Nat /\ x = (w * ha) + la
      /\ lb \in 0 .. (w - 1) /\ hb \in Nat /\ y = (w * hb) + lb
  <2>1. la \in 0 .. (w - 1) /\ ha \in Nat /\ x = (w * ha) + la
    BY <1>3, Divided, Zenon
  <2>2. lb \in 0 .. (w - 1) /\ hb \in Nat /\ y = (w * hb) + lb
    BY <1>3, Divided, Zenon
  <2> QED
    BY <2>1, <2>2
<1> HIDE DEF la, ha, lb, hb, span, p
<1>5. res1 \in Nat /\ res2 \in Nat /\ res3 \in Nat /\ res4 \in Nat
  BY <1>4, SMT
<1>6. res1 \in Operand(h)
  <2>1. la * lb <= (w - 1) * (w - 1)
    BY <1>4, SMT
  <2>2. (w - 1) * (w - 1) < span
    BY <1>2, SMT
  <2> QED
    BY <1>2, <1>5, <2>1, <2>2, SMT DEF Operand
<1>7. x * y = (span * res4) + (res2 * w) + (res3 * w) + res1
  <2>1. x * y = ((w * ha) + la) * ((w * hb) + lb)
    BY <1>4
  <2>2. ((w * ha) + la) * ((w * hb) + lb)
          = (w * w * (ha * hb)) + ((ha * lb) * w) + ((la * hb) * w) + (la * lb)
    BY <1>4, SMT
  <2> QED
    BY <1>2, <2>1, <2>2
<1> HIDE DEF res1, res2, res3, res4
<1>8. lr \in Int /\ lr = (res1 + (res2 * w)) % (2 * h) /\ c1 \in {0, 1}
  BY <1>2, <1>5, SMT
<1>9. lr \in Operand(h) /\ (2 * h * (res2 \div w)) + (2 * h * c1) + lr = res1 + (res2 * w)
  <2> DEFINE l == lr
             c == c1
  <2>1. l \in Int /\ l = (res1 + (res2 * w)) % (2 * h) /\ c \in {0, 1}
        /\ c = IF HalfCarry(res1, res2, l, h, w) THEN 1 ELSE 0
    BY <1>8
  <2> HIDE DEF l, c
  <2>2. res1 \in Operand(h) /\ res2 \in Nat /\ w = 2 * v /\ h = w * v
    BY <1>5, <1>6
  <2>3. l \in Operand(h) /\ (2 * h * (res2 \div w)) + (2 * h * c) + l = res1 + (res2 * w)
    <3>1. l \in Int
      BY <2>1
    <3>2. l = (res1 + (res2 * w)) % (2 * h)
      BY <2>1
    <3>3. c \in {0, 1}
      BY <2>1
    <3>4. c = IF HalfCarry(res1, res2, l, h, w) THEN 1 ELSE 0
      BY <2>1
    <3>5. \A n \in Operand(h), k \in Nat, i \in Int, j \in {0, 1} :
            (i = (n + (k * w)) % (2 * h) /\ j = IF HalfCarry(n, k, i, h, w) THEN 1 ELSE 0)
              => i \in Operand(h) /\ (2 * h * (k \div w)) + (2 * h * j) + i = n + (k * w)
      BY <2>2, HalfSum, ZenonT(60)
    <3> QED
      BY <2>2, <3>1, <3>2, <3>3, <3>4, <3>5, ZenonT(60)
  <2> QED
    BY <2>3 DEF l, c
<1> HIDE DEF lr, c1
<1>10. temp \in Int /\ temp = (lr + (res3 * w)) % (2 * h) /\ c2 \in {0, 1}
  BY <1>2, <1>5, <1>8, SMT
<1>11. temp \in Operand(h) /\ (2 * h * (res3 \div w)) + (2 * h * c2) + temp = lr + (res3 * w)
  <2> DEFINE l == temp
             c == c2
  <2>1. l \in Int /\ l = (lr + (res3 * w)) % (2 * h) /\ c \in {0, 1}
        /\ c = IF HalfCarry(lr, res3, l, h, w) THEN 1 ELSE 0
    BY <1>10
  <2> HIDE DEF l, c
  <2>2. lr \in Operand(h) /\ res3 \in Nat /\ w = 2 * v /\ h = w * v
    BY <1>5, <1>9
  <2>3. l \in Operand(h) /\ (2 * h * (res3 \div w)) + (2 * h * c) + l = lr + (res3 * w)
    <3>1. l \in Int
      BY <2>1
    <3>2. l = (lr + (res3 * w)) % (2 * h)
      BY <2>1
    <3>3. c \in {0, 1}
      BY <2>1
    <3>4. c = IF HalfCarry(lr, res3, l, h, w) THEN 1 ELSE 0
      BY <2>1
    <3>5. \A n \in Operand(h), k \in Nat, i \in Int, j \in {0, 1} :
            (i = (n + (k * w)) % (2 * h) /\ j = IF HalfCarry(n, k, i, h, w) THEN 1 ELSE 0)
              => i \in Operand(h) /\ (2 * h * (k \div w)) + (2 * h * j) + i = n + (k * w)
      BY <2>2, HalfSum, ZenonT(60)
    <3> QED
      BY <2>2, <3>1, <3>2, <3>3, <3>4, <3>5, ZenonT(60)
  <2> QED
    BY <2>3 DEF l, c
<1> HIDE DEF temp, c2
<1> DEFINE q2 == res2 \div w
           q3 == res3 \div w
<1>12. q2 \in Nat /\ q3 \in Nat
  BY <1>5, Divided, Zenon
<1> HIDE DEF q2, q3
<1>13. top = q2 + c1 + q3 + c2 + res4 /\ top \in Nat
  BY <1>5, <1>8, <1>10, <1>12, SMT DEF q2, q3
<1>14. span * top = (span * q2) + (span * c1) + (span * q3) + (span * c2) + (span * res4)
  BY <1>2, <1>5, <1>8, <1>10, <1>12, <1>13, SMT
<1>15. (span * q2) + (span * c1) + lr = res1 + (res2 * w)
       /\ (span * q3) + (span * c2) + temp = lr + (res3 * w)
  BY <1>9, <1>11 DEF span, q2, q3
<1> HIDE DEF top
<1>16. (span * top) + temp = x * y
  <2> DEFINE a2 == res2 * w
             a3 == res3 * w
             b1 == span * q2
             b2 == span * c1
             b3 == span * q3
             b4 == span * c2
             b5 == span * res4
  <2>1. /\ a2 \in Int /\ a3 \in Int /\ b1 \in Int /\ b2 \in Int /\ b3 \in Int
        /\ b4 \in Int /\ b5 \in Int
        /\ lr \in Int /\ temp \in Int /\ res1 \in Int
    BY <1>2, <1>5, <1>8, <1>10, <1>12, SMT
  <2>2. /\ span * top = b1 + b2 + b3 + b4 + b5
        /\ b1 + b2 + lr = res1 + a2
        /\ b3 + b4 + temp = lr + a3
        /\ x * y = b5 + a2 + a3 + res1
    BY <1>7, <1>14, <1>15
  <2> HIDE DEF a2, a3, b1, b2, b3, b4, b5
  <2> QED
    BY <2>1, <2>2, SMT
<1>17. top < span
  <2>1. x * y <= (span - 1) * (span - 1)
    BY <1>2, <1>3, SMT
  <2>2. span * top <= (span - 1) * (span - 1)
    BY <1>2, <1>11, <1>13, <1>16, <2>1, SMT DEF Operand
  <2> QED
    BY <1>2, <1>13, <2>2, SMT
<1>18. top % span = top
  BY <1>2, <1>13, <1>17, InRange, SMT
<1> QED
  <2>1. p.lo = temp /\ p.hi = top
    BY <1>1, <1>18
  <2>2. p.hi \in Operand(h)
    BY <1>2, <1>13, <1>17, <2>1, SMT DEF Operand
  <2>3. (2 * h * p.hi) + p.lo = x * y
    BY <1>2, <1>16, <2>1
  <2> QED
    BY <1>11, <2>1, <2>2, <2>3 DEF p

(***************************************************************************)
(* The segments.                                                           *)
(***************************************************************************)

Levels == 0 .. 3

IsCache(cache) ==
  /\ cache = [i \in DOMAIN cache |-> cache[i]]
  /\ {"sel", "base", "limit", "dpl", "r", "w", "c"} \subseteq DOMAIN cache

(* What is assumed of the processor: it is a record with the fields that   *)
(* the operators use, its level is a level, and so is the DPL of every     *)
(* descriptor a selector can name.                                         *)
Processor(cpu) ==
  /\ cpu = [i \in DOMAIN cpu |-> cpu[i]]
  /\ {"sr", "exc", "cpl", "pe", "vm", "gdt", "ldt"} \subseteq DOMAIN cpu
  /\ cpu.sr = [i \in DOMAIN cpu.sr |-> cpu.sr[i]]
  /\ {"DS", "SS"} \subseteq DOMAIN cpu.sr
  /\ \A reg \in DOMAIN cpu.sr : IsCache(cpu.sr[reg])
  /\ cpu.cpl \in Levels
  /\ \A sel \in Nat :
       ~ selector_outside_GDT_LDT(cpu, sel) => read_descriptor_linear(cpu, sel).dpl \in Levels

(* ARPL changes the requested level of a selector and nothing else.        *)
LEMMA Arpl ==
  ASSUME NEW sel \in Nat
  PROVE  /\ ARPL(sel, 3) \in Nat
         /\ INDEX(ARPL(sel, 3)) = INDEX(sel)
         /\ TI(ARPL(sel, 3)) = TI(sel)
         /\ RPL(ARPL(sel, 3)) = 3
         /\ RPL(sel) \in Levels
<1> DEFINE q == sel \div 4
           r == sel % 4
<1>1. q \in Nat /\ r \in 0 .. 3 /\ sel = (4 * q) + r
  BY SMT
<1> DEFINE arpl == (4 * q) + 3
<1>2. ARPL(sel, 3) = arpl
  BY <1>1, SMT DEF ARPL, Stamped, RPL
<1>3. arpl \in Nat /\ arpl \div 4 = q /\ arpl % 4 = 3
  BY <1>1, SMT
<1>4. arpl \div 8 = q \div 2 /\ sel \div 8 = q \div 2
  BY <1>1, SMT
<1> QED
  BY <1>1, <1>2, <1>3, <1>4, SMT DEF INDEX, TI, RPL, Levels

(* A processor that is asked at the level of its caller is a processor.    *)
LEMMA CallerFields ==
  ASSUME NEW cpu, Processor(cpu)
  PROVE  LET caller == [cpu EXCEPT !.cpl = 3]
         IN  caller.cpl = 3 /\ caller.gdt = cpu.gdt /\ caller.ldt = cpu.ldt
BY DEF Processor

(* An examined selector and the one ARPL makes of it name one descriptor.  *)
LEMMA ArplDescriptor ==
  ASSUME NEW cpu, Processor(cpu), NEW sel \in Nat
  PROVE  LET caller == [cpu EXCEPT !.cpl = 3]
         IN  /\ selector_outside_GDT_LDT(cpu, ARPL(sel, 3))
                   <=> selector_outside_GDT_LDT(caller, sel)
             /\ read_descriptor_linear(cpu, ARPL(sel, 3)) = read_descriptor_linear(caller, sel)
             /\ read_descriptor_linear(caller, sel) = read_descriptor_linear(cpu, sel)
<1>1. INDEX(ARPL(sel, 3)) = INDEX(sel) /\ TI(ARPL(sel, 3)) = TI(sel)
  BY Arpl
<1> QED
  BY <1>1, CallerFields DEF selector_outside_GDT_LDT, read_descriptor_linear

(* What the caller could reach with its selector is what the service can   *)
(* reach with the one that ARPL has stamped with the caller's level.       *)
LEMMA ArplReaches ==
  ASSUME NEW cpu, Processor(cpu), NEW sel \in Nat, NEW d, d.dpl \in Levels
  PROVE  Reaches(cpu, ARPL(sel, 3), d) <=> Reaches([cpu EXCEPT !.cpl = 3], sel, d)
<1>1. RPL(ARPL(sel, 3)) = 3 /\ RPL(sel) \in Levels /\ cpu.cpl \in Levels
  BY Arpl DEF Processor
<1>2. [cpu EXCEPT !.cpl = 3].cpl = 3
  BY CallerFields
<1> QED
  BY <1>1, <1>2, SMT DEF Reaches, Levels

(* Nothing can be read through a closed register.                          *)
LEMMA ClosedCannotRead ==
  ASSUME NEW cache, IsCache(cache), NEW sel
  PROVE  Closed(cache, sel).r = FALSE
BY DEF Closed, IsCache

(* A load of a selector that is not null ends in one of three ways.        *)
LEMMA LoadOutcome ==
  ASSUME NEW cpu, Processor(cpu), Sound(cpu), ~ Flat(cpu),
         NEW reg \in DOMAIN cpu.sr, NEW sel \in Nat, ~ selector_is_null(sel)
  PROVE  LET d == read_descriptor_linear(cpu, sel)
             loaded == load_data_seg(cpu, reg, sel)
         IN  \/ ~ VERR(cpu, sel) /\ loaded.exc = GP(sel)
             \/ VERR(cpu, sel) /\ ~ d.p /\ loaded.exc = NP(sel)
             \/ VERR(cpu, sel) /\ d.p /\ loaded.exc = NoExc /\ loaded.sr[reg] = DataCache(sel, d)
<1> DEFINE d == read_descriptor_linear(cpu, sel)
           loaded == load_data_seg(cpu, reg, sel)
<1>1. GP(sel) # NoExc /\ NP(sel) # NoExc
  BY DEF GP, NP, NoExc, Exc
<1>2. CASE ~ VERR(cpu, sel)
  <2>1. DataFault(cpu, sel) = GP(sel)
    BY <1>2, Zenon DEF VERR, DataFault
  <2>2. loaded = Raise(cpu, GP(sel))
    BY <2>1, <1>1 DEF load_data_seg
  <2> QED
    BY <1>2, <2>2 DEF Raise, Processor
<1>3. CASE VERR(cpu, sel) /\ ~ d.p
  <2>1. DataFault(cpu, sel) = NP(sel)
    BY <1>3, Zenon DEF VERR, DataFault
  <2>2. loaded = Raise(cpu, NP(sel))
    BY <2>1, <1>1 DEF load_data_seg
  <2> QED
    BY <1>3, <2>2 DEF Raise, Processor
<1>4. CASE VERR(cpu, sel) /\ d.p
  <2>1. DataFault(cpu, sel) = NoExc
    BY <1>4, Zenon DEF VERR, DataFault
  <2>2. loaded = [cpu EXCEPT !.sr[reg] = DataCache(sel, d)]
    BY <2>1 DEF load_data_seg
  <2>3. loaded.exc = cpu.exc /\ loaded.sr[reg] = DataCache(sel, d)
    BY <2>2 DEF Processor
  <2> QED
    BY <1>4, <2>3 DEF Sound
<1> QED
  BY <1>2, <1>3, <1>4

(* Whatever the descriptor tables hold, at every level and for every       *)
(* selector, VERR, VERW, LAR, LSL and ARPL (verr.c, verw.c, lar.c, lsl.c,  *)
(* arpl.c) agree with load_data_seg: what VerifyPredictsLoad of Protection *)
(* checks for the tables and selectors of its plans.                       *)
THEOREM VerifyAlwaysAgrees ==
  ASSUME NEW cpu, Processor(cpu), Sound(cpu), ~ Flat(cpu), NEW sel \in Nat
  PROVE  VerifyAgrees(cpu, sel)
<1> DEFINE d == read_descriptor_linear(cpu, sel)
           loaded == load_data_seg(cpu, "DS", sel)
           caller == [cpu EXCEPT !.cpl = 3]
           stamped == ARPL(sel, 3)
<1>0. "DS" \in DOMAIN cpu.sr
  BY DEF Processor
<1>1. VERR(cpu, sel) <=> ~ selector_is_null(sel) /\ loaded.exc.nr # 13
  <2>1. CASE selector_is_null(sel)
    BY <2>1 DEF VERR, selector_outside_GDT_LDT, selector_is_null
  <2>2. CASE ~ selector_is_null(sel)
    <3>1. GP(sel).nr = 13 /\ NP(sel).nr # 13 /\ NoExc.nr # 13
      BY DEF GP, NP, NoExc, Exc
    <3> QED
      BY <1>0, <2>2, <3>1, LoadOutcome
  <2> QED
    BY <2>1, <2>2
<1>2. ASSUME Sound(loaded), loaded.sr["DS"].r
      PROVE  VERW(cpu, sel) <=> loaded.sr["DS"].w
  <2>1. ~ selector_is_null(sel)
    <3>1. SUFFICES ASSUME selector_is_null(sel) PROVE FALSE
      OBVIOUS
    <3>2. loaded = [cpu EXCEPT !.sr["DS"] = Closed(@, sel)]
      BY <3>1 DEF load_data_seg
    <3>3. loaded.sr["DS"] = Closed(cpu.sr["DS"], sel)
      BY <3>2 DEF Processor
    <3>4. Closed(cpu.sr["DS"], sel).r = FALSE
      BY <1>0, ClosedCannotRead, Zenon DEF Processor
    <3> QED
      BY <1>2, <3>3, <3>4
  <2>2. VERR(cpu, sel) /\ loaded.sr["DS"] = DataCache(sel, d)
    <3>1. GP(sel) # NoExc /\ NP(sel) # NoExc
      BY DEF GP, NP, NoExc, Exc
    <3> QED
      BY <1>0, <1>2, <2>1, <3>1, LoadOutcome DEF Sound
  <2>3. DataCache(sel, d).w = IsStack(d)
    BY Zenon DEF DataCache, IsStack
  <2>4. VERW(cpu, sel) <=> IsStack(d)
    BY <2>2 DEF VERR, VERW, IsStack, IsData, Conforming, IsCode
  <2> QED
    BY <2>2, <2>3, <2>4, Zenon
<1>3. VERR(cpu, sel) => LAR(cpu, sel) /\ LSL(cpu, sel)
  BY DEF VERR, LAR, LSL, Readable, IsData, IsCode
<1>4. selector_outside_GDT_LDT(caller, sel) <=> selector_outside_GDT_LDT(cpu, sel)
  BY CallerFields DEF selector_outside_GDT_LDT
<1>5. ~ selector_outside_GDT_LDT(cpu, sel) => (Reaches(cpu, stamped, d) <=> Reaches(caller, sel, d))
  BY ArplReaches, Zenon DEF Processor
<1>6. /\ selector_outside_GDT_LDT(cpu, stamped) <=> selector_outside_GDT_LDT(caller, sel)
      /\ read_descriptor_linear(cpu, stamped) = d
      /\ read_descriptor_linear(caller, sel) = d
  BY ArplDescriptor
<1>7. VERR(cpu, stamped) <=> VERR(caller, sel)
  BY <1>4, <1>5, <1>6, Zenon DEF VERR
<1>8. VERW(cpu, stamped) <=> VERW(caller, sel)
  BY <1>4, <1>5, <1>6, Zenon DEF VERW
<1> QED
  BY <1>1, <1>2, <1>3, <1>7, <1>8, Zenon DEF VerifyAgrees

(* Replacing the cache of one register leaves the level and the others.    *)
LEMMA ReplaceCache ==
  ASSUME NEW cpu, Processor(cpu), NEW reg \in DOMAIN cpu.sr, NEW cache
  PROVE  LET n == [cpu EXCEPT !.sr[reg] = cache]
         IN  /\ n.cpl = cpu.cpl /\ n.sr[reg] = cache
             /\ \A other \in DOMAIN cpu.sr : other # reg => n.sr[other] = cpu.sr[other]
BY DEF Processor

(* The cache of a loaded data register is in the ring it was loaded at.    *)
LEMMA LoadedCache ==
  ASSUME NEW cpu, Processor(cpu), NEW sel \in Nat, VERR(cpu, sel)
  PROVE  InRing(cpu, DataCache(sel, read_descriptor_linear(cpu, sel)))
<1> DEFINE d == read_descriptor_linear(cpu, sel)
           cache == DataCache(sel, d)
<1>1. cache.c = Conforming(d)
  BY Zenon DEF DataCache
<1>2. cache.sel = sel /\ cache.dpl = d.dpl
  BY DEF DataCache
<1>3. cpu.cpl \in Int /\ d.dpl \in Int /\ RPL(sel) \in Int
  BY Arpl DEF Processor, Levels, VERR
<1>4. Conforming(d) \/ (cpu.cpl <= d.dpl /\ RPL(sel) <= d.dpl)
  BY DEF VERR, Reaches
<1>5. CASE Conforming(d)
  BY <1>1, <1>5, Zenon DEF InRing
<1>6. CASE cpu.cpl <= d.dpl /\ RPL(sel) <= d.dpl
  <2>1. cache.dpl >= cpu.cpl /\ cache.dpl >= RPL(cache.sel)
    BY <1>2, <1>3, <1>6
  <2> QED
    BY <2>1, Zenon DEF InRing
<1> QED
  BY <1>4, <1>5, <1>6

(* What a load into a data register leaves there: what it was, a closed    *)
(* register, or one of the current ring.                                   *)
DataLoaded(cpu, n, reg) ==
  \/ n.sr = cpu.sr /\ n.cpl = cpu.cpl
  \/ \E cache : n = [cpu EXCEPT !.sr[reg] = cache] /\ (cache.r => InRing(cpu, cache))

LEMMA DataLoad ==
  ASSUME NEW cpu, Processor(cpu), Sound(cpu), ~ Flat(cpu),
         NEW reg \in DOMAIN cpu.sr, NEW sel \in Nat
  PROVE  DataLoaded(cpu, load_data_seg(cpu, reg, sel), reg)
<1> DEFINE n == load_data_seg(cpu, reg, sel)
           d == read_descriptor_linear(cpu, sel)
<1>1. CASE selector_is_null(sel)
  <2>1. n = [cpu EXCEPT !.sr[reg] = Closed(cpu.sr[reg], sel)]
    BY <1>1 DEF load_data_seg, Processor
  <2>2. Closed(cpu.sr[reg], sel).r = FALSE
    BY ClosedCannotRead, Zenon DEF Processor
  <2> QED
    BY <2>1, <2>2, Zenon DEF DataLoaded
<1>2. CASE ~ selector_is_null(sel) /\ DataFault(cpu, sel) # NoExc
  <2>1. n = Raise(cpu, DataFault(cpu, sel))
    BY <1>2 DEF load_data_seg
  <2> QED
    BY <2>1 DEF Raise, Processor, DataLoaded
<1>3. CASE ~ selector_is_null(sel) /\ DataFault(cpu, sel) = NoExc
  <2>1. n = [cpu EXCEPT !.sr[reg] = DataCache(sel, d)]
    BY <1>3 DEF load_data_seg
  <2>2. GP(sel) # NoExc
    BY DEF GP, NoExc, Exc
  <2>3. VERR(cpu, sel)
    BY <1>3, <2>2, Zenon DEF DataFault, VERR
  <2>4. InRing(cpu, DataCache(sel, d))
    BY <2>3, LoadedCache
  <2> QED
    BY <2>1, <2>4, Zenon DEF DataLoaded
<1> QED
  BY <1>1, <1>2, <1>3

(* What a load into SS leaves there: what it was, or a stack of the level. *)
StackLoaded(cpu, n) ==
  \/ n.sr = cpu.sr /\ n.cpl = cpu.cpl
  \/ \E cache : /\ n = [cpu EXCEPT !.sr["SS"] = cache]
                /\ cache.dpl = cpu.cpl /\ RPL(cache.sel) = cpu.cpl

LEMMA StackLoad ==
  ASSUME NEW cpu, Processor(cpu), ~ Flat(cpu), NEW sel \in Nat
  PROVE  StackLoaded(cpu, load_stack_seg(cpu, sel))
<1> DEFINE n == load_stack_seg(cpu, sel)
           d == read_descriptor_linear(cpu, sel)
<1>1. CASE check_SS(cpu, sel, cpu.cpl) # NoExc
  <2>1. n = Raise(cpu, check_SS(cpu, sel, cpu.cpl))
    BY <1>1 DEF load_stack_seg
  <2> QED
    BY <2>1 DEF Raise, Processor, StackLoaded
<1>2. CASE check_SS(cpu, sel, cpu.cpl) = NoExc
  <2>1. n = load_SS_cache(cpu, sel, d)
    BY <1>2 DEF load_stack_seg
  <2>2. GP(sel) # NoExc
    BY DEF GP, NoExc, Exc
  <2>3. RPL(sel) = cpu.cpl /\ d.dpl = cpu.cpl
    BY <1>2, <2>2, Zenon DEF check_SS
  <2> DEFINE cache == [sel |-> sel, base |-> d.base, limit |-> d.limit, dpl |-> d.dpl,
                       r |-> TRUE, w |-> TRUE, c |-> FALSE, x |-> d.x]
  <2>4. n = [cpu EXCEPT !.sr["SS"] = cache]
    BY <2>1 DEF load_SS_cache
  <2>5. cache.dpl = cpu.cpl /\ RPL(cache.sel) = cpu.cpl
    BY <2>3
  <2> QED
    BY <2>4, <2>5, Zenon DEF StackLoaded
<1> QED
  BY <1>1, <1>2

(* A MOV to a segment register (mov.c with load_data_seg and               *)
(* load_stack_seg of c_seg.c), faulting or not, keeps the part of          *)
(* RingsHold that is about SS and the data registers, for every content of *)
(* the tables, every selector and every level.                             *)
THEOREM LoadsKeepRings ==
  ASSUME NEW cpu, Processor(cpu), Sound(cpu), ~ Flat(cpu),
         NEW reg \in DOMAIN cpu.sr \ {"CS"}, NEW sel \in Nat,
         StackInRing(cpu), \A data \in DOMAIN cpu.sr \ {"CS", "SS"} : DataInRing(cpu, data)
  PROVE  LET n == MOV_SR(cpu, reg, sel)
         IN  StackInRing(n) /\ \A data \in DOMAIN cpu.sr \ {"CS", "SS"} : DataInRing(n, data)
<1> DEFINE n == MOV_SR(cpu, reg, sel)
<1>1. "SS" \in DOMAIN cpu.sr
  BY DEF Processor
<1>2. CASE n.sr = cpu.sr /\ n.cpl = cpu.cpl
  BY <1>2, Zenon DEF StackInRing, DataInRing, InRing
<1>3. CASE reg = "SS" /\ ~ (n.sr = cpu.sr /\ n.cpl = cpu.cpl)
  <2>1. n = load_stack_seg(cpu, sel)
    BY <1>3 DEF MOV_SR
  <2>2. PICK cache : /\ n = [cpu EXCEPT !.sr["SS"] = cache]
                     /\ cache.dpl = cpu.cpl /\ RPL(cache.sel) = cpu.cpl
    <3>1. StackLoaded(cpu, n)
      BY <2>1, StackLoad
    <3> QED
      BY <1>3, <3>1, Zenon DEF StackLoaded
  <2>3. /\ n.cpl = cpu.cpl /\ n.sr["SS"] = cache
        /\ \A other \in DOMAIN cpu.sr : other # "SS" => n.sr[other] = cpu.sr[other]
    BY <1>1, <2>2, ReplaceCache
  <2>4. StackInRing(n)
    BY <2>2, <2>3 DEF StackInRing
  <2>5. ASSUME NEW data \in DOMAIN cpu.sr \ {"CS", "SS"} PROVE DataInRing(n, data)
    <3>1. n.sr[data] = cpu.sr[data] /\ DataInRing(cpu, data)
      BY <2>3, <2>5
    <3> QED
      BY <2>3, <3>1, Zenon DEF DataInRing, InRing
  <2> QED
    BY <2>4, <2>5
<1>4. CASE reg # "SS" /\ ~ (n.sr = cpu.sr /\ n.cpl = cpu.cpl)
  <2>1. n = load_data_seg(cpu, reg, sel)
    BY <1>4 DEF MOV_SR
  <2>2. PICK cache : /\ n = [cpu EXCEPT !.sr[reg] = cache]
                     /\ cache.r => InRing(cpu, cache)
    <3>1. DataLoaded(cpu, n, reg)
      BY <2>1, DataLoad
    <3> QED
      BY <1>4, <3>1, Zenon DEF DataLoaded
  <2>3. /\ n.cpl = cpu.cpl /\ n.sr[reg] = cache
        /\ \A other \in DOMAIN cpu.sr : other # reg => n.sr[other] = cpu.sr[other]
    BY <2>2, ReplaceCache
  <2>4. StackInRing(n)
    <3>1. n.sr["SS"] = cpu.sr["SS"]
      BY <1>1, <1>4, <2>3
    <3> QED
      BY <2>3, <3>1, Zenon DEF StackInRing
  <2>5. ASSUME NEW data \in DOMAIN cpu.sr \ {"CS", "SS"} PROVE DataInRing(n, data)
    <3>1. CASE data = reg
      BY <2>2, <2>3, <3>1, Zenon DEF DataInRing, InRing
    <3>2. CASE data # reg
      <4>1. n.sr[data] = cpu.sr[data] /\ DataInRing(cpu, data)
        BY <2>3, <2>5, <3>2
      <4> QED
        BY <2>3, <4>1, Zenon DEF DataInRing, InRing
    <3> QED
      BY <3>1, <3>2
  <2> QED
    BY <2>4, <2>5
<1> QED
  BY <1>2, <1>3, <1>4

(* On a return to an outer level load_data_seg_new_privilege (c_prot.c)    *)
(* leaves a register that is closed or belongs to the new level, whatever  *)
(* it held and whatever the level has become: RETF and IRET need assume    *)
(* nothing of the registers they came with.                                *)
THEOREM NewPrivilegeInRing ==
  ASSUME NEW cpu, Processor(cpu), NEW reg \in DOMAIN cpu.sr
  PROVE  DataInRing(load_data_seg_new_privilege(cpu, reg), reg)
<1> DEFINE n == load_data_seg_new_privilege(cpu, reg)
           valid == /\ ~ selector_outside_GDT_LDT(cpu, cpu.sr[reg].sel)
                    /\ InRing(cpu, cpu.sr[reg])
<1>1. CASE valid
  <2>1. n = cpu
    BY <1>1, Zenon DEF load_data_seg_new_privilege, InRing
  <2> QED
    BY <1>1, <2>1, Zenon DEF DataInRing
<1>2. CASE ~ valid
  <2>1. n = [cpu EXCEPT !.sr[reg] = Closed(@, Null)]
    BY <1>2, Zenon DEF load_data_seg_new_privilege, InRing
  <2>2. n.sr[reg] = Closed(cpu.sr[reg], Null)
    BY <2>1 DEF Processor
  <2>3. Closed(cpu.sr[reg], Null).r = FALSE
    BY ClosedCannotRead, Zenon DEF Processor
  <2> QED
    BY <2>2, <2>3, Zenon DEF DataInRing
<1> QED
  BY <1>1, <1>2

(***************************************************************************)
(* The translation buffer.                                                 *)
(***************************************************************************)
Caches ==
  [tlb : [Sets -> [Slots -> TlbEntry]], next : [Slots -> Sets],
   index : [Pages -> (Sets \X Slots) \cup {NotMapped}],
   address : [Sets \X Slots -> [Access -> Frames \cup {NoMapping}]],
   pde : [Dirs -> [0 .. (NrPages - 1) \div TableSize -> PageEntry(Tables)]],
   pte : [Tables -> [0 .. TableSize - 1 -> PageEntry(Frames)]],
   cr3 : Dirs, cr2 : Pages, pg : BOOLEAN, cpl : {0, 3}]

(* A page that page_index maps is where page_index says, in the entry its  *)
(* number selects, and the addresses kept for that place are the entry's.  *)
Indexed(r) ==
  \A page \in Pages : r.index[page] # NotMapped =>
    \E s \in Sets :
      /\ r.index[page] = <<s, Slot(page)>>
      /\ r.tlb[s][Slot(page)].v
      /\ r.tlb[s][Slot(page)].la = page
      /\ r.address[<<s, Slot(page)>>] = MappedFor(r.tlb[s][Slot(page)])

Coherent(r) == r \in Caches /\ Indexed(r)

TlbInv == Coherent(m) /\ Coherent(saved)

(***************************************************************************)
(* The walk stays inside the tables.                                       *)
(***************************************************************************)
(* A page's directory index is at most the last page's.                    *)
LEMMA DirectoryIndex ==
  ASSUME NEW page \in Pages
  PROVE  page \div TableSize \in 0 .. (NrPages - 1) \div TableSize
<1> DEFINE q == page \div TableSize
           p == (NrPages - 1) \div TableSize
<1>1. /\ page \in Nat /\ NrPages - 1 \in Nat /\ page <= NrPages - 1
      /\ TableSize \in Nat /\ TableSize > 0
  BY TablesAssumption DEF Pages
<1>2. q \in Nat /\ p \in Nat /\ q * TableSize <= page /\ NrPages - 1 < (p + 1) * TableSize
  BY <1>1, SMTT(30)
<1>3. q <= p
  <2> SUFFICES ASSUME q >= p + 1 PROVE FALSE
    BY <1>2
  <2>1. q * TableSize >= (p + 1) * TableSize
    <3> HIDE DEF q, p
    <3> QED BY <1>1, <1>2, SMTT(30)
  <2> HIDE DEF q, p
  <2> QED BY <1>1, <1>2, <2>1
<1> QED BY <1>2, <1>3

(* The entries a walk reads exist.                                         *)
LEMMA WalkType ==
  ASSUME NEW r \in Caches, NEW page \in Pages
  PROVE  PDE(r, page) \in PageEntry(Tables) /\ PTE(r, page) \in PageEntry(Frames)
<1>1. page \div TableSize \in 0 .. (NrPages - 1) \div TableSize
  BY DirectoryIndex
<1>2. PDE(r, page) \in PageEntry(Tables)
  <2>1. r.pde \in [Dirs -> [0 .. (NrPages - 1) \div TableSize -> PageEntry(Tables)]]
    BY DEF Caches
  <2>2. r.cr3 \in Dirs
    BY DEF Caches
  <2> QED BY <1>1, <2>1, <2>2, Zenon DEF PDE
<1>3. page % TableSize \in 0 .. TableSize - 1
  BY TablesAssumption DEF Pages
<1>4. PDE(r, page).pfa \in Tables
  BY <1>2 DEF PageEntry
<1>5. r.pte \in [Tables -> [0 .. TableSize - 1 -> PageEntry(Frames)]]
  BY DEF Caches
<1> QED BY <1>2, <1>3, <1>4, <1>5, Zenon DEF PTE

(* A page selects an entry of the cache.                                   *)
LEMMA SlotType == ASSUME NEW page \in Pages PROVE Slot(page) \in Slots
BY TlbAssumption DEF Pages, Slot, Slots

(* What an entry answers at once is its frame, or nothing.                 *)
LEMMA MappedType ==
  ASSUME NEW e \in TlbEntry
  PROVE  MappedFor(e) \in [Access -> Frames \cup {NoMapping}]
BY DEF MappedFor, TlbEntry

(* The entry made for a page is that page's.                               *)
LEMMA NewEntryType ==
  ASSUME NEW r \in Caches, NEW page \in Pages, NEW access \in Access
  PROVE  /\ NewEntry(r, page, access) \in TlbEntry
         /\ NewEntry(r, page, access).v
         /\ NewEntry(r, page, access).la = page
<1>1. PTE(r, page).pfa \in Frames
  BY WalkType DEF PageEntry
<1>2. Comb(PDE(r, page), PTE(r, page)) \in Access
  BY DEF Comb, Protection, PG_U, PG_W, Access
<1>3. IsWrite(access) \in BOOLEAN
  BY DEF IsWrite
<1> QED BY <1>1, <1>2, <1>3 DEF NewEntry, TlbEntry

(* A table keeps its shape when one of its entries is replaced by one of   *)
(* the same kind.                                                          *)
LEMMA ReplaceEntry ==
  ASSUME NEW A, NEW I, NEW S, NEW f \in [A -> [I -> S]], NEW a, NEW i, NEW x \in S
  PROVE  [f EXCEPT ![a] = [f[a] EXCEPT ![i] = x]] \in [A -> [I -> S]]
<1>1. CASE a \in A
  <2>1. [f[a] EXCEPT ![i] = x] \in [I -> S]
    BY <1>1, Zenon
  <2> QED BY <2>1, Zenon
<1>2. CASE a \notin A
  BY <1>2, Zenon
<1> QED BY <1>1, <1>2

(* The tables keep their shape when their bits are brought up to date.     *)
LEMMA MarkType ==
  ASSUME NEW r \in Caches, NEW page \in Pages, NEW access \in Access
  PROVE  /\ MarkedPDE(r, page)
              \in [Dirs -> [0 .. (NrPages - 1) \div TableSize -> PageEntry(Tables)]]
         /\ MarkedPTE(r, page, access) \in [Tables -> [0 .. TableSize - 1 -> PageEntry(Frames)]]
<1>1. /\ r.pde \in [Dirs -> [0 .. (NrPages - 1) \div TableSize -> PageEntry(Tables)]]
      /\ r.pte \in [Tables -> [0 .. TableSize - 1 -> PageEntry(Frames)]]
  BY DEF Caches
<1>2. PDE(r, page) \in PageEntry(Tables) /\ PTE(r, page) \in PageEntry(Frames)
  BY WalkType
<1>3. MarkedPDE(r, page) \in [Dirs -> [0 .. (NrPages - 1) \div TableSize -> PageEntry(Tables)]]
  <2> DEFINE x == [PDE(r, page) EXCEPT !.a = TRUE]
  <2>1. x \in PageEntry(Tables)
    BY <1>2, Zenon DEF PageEntry
  <2>2. MarkedPDE(r, page) =
          [r.pde EXCEPT ![r.cr3] = [r.pde[r.cr3] EXCEPT ![page \div TableSize] = x]]
    BY DEF MarkedPDE, PDE
  <2> HIDE DEF x
  <2>3. [r.pde EXCEPT ![r.cr3] = [r.pde[r.cr3] EXCEPT ![page \div TableSize] = x]]
          \in [Dirs -> [0 .. (NrPages - 1) \div TableSize -> PageEntry(Tables)]]
    BY <1>1, <2>1, ReplaceEntry, Zenon
  <2> QED BY <2>2, <2>3
<1>4. MarkedPTE(r, page, access) \in [Tables -> [0 .. TableSize - 1 -> PageEntry(Frames)]]
  <2> DEFINE x == [PTE(r, page) EXCEPT !.a = TRUE, !.d = @ \/ IsWrite(access)]
             b == PDE(r, page).pfa
  <2>1. x \in PageEntry(Frames)
    BY <1>2, Zenon DEF PageEntry, IsWrite
  <2>2. MarkedPTE(r, page, access) =
          [r.pte EXCEPT ![b] = [r.pte[b] EXCEPT ![page % TableSize] = x]]
    BY DEF MarkedPTE
  <2> HIDE DEF x, b
  <2>3. [r.pte EXCEPT ![b] = [r.pte[b] EXCEPT ![page % TableSize] = x]]
          \in [Tables -> [0 .. TableSize - 1 -> PageEntry(Frames)]]
    BY <1>1, <2>1, ReplaceEntry, Zenon
  <2> QED BY <2>2, <2>3
<1> QED BY <1>3, <1>4

(* Forgetting an entry's page loses that page and no other.                *)
LEMMA ForgetType ==
  ASSUME NEW r \in Caches, NEW e \in TlbEntry
  PROVE  /\ Forget(r.index, e) \in [Pages -> (Sets \X Slots) \cup {NotMapped}]
         /\ \A q \in Pages : Forget(r.index, e)[q] =
              IF e.v /\ e.la = q THEN NotMapped ELSE r.index[q]
<1>1. r.index \in [Pages -> (Sets \X Slots) \cup {NotMapped}]
  BY DEF Caches
<1>2. e.v \in BOOLEAN
  BY DEF TlbEntry
<1> QED BY <1>1, <1>2, Zenon DEF Forget

(***************************************************************************)
(* One entry is overwritten.                                               *)
(***************************************************************************)
(* The record with entry i of set s replaced by e.                         *)
Replaced(r, s, i, e) == [r.tlb EXCEPT ![s][i] = e]

(* Page q is mapped, in a place the replacement leaves alone.              *)
Elsewhere(r, s, i, e, q) ==
  \E w \in Sets :
    /\ r.index[q] = <<w, Slot(q)>>
    /\ ~ (w = s /\ Slot(q) = i)
    /\ Replaced(r, s, i, e)[w][Slot(q)] = r.tlb[w][Slot(q)]
    /\ r.tlb[w][Slot(q)].v
    /\ r.tlb[w][Slot(q)].la = q
    /\ r.address[<<w, Slot(q)>>] = MappedFor(r.tlb[w][Slot(q)])

(* A page still mapped after entry i of set s is forgotten is in another   *)
(* place, which the replacement leaves alone.                              *)
LEMMA Survives ==
  ASSUME NEW r \in Caches, Indexed(r), NEW s \in Sets, NEW i \in Slots, NEW e \in TlbEntry,
         NEW q \in Pages, Forget(r.index, r.tlb[s][i])[q] # NotMapped
  PROVE  /\ Forget(r.index, r.tlb[s][i])[q] = r.index[q]
         /\ Elsewhere(r, s, i, e, q)
<1>1. r.tlb \in [Sets -> [Slots -> TlbEntry]]
  BY DEF Caches
<1>2. r.tlb[s][i] \in TlbEntry
  BY <1>1
<1>3. Forget(r.index, r.tlb[s][i])[q] =
        IF r.tlb[s][i].v /\ r.tlb[s][i].la = q THEN NotMapped ELSE r.index[q]
  BY <1>2, ForgetType
<1>4. /\ Forget(r.index, r.tlb[s][i])[q] = r.index[q]
      /\ r.index[q] # NotMapped
      /\ ~ (r.tlb[s][i].v /\ r.tlb[s][i].la = q)
  BY <1>3
<1>5. PICK w \in Sets : /\ r.index[q] = <<w, Slot(q)>>
                       /\ r.tlb[w][Slot(q)].v
                       /\ r.tlb[w][Slot(q)].la = q
                       /\ r.address[<<w, Slot(q)>>] = MappedFor(r.tlb[w][Slot(q)])
  BY <1>4 DEF Indexed
<1>6. ~ (w = s /\ Slot(q) = i)
  BY <1>4, <1>5
<1>7. Replaced(r, s, i, e)[w][Slot(q)] = r.tlb[w][Slot(q)]
  BY <1>1, <1>6 DEF Replaced
<1> QED BY <1>4, <1>5, <1>6, <1>7, Zenon DEF Elsewhere

(* Replacing an entry keeps the shape of the cache.                        *)
LEMMA ReplacedType ==
  ASSUME NEW r \in Caches, NEW s \in Sets, NEW i \in Slots, NEW e \in TlbEntry
  PROVE  /\ Replaced(r, s, i, e) \in [Sets -> [Slots -> TlbEntry]]
         /\ Replaced(r, s, i, e)[s][i] = e
<1>1. r.tlb \in [Sets -> [Slots -> TlbEntry]]
  BY DEF Caches
<1> QED BY <1>1 DEF Replaced

(* The next set round robin is a set.                                      *)
LEMMA NextSet ==
  ASSUME NEW r \in Caches, NEW i \in Slots
  PROVE  r.next[i] \in Sets /\ [r.next EXCEPT ![i] = (@ + 1) % NrSets] \in [Slots -> Sets]
<1>1. r.next \in [Slots -> Sets]
  BY DEF Caches
<1>2. (r.next[i] + 1) % NrSets \in Sets
  BY <1>1, TlbAssumption DEF Sets
<1> QED BY <1>1, <1>2

(* A fill keeps page_index true.                                           *)
LEMMA FillKeeps ==
  ASSUME NEW r \in Caches, Indexed(r), NEW page \in Pages, NEW access \in Access
  PROVE  Fill(r, page, access) \in Caches /\ Indexed(Fill(r, page, access))
<1> DEFINE i == Slot(page)
           s == r.next[i]
           e == NewEntry(r, page, access)
           f == Forget(r.index, r.tlb[s][i])
           x == Fill(r, page, access)
<1>1. i \in Slots /\ s \in Sets /\ i = Slot(page)
  BY SlotType, NextSet
<1>2. e \in TlbEntry /\ e.v /\ e.la = page
  BY NewEntryType
<1>3. f \in [Pages -> (Sets \X Slots) \cup {NotMapped}]
  <2>1. r.tlb \in [Sets -> [Slots -> TlbEntry]]
    BY DEF Caches
  <2>2. r.tlb[s][i] \in TlbEntry
    BY <1>1, <2>1
  <2> QED BY <2>2, ForgetType
<1>4. /\ x.tlb = Replaced(r, s, i, e)
      /\ x.next = [r.next EXCEPT ![i] = (@ + 1) % NrSets]
      /\ x.index = [f EXCEPT ![page] = <<s, i>>]
      /\ x.address = [r.address EXCEPT ![<<s, i>>] = MappedFor(e)]
      /\ x = [r EXCEPT !.tlb = x.tlb, !.next = x.next, !.index = x.index, !.address = x.address,
                       !.pde = MarkedPDE(r, page), !.pte = MarkedPTE(r, page, access)]
  BY DEF Fill, Replaced, Caches
<1>10. x = Fill(r, page, access)
  OBVIOUS
<1> HIDE DEF s, i, e, x
<1>5. x.tlb \in [Sets -> [Slots -> TlbEntry]] /\ x.next \in [Slots -> Sets]
  BY <1>1, <1>2, <1>4, ReplacedType, NextSet
<1>6. x.index \in [Pages -> (Sets \X Slots) \cup {NotMapped}]
  <2> HIDE DEF f
  <2> QED BY <1>1, <1>3, <1>4
<1>7. x.address \in [Sets \X Slots -> [Access -> Frames \cup {NoMapping}]]
  <2>1. r.address \in [Sets \X Slots -> [Access -> Frames \cup {NoMapping}]]
    BY DEF Caches
  <2>2. MappedFor(e) \in [Access -> Frames \cup {NoMapping}]
    BY <1>2, MappedType
  <2> QED BY <1>4, <2>1, <2>2, Zenon
<1>8. x \in Caches
  <2>1. /\ MarkedPDE(r, page) \in [Dirs -> [0 .. (NrPages - 1) \div TableSize -> PageEntry(Tables)]]
        /\ MarkedPTE(r, page, access) \in [Tables -> [0 .. TableSize - 1 -> PageEntry(Frames)]]
    BY MarkType
  <2> QED BY <1>4, <1>5, <1>6, <1>7, <2>1, ZenonT(30) DEF Caches
<1>9. Indexed(x)
  <2> SUFFICES ASSUME NEW q \in Pages, x.index[q] # NotMapped
               PROVE  \E w \in Sets :
                        /\ x.index[q] = <<w, Slot(q)>>
                        /\ x.tlb[w][Slot(q)].v
                        /\ x.tlb[w][Slot(q)].la = q
                        /\ x.address[<<w, Slot(q)>>] = MappedFor(x.tlb[w][Slot(q)])
    BY DEF Indexed
  <2>1. r.address \in [Sets \X Slots -> [Access -> Frames \cup {NoMapping}]]
    BY DEF Caches
  <2>2. CASE q = page
    <3>1. x.index[q] = <<s, i>>
      BY <1>3, <1>4, <2>2
    <3>2. x.tlb[s][i] = e
      BY <1>1, <1>2, <1>4, ReplacedType
    <3>3. x.address[<<s, i>>] = MappedFor(e)
      BY <1>1, <1>4, <2>1
    <3> QED BY <1>1, <1>2, <2>2, <3>1, <3>2, <3>3
  <2>3. CASE q # page
    <3>1. x.index[q] = f[q] /\ f[q] # NotMapped
      BY <1>3, <1>4, <2>3
    <3>2. /\ f[q] = r.index[q]
          /\ Elsewhere(r, s, i, e, q)
      BY <1>1, <1>2, <3>1, Survives
    <3>3. PICK w \in Sets :
              /\ r.index[q] = <<w, Slot(q)>>
              /\ ~ (w = s /\ Slot(q) = i)
              /\ Replaced(r, s, i, e)[w][Slot(q)] = r.tlb[w][Slot(q)]
              /\ r.tlb[w][Slot(q)].v
              /\ r.tlb[w][Slot(q)].la = q
              /\ r.address[<<w, Slot(q)>>] = MappedFor(r.tlb[w][Slot(q)])
      BY <3>2, Zenon DEF Elsewhere
    <3>4. Slot(q) \in Slots
      BY SlotType
    <3>5. x.address[<<w, Slot(q)>>] = r.address[<<w, Slot(q)>>]
      <4>1. <<w, Slot(q)>> \in Sets \X Slots /\ <<w, Slot(q)>> # <<s, i>>
        BY <3>3, <3>4
      <4> QED BY <1>4, <2>1, <4>1
    <3>6. x.tlb[w][Slot(q)] = r.tlb[w][Slot(q)] /\ x.index[q] = <<w, Slot(q)>>
      BY <1>4, <3>1, <3>2, <3>3, Zenon
    <3> QED BY <3>3, <3>5, <3>6
  <2> QED BY <2>2, <2>3, Zenon
<1> QED BY <1>10, <1>8, <1>9

(***************************************************************************)
(* The entry points.                                                       *)
(***************************************************************************)
(* What leaves the caches alone leaves page_index true.                    *)
LEMMA SameCaches ==
  ASSUME NEW r, NEW x, Coherent(r), x \in Caches,
         x.tlb = r.tlb, x.index = r.index, x.address = r.address
  PROVE  Coherent(x)
<1>1. Indexed(r)
  BY DEF Coherent
<1>2. Indexed(x)
  <2> SUFFICES ASSUME NEW q \in Pages, x.index[q] # NotMapped
               PROVE  \E w \in Sets :
                        /\ x.index[q] = <<w, Slot(q)>>
                        /\ x.tlb[w][Slot(q)].v
                        /\ x.tlb[w][Slot(q)].la = q
                        /\ x.address[<<w, Slot(q)>>] = MappedFor(x.tlb[w][Slot(q)])
    BY Zenon DEF Indexed
  <2>1. PICK w \in Sets : /\ r.index[q] = <<w, Slot(q)>>
                         /\ r.tlb[w][Slot(q)].v
                         /\ r.tlb[w][Slot(q)].la = q
                         /\ r.address[<<w, Slot(q)>>] = MappedFor(r.tlb[w][Slot(q)])
    BY <1>1 DEF Indexed
  <2> QED BY <2>1
<1> QED BY <1>2 DEF Coherent

(* lin2phy keeps page_index true, whether it hits, fills or faults.        *)
LEMMA Lin2phyKeeps ==
  ASSUME NEW r, Coherent(r), NEW page \in Pages, NEW access \in Access
  PROVE  Coherent(lin2phy(r, page, access).r)
<1>1. lin2phy(r, page, access).r \in {r, [r EXCEPT !.cr2 = page], Fill(r, page, access)}
  BY DEF lin2phy, PageFault, Found
<1>2. Coherent([r EXCEPT !.cr2 = page])
  BY SameCaches, Zenon DEF Coherent, Caches
<1>3. Coherent(Fill(r, page, access))
  BY FillKeeps DEF Coherent
<1> QED BY <1>1, <1>2, <1>3

(* A flush leaves page_index empty.                                        *)
LEMMA FlushKeeps ==
  ASSUME NEW r, Coherent(r)
  PROVE  Coherent(flush_tlb(r))
<1> DEFINE x == flush_tlb(r)
           t == [s \in Sets |-> [i \in Slots |-> [r.tlb[s][i] EXCEPT !.v = FALSE]]]
           n == [q \in Pages |->
                  IF \E s \in Sets, i \in Slots : r.tlb[s][i].v /\ r.tlb[s][i].la = q
                    THEN NotMapped ELSE r.index[q]]
<1>1. /\ r \in Caches /\ Indexed(r)
      /\ r.tlb \in [Sets -> [Slots -> TlbEntry]]
      /\ r.index \in [Pages -> (Sets \X Slots) \cup {NotMapped}]
  BY DEF Coherent, Caches
<1>2. t \in [Sets -> [Slots -> TlbEntry]]
  <2>1. \A s \in Sets, i \in Slots : r.tlb[s][i] \in TlbEntry
    BY <1>1
  <2>2. \A s \in Sets, i \in Slots : [r.tlb[s][i] EXCEPT !.v = FALSE] \in TlbEntry
    BY <2>1, Zenon DEF TlbEntry
  <2> QED BY <2>2
<1>3. \A q \in Pages : n[q] = NotMapped
  BY <1>1, SlotType, Zenon DEF Indexed
<1>4. n \in [Pages -> (Sets \X Slots) \cup {NotMapped}]
  BY <1>3
<1>5. x = [r EXCEPT !.tlb = t, !.index = n]
  BY DEF flush_tlb
<1> HIDE DEF t, n, x
<1>6. x \in Caches
  BY <1>1, <1>2, <1>4, <1>5, Zenon DEF Caches
<1>7. x.index = n
  BY <1>1, <1>5 DEF Caches
<1>8. Indexed(x)
  BY <1>3, <1>7 DEF Indexed
<1> QED BY <1>6, <1>8 DEF Coherent, x

(* So does a load of CR3.                                                  *)
LEMMA LoadKeeps ==
  ASSUME NEW r, Coherent(r), NEW dir \in Dirs
  PROVE  Coherent(MOV_CR(r, dir)) /\ Coherent(SwitchCR(r, dir))
<1>1. Coherent([r EXCEPT !.cr3 = dir])
  BY SameCaches, ZenonT(30) DEF Coherent, Caches
<1>2. Coherent(MOV_CR(r, dir))
  BY <1>1, FlushKeeps DEF MOV_CR
<1> QED BY <1>2 DEF SwitchCR

(* A write through the test registers unmaps the page it displaces, and    *)
(* maps none.                                                              *)
LEMMA TestKeeps ==
  ASSUME NEW r, Coherent(r), NEW e \in TlbEntry, NEW rep \in 0 .. NrSets
  PROVE  Coherent(test_tlb(r, e, rep))
<1> DEFINE i == Slot(e.la)
           s == IF rep \in Sets THEN rep ELSE r.next[i]
           f == Forget(r.index, r.tlb[s][i])
           x == test_tlb(r, e, rep)
<1>1. r \in Caches /\ Indexed(r)
  BY DEF Coherent
<1>2. i \in Slots
  BY SlotType DEF TlbEntry
<1>3. s \in Sets
  BY <1>1, <1>2, NextSet
<1>4. r.tlb \in [Sets -> [Slots -> TlbEntry]] /\ r.next \in [Slots -> Sets]
  BY <1>1 DEF Caches
<1>5. f \in [Pages -> (Sets \X Slots) \cup {NotMapped}]
  <2>1. r.tlb[s][i] \in TlbEntry
    BY <1>2, <1>3, <1>4
  <2> QED BY <1>1, <2>1, ForgetType, Zenon
<1>6. x.tlb = Replaced(r, s, i, e) /\ x.index = f /\ x.address = r.address
  BY <1>1 DEF test_tlb, Replaced, Caches
<1>7. x = [r EXCEPT !.tlb = x.tlb, !.next = x.next, !.index = x.index]
  BY <1>1 DEF test_tlb, Caches
<1>8. x.next \in [Slots -> Sets]
  <2>1. CASE rep \in Sets
    BY <1>1, <1>4, <2>1, Zenon DEF test_tlb, Caches
  <2>2. CASE rep \notin Sets
    <3>1. x.next = [r.next EXCEPT ![i] = (@ + 1) % NrSets]
      BY <1>1, <2>2 DEF test_tlb, Caches
    <3> QED BY <1>1, <1>2, <3>1, NextSet
  <2> QED BY <2>1, <2>2
<1>9. x = test_tlb(r, e, rep)
  OBVIOUS
<1> HIDE DEF x, s, i
<1>10. x.tlb \in [Sets -> [Slots -> TlbEntry]]
  BY <1>1, <1>2, <1>3, <1>6, ReplacedType
<1>11. x \in Caches
  <2> HIDE DEF f
  <2> QED BY <1>1, <1>5, <1>6, <1>7, <1>8, <1>10, Zenon DEF Caches
<1>12. Indexed(x)
  <2> SUFFICES ASSUME NEW q \in Pages, x.index[q] # NotMapped
               PROVE  \E w \in Sets :
                        /\ x.index[q] = <<w, Slot(q)>>
                        /\ x.tlb[w][Slot(q)].v
                        /\ x.tlb[w][Slot(q)].la = q
                        /\ x.address[<<w, Slot(q)>>] = MappedFor(x.tlb[w][Slot(q)])
    BY DEF Indexed
  <2>1. f[q] = r.index[q] /\ Elsewhere(r, s, i, e, q)
    BY <1>1, <1>2, <1>3, <1>6, Survives
  <2> QED BY <1>6, <2>1, ZenonT(30) DEF Elsewhere
<1> QED BY <1>9, <1>11, <1>12 DEF Coherent

(* xtrn2phy leaves the caches alone.                                       *)
LEMMA XtrnKeeps ==
  ASSUME NEW r, Coherent(r), NEW page \in Pages, NEW access \in Access, NEW strict \in BOOLEAN
  PROVE  Coherent(xtrn2phy(r, page, access, strict).r)
<1> DEFINE x == [r EXCEPT !.pde = MarkedPDE(r, page), !.pte = MarkedPTE(r, page, access)]
<1>1. xtrn2phy(r, page, access, strict).r \in {r, x}
  BY DEF xtrn2phy
<1>2. r \in Caches
  BY DEF Coherent
<1>3. /\ MarkedPDE(r, page) \in [Dirs -> [0 .. (NrPages - 1) \div TableSize -> PageEntry(Tables)]]
      /\ MarkedPTE(r, page, access) \in [Tables -> [0 .. TableSize - 1 -> PageEntry(Frames)]]
  BY <1>2, MarkType
<1>4. x \in Caches /\ x.tlb = r.tlb /\ x.index = r.index /\ x.address = r.address
  BY <1>2, <1>3, Zenon DEF Caches
<1>5. Coherent(x)
  BY <1>4, SameCaches, Zenon
<1> QED BY <1>1, <1>5

(***************************************************************************)
(* The invariant and the property.                                         *)
(***************************************************************************)
(* The caches begin empty.                                                 *)
LEMMA InitSound == TlbInit => TlbInv
<1> SUFFICES ASSUME NEW pde, NEW pte, NEW dir \in Dirs, NEW frame \in Frames,
                    TablesType(pde, pte), m = Empty(pde, pte, dir, frame), saved = m
             PROVE  TlbInv
  BY DEF TlbInit
<1>1. 0 \in Sets /\ 0 \in Pages /\ 0 \in Access
  BY TlbAssumption, TablesAssumption DEF Sets, Pages, Access
<1>2. m \in Caches
  BY <1>1 DEF Empty, Caches, TablesType, TlbEntry
<1>3. Indexed(m)
  BY DEF Indexed, Empty
<1> QED BY <1>2, <1>3 DEF TlbInv, Coherent

(* Every step keeps page_index true, and so does a restored snapshot,      *)
(* which was true when it was captured.                                    *)
LEMMA StepSound == TlbInv /\ [TlbNext]_tlbVars => TlbInv'
<1> SUFFICES ASSUME TlbInv, [TlbNext]_tlbVars PROVE TlbInv'
  OBVIOUS
<1> USE DEF TlbInv
<1>1. ASSUME NEW page \in Pages, NEW access \in Access, Translate(page, access) PROVE TlbInv'
  BY <1>1, Lin2phyKeeps DEF Translate
<1>2. ASSUME NEW page \in Pages, NEW access \in Access, NEW strict \in BOOLEAN,
             TranslateExternal(page, access, strict)
      PROVE  TlbInv'
  BY <1>2, XtrnKeeps DEF TranslateExternal
<1>3. ASSUME NEW dir \in Dirs, LoadDirectory(dir) \/ SwitchDirectory(dir) PROVE TlbInv'
  BY <1>3, LoadKeeps DEF LoadDirectory, SwitchDirectory
<1>4. ASSUME NEW e \in TlbEntry, NEW rep \in 0 .. NrSets, WriteTest(e, rep) PROVE TlbInv'
  BY <1>4, TestKeeps DEF WriteTest
<1>5. ASSUME NEW table \in Tables, NEW i \in 0 .. TableSize - 1, NEW e \in PageEntry(Frames),
             StorePTE(table, i, e)
      PROVE  TlbInv'
  <2> DEFINE x == [m EXCEPT !.pte = [m.pte EXCEPT ![table] = [m.pte[table] EXCEPT ![i] = e]]]
  <2>1. m \in Caches
    BY DEF Coherent
  <2>2. m.pte \in [Tables -> [0 .. TableSize - 1 -> PageEntry(Frames)]]
    BY <2>1 DEF Caches
  <2>3. [m.pte EXCEPT ![table] = [m.pte[table] EXCEPT ![i] = e]]
          \in [Tables -> [0 .. TableSize - 1 -> PageEntry(Frames)]]
    BY <2>2, ReplaceEntry, Zenon
  <2>4. x \in Caches /\ x.tlb = m.tlb /\ x.index = m.index /\ x.address = m.address
    BY <2>1, <2>3, Zenon DEF Caches
  <2>5. m' = x /\ saved' = saved
    BY <1>5 DEF StorePTE
  <2> HIDE DEF x
  <2>6. Coherent(x)
    BY <2>4, SameCaches
  <2> QED BY <2>5, <2>6
<1>6. ASSUME NEW on \in BOOLEAN, SetPaging(on) PROVE TlbInv'
  BY <1>6, SameCaches, Zenon DEF SetPaging, Coherent, Caches
<1>7. ASSUME NEW cpl \in {0, 3}, SetPrivilege(cpl) PROVE TlbInv'
  BY <1>7, SameCaches, Zenon DEF SetPrivilege, Coherent, Caches
<1>8. CASE Capture \/ Restore
  BY <1>8 DEF Capture, Restore
<1>9. CASE UNCHANGED tlbVars
  BY <1>9 DEF tlbVars
<1> QED BY <1>1, <1>2, <1>3, <1>4, <1>5, <1>6, <1>7, <1>8, <1>9 DEF TlbNext

(* A true page_index is what the property asks for.                        *)
LEMMA SoundAgrees == TlbInv => FastAgreesWithTlb
<1> SUFFICES ASSUME TlbInv, NEW page \in Pages, NEW access \in Access,
                    FastLookup(m, page, access) # NoMapping
             PROVE  \E s \in Hits(m, page, access) :
                      LET e == m.tlb[s][Slot(page)]
                      IN  ~ access_check(access, e.mode) /\ FastLookup(m, page, access) = e.pa
  BY DEF FastAgreesWithTlb
<1>1. m.index[page] # NotMapped
  BY DEF FastLookup
<1>2. PICK s \in Sets : /\ m.index[page] = <<s, Slot(page)>>
                       /\ m.tlb[s][Slot(page)].v
                       /\ m.tlb[s][Slot(page)].la = page
                       /\ m.address[<<s, Slot(page)>>] = MappedFor(m.tlb[s][Slot(page)])
  BY <1>1 DEF TlbInv, Coherent, Indexed
<1> DEFINE e == m.tlb[s][Slot(page)]
<1>3. e \in TlbEntry
  BY SlotType DEF TlbInv, Coherent, Caches
<1>4. FastLookup(m, page, access) = MappedFor(e)[access]
  BY <1>1, <1>2 DEF FastLookup
<1>5. /\ FastLookup(m, page, access) = e.pa
      /\ IsWrite(access) => e.d
      /\ access >= PG_U => e.mode >= PG_U
      /\ access = PG_U + PG_W => IsWrite(e.mode)
  BY <1>4 DEF MappedFor
<1>6. ~ access_check(access, e.mode)
  BY <1>3, <1>5 DEF access_check, TlbEntry, Access, IsWrite, PG_U, PG_W
<1>7. s \in Hits(m, page, access)
  BY <1>2, <1>5 DEF Hits
<1> QED BY <1>5, <1>6, <1>7, Zenon

(* Whatever the calls and their order, the fast format grants what the     *)
(* Intel-format entries grant (page_index and page_address against tlb in  *)
(* c_tlb.c).                                                               *)
THEOREM FastLookupIsSound == TlbSpec => []FastAgreesWithTlb
BY InitSound, StepSound, SoundAgrees, PTL DEF TlbSpec
=============================================================================
