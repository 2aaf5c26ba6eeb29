------------------------------- MODULE MCCpu -------------------------------
(* Instruction sequences that compilers and BIOS code use, with what each   *)
(* must compute, stated by plain integer arithmetic.                        *)
EXTENDS Cpu

Clear == [n \in FlagNames |-> FALSE]
CarrySet == [Clear EXCEPT !.CF = TRUE]

(* Registers from four sets of values. *)
Regs(as, bs, cs, ds) == {[a |-> a, b |-> b, c |-> c, d |-> d] : a \in as, b \in bs, c \in cs, d \in ds}

Program(code, h, w, regs, flags) ==
  [code |-> code, h |-> h, w |-> w, doubled |-> w = 0, regs |-> regs, flags |-> flags]

T == 0 .. 7           \* operands of three bits, h = 4
N == 0 .. 15          \* operands of four bits, h = 8, halves of two
Bcd == {(16 * t) + u : t \in 0 .. 9, u \in 0 .. 9}
SomeBcd == {(16 * t) + u : t \in {0, 4, 5, 9}, u \in {0, 1, 9}}
Conditions == DOMAIN jxx(Clear)

Double(code, cs) == Program(code, 4, 0, Regs(T, cs, cs, T), {Clear})
Nibble(code, regs, flags) == Program(code, 8, 4, regs, flags)
Byte(code, regs) == Program(code, 128, 16, regs, {Clear, CarrySet})

(* Two-word operands lie in d:a and c:b. *)
TwoWord ==
  [add2 |-> Double(<< <<"ADD", "a", "b">>, <<"ADC", "d", "c">> >>, T),
   sub2 |-> Double(<< <<"SUB", "a", "b">>, <<"SBB", "d", "c">> >>, T),
   neg2 |-> Double(<< <<"NEG", "d">>, <<"NEG", "a">>, <<"SBB", "d", "c">> >>, {0}),
   shl2 |-> Double(<< <<"SHL", "a", "c">>, <<"RCL", "d", "c">> >>, {1}),
   shr2 |-> Double(<< <<"SHR", "d", "c">>, <<"RCR", "a", "c">> >>, {1}),
   sar2 |-> Double(<< <<"SAR", "d", "c">>, <<"RCR", "a", "c">> >>, {1}),
   shld |-> Nibble(<< <<"SHLD", "d", "a", "c">>, <<"SHL", "a", "c">> >>, Regs(N, {0}, 0 .. 3, N), {Clear}),
   shrd |-> Nibble(<< <<"SHRD", "a", "d", "c">>, <<"SAR", "d", "c">> >>, Regs(N, {0}, 0 .. 3, N), {Clear}),
   wshld |-> Program(<< <<"SHLD", "d", "a", "c">> >>, 8, 0, Regs(N, {0}, 0 .. 7, N), {Clear}),
   wshrd |-> Program(<< <<"SHRD", "a", "d", "c">> >>, 8, 0, Regs(N, {0}, 0 .. 7, N), {Clear}),
   rcl2 |-> Program(<< <<"RCL", "a", "b">>, <<"RCL", "d", "b">>, <<"DEC", "c">>, <<"J", 1, "NZ">> >>,
                    4, 0, Regs(T, {1}, 1 .. 7, T), {Clear, CarrySet})]

OneWord ==
  [turn |-> Nibble(<< <<"ROL", "a", "c">>, <<"ROR", "a", "c">> >>,
                   Regs(N, {0}, {0, 1, 2, 4, 7, 31, 33}, {0}), {Clear}),
   roll |-> Nibble(<< <<"ROL", "a", "c">>, <<"ROR", "b", "c">> >>,
                   Regs(N, N, 1 .. 9, {0}), {Clear}),
   turnc |-> Nibble(<< <<"RCL", "a", "c">>, <<"RCR", "a", "c">> >>,
                    Regs(N, {0}, {0, 1, 2, 5, 7, 31, 33}, {0}), {Clear, CarrySet}),
   swap |-> Nibble(<< <<"XOR", "a", "b">>, <<"XOR", "b", "a">>, <<"XOR", "a", "b">> >>, Regs(N, N, {0}, {0}), {Clear}),
   morgan |-> Nibble(<< <<"OR", "c", "b">>, <<"NOT", "a">>, <<"NOT", "b">>, <<"AND", "a", "b">>, <<"NOT", "a">> >>,
                     Regs(N, N, {0, 5, 10}, {0}), {Clear}),
   even |-> Byte(<< <<"TEST", "a", "a">>, <<"SET", "b", "P">> >>, Regs(0 .. 255, {0}, {0}, {0})),
   lowest |-> Nibble(<< <<"BSF", "c", "a">>, <<"BTR", "a", "c">> >>, Regs(N, {0}, N, {0}), {Clear}),
   highest |-> Nibble(<< <<"BSR", "c", "a">>, <<"BTC", "a", "c">>, <<"BTS", "b", "c">>, <<"BT", "b", "c">> >>,
                      Regs(N, {0}, N, {0}), {Clear}),
   times |-> Nibble(<< <<"ADD", "a", "b">>, <<"LOOP", 1>> >>, Regs(N, {0, 1, 3, 15}, N, {0}), {Clear}),
   find |-> Nibble(<< <<"JCXZ", 5>>, <<"INC", "a">>, <<"CMP", "a", "b">>, <<"LOOPNE", 2>> >>, Regs(N, N, N, {0}), {Clear}),
   span |-> Nibble(<< <<"TEST", "a", "d">>, <<"LOOPE", 1>> >>, Regs(N, {0}, N, {0, 1}), {Clear})]

MulDiv ==
  [mul |-> Nibble(<< <<"MUL8", "b">>, <<"DIV8", "b">> >>, Regs(N, N, {0}, {0}), {Clear}),
   mul32 |-> Nibble(<< <<"MUL32", "b">>, <<"DIV32", "b">> >>, Regs(N, N, {0}, {0}), {Clear}),
   imul |-> Nibble(<< <<"IMUL8", "b">>, <<"IDIV8", "b">> >>, Regs(N, N, {0}, {0}), {Clear}),
   imul32 |-> Nibble(<< <<"IMUL32", "b">>, <<"IDIV32", "b">> >>, Regs(N, N, {0}, {0}), {Clear}),
   part |-> Nibble(<< <<"IMUL16T", "a", "b">> >>, Regs(N, N, {0}, {0}), {Clear}),
   part32 |-> Nibble(<< <<"IMUL32T", "a", "b">> >>, Regs(N, N, {0}, {0}), {Clear}),
   div |-> Nibble(<< <<"DIV8", "b">> >>, Regs(N, N, {0}, N), {Clear}),
   div32 |-> Nibble(<< <<"DIV32", "b">> >>, Regs(N, N, {0}, N), {Clear}),
   idiv |-> Nibble(<< <<"IDIV8", "b">> >>, Regs(N, N, {0}, N), {Clear}),
   idiv32 |-> Nibble(<< <<"IDIV32", "b">> >>, Regs(N, N, {0}, N), {Clear}),
   wide |-> Nibble(<< <<"CWD">>, <<"IDIV16", "b">> >>, Regs(N, N, {0}, {0}), {Clear})]

Decimal ==
  [daa |-> Byte(<< <<"ADC", "a", "b">>, <<"DAA">> >>, Regs(Bcd, SomeBcd, {0}, {0})),
   das |-> Byte(<< <<"SBB", "a", "b">>, <<"DAS">> >>, Regs(Bcd, SomeBcd, {0}, {0})),
   aaa |-> Byte(<< <<"ADC", "a", "b">>, <<"AAA">> >>, Regs(0 .. 9, 0 .. 9, {0}, 0 .. 9)),
   aas |-> Byte(<< <<"SBB", "a", "b">>, <<"AAS">> >>, Regs(0 .. 9, 0 .. 9, {0}, 1 .. 9)),
   aam |-> Byte(<< <<"MUL8", "b">>, <<"AAM", 10>> >>, Regs(0 .. 9, 0 .. 9, {0}, {0})),
   aad |-> Byte(<< <<"AAD", 10>>, <<"AAM", 10>> >>, Regs(0 .. 9, {0}, {0}, 0 .. 9)),
   aam0 |-> Byte(<< <<"AAM", 0>> >>, Regs({0, 7, 255}, {0}, {0}, {0}))]

(* Compare, keep the condition in c, clear d unless it holds. *)
Compare ==
  [cc \in Conditions |->
     Nibble(<< <<"CMP", "a", "b">>, <<"SET", "c", cc>>, <<"J", 5, cc>>, <<"SUB", "d", "d">> >>,
            Regs(N, N, {5}, {9}), {Clear})]

Group(group, programs) ==
  {[text |-> [name |-> n, group |-> group, code |-> programs[n].code, h |-> programs[n].h,
              w |-> programs[n].w, doubled |-> programs[n].doubled],
    regs |-> programs[n].regs, flags |-> programs[n].flags] : n \in DOMAIN programs}

MCPrograms ==
  Group("two words", TwoWord) \cup Group("one word", OneWord) \cup Group("muldiv", MulDiv)
    \cup Group("decimal", Decimal) \cup Group("compare", Compare)

(***************************************************************************)
(* References                                                              *)
(***************************************************************************)

name == text.name
M == 2 * text.h
In == start.reg
InCarry == Carry(start.f)
Ended == pc > Len(text.code)
Wide(r) == (r.d * M) + r.a                  \* d:a
Other(r) == (r.c * M) + r.b                 \* c:b
SignedWide(n) == Signed(n, (M * M) \div 2)
Fits(n, m) == n \in (-m) .. (m - 1)

Relation(cc, x, y) ==
  LET sx == Signed(x, text.h)
      sy == Signed(y, text.h)
      r == (x - y) % M
  IN  CASE cc = "B" -> x < y [] cc = "BE" -> x <= y [] cc = "NB" -> x >= y [] cc = "NBE" -> x > y
        [] cc = "L" -> sx < sy [] cc = "LE" -> sx <= sy [] cc = "NL" -> sx >= sy [] cc = "NLE" -> sx > sy
        [] cc = "O" -> ~Fits(sx - sy, text.h) [] cc = "NO" -> Fits(sx - sy, text.h)
        [] cc = "S" -> r >= text.h [] cc = "NS" -> r < text.h [] cc = "Z" -> x = y [] cc = "NZ" -> x # y
        [] cc = "P" -> Cardinality({i \in 0 .. 7 : (r \div (2 ^ i)) % 2 = 1}) \in {0, 2, 4}
        [] cc = "NP" -> Cardinality({i \in 0 .. 7 : (r \div (2 ^ i)) % 2 = 1}) \in {1, 3}

TwoWordResult ==
  LET x == Wide(In)
      y == Other(In)
      z == Wide(reg)
      mm == M * M
      n == In.c
  IN  CASE name = "add2" -> /\ z + (IF f.CF THEN mm ELSE 0) = x + y
                            /\ f.OF = ~Fits(SignedWide(x) + SignedWide(y), mm \div 2)
        [] name = "sub2" -> /\ z = (x - y) % mm
                            /\ jxx(f).B = (x < y)
                            /\ jxx(f).L = (SignedWide(x) < SignedWide(y))
        [] name = "neg2" -> z = (-x) % mm
        [] name = "shl2" -> z = (2 * x) % mm /\ f.CF = (2 * x >= mm)
        [] name = "shr2" -> z = x \div 2 /\ f.CF = (x % 2 = 1)
        [] name = "sar2" -> SignedWide(z) = SignedWide(x) \div 2 /\ f.CF = (x % 2 = 1)
        [] name = "shld" -> z = (x * (2 ^ n)) % mm
        [] name = "shrd" -> SignedWide(z) = SignedWide(x) \div (2 ^ n)
        [] name = "wshld" -> \* the filler comes round again past the word
             z = (M * ((((((x * M) + In.a) * (2 ^ n)) % (mm * M)) \div mm))) + In.a
        [] name = "wshrd" -> z = (In.d * M) + ((((((In.d * M) + In.d) * M) + In.a) \div (2 ^ n)) % M)
        [] name = "rcl2" -> \* one turn of the ring of carry, d and a
             LET ring == (InCarry * mm) + x
                 out == ((IF f.CF THEN mm ELSE 0) + z)
             IN  out = ((ring * (2 ^ n)) % (2 * mm)) + (ring \div (2 ^ (7 - n)))

OneWordResult ==
  LET x == In.a
      y == In.b
      ones == {i \in 0 .. 7 : (x \div (2 ^ i)) % 2 = 1}
  IN  CASE name = "turn" -> reg.a = x
        [] name = "roll" -> LET k == In.c % 4
                            IN  /\ reg.a = ((x * (2 ^ k)) % M) + (x \div (2 ^ (4 - k)))
                                /\ reg.b = (y \div (2 ^ k)) + ((y * (2 ^ (4 - k))) % M)
        [] name = "turnc" -> reg.a = x /\ f.CF = start.f.CF
        [] name = "swap" -> reg.a = y /\ reg.b = x
        [] name = "morgan" -> \A i \in {1, 2, 4, 8} : /\ Has(reg.a, i) = (Has(x, i) \/ Has(y, i))
                                                        /\ Has(reg.c, i) = (Has(In.c, i) \/ Has(y, i))
        [] name = "even" -> (reg.b = 1) = (Cardinality(ones) % 2 = 0)
        [] name = "lowest" -> \/ x = 0 /\ reg.c = In.c /\ reg.a = 0
                              \/ x # 0 /\ \E i \in ones : /\ \A j \in ones : i <= j
                                                          /\ reg.c = i /\ reg.a = x - (2 ^ i)
        [] name = "highest" -> x # 0 => \E i \in ones : /\ \A j \in ones : j <= i
                                                        /\ reg.c = i /\ reg.a = x - (2 ^ i)
                                                        /\ reg.b = 2 ^ i /\ f.CF
        [] name = "times" -> reg.a = (x + (y * (IF In.c = 0 THEN M ELSE In.c))) % M /\ reg.c = 0
        [] name = "find" -> LET far == IF x = y THEN M ELSE (y - x) % M
                                n == IF far < In.c THEN far ELSE In.c
                            IN  reg.a = (x + n) % M /\ reg.c = In.c - n
        [] name = "span" -> reg.c = IF x % 2 = 1 /\ In.d = 1 THEN (In.c - 1) % M ELSE 0

MulDivResult ==
  LET x == In.a
      y == In.b
      sx == Signed(x, text.h)
      sy == Signed(y, text.h)
  IN  CASE name \in {"mul", "mul32", "imul", "imul32"} -> reg.a = x /\ reg.d = 0
        [] name \in {"part", "part32"} -> reg.a = (sx * sy) % M /\ f.OF = ~Fits(sx * sy, text.h)
        [] name \in {"div", "div32"} -> (reg.a * y) + reg.d = Wide(In) /\ reg.d < y
        [] name \in {"idiv", "idiv32"} ->
             LET r == Signed(reg.d, text.h)
             IN  /\ (Signed(reg.a, text.h) * sy) + r = SignedWide(Wide(In))
                 /\ r = 0 \/ (r < 0) = (In.d >= text.h)
                 /\ r \in (1 - text.h) .. (text.h - 1)
        [] name = "wide" -> (Signed(reg.a, text.h) * sy) + Signed(reg.d, text.h) = sx

DecimalResult ==
  LET num(b) == (10 * (b \div 16)) + (b % 16)
  IN  CASE name = "daa" -> num(reg.a) + (IF f.CF THEN 100 ELSE 0) = num(In.a) + num(In.b) + InCarry
        [] name = "das" -> /\ num(reg.a) = (num(In.a) - num(In.b) - InCarry) % 100
                           /\ f.CF = (num(In.a) < num(In.b) + InCarry)
        [] name = "aaa" -> (10 * reg.d) + reg.a = (10 * In.d) + In.a + In.b + InCarry
        [] name = "aas" -> (10 * reg.d) + reg.a = (10 * In.d) + In.a - In.b - InCarry
        [] name = "aam" -> (10 * reg.d) + reg.a = In.a * In.b /\ reg.a < 10
        [] name = "aad" -> reg.a = In.a /\ reg.d = In.d
        [] name = "aam0" -> FALSE

Result ==
  CASE text.group = "two words" -> TwoWordResult
    [] text.group = "one word" -> OneWordResult
    [] text.group = "muldiv" -> MulDivResult
    [] text.group = "decimal" -> DecimalResult
    [] text.group = "compare" ->
         /\ reg.c = (IF Relation(name, In.a, In.b) THEN 1 ELSE 0)
         /\ reg.d = (IF Relation(name, In.a, In.b) THEN In.d ELSE 0)

TrapIsDue ==
  LET sy == Signed(In.b, text.h)
  IN  CASE name \in {"div", "div32"} -> reg = In /\ (In.b = 0 \/ Wide(In) >= M * In.b)
        [] name \in {"idiv", "idiv32"} ->
             reg = In /\ (In.b = 0 \/ ~Fits(Quotient(SignedWide(Wide(In)), sy), text.h))
        [] name = "wide" -> In.b = 0 \/ (In.a = text.h /\ sy = -1)
        [] name \in {"mul", "mul32", "imul", "imul32"} -> In.b = 0
        [] OTHER -> name = "aam0"

(* Arithmetic on two words, decimal arithmetic, rotates, multiplication    *)
(* with the division that undoes it, and every condition after a compare   *)
(* come out as integer arithmetic says (base/ccpu386, add.c to xor.c); and *)
(* a program ends in a divide error exactly when its quotient has no room  *)
(* in the destination, with the dividend still in its registers (Int0 in   *)
(* div.c, idiv.c and aam.c).                                               *)
ComputesItsResult ==
  /\ Ended => Result /\ ~(text.group = "muldiv" /\ name \notin {"part", "part32"} /\ In.b = 0)
  /\ trap # "none" => trap = "Int0" /\ TrapIsDue
============================================================================
