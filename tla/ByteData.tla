------------------------------ MODULE ByteData ------------------------------
(***************************************************************************)
(* The arithmetic of the interpreters with a carry flag and decimal        *)
(* digits: the 6502 (src/beatle-nes-redux/cpu.c), the 65816                *)
(* (src/supersnes/cpu.c), the Z80 and the 68000 (src/finalburn/z80.c,      *)
(* m68k.c).  A byte is two digits of base Nib (16) of which the decimal    *)
(* ones stop below Ten; words only make bytes longer.                      *)
(***************************************************************************)
EXTENDS Integers

CONSTANTS Nib,   \* values of half a byte (16), a power of two
          Ten    \* values of a decimal digit (10)

ByteDataAssumption == Nib \in Nat /\ Nib % 2 = 0 /\ Ten \in 2..Nib

VARIABLE math   \* [op, a, b, c, res]: the operation just executed, or [op] none

B == Nib * Nib
Byte == 0..(B - 1)
Wrap(x) == x % B
Top(x) == x >= B \div 2
Bit(p) == IF p THEN 1 ELSE 0
Lo(x) == x % Nib
Hi(x) == x \div Nib
Signed(x) == IF Top(x) THEN x - B ELSE x

None == [op |-> "none"]
Init == math = None

-----------------------------------------------------------------------------

AddV(a, b, r) == Top(a) = Top(b) /\ Top(a) # Top(r)
SubV(a, b, r) == Top(a) # Top(b) /\ Top(a) # Top(r)

\* op_adc; op_sbc adds the complement.
NesAdc(a, b, c) ==
  [r |-> Wrap(a + b + c), c |-> a + b + c > B - 1, v |-> AddV(a, b, Wrap(a + b + c))]

NesSbc(a, b, c) == NesAdc(a, B - 1 - b, c)

\* adc_m and sbc_m in binary; of a word, C is cleared before the comparison
\* that means to read it.
SnesSbc(a, b, c) ==
  LET r == Wrap(a - b - (1 - c)) IN
  [r |-> r, c |-> a >= b + (1 - c), v |-> SubV(a, b, r)]

SnesSbcWord(a, b, c) == [SnesSbc(a, b, c) EXCEPT !.c = a >= b + 1]

\* adc_m and sbc_m with D set, a digit at a time; C and V are those of the
\* binary result.
SnesAdcDecimal(a, b, c) ==
  LET lo == Lo(a) + Lo(b) + c
      over == lo > Ten - 1
      hi == Hi(a) + Hi(b) + Bit(over)
      digit == IF over THEN lo + (Nib - Ten) ELSE lo
  IN [r |-> ((IF hi > Ten - 1 THEN hi - Ten ELSE hi) % Nib) * Nib + (digit % Nib),
      c |-> Wrap(a + b + c) > (Ten - 1) * Nib + (Ten - 1)]

SnesSbcDecimal(a, b, c) ==
  LET lo == Lo(a) - Lo(b) - (1 - c)
      hi == Hi(a) - Hi(b) - Bit(lo < 0)
  IN [r |-> ((IF hi < 0 THEN hi + Ten ELSE hi) % Nib) * Nib
             + ((IF lo < 0 THEN lo + Ten ELSE lo) % Nib),
      c |-> a >= b + (1 - c)]

\* zadd and zsub: H is the carry out of the low digit; with a carry in, as of
\* SBC, zsub keeps the C it found.
Z80Add(a, b, c) ==
  [r |-> Wrap(a + b + c), c |-> a + b + c > B - 1, h |-> Lo(a) + Lo(b) + c >= Nib]

Z80Sub(a, b, borrow) ==
  [r |-> Wrap(a - b - borrow), c |-> a - b - borrow < 0,
   h |-> Lo(a) - Lo(b) - borrow < 0]

Z80Sbc(a, b, c) == [Z80Sub(a, b, c) EXCEPT !.c = (c = 1)]

\* DAA, from A and the flags the addition or the subtraction left.
Z80Daa(a, subtracted, c, h) ==
  LET low == h \/ Lo(a) > Ten - 1
      high == c \/ a > (Ten - 1) * Nib + (Ten - 1)
      corr == Bit(low) * (Nib - Ten) + Bit(high) * (Nib - Ten) * Nib
  IN [r |-> Wrap(IF subtracted THEN a - corr ELSE a + corr), c |-> high]

\* flags_add, flags_sub and the ADDX and SUBX forms: carry and overflow from
\* the top bits of the operands and of the result.
M68kAdd(a, b, c) ==
  LET r == Wrap(a + b + c) IN
  [r |-> r,
   c |-> (Top(a) /\ Top(b)) \/ (Top(a) /\ ~Top(r)) \/ (Top(b) /\ ~Top(r)),
   v |-> (Top(a) /\ Top(b) /\ ~Top(r)) \/ (~Top(a) /\ ~Top(b) /\ Top(r))]

M68kSub(a, b, borrow) ==
  LET r == Wrap(a - b - borrow) IN
  [r |-> r,
   c |-> (~Top(a) /\ Top(b)) \/ (Top(b) /\ Top(r)) \/ (~Top(a) /\ Top(r)),
   v |-> (Top(a) /\ ~Top(b) /\ ~Top(r)) \/ (~Top(a) /\ Top(b) /\ Top(r))]

\* ABCD, SBCD and NBCD (which is SBCD from 0).
AbcdBinary(a, b, x) ==   \* mutant: the low digit carries at Nib, not at Ten
  LET lo == Lo(a) + Lo(b) + x
      hi == Hi(a) + Hi(b) + Bit(lo > Nib - 1)
  IN [r |-> ((IF hi > Ten - 1 THEN hi - Ten ELSE hi) % Nib) * Nib + (lo % Nib),
      c |-> hi > Ten - 1]

Abcd(a, b, x) ==
  LET sum == Lo(a) + Lo(b) + x
      lo == IF sum > Ten - 1 THEN sum + (Nib - Ten) ELSE sum
      hi == Hi(a) + Hi(b) + Bit(lo > Nib - 1)
  IN [r |-> ((IF hi > Ten - 1 THEN hi - Ten ELSE hi) % Nib) * Nib + (lo % Nib),
      c |-> hi > Ten - 1]

Sbcd(a, b, x) ==
  LET lo == Lo(a) - Lo(b) - x
      hi == Hi(a) - Hi(b) - Bit(lo < 0)
  IN [r |-> ((IF hi < 0 THEN hi + Ten ELSE hi) % Nib) * Nib
             + ((IF lo < 0 THEN lo + Ten ELSE lo) % Nib),
      c |-> hi < 0]

\* Division in C, towards zero.
Quotient(x, y) ==
  LET q == (IF x < 0 THEN -x ELSE x) \div (IF y < 0 THEN -y ELSE y)
  IN IF (x < 0) = (y < 0) THEN q ELSE -q

\* The quotients that DIVS and DIVU can give.
Quotients(signed) == IF signed THEN -(B \div 2)..(B \div 2 - 1) ELSE Byte

\* DIVU and DIVS of a dividend twice as long: a quotient that does not fit
\* sets V and changes nothing.
Divided(x, y, signed) ==
  LET q == Quotient(x, y) IN
  IF q \in Quotients(signed) THEN [v |-> FALSE, q |-> q, rem |-> x - q * y]
                             ELSE [v |-> TRUE]

-----------------------------------------------------------------------------

Sums == {"6502 adc", "65816 adc", "z80 adc", "m68k add"}
Differences == {"6502 sbc", "65816 sbc", "65816 sbc word", "z80 sub", "z80 sbc",
                "m68k sub"}
DecimalSums == {"65816 adc decimal", "z80 add daa", "abcd"}
DecimalDifferences == {"65816 sbc decimal", "z80 sub daa", "sbcd"}

\* c is the carry in; of a difference 1 is no borrow, X set on a 68000 is one.
Result(op, a, b, c) ==
  CASE op \in {"6502 adc", "65816 adc"} -> NesAdc(a, b, c)
    [] op = "6502 sbc" -> NesSbc(a, b, c)
    [] op = "65816 sbc" -> SnesSbc(a, b, c)
    [] op = "65816 sbc word" -> SnesSbcWord(a, b, c)
    [] op = "z80 adc" -> Z80Add(a, b, c)
    [] op = "z80 sub" -> Z80Sub(a, b, 0)
    [] op = "z80 sbc" -> Z80Sbc(a, b, 1 - c)
    [] op = "m68k add" -> M68kAdd(a, b, c)
    [] op = "m68k sub" -> M68kSub(a, b, 1 - c)
    [] op = "65816 adc decimal" -> SnesAdcDecimal(a, b, c)
    [] op = "65816 sbc decimal" -> SnesSbcDecimal(a, b, c)
    [] op = "z80 add daa" ->
         LET s == Z80Add(a, b, c) IN Z80Daa(s.r, FALSE, s.c, s.h)
    [] op = "z80 sub daa" ->
         LET s == Z80Sub(a, b, 0) IN Z80Daa(s.r, TRUE, s.c, s.h)
    [] op = "abcd" -> Abcd(a, b, c)
    [] op = "sbcd" -> Sbcd(a, b, 1 - c)

\* SUB takes no carry in, as if C were set to say no borrow.
Compute(op, a, b, c) ==
  /\ op \in {"z80 sub", "z80 sub daa"} => c = 1
  /\ math' = [op |-> op, a |-> a, b |-> b, c |-> c, res |-> Result(op, a, b, c)]

Divide(signed, x, y) ==
  math' = [op |-> "div", a |-> x, b |-> y, c |-> signed,
           res |-> Divided(x, y, signed)]

Decimal == {x \in Byte : Lo(x) < Ten /\ Hi(x) < Ten}

Next ==
  \/ math = None /\ \E c \in {0, 1} :
       \/ \E op \in Sums \cup Differences, a, b \in Byte : Compute(op, a, b, c)
       \/ \E op \in DecimalSums \cup DecimalDifferences, a, b \in Decimal :
            Compute(op, a, b, c)
  \/ math = None /\ \E x \in 0..(B * B - 1), y \in 1..(B - 1) : Divide(FALSE, x, y)
  \/ math = None /\ \E x \in -((B * B) \div 2)..((B * B) \div 2 - 1),
                       y \in (-(B \div 2)..(B \div 2 - 1)) \ {0} : Divide(TRUE, x, y)
  \/ math # None /\ math' = None

Spec == Init /\ [][Next]_math

-----------------------------------------------------------------------------

Fits(x) == x \in -(B \div 2)..(B \div 2 - 1)   \* in a signed byte
Tens(x) == Hi(x) * Ten + Lo(x)   \* what a decimal byte stands for

SumExact(a, b, c, res) ==
  /\ res.r = Wrap(a + b + c)
  /\ res.c <=> a + b + c >= B
  /\ "v" \in DOMAIN res => (res.v <=> ~Fits(Signed(a) + Signed(b) + c))
  /\ "h" \in DOMAIN res => (res.h <=> Lo(a) + Lo(b) + c >= Nib)

DifferenceExact(op, a, b, c, res) ==
  LET carry == IF op \in {"z80 sub", "m68k sub"} THEN ~res.c ELSE res.c IN
  /\ res.r = Wrap(a - b - (1 - c))
  /\ op \notin {"65816 sbc word", "z80 sbc"} => (carry <=> a >= b + (1 - c))
  /\ "v" \in DOMAIN res => (res.v <=> ~Fits(Signed(a) - Signed(b) - (1 - c)))

DecimalSumExact(op, a, b, c, res) ==
  /\ Tens(res.r) = (Tens(a) + Tens(b) + c) % (Ten * Ten)
  /\ res.r \in Decimal
  /\ op # "65816 adc decimal" => (res.c <=> Tens(a) + Tens(b) + c >= Ten * Ten)

DecimalDifferenceExact(op, a, b, c, res) ==
  LET borrow == IF op = "65816 sbc decimal" THEN ~res.c ELSE res.c IN
  /\ Tens(res.r) = (Tens(a) - Tens(b) - (1 - c)) % (Ten * Ten)
  /\ res.r \in Decimal
  /\ borrow <=> Tens(a) < Tens(b) + (1 - c)

\* A quotient rounded towards zero, with the sign of x on the remainder.
DivisionExact(x, y, signed, res) ==
  IF res.v
    THEN \A q \in Quotients(signed), rem \in (-B)..B :
           x = q * y + rem => rem * rem >= y * y \/ (rem # 0 /\ (rem < 0) # (x < 0))
    ELSE /\ x = res.q * y + res.rem /\ res.q \in Quotients(signed)
         /\ res.rem * res.rem < y * y
         /\ res.rem # 0 => (res.rem < 0) = (x < 0)

\* Sums and differences of bytes are those of the numbers, with their carries,
\* half carries and overflows (but the carries of the 65816's word difference
\* and of the Z80's SBC);
\* decimal ones are those of the decimal numbers (the 65816 by its digits
\* only); a quotient and remainder are exact or reported not to fit.
ArithmeticExact ==
  LET a == math.a  b == math.b  c == math.c  res == math.res IN
  /\ math.op \in Sums => SumExact(a, b, c, res)
  /\ math.op \in Differences => DifferenceExact(math.op, a, b, c, res)
  /\ math.op \in DecimalSums => DecimalSumExact(math.op, a, b, c, res)
  /\ math.op \in DecimalDifferences => DecimalDifferenceExact(math.op, a, b, c, res)
  /\ math.op = "div" => DivisionExact(a, b, c, res)
=============================================================================
