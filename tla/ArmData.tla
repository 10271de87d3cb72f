------------------------------ MODULE ArmData ------------------------------
(***************************************************************************)
(* The arithmetic of the two ARM interpreters, the shared one              *)
(* (src/common/arm.c) and the Game Boy Advance core's (src/mgbax/cpu.c,    *)
(* swi.c): the carry and overflow they compute for sums and differences,   *)
(* their barrel shifters, the addresses of block transfers and the BIOS's  *)
(* square root.  Registers have W bits instead of 32; of the results only  *)
(* what is not obvious is kept, since N and Z are read off the value.      *)
(***************************************************************************)
EXTENDS Integers, Sequences

CONSTANT W   \* bits of a register (32)

ArmDataAssumption == W \in Nat \ {0, 1}

VARIABLE alu   \* [op, a, b, c, res]: the operation just executed, or [op] none

\* The powers of two.
Two[k \in 0..W] == IF k = 0 THEN 1 ELSE 2 * Two[k - 1]

M == Two[W]
Reg == 0..(M - 1)
Wrap(x) == x % M
Top(x) == x >= M \div 2
Bit(b) == IF b THEN 1 ELSE 0
Signed(x) == IF Top(x) THEN x - M ELSE x

None == [op |-> "none"]
Init == alu = None

-----------------------------------------------------------------------------

\* The overflow of r = a + b and of r = a - b, both interpreters' formula.
AddV(a, b, r) == Top(a) = Top(b) /\ Top(a) # Top(r)
SubV(a, b, r) == Top(a) # Top(b) /\ Top(a) # Top(r)

\* dp_exec and the Thumb additions: the carry is a sum below its operand.
ArmAdd(a, b) ==
  LET r == Wrap(a + b) IN [r |-> r, c |-> r < a, v |-> AddV(a, b, r)]

\* ADC in 64 bits.
ArmAdc(a, b, c) ==
  LET r == Wrap(a + b + c) IN
  [r |-> r, c |-> (a + b + c) \div M = 1, v |-> AddV(a, b, r)]

\* SUB, CMP, RSB.
ArmSub(a, b) ==
  LET r == Wrap(a - b) IN [r |-> r, c |-> a >= b, v |-> SubV(a, b, r)]

\* SBC and RSC: the borrow moves the comparison by one.
ArmSbcBlind(a, b, c) ==   \* mutant: the comparison without the borrow
  LET r == Wrap(a - b - (1 - c)) IN [r |-> r, c |-> a >= b, v |-> SubV(a, b, r)]

ArmSbc(a, b, c) ==
  LET r == Wrap(a - b - (1 - c)) IN
  [r |-> r, c |-> IF c = 0 THEN a > b ELSE a >= b, v |-> SubV(a, b, r)]

\* NEG, in Thumb.
ArmNeg(b) ==
  LET r == Wrap(-b) IN [r |-> r, c |-> b = 0, v |-> Top(b) /\ Top(r)]

\* add_with_carry and sub_with_carry, in 64 bits.
GbaAdd(a, b, c) ==
  LET r == Wrap(a + b + c) IN [r |-> r, c |-> a + b + c > M - 1, v |-> AddV(a, b, r)]

GbaSub(a, b, borrow) ==
  LET r == Wrap(a - b - borrow) IN
  [r |-> r, c |-> a >= b + borrow, v |-> SubV(a, b, r)]

\* x >> n with bits of a set sign shifted in, and the bit shifted out last.
Sar(x, n) == Wrap(Signed(x) \div Two[n])
Out(x, n) == (x \div Two[n - 1]) % 2

\* shift_val for amounts from 1, which immediate and register shifts share.
ArmShift(type, x, n) ==
  CASE type = "lsl" -> IF n < W THEN [r |-> Wrap(x * Two[n]), c |-> Out(x, W - n + 1)]
                       ELSE [r |-> 0, c |-> IF n = W THEN x % 2 ELSE 0]
    [] type = "lsr" -> IF n < W THEN [r |-> x \div Two[n], c |-> Out(x, n)]
                       ELSE [r |-> 0, c |-> Bit(Top(x))]
    [] type = "asr" -> IF n < W THEN [r |-> Sar(x, n), c |-> Out(x, n)]
                       ELSE [r |-> IF Top(x) THEN M - 1 ELSE 0, c |-> Bit(Top(x))]
    [] type = "ror" -> LET k == n % W IN
                       IF k = 0 THEN [r |-> x, c |-> Bit(Top(x))]
                       ELSE [r |-> x \div Two[k] + Wrap(x * Two[W - k]), c |-> Out(x, k)]

\* shift_calc for amounts from 1: differs for a right shift past the width.
GbaShift(type, x, n) ==
  IF type = "lsr" /\ n > W THEN [r |-> 0, c |-> 0] ELSE ArmShift(type, x, n)

\* ROR by an immediate 0 is a rotation through the carry.
Rrx(x, c) == [r |-> x \div 2 + c * Two[W - 1], c |-> x % 2]

\* ldm_stm: the lowest address of a transfer of n words and the base written
\* back; p: before, u: up.
ArmBlock(p, u, base, n) ==
  [first |-> IF u THEN IF p THEN base + 1 ELSE base
             ELSE IF p THEN base - n ELSE base - (n - 1),
   back |-> IF u THEN base + n ELSE base - n]

GbaBlock(p, u, base, n) ==
  [first |-> IF u THEN IF p THEN base + 1 ELSE base
             ELSE base - n + (IF p THEN 0 ELSE 1),
   back |-> IF u THEN base + n ELSE base - n]

\* SWI 8, two bits at a time from the highest power of four not above x.
Four(k) == Two[k] * Two[k]

SquareRoot(x) ==
  LET first == CHOOSE k \in 0..W : Four(k) > x /\ (k = 0 \/ Four(k - 1) <= x)
      root[n \in 0..first] ==   \* after n steps, the last with Four(first - n)
        IF n = 0 THEN [v |-> x, r |-> 0]
        ELSE LET s == root[n - 1]  bit == Four(first - n) IN
             IF s.v >= s.r + bit THEN [v |-> s.v - (s.r + bit), r |-> s.r \div 2 + bit]
                                 ELSE [s EXCEPT !.r = @ \div 2]
  IN root[first].r

-----------------------------------------------------------------------------

Adds == {"arm add", "arm adc", "gba add", "gba adc"}
Subs == {"arm sub", "arm sbc", "arm neg", "gba sub", "gba sbc"}
Shifts == {"lsl", "lsr", "asr", "ror"}

\* The carry an operation takes part with: ADD none, SUB as if it were set.
CarryIn(op, c) ==
  CASE op \in {"arm adc", "arm sbc", "gba adc", "gba sbc"} -> c
    [] op \in {"arm add", "gba add"} -> 0
    [] OTHER -> 1

Result(op, a, b, c) ==
  CASE op = "arm add" -> ArmAdd(a, b)
    [] op = "arm adc" -> ArmAdc(a, b, c)
    [] op = "arm sub" -> ArmSub(a, b)
    [] op = "arm sbc" -> ArmSbc(a, b, c)
    [] op = "arm neg" -> ArmNeg(b)
    [] op \in {"gba add", "gba adc"} -> GbaAdd(a, b, CarryIn(op, c))
    [] op \in {"gba sub", "gba sbc"} -> GbaSub(a, b, 1 - CarryIn(op, c))

Arithmetic(op, a, b, c) ==
  alu' = [op |-> op, a |-> IF op = "arm neg" THEN 0 ELSE a, b |-> b,
          c |-> CarryIn(op, c), res |-> Result(op, a, b, c)]

ShiftBy(gbax, type, a, n) ==
  alu' = [op |-> type, a |-> a, b |-> n, c |-> 0,
          res |-> IF gbax THEN GbaShift(type, a, n) ELSE ArmShift(type, a, n)]

RotateExtended(a, c) ==
  alu' = [op |-> "rrx", a |-> a, b |-> 0, c |-> c, res |-> Rrx(a, c)]

\* A store of n words and the load with the mirrored mode that undoes it.
StoreAndLoad(gbax, p, u, base, n) ==
  LET Block(before, up, at) == IF gbax THEN GbaBlock(before, up, at, n)
                               ELSE ArmBlock(before, up, at, n)
      store == Block(p, u, base)
  IN alu' = [op |-> "block", a |-> base, b |-> n, c |-> 0,
             res |-> [stm |-> store, ldm |-> Block(~p, ~u, store.back)]]

TakeRoot(a) ==
  alu' = [op |-> "sqrt", a |-> a, b |-> 0, c |-> 0, res |-> [r |-> SquareRoot(a)]]

Execute ==
  \/ \E op \in Adds \cup Subs, a, b \in Reg, c \in {0, 1} : Arithmetic(op, a, b, c)
  \/ \E gbax \in BOOLEAN, t \in Shifts, a \in Reg, n \in 1..(2 * W + 1) :
       ShiftBy(gbax, t, a, n)
  \/ \E a \in Reg, c \in {0, 1} : RotateExtended(a, c)
  \/ \E gbax, p, u \in BOOLEAN, n \in 0..W : StoreAndLoad(gbax, p, u, W, n)
  \/ \E a \in Reg : TakeRoot(a)

\* An operation, and then another one.
Next ==
  \/ alu = None /\ Execute
  \/ alu # None /\ alu' = None

Spec == Init /\ [][Next]_alu

-----------------------------------------------------------------------------

\* One shift by one place, and n of them.
One(type, x) ==
  CASE type = "lsl" -> [r |-> Wrap(2 * x), c |-> Bit(Top(x))]
    [] type = "lsr" -> [r |-> x \div 2, c |-> x % 2]
    [] type = "asr" -> [r |-> x \div 2 + (IF Top(x) THEN M \div 2 ELSE 0), c |-> x % 2]
    [] type = "ror" -> [r |-> x \div 2 + (x % 2) * (M \div 2), c |-> x % 2]

Many(type, x, n) ==
  LET f[k \in 0..n] == IF k = 0 THEN [r |-> x, c |-> 0] ELSE One(type, f[k - 1].r)
  IN f[n]

Fits(x) == x \in -(M \div 2)..(M \div 2 - 1)   \* in a signed register

SumExact(a, b, c, res) ==
  /\ res.r = Wrap(a + b + c)
  /\ res.c <=> a + b + c >= M
  /\ res.v <=> ~Fits(Signed(a) + Signed(b) + c)

DifferenceExact(a, b, c, res) ==
  /\ res.r = Wrap(a - b - (1 - c))
  /\ res.c <=> a - b - (1 - c) >= 0
  /\ res.v <=> ~Fits(Signed(a) - Signed(b) - (1 - c))

ShiftExact(type, x, n, res) ==
  \/ res = Many(type, x, n)
  \/ type = "lsr" /\ n > W /\ res = [r |-> 0, c |-> Bit(Top(x))]

IsRoot(r, x) == r \in Nat /\ r * r <= x /\ (r + 1) * (r + 1) > x

\* C and V of every sum and difference say what they should of the numbers:
\* C that the unsigned sum does not fit, or the unsigned difference does not
\* borrow, V that the signed one does not fit; a shift by n is n shifts by one
\* (but an LSR past the width, whose carry arm.c takes from an LSR of the width);
\* the BIOS's root is the integer square root.
ArithmeticExact ==
  LET a == alu.a  b == alu.b  c == alu.c  res == alu.res IN
  /\ alu.op \in Adds => SumExact(a, b, c, res)
  /\ alu.op \in Subs => DifferenceExact(a, b, c, res)
  /\ alu.op \in Shifts => ShiftExact(alu.op, a, b, res)
  /\ alu.op = "rrx" => 2 * res.r + res.c = a + c * M
  /\ alu.op = "sqrt" => IsRoot(res.r, a)

\* A load with the mirrored mode reads the words a store has written, each at
\* its address, and leaves the base where it was.
BlocksBalanced ==
  alu.op = "block" =>
    /\ alu.b > 0 => alu.res.ldm.first = alu.res.stm.first
    /\ alu.res.ldm.back = alu.a
=============================================================================
