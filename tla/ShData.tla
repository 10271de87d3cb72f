------------------------------- MODULE ShData -------------------------------
(***************************************************************************)
(* Arithmetic of the SH-2 and SH-4 interpreters (src/common/sh2.c, sh4.c): *)
(* the operations that read or write T, and the 64-bit products and sums.  *)
(* A register has M values instead of 2^32.                                *)
(***************************************************************************)
EXTENDS Integers

CONSTANT M   \* values of a register (2^32)

ShDataAssumption == M \in Nat \ {0} /\ M % 2 = 0

VARIABLE calc   \* [op, a, b, c, res]: the operation just executed, or [op] none

Reg == 0..(M - 1)
Wrap(x) == x % M
Top(x) == x >= M \div 2
Bit(p) == IF p THEN 1 ELSE 0
Signed(x) == IF Top(x) THEN x - M ELSE x

None == [op |-> "none"]
Init == calc = None

-----------------------------------------------------------------------------

\* The carry of each of the two additions, or the borrow of the subtractions.
Addc(n, m, t) ==
  LET s == Wrap(n + m) IN [r |-> Wrap(s + t), t |-> s < n \/ Wrap(s + t) < s]

SubcOnce(n, m, t) ==   \* mutant: the borrow of T is not looked at
  LET d == Wrap(n - m) IN [r |-> Wrap(d - t), t |-> n < m]

Subc(n, m, t) ==
  LET d == Wrap(n - m) IN [r |-> Wrap(d - t), t |-> n < m \/ d < t]

Negc(m, t) == [r |-> Wrap(-m - t), t |-> m # 0 \/ t = 1]

Addv(n, m) ==
  LET r == Wrap(n + m) IN [r |-> r, t |-> Top(n) = Top(m) /\ Top(n) # Top(r)]

Subv(n, m) ==
  LET r == Wrap(n - m) IN [r |-> r, t |-> Top(n) # Top(m) /\ Top(n) # Top(r)]

\* SHLL, SHLR, SHAR and the rotations, of which ROTCL and ROTCR turn T too.
Shift(op, n, t) ==
  CASE op \in {"shll", "shal"} -> [r |-> Wrap(2 * n), t |-> Bit(Top(n))]
    [] op = "shlr" -> [r |-> n \div 2, t |-> n % 2]
    [] op = "shar" -> [r |-> Wrap(Signed(n) \div 2), t |-> n % 2]
    [] op = "rotl" -> [r |-> Wrap(2 * n) + Bit(Top(n)), t |-> Bit(Top(n))]
    [] op = "rotr" -> [r |-> n \div 2 + (n % 2) * (M \div 2), t |-> n % 2]
    [] op = "rotcl" -> [r |-> Wrap(2 * n) + t, t |-> Bit(Top(n))]
    [] op = "rotcr" -> [r |-> n \div 2 + t * (M \div 2), t |-> n % 2]

\* MAC.L, MAC.W: a product of signed numbers onto MACH:MACL.
Mac(n, m, acc) == (acc + Signed(n) * Signed(m)) % (M * M)

-----------------------------------------------------------------------------

Shifts == {"shll", "shal", "shlr", "shar", "rotl", "rotr", "rotcl", "rotcr"}

Did(op, a, b, c, res) == calc' = [op |-> op, a |-> a, b |-> b, c |-> c, res |-> res]

Execute ==
  \/ \E n, m \in Reg, t \in {0, 1} :
       \/ Did("addc", n, m, t, Addc(n, m, t))
       \/ Did("subc", n, m, t, Subc(n, m, t))
       \/ Did("subc", 0, m, t, Negc(m, t))
       \/ Did("addv", n, m, 0, Addv(n, m))
       \/ Did("subv", n, m, 0, Subv(n, m))
       \/ \E op \in Shifts : Did(op, n, 0, t, Shift(op, n, t))
  \/ \E n, m \in Reg, acc \in 0..(M * M - 1) : Did("mac", n, m, acc, Mac(n, m, acc))

Next ==
  \/ calc = None /\ Execute
  \/ calc # None /\ calc' = None

Spec == Init /\ [][Next]_calc

-----------------------------------------------------------------------------

Fits(x) == x \in -(M \div 2)..(M \div 2 - 1)   \* in a signed register

Exact(op, a, b, c, res) ==
  /\ op = "addc" => res.r + M * Bit(res.t) = a + b + c
  /\ op = "subc" => res.r - M * Bit(res.t) = a - b - c
  /\ op = "addv" => res.r = Wrap(a + b) /\ (res.t <=> ~Fits(Signed(a) + Signed(b)))
  /\ op = "subv" => res.r = Wrap(a - b) /\ (res.t <=> ~Fits(Signed(a) - Signed(b)))
  /\ op \in {"shll", "shal"} => res.r + M * res.t = 2 * a
  /\ op = "shlr" => 2 * res.r + res.t = a
  /\ op = "shar" => 2 * Signed(res.r) + res.t = Signed(a)
  /\ op = "rotl" => res.r + (M - 1) * res.t = 2 * a
  /\ op = "rotr" => 2 * res.r = a + (M - 1) * res.t
  /\ op = "rotcl" => res.r + M * res.t = 2 * a + c
  /\ op = "rotcr" => 2 * res.r + res.t = a + M * c
  /\ op = "mac" => \E k \in -1..1 : res + k * (M * M) = c + Signed(a) * Signed(b)

\* T and the result of every sum and difference say what they should of the
\* numbers, so that a long sum can be built from them; a shift moves the bit
\* it loses into T, and a rotation through T is one of a bit more.
ArithmeticExact ==
  /\ Exact(calc.op, calc.a, calc.b, calc.c, calc.res)
  /\ calc.op \in Shifts => calc.res.t \in {0, 1}
  /\ calc.op = "mac" => calc.res \in 0..(M * M - 1)
  /\ calc.op \notin {"none", "mac"} => calc.res.r \in Reg
=============================================================================
