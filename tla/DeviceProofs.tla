---------------------------- MODULE DeviceProofs ----------------------------
(***************************************************************************)
(* The devices of the consoles in MCConsoles, for every size of their      *)
(* registers, queues and memories.  Each part has an invariant of its own, *)
(* stated in its module; the theorems put them together over the part in   *)
(* focus.  Behind them is the arithmetic of bytes and of the SH, which     *)
(* ProcessorProofs takes up.                                               *)
(***************************************************************************)
EXTENDS MCConsoles, SequenceTheorems, WellFoundedInduction, TLAPS

(***************************************************************************)
(* Division, for addresses and counters that wrap.                         *)
(***************************************************************************)

\* Division with remainder.
LEMMA DivParts ==
  ASSUME NEW a \in Nat, NEW n \in Nat \ {0}
  PROVE  /\ a \div n \in Nat /\ a % n \in 0..(n - 1)
         /\ a = n * (a \div n) + (a % n)
  OBVIOUS

\* The next multiple is a whole divisor away, so that there is only one way
\* to divide with remainder.
LEMMA MultStep == ASSUME NEW n \in Nat \ {0}, NEW j \in Int, NEW k \in Int, j < k
  PROVE n * j + n <= n * k
<1>1. n * (k - j) >= n
  <2>1. \A x \in Nat \ {0} : n * x >= n
    OBVIOUS
  <2> QED
    BY <2>1
<1>2. n * (k - j) = n * k - n * j
  OBVIOUS
<1>3. n * k \in Int /\ n * j \in Int
  OBVIOUS
<1> QED
  BY <1>1, <1>2, <1>3

LEMMA DivUnique ==
  ASSUME NEW a \in Nat, NEW n \in Nat \ {0}, NEW k \in Int, NEW r \in 0..(n - 1),
         a = n * k + r
  PROVE  a % n = r /\ a \div n = k
<1> DEFINE q == a \div n
           s == a % n
<1>1. q \in Int /\ s \in 0..(n - 1) /\ a = n * q + s
  BY ONLY DivParts
<1> HIDE DEF q, s
<1>2. n * q \in Int /\ n * k \in Int
  BY <1>1
<1>3. ~(q < k)
  <2> SUFFICES ASSUME q < k PROVE FALSE
    OBVIOUS
  <2>1. n * q + n <= n * k
    BY <1>1, MultStep
  <2> QED
    BY <1>1, <1>2, <2>1
<1>4. ~(k < q)
  <2> SUFFICES ASSUME k < q PROVE FALSE
    OBVIOUS
  <2>1. n * k + n <= n * q
    BY <1>1, MultStep
  <2> QED
    BY <1>1, <1>2, <2>1
<1>5. q = k
  BY <1>1, <1>3, <1>4
<1>6. s = r
  BY <1>1, <1>2, <1>5
<1> QED
  BY <1>5, <1>6 DEF q, s

\* A remainder may be taken early.
LEMMA ModPlus ==
  ASSUME NEW m \in Nat \ {0}, NEW a \in Nat, NEW b \in Nat
  PROVE  (a + (b % m)) % m = (a + b) % m
<1> DEFINE q == b \div m
           r == b % m
           c == a + r
           k == c \div m
           s == c % m
<1>1. q \in Nat /\ r \in 0..(m - 1) /\ b = m * q + r
  BY DivParts
<1> HIDE DEF q, r
<1>2. c \in Nat
  BY <1>1
<1>3. k \in Nat /\ s \in 0..(m - 1) /\ c = m * k + s
  BY <1>2, DivParts
<1> HIDE DEF k, s
<1>4. m * (q + k) = m * q + m * k /\ m * q \in Nat /\ m * k \in Nat
  BY <1>1, <1>3
<1> DEFINE e == a + b
<1>5. e = m * (q + k) + s /\ e \in Nat /\ q + k \in Int
  BY <1>1, <1>3, <1>4
<1> HIDE DEF e
<1>6. e % m = s
  BY <1>3, <1>5, DivUnique
<1> QED
  BY <1>6 DEF e, s, c, r

\* ... and of a factor.
LEMMA ModTimes ==
  ASSUME NEW m \in Nat \ {0}, NEW a \in Nat, NEW u \in Nat
  PROVE  ((a % m) * u) % m = (a * u) % m
<1> DEFINE q == a \div m
           r == a % m
           c == r * u
           k == c \div m
           s == c % m
<1>1. q \in Nat /\ r \in 0..(m - 1) /\ a = m * q + r
  BY DivParts
<1> HIDE DEF q, r
<1>2. c \in Nat
  BY <1>1
<1>3. k \in Nat /\ s \in 0..(m - 1) /\ c = m * k + s
  BY <1>2, DivParts
<1> HIDE DEF k, s
<1>4. a * u = m * (q * u) + r * u
  BY <1>1
<1>5. q * u \in Nat
  BY <1>1
<1> DEFINE f == q * u
           e == a * u
<1> HIDE DEF f
<1>6. e = m * (f + k) + s /\ e \in Nat /\ f + k \in Int
  <2>1. f \in Nat
    BY <1>5 DEF f
  <2>2. m * (f + k) = m * f + m * k
    BY <1>3, <2>1
  <2>3. m * f \in Nat /\ m * k \in Nat
    BY <1>3, <2>1
  <2> QED
    BY <1>3, <1>4, <2>1, <2>2, <2>3 DEF f
<1> HIDE DEF e
<1>7. e % m = s
  BY <1>3, <1>6, DivUnique
<1> QED
  BY <1>7 DEF e, s, c, r

(***************************************************************************)
(* The PlayStation's command port.                                         *)
(***************************************************************************)

LEMMA GpuFacts ==
  Params \subseteq 0..63 /\ Sizes \subseteq Nat /\ MaxPoints \in 2..63
  BY DevicesFit DEF Gpu!GpuAssumption

\* Two pixels are a word, the last of an odd number too.
LEMMA Words ==
  ASSUME NEW n \in Nat
  PROVE  /\ Gpu!ImageWords(n) \in Nat
         /\ Gpu!ImageWords(n) = 0 <=> n = 0
         /\ n > 0 => Gpu!ImageWords(IF n = 1 THEN 0 ELSE n - 2) = Gpu!ImageWords(n) - 1
  BY DEF Gpu!ImageWords

LEMMA GpuInit == ASSUME Gpu!Init PROVE Gpu!PortInv
<1>1. Gpu!ImageWords(0) = 0
  BY Words
<1> QED
  BY <1>1 DEF Gpu!Init, Gpu!PortInv, Gpu!Idle, Gpu!Kinds

LEMMA GpuStep == ASSUME Gpu!PortInv, Gpu!Next PROVE Gpu!PortInv'
<1> USE GpuFacts DEF Gpu!PortInv, Gpu!Kinds, Gpu!Idle, Gpu!Open
<1>0. Gpu!ImageWords(0) = 0
  BY Words
<1>1. ASSUME NEW n \in Params, Gpu!Command(n) PROVE Gpu!PortInv'
  <2>1. CASE n = 0
    BY <1>0, <1>1, <2>1 DEF Gpu!Command
  <2>2. CASE n # 0
    <3>1. v1' = [kind |-> "fixed", len |-> 1, need |-> n, pixels |-> 0] /\ v2' = n
      BY <1>1, <2>2 DEF Gpu!Command
    <3> QED
      BY <2>2, <3>1
  <2> QED
    BY <2>1, <2>2
<1>2. ASSUME NEW size \in Sizes, Gpu!ImageWord(size) PROVE Gpu!PortInv'
  BY <1>2 DEF Gpu!ImageWord
<1>3. ASSUME NEW ends \in BOOLEAN, Gpu!Point(ends) PROVE Gpu!PortInv'
  BY <1>0, <1>3 DEF Gpu!Point
<1>4. CASE Gpu!Parameter
  BY <1>0, <1>4 DEF Gpu!Parameter
<1>5. CASE Gpu!PolyLine
  <2>1. v1' = [kind |-> "line", len |-> 1, need |-> 0, pixels |-> 0] /\ v2' = -1
    BY <1>5 DEF Gpu!PolyLine
  <2> QED
    BY <2>1
<1>6. CASE Gpu!Image
  <2>1. v1' = [kind |-> "image", len |-> 1, need |-> 2, pixels |-> 0] /\ v2' = 2
    BY <1>6 DEF Gpu!Image
  <2> QED
    BY <2>1
<1>7. CASE Gpu!Stream
  <2>1. v1.pixels \in Nat /\ v1.pixels > 0 /\ v1.kind = "idle"
    BY <1>7 DEF Gpu!Stream
  <2> QED
    BY <1>7, <2>1, Words DEF Gpu!Stream
<1>8. CASE Gpu!Reset
  BY <1>0, <1>8 DEF Gpu!Reset
<1> QED
  BY <1>1, <1>2, <1>3, <1>4, <1>5, <1>6, <1>7, <1>8 DEF Gpu!Next

LEMMA GpuInvImplies == ASSUME Gpu!PortInv PROVE Gpu!PacketsWhole /\ Gpu!TypeOK
<1>1. Gpu!ImageWords(v1.pixels) \in Nat
      /\ (Gpu!ImageWords(v1.pixels) = 0 <=> v1.pixels = 0)
  BY Words DEF Gpu!PortInv
<1> QED
  BY <1>1, GpuFacts DEF Gpu!PortInv, Gpu!PacketsWhole, Gpu!TypeOK, Gpu!Kinds, Gpu!Open

(***************************************************************************)
(* The NES's controller port.                                              *)
(***************************************************************************)

\* A function on 1..n as a sequence, and shifted.
LEMMA ShiftedIn ==
  ASSUME NEW n \in Nat \ {0}, NEW S, NEW s \in [1..n -> S], NEW e \in S
  PROVE  /\ Head(s) = s[1]
         /\ Append(Tail(s), e) = [i \in 1..n |-> IF i = n THEN e ELSE s[i + 1]]
<1>1. s \in Seq(S)
  BY SeqDef
<1>2. DOMAIN s = 1..n /\ Len(s) \in Nat /\ DOMAIN s = 1..Len(s)
  BY <1>1, LenProperties
<1>3. Len(s) = n
  BY <1>2
<1>4. s # << >>
  BY <1>3, EmptySeq
<1>5. /\ Tail(s) \in Seq(S) /\ Len(Tail(s)) = n - 1
      /\ \A i \in 1..(n - 1) : Tail(s)[i] = s[i + 1]
  BY <1>1, <1>3, <1>4, HeadTailProperties
<1> DEFINE t == Append(Tail(s), e)
<1>6. /\ t \in Seq(S) /\ Len(t) = n
      /\ \A i \in 1..(n - 1) : t[i] = s[i + 1]
      /\ t[n] = e
  BY <1>5, AppendProperties
<1>7. t \in [1..n -> S]
  BY <1>6, LenProperties
<1> HIDE DEF t
<1>8. t = [i \in 1..n |-> IF i = n THEN e ELSE s[i + 1]]
  BY <1>6, <1>7
<1> QED
  BY <1>1, <1>8 DEF t

\* After one more read every button has moved on by one, with `last' behind.
LEMMA ReadOn ==
  ASSUME NEW n \in Nat \ {0}, NEW S, NEW held \in [1..n -> S], NEW last \in S,
         NEW r \in Nat, NEW s \in [1..n -> S],
         \A i \in 1..n : s[i] = IF r + i <= n THEN held[r + i] ELSE last
  PROVE  /\ Head(s) = IF r < n THEN held[r + 1] ELSE last
         /\ Append(Tail(s), last) \in [1..n -> S]
         /\ \A i \in 1..n : Append(Tail(s), last)[i] =
              IF (r + 1) + i <= n THEN held[(r + 1) + i] ELSE last
<1> DEFINE t == Append(Tail(s), last)
<1>1. Head(s) = s[1]
  BY ShiftedIn
<1>2. t = [i \in 1..n |-> IF i = n THEN last ELSE s[i + 1]]
  BY ShiftedIn
<1> HIDE DEF t
<1>3. \A i \in 1..n : t[i] = IF (r + 1) + i <= n THEN held[(r + 1) + i] ELSE last
  <2> TAKE i \in 1..n
  <2>1. CASE i = n
    BY <1>2, <2>1
  <2>2. CASE i # n
    <3>1. i + 1 \in 1..n /\ r + (i + 1) = (r + 1) + i
      BY <2>2
    <3>2. t[i] = s[i + 1]
      BY <1>2, <2>2
    <3> QED
      BY <3>1, <3>2
  <2> QED
    BY <2>1, <2>2
<1>4. t \in [1..n -> S]
  <2>1. \A i \in 1..n : i # n => i + 1 \in 1..n
    OBVIOUS
  <2> QED
    BY <1>2, <2>1
<1>5. s[1] = IF r < n THEN held[r + 1] ELSE last
  OBVIOUS
<1> QED
  BY <1>1, <1>3, <1>4, <1>5 DEF t

LEMMA PadInit == ASSUME Pad!Init PROVE Pad!PadInv
  BY DevicesFit DEF Pad!PadAssumption, Pad!Init, Pad!PadInv, Pad!None, Pad!Buttons

LEMMA PadStep == ASSUME Pad!PadInv, Pad!Next PROVE Pad!PadInv'
<1>0. NButtons \in Nat \ {0}
  BY DevicesFit DEF Pad!PadAssumption
<1> USE <1>0 DEF Pad!PadInv
<1>1. ASSUME NEW b \in Pad!Buttons, Pad!SetInput(b) PROVE Pad!PadInv'
  <2>1. CASE v1.strobe
    <3>1. /\ v1' = [strobe |-> TRUE, shift |-> b, buttons |-> b]
          /\ v2' = [held |-> b, reads |-> 0]
      BY <1>1, <2>1 DEF Pad!SetInput
    <3> QED
      BY <1>1, <3>1 DEF Pad!Buttons
  <2>2. CASE ~v1.strobe
    <3>1. /\ v1' = [strobe |-> FALSE, shift |-> v1.shift, buttons |-> b]
          /\ v2' = v2
      BY <1>1, <2>2 DEF Pad!SetInput
    <3> QED
      BY <1>1, <3>1
  <2> QED
    BY <2>1, <2>2
<1>2. ASSUME NEW high \in BOOLEAN, Pad!Strobe(high) PROVE Pad!PadInv'
  <2>1. CASE high
    <3>1. /\ v1' = [strobe |-> TRUE, shift |-> v1.buttons, buttons |-> v1.buttons]
          /\ v2' = [held |-> v1.buttons, reads |-> 0]
      BY <1>2, <2>1 DEF Pad!Strobe
    <3> QED
      BY <3>1 DEF Pad!Buttons
  <2>2. CASE ~high
    <3>1. /\ v1' = [strobe |-> FALSE, shift |-> v1.shift, buttons |-> v1.buttons]
          /\ v2' = v2
      BY <1>2, <2>2 DEF Pad!Strobe
    <3> QED
      BY <3>1
  <2> QED
    BY <2>1, <2>2
<1>3. CASE Pad!Read
  <2>1. CASE v1.strobe
    BY <1>3, <2>1 DEF Pad!Read
  <2>2. CASE ~v1.strobe
    <3> DEFINE held == v2.held
               reads == v2.reads
               shift == v1.shift
               yes == TRUE
               more == Append(Tail(shift), yes)
               Bit == BOOLEAN
    <3>1. /\ held \in [1..NButtons -> Bit] /\ reads \in Nat
          /\ shift \in [1..NButtons -> Bit] /\ yes \in Bit
          /\ \A i \in 1..NButtons :
               shift[i] = IF reads + i <= NButtons THEN held[reads + i] ELSE yes
      BY DEF Pad!Buttons
    <3>2. /\ v1' = [strobe |-> FALSE, shift |-> more, buttons |-> v1.buttons]
          /\ v2' = [held |-> held, reads |-> reads + 1]
          /\ v1.buttons \in Pad!Buttons /\ held \in Pad!Buttons
      BY <1>3, <2>2 DEF Pad!Read
    <3> HIDE DEF held, reads, shift, yes, Bit, Pad!PadInv
    <3>3. /\ more \in [1..NButtons -> Bit]
          /\ \A i \in 1..NButtons : more[i] =
               IF (reads + 1) + i <= NButtons THEN held[(reads + 1) + i] ELSE yes
      <4>1. Append(Tail(shift), yes) \in [1..NButtons -> Bit]
        <5>1. Append(Tail(shift), yes)
                = [i \in 1..NButtons |-> IF i = NButtons THEN yes ELSE shift[i + 1]]
          BY <1>0, <3>1, ShiftedIn
        <5>2. \A i \in 1..NButtons : i # NButtons => i + 1 \in 1..NButtons
          BY <1>0
        <5> QED
          BY <3>1, <5>1, <5>2
      <4>2. \A i \in 1..NButtons : Append(Tail(shift), yes)[i] =
               IF (reads + 1) + i <= NButtons THEN held[(reads + 1) + i] ELSE yes
        BY <1>0, <3>1, ReadOn
      <4> QED
        BY <4>1, <4>2
    <3> HIDE DEF more
    <3>4. more \in Pad!Buttons
      BY <3>3 DEF Pad!Buttons, Bit
    <3>5. /\ v1' \in [strobe : BOOLEAN, shift : Pad!Buttons, buttons : Pad!Buttons]
          /\ v2' \in [held : Pad!Buttons, reads : Nat]
          /\ ~v1'.strobe
      BY <3>1, <3>2, <3>4
    <3>6. v1'.shift = more /\ v2'.reads = reads + 1 /\ v2'.held = held
      BY <3>2
    <3> QED
      BY <3>3, <3>5, <3>6 DEF Pad!PadInv, yes
  <2> QED
    BY <2>1, <2>2
<1> QED
  BY <1>1, <1>2, <1>3 DEF Pad!Next

LEMMA PadInvImplies == ASSUME Pad!PadInv PROVE Pad!ButtonsAsStrobed /\ Pad!TypeOK
<1>0. NButtons \in Nat \ {0}
  BY DevicesFit DEF Pad!PadAssumption
<1> DEFINE held == v2.held
           reads == v2.reads
           shift == v1.shift
           yes == TRUE
           Bit == BOOLEAN
<1>1. /\ held \in [1..NButtons -> Bit] /\ reads \in Nat
      /\ shift \in [1..NButtons -> Bit] /\ yes \in Bit
      /\ \A i \in 1..NButtons :
           shift[i] = IF reads + i <= NButtons THEN held[reads + i] ELSE yes
  BY DEF Pad!PadInv, Pad!Buttons
<1>2. Pad!TypeOK
  BY DEF Pad!PadInv, Pad!TypeOK
<1> HIDE DEF held, reads, shift, yes, Bit
<1>3. Head(shift) = IF reads < NButtons THEN held[reads + 1] ELSE yes
  BY <1>0, <1>1, ReadOn
<1> QED
  BY <1>2, <1>3 DEF Pad!ButtonsAsStrobed, held, reads, shift, yes

(***************************************************************************)
(* The mappers of the NES: MMC1's shift register, MMC3's counter.          *)
(***************************************************************************)

LEMMA CartFacts ==
  /\ Bits \in Nat \ {0} /\ Fixed \subseteq 0..(Bits - 1) /\ 0 \in Groups
  /\ LatchMax \in Nat /\ EdgeMax \in Nat /\ EdgeMax > LatchMax + 1
  BY DevicesFit DEF Cart!CartAssumption

\* A bit more told is a bit more at the end of the shift register.
LEMMA OneMoreBit ==
  ASSUME NEW n \in Nat \ {0}, NEW S, NEW c \in 0..(n - 1), NEW s \in [0..(n - 1) -> S],
         NEW q \in Seq(S), Len(q) = c, \A i \in 1..c : s[n - c + i - 1] = q[i],
         NEW b \in S
  PROVE  LET t == [i \in 0..(n - 1) |-> IF i = n - 1 THEN b ELSE s[i + 1]]
             r == Append(q, b)
         IN /\ t \in [0..(n - 1) -> S]
            /\ r \in Seq(S) /\ Len(r) = c + 1
            /\ \A i \in 1..(c + 1) : t[n - (c + 1) + i - 1] = r[i]
            /\ c + 1 = n => [i \in 0..(n - 1) |-> r[i + 1]] = t
<1> DEFINE t == [i \in 0..(n - 1) |-> IF i = n - 1 THEN b ELSE s[i + 1]]
           r == Append(q, b)
<1>1. t \in [0..(n - 1) -> S]
  <2>1. \A i \in 0..(n - 1) : i # n - 1 => i + 1 \in 0..(n - 1)
    OBVIOUS
  <2> QED
    BY <2>1
<1>2. /\ r \in Seq(S) /\ Len(r) = c + 1
      /\ \A i \in 1..c : r[i] = q[i]
      /\ r[c + 1] = b
  BY AppendProperties
<1> HIDE DEF r
<1>3. ASSUME NEW i \in 1..(c + 1) PROVE t[n - (c + 1) + i - 1] = r[i]
  <2>1. CASE i = c + 1
    <3>1. n - (c + 1) + i - 1 = n - 1
      BY <2>1
    <3> QED
      BY <1>2, <2>1, <3>1
  <2>2. CASE i # c + 1
    <3> DEFINE k == n - (c + 1) + i - 1
    <3>1. i \in 1..c /\ k \in 0..(n - 1) /\ k # n - 1 /\ k + 1 = n - c + i - 1
      BY <2>2
    <3>2. t[k] = s[k + 1]
      BY <3>1
    <3> QED
      BY <1>2, <3>1, <3>2
  <2> QED
    BY <2>1, <2>2
<1>4. ASSUME c + 1 = n PROVE [i \in 0..(n - 1) |-> r[i + 1]] = t
  <2>1. \A i \in 0..(n - 1) : i + 1 \in 1..(c + 1) /\ n - (c + 1) + (i + 1) - 1 = i
    BY <1>4
  <2>2. \A i \in 0..(n - 1) : t[i] = r[i + 1]
    <3> HIDE DEF t
    <3> QED
      BY <1>3, <2>1
  <2> QED
    BY <2>2
<1> QED
  BY <1>1, <1>2, <1>3, <1>4 DEF r

\* What SetFixed makes of a register is one.
LEMMA FixedRegister ==
  ASSUME NEW r \in [Cart!Word -> BOOLEAN]
  PROVE  Cart!SetFixed(r) \in [Cart!Word -> BOOLEAN]
  BY DEF Cart!SetFixed

LEMMA SerialInit == ASSUME Cart!Init PROVE Cart!SerialInv
<1>1. Cart!Zero \in [Cart!Word -> BOOLEAN]
  BY DEF Cart!Zero
<1>2. [g \in Groups |-> Cart!Zero] \in [Groups -> [Cart!Word -> BOOLEAN]]
  BY <1>1
<1>3. << >> \in Seq(BOOLEAN) /\ Len(<< >>) = 0
  BY EmptySeq
<1>4. 0 \in Cart!Word
  BY CartFacts DEF Cart!Word
<1> QED
  BY <1>1, <1>2, <1>3, <1>4 DEF Cart!Init, Cart!SerialInv, Cart!EmptyMmc1

LEMMA SerialStep == ASSUME Cart!SerialInv, Cart!Next PROVE Cart!SerialInv'
<1> USE CartFacts
<1> DEFINE Bit == BOOLEAN
           Reg == [Cart!Word -> Bit]
           told == v3.bits
<1>a. /\ v2 \in [shift : Reg, count : Cart!Word, regs : [Groups -> Reg]]
      /\ told \in Seq(Bit) /\ Len(told) = v2.count
      /\ \A i \in 1..v2.count : v2.shift[Bits - v2.count + i - 1] = told[i]
      /\ v3 = [bits |-> told, regs |-> v2.regs]
  BY DEF Cart!SerialInv
<1>b. Cart!Zero \in Reg /\ 0 \in Cart!Word
  BY DEF Cart!Zero, Cart!Word
<1>c. << >> \in Seq(Bit) /\ Len(<< >>) = 0
  BY EmptySeq
\* Between values.
<1>d. ASSUME NEW regs \in [Groups -> Reg],
             v2' = [shift |-> Cart!Zero, count |-> 0, regs |-> regs],
             v3' = [bits |-> << >>, regs |-> regs]
      PROVE  Cart!SerialInv'
  <2>1. v2' \in [shift : Reg, count : Cart!Word, regs : [Groups -> Reg]]
    BY <1>b, <1>d
  <2>2. v2'.count = 0 /\ v3'.bits = << >> /\ v2'.regs = regs
    BY <1>d
  <2> QED
    BY <1>c, <1>d, <2>1, <2>2 DEF Cart!SerialInv
<1>1. CASE Cart!CartReset
  <2>1. [g \in Groups |-> Cart!Zero] \in [Groups -> Reg]
    BY <1>b
  <2> QED
    BY <1>1, <1>d, <2>1 DEF Cart!CartReset, Cart!EmptyMmc1
<1>2. CASE Cart!Mmc1Reset
  <2> DEFINE regs == [v2.regs EXCEPT ![0] = Cart!SetFixed(@)]
  <2>1. regs \in [Groups -> Reg]
    <3>1. v2.regs[0] \in Reg /\ v2.regs \in [Groups -> Reg]
      BY <1>a
    <3>2. Cart!SetFixed(v2.regs[0]) \in Reg
      BY <3>1, FixedRegister
    <3> QED
      BY <3>1, <3>2
  <2>2. v2' = [shift |-> Cart!Zero, count |-> 0, regs |-> regs]
    <3>1. v2 = [shift |-> v2.shift, count |-> v2.count, regs |-> v2.regs]
      BY <1>a
    <3> QED
      BY <1>2, <3>1 DEF Cart!Mmc1Reset
  <2>3. v3' = [bits |-> << >>, regs |-> regs]
    <3>1. v3.regs = v2.regs
      BY <1>a
    <3> QED
      BY <1>2, <3>1 DEF Cart!Mmc1Reset
  <2> HIDE DEF regs
  <2> QED
    BY <1>d, <2>1, <2>2, <2>3
<1>3. ASSUME NEW g \in Groups, NEW b \in BOOLEAN, Cart!Mmc1Write(g, b)
      PROVE  Cart!SerialInv'
  <2> DEFINE c == v2.count
             s == v2.shift
             t == [i \in 0..(Bits - 1) |-> IF i = Bits - 1 THEN b ELSE s[i + 1]]
             r == Append(told, b)
  <2>1. /\ c \in 0..(Bits - 1) /\ s \in [0..(Bits - 1) -> Bit]
        /\ told \in Seq(Bit) /\ Len(told) = c /\ b \in Bit
        /\ \A i \in 1..c : s[Bits - c + i - 1] = told[i]
    BY <1>a DEF Cart!Word
  <2>2. v2 = [shift |-> s, count |-> c, regs |-> v2.regs] /\ v2.regs \in [Groups -> Reg]
    BY <1>a
  <2>3. Cart!Shifted(s, b) = t
    BY DEF Cart!Shifted, Cart!Word
  <2> HIDE DEF c, s, told, Bit
  <2>4. /\ t \in [0..(Bits - 1) -> Bit]
        /\ r \in Seq(Bit) /\ Len(r) = c + 1
        /\ \A i \in 1..(c + 1) : t[Bits - (c + 1) + i - 1] = r[i]
        /\ c + 1 = Bits => [i \in 0..(Bits - 1) |-> r[i + 1]] = t
    BY <2>1, OneMoreBit
  <2> HIDE DEF t, r
  <2>5. CASE c + 1 = Bits
    <3> DEFINE regs == [v2.regs EXCEPT ![g] = t]
    <3>1. regs \in [Groups -> Reg]
      BY <2>2, <2>4 DEF Cart!Word
    <3>2. v2' = [shift |-> Cart!Zero, count |-> 0, regs |-> regs]
      <4>1. c + 1 >= Bits
        BY <2>1, <2>5
      <4>2. v2' = [v2 EXCEPT !.regs[g] = t, !.shift = Cart!Zero, !.count = 0]
        BY <1>3, <2>3, <4>1 DEF Cart!Mmc1Write, c, s
      <4> QED
        BY <2>2, <4>2
    <3>3. v3' = [bits |-> << >>, regs |-> regs]
      <4>1. [i \in Cart!Word |-> r[i + 1]] = t
        BY <2>4, <2>5 DEF Cart!Word
      <4>2. v3.regs = v2.regs
        BY <1>a
      <4> QED
        BY <1>3, <2>4, <2>5, <4>1, <4>2 DEF Cart!Mmc1Write, r, told
    <3> HIDE DEF regs
    <3> QED
      BY <1>d, <3>1, <3>2, <3>3
  <2>6. CASE c + 1 # Bits
    <3>1. v2' = [shift |-> t, count |-> c + 1, regs |-> v2.regs]
      <4>1. ~(c + 1 >= Bits)
        BY <2>1, <2>6
      <4>2. v2' = [v2 EXCEPT !.shift = t, !.count = c + 1]
        BY <1>3, <2>3, <4>1 DEF Cart!Mmc1Write, c, s
      <4> QED
        BY <2>2, <4>2
    <3>2. v3' = [bits |-> r, regs |-> v2.regs]
      <4>1. v3' = [v3 EXCEPT !.bits = r]
        BY <1>3, <2>4, <2>6 DEF Cart!Mmc1Write, r, told
      <4>2. v3 = [bits |-> told, regs |-> v2.regs]
        BY <1>a
      <4> QED
        BY <4>1, <4>2
    <3>3. t \in Reg /\ c + 1 \in Cart!Word
      BY <2>1, <2>4, <2>6 DEF Cart!Word
    <3>4. v2' \in [shift : Reg, count : Cart!Word, regs : [Groups -> Reg]]
      BY <2>2, <3>1, <3>3
    <3>5. v2'.count = c + 1 /\ v2'.shift = t /\ v3'.bits = r /\ v2'.regs = v2.regs
      BY <3>1, <3>2
    <3> QED
      BY <2>4, <3>2, <3>4, <3>5 DEF Cart!SerialInv, Bit
  <2> QED
    BY <2>5, <2>6
<1>4. CASE UNCHANGED <<v2, v3>>
  BY <1>4 DEF Cart!SerialInv
<1> QED
  BY <1>1, <1>2, <1>3, <1>4
     DEF Cart!Next, Cart!WriteLatch, Cart!WriteReload, Cart!WriteDisable,
         Cart!WriteEnable, Cart!Pattern

LEMMA SerialInvImplies == ASSUME Cart!SerialInv PROVE Cart!SerialWhole
  BY DEF Cart!SerialInv, Cart!SerialWhole

LEMMA CounterInit == ASSUME Cart!Init PROVE Cart!CounterInv
  BY CartFacts DEF Cart!Init, Cart!CounterInv, Cart!EmptyMmc3

LEMMA CounterStep ==
  ASSUME Cart!CounterInv, Cart!Next PROVE Cart!CounterInv'
<1> USE CartFacts
<1> DEFINE Mmc3 == [latch : 0..LatchMax, counter : 0..LatchMax, reload : BOOLEAN,
                    enable : BOOLEAN, asserted : BOOLEAN, a12 : BOOLEAN]
<1>a. v4 \in Mmc3 /\ v5 \in 0..EdgeMax
  BY DEF Cart!CounterInv
\* Nothing is counted.
<1>b. ASSUME v4' \in Mmc3, v5' = EdgeMax PROVE Cart!CounterInv'
  BY <1>b DEF Cart!CounterInv
<1>1. CASE Cart!CartReset
  BY <1>1, <1>b DEF Cart!CartReset, Cart!EmptyMmc3
<1>2. ASSUME NEW v \in 0..LatchMax, Cart!WriteLatch(v) PROVE Cart!CounterInv'
  BY <1>2, <1>a, <1>b DEF Cart!WriteLatch
<1>3. CASE Cart!WriteDisable
  BY <1>3, <1>a, <1>b DEF Cart!WriteDisable
<1>4. CASE Cart!WriteReload
  <2>1. v4' \in Mmc3 /\ v4'.reload /\ v4'.enable = v4.enable /\ v4'.asserted = v4.asserted
        /\ v4'.latch = v4.latch
    BY <1>4, <1>a DEF Cart!WriteReload
  <2>2. CASE v4.enable /\ ~v4.asserted
    <3>1. v5' = 0
      BY <1>4, <2>2 DEF Cart!WriteReload
    <3> QED
      BY <2>1, <2>2, <3>1 DEF Cart!CounterInv
  <2>3. CASE ~(v4.enable /\ ~v4.asserted)
    BY <1>4, <1>b, <2>1, <2>3 DEF Cart!WriteReload
  <2> QED
    BY <2>2, <2>3
<1>5. CASE Cart!WriteEnable
  <2>1. /\ v4' \in Mmc3 /\ v4'.enable /\ v5' = v5
        /\ v4'.reload = v4.reload /\ v4'.asserted = v4.asserted
        /\ v4'.latch = v4.latch /\ v4'.counter = v4.counter
    BY <1>5, <1>a DEF Cart!WriteEnable
  <2> QED
    BY <2>1 DEF Cart!CounterInv
<1>6. ASSUME NEW high \in BOOLEAN, Cart!Pattern(high) PROVE Cart!CounterInv'
  <2>1. CASE high /\ ~v4.a12
    <3> DEFINE c == Cart!Edge(v4)
    <3>1. v4' = [c EXCEPT !.a12 = high]
      BY <1>6, <2>1 DEF Cart!Pattern
    <3>2. v5' = IF v5 < EdgeMax THEN v5 + 1 ELSE v5
      BY <1>6, <2>1 DEF Cart!Pattern
    <3>3. CASE v4.reload
      <4>1. /\ v4' \in Mmc3 /\ v4'.enable = v4.enable
            /\ ~v4'.reload /\ v4'.asserted = v4.asserted
            /\ v4'.latch = v4.latch /\ v4'.counter = v4.latch
        BY <1>a, <3>1, <3>3 DEF Cart!Edge
      <4>2. v5' = EdgeMax \/ (v5 = 0 /\ v5' = 1)
        BY <1>a, <3>2, <3>3 DEF Cart!CounterInv
      <4> QED
        BY <1>a, <1>b, <4>1, <4>2 DEF Cart!CounterInv
    <3>4. CASE ~v4.reload /\ v4.counter = 0
      <4>1. /\ v4' \in Mmc3 /\ v4'.enable = v4.enable
            /\ ~v4'.reload /\ v4'.asserted = (v4.asserted \/ v4.enable)
            /\ v4'.latch = v4.latch /\ v4'.counter = v4.latch
        BY <1>a, <3>1, <3>4 DEF Cart!Edge
      <4> QED
        BY <1>a, <1>b, <3>2, <3>4, <4>1 DEF Cart!CounterInv
    <3>5. CASE ~v4.reload /\ v4.counter # 0
      <4>1. /\ v4' \in Mmc3 /\ v4'.enable = v4.enable
            /\ ~v4'.reload
            /\ v4'.asserted = (v4.asserted \/ (v4.enable /\ v4.counter = 1))
            /\ v4'.latch = v4.latch /\ v4'.counter = v4.counter - 1
        <5> DEFINE a == v4.asserted \/ (v4.enable /\ v4.counter = 1)
                   n == v4.counter - 1
        <5>1. a \in BOOLEAN /\ n \in 0..LatchMax
          BY <1>a, <3>5
        <5>2. v4' = [[v4 EXCEPT !.counter = n, !.asserted = a] EXCEPT !.a12 = high]
          BY <3>1, <3>5 DEF Cart!Edge
        <5> HIDE DEF a, n
        <5>3. /\ v4' \in Mmc3 /\ v4'.enable = v4.enable /\ v4'.reload = v4.reload
              /\ v4'.asserted = a /\ v4'.latch = v4.latch /\ v4'.counter = n
          BY <1>a, <5>1, <5>2
        <5> QED
          BY <3>5, <5>3 DEF a, n
      <4> QED
        BY <1>a, <1>b, <3>2, <3>5, <4>1 DEF Cart!CounterInv
    <3> QED
      BY <3>3, <3>4, <3>5
  <2>2. CASE ~(high /\ ~v4.a12)
    <3>1. /\ v4' \in Mmc3 /\ v4'.enable = v4.enable /\ v5' = v5
          /\ v4'.reload = v4.reload /\ v4'.asserted = v4.asserted
          /\ v4'.latch = v4.latch /\ v4'.counter = v4.counter
      BY <1>6, <1>a, <2>2 DEF Cart!Pattern
    <3> QED
      BY <3>1 DEF Cart!CounterInv
  <2> QED
    BY <2>1, <2>2
<1>7. CASE UNCHANGED <<v4, v5>>
  BY <1>7 DEF Cart!CounterInv
<1> QED
  BY <1>1, <1>2, <1>3, <1>4, <1>5, <1>6, <1>7
     DEF Cart!Next, Cart!Mmc1Reset, Cart!Mmc1Write

LEMMA CounterInvImplies == ASSUME Cart!CounterInv PROVE Cart!FirstIrqOnTime
  BY DEF Cart!CounterInv, Cart!FirstIrqOnTime

(***************************************************************************)
(* The calls every core answers.  A core's profile stays unopened: the     *)
(* results hold of any eleven.                                             *)
(***************************************************************************)

LEMMA ApiContents ==
  /\ Api!Torn \in Api!Contents /\ Api!Wide \in Api!Contents
  /\ Api!Cropped \in Api!Contents /\ 0 \in Api!Contents
  /\ Api!Cropped # Api!Wide
  /\ \A n \in 0..MaxFrames : n \in Api!Contents
  /\ \A n \in 0..OutCap : n \in Api!Contents
  /\ \A n \in Api!Contents : n \in Int
  /\ \A p : Api!PowerOn(p) \in Api!Contents
  BY DevicesFit DEF Api!ApiAssumption, Api!Contents, Api!Torn, Api!Wide, Api!Cropped,
                    Api!PowerOn

\* RAM that is made by a write has the size 1.
LEMMA GrownRam == ASSUME v1 \in Cores, Api!P.grows PROVE 1 \in Api!P.ram
<1>1. v1 \in {"mgbx", "nes", "snes", "gba", "finalburn", "ms32", "psx",
              "saturn", "ds", "n64", "dc"}
  BY DevicesFit DEF Api!ApiAssumption
<1>2. /\ v1 = "mgbx" => Api!P = Api!Mgbx
      /\ v1 = "nes" => Api!P = Api!Nes
      /\ v1 = "snes" => Api!P = Api!Snes
      /\ v1 = "gba" => Api!P = Api!Gba
      /\ v1 = "finalburn" => Api!P = Api!Finalburn
      /\ v1 = "ms32" => Api!P = Api!Ms32
      /\ v1 = "psx" => Api!P = Api!Psx
      /\ v1 = "saturn" => Api!P = Api!Saturn
      /\ v1 = "ds" => Api!P = Api!Ds
      /\ v1 = "n64" => Api!P = Api!N64
      /\ v1 = "dc" => Api!P = Api!Dc
  <2>1. v1 = "mgbx" => Api!P = Api!Mgbx
    BY DEF Api!P, Api!Profile
  <2>2. v1 = "nes" => Api!P = Api!Nes
    BY DEF Api!P, Api!Profile
  <2>3. v1 = "snes" => Api!P = Api!Snes
    BY DEF Api!P, Api!Profile
  <2>4. v1 = "gba" => Api!P = Api!Gba
    BY DEF Api!P, Api!Profile
  <2>5. v1 = "finalburn" => Api!P = Api!Finalburn
    BY DEF Api!P, Api!Profile
  <2>6. v1 = "ms32" => Api!P = Api!Ms32
    BY DEF Api!P, Api!Profile
  <2>7. v1 = "psx" => Api!P = Api!Psx
    BY DEF Api!P, Api!Profile
  <2>8. v1 = "saturn" => Api!P = Api!Saturn
    BY DEF Api!P, Api!Profile
  <2>9. v1 = "ds" => Api!P = Api!Ds
    BY DEF Api!P, Api!Profile
  <2>10. v1 = "n64" => Api!P = Api!N64
    BY DEF Api!P, Api!Profile
  <2>11. v1 = "dc" => Api!P = Api!Dc
    BY DEF Api!P, Api!Profile
  <2> QED
    BY <2>1, <2>2, <2>3, <2>4, <2>5, <2>6, <2>7, <2>8, <2>9, <2>10, <2>11
<1>3. /\ ~Api!Mgbx.grows /\ ~Api!Nes.grows /\ ~Api!Snes.grows /\ ~Api!Gba.grows
      /\ ~Api!Psx.grows /\ ~Api!Saturn.grows /\ ~Api!Ds.grows /\ ~Api!N64.grows
      /\ ~Api!Dc.grows
  BY DEF Api!Mgbx, Api!Nes, Api!Snes, Api!Gba, Api!Psx, Api!Saturn, Api!Ds, Api!N64,
         Api!Dc
<1>4. Api!Finalburn.ram = {0, 1} /\ Api!Ms32.ram = {0, 1}
  BY DEF Api!Finalburn, Api!Ms32
<1> QED
  BY <1>1, <1>2, <1>3, <1>4

LEMMA ApiTypeInit == ASSUME Api!Init PROVE Api!TypeOK
<1>1. MaxFrames \in Nat
  BY DevicesFit DEF Api!ApiAssumption
<1>2. Api!Blank \in [Api!AllParts -> Api!Contents]
  BY ApiContents DEF Api!Blank
<1>3. v7 \in BOOLEAN /\ v8 \in BOOLEAN
  BY DEF Api!Init
<1>4. /\ v1 \in Cores /\ v2 = Api!NoRom /\ v4 \in 0..MaxFrames /\ v5 = Api!NoBlob
      /\ v3 = Api!Blank /\ v6 = Api!Blank
  BY <1>1 DEF Api!Init
<1> QED
  BY <1>2, <1>3, <1>4 DEF Api!TypeOK

\* What is read of a part that the format holds.
LEMMA ReadContent ==
  ASSUME Api!TypeOK, v5 # Api!NoBlob, NEW p \in Api!Saved
  PROVE  Api!Read(p) \in Api!Contents
<1>1. /\ v5.parts \in [Api!Saved -> Api!Contents \ {Api!Wide}]
      /\ v3 \in [Api!AllParts -> Api!Contents]
  BY DEF Api!TypeOK
<1>2. v5.parts[p] \in Api!Contents /\ v3[p] \in Api!Contents
  BY <1>1 DEF Api!AllParts
<1>3. \A n \in Api!Contents : Api!Clamped(n) \in Api!Contents
  BY ApiContents DEF Api!Clamped
<1>4. p = "cartRam" => Api!RamRead \in Api!Contents
  BY <1>2, ApiContents DEF Api!RamRead
<1> QED
  BY <1>2, <1>3, <1>4, ApiContents DEF Api!Read

LEMMA ApiTypeStep == ASSUME Api!TypeOK, Api!Next PROVE Api!TypeOK'
<1> DEFINE Machine == [Api!AllParts -> Api!Contents]
           Roms == {Api!NoRom} \cup Api!P.ram
           Blobs == [ram : Api!P.ram \cup {0}, parts : [Api!Saved -> Api!Contents \ {Api!Wide}]]
<1>0. MaxFrames \in Nat
  BY DevicesFit DEF Api!ApiAssumption
<1>a. /\ v1 \in Cores /\ v2 \in Roms /\ v3 \in Machine /\ v4 \in 0..MaxFrames
      /\ v6 \in Machine /\ (v5 = Api!NoBlob \/ v5 \in Blobs)
      /\ v7 \in BOOLEAN /\ v8 \in BOOLEAN
      /\ Api!Parts = Api!AllParts
  BY DEF Api!TypeOK, Api!Parts
<1>b. Api!Saved \subseteq Api!AllParts
  BY DEF Api!AllParts
\* A step keeps the core, so its parts.
<1>c. ASSUME v1' = v1, v2' \in Roms, v3' \in Machine, v4' \in 0..MaxFrames,
             v6' \in Machine, v5' = Api!NoBlob \/ v5' \in Blobs,
             v7' \in BOOLEAN, v8' \in BOOLEAN
      PROVE  Api!TypeOK'
  <2>1. Api!P' = Api!P
    BY <1>c DEF Api!P, Api!Profile
  <2>2. Api!Saved' = Api!Saved
    BY <2>1 DEF Api!Saved
  <2>3. Api!AllParts' = Api!AllParts
    BY <2>1, <2>2 DEF Api!AllParts
  <2> QED
    BY <1>a, <1>c, <2>1, <2>2, <2>3 DEF Api!TypeOK, Api!NoBlob, Api!NoRom, Api!Contents,
                                    Api!Torn, Api!Wide, Api!Cropped
<1>1. CASE Api!Create
  <2>1. Api!Blank \in Machine
    BY ApiContents DEF Api!Blank
  <2> QED
    BY <1>1, <1>a, <1>c, <2>1 DEF Api!Create
<1>2. ASSUME NEW good \in BOOLEAN, NEW ram \in Api!P.ram, Api!LoadRom(good, ram)
      PROVE  Api!TypeOK'
  <2>1. Api!Booted \in Machine
    BY <1>a, ApiContents DEF Api!Booted
  <2>2. v3' \in Machine
    BY <1>2, <1>a, <2>1 DEF Api!LoadRom
  <2>3. v2' \in Roms
    BY <1>2, <1>a DEF Api!LoadRom
  <2> QED
    BY <1>2, <1>a, <1>c, <2>2, <2>3 DEF Api!LoadRom
<1>3. CASE Api!Reset
  <2>1. v3' \in Machine
    BY <1>3, <1>a, ApiContents DEF Api!Reset, Api!ResetParts
  <2> QED
    BY <1>3, <1>a, <1>c, <2>1 DEF Api!Reset
<1>4. CASE Api!RunFrame
  <2>1. v2' \in Roms /\ v3' \in Machine /\ v4' \in 0..MaxFrames
    <3>1. CASE v4 < MaxFrames /\ v4' = v4 + 1
      <4>1. v4' \in 0..MaxFrames
        BY <1>0, <1>a, <3>1
      <4>2. CASE UNCHANGED <<v2, v3>>
        BY <1>a, <4>1, <4>2
      <4>3. ASSUME NEW changed \in SUBSET Api!Changeable, NEW full \in BOOLEAN,
                   NEW n \in IF "audio" \in Api!Parts THEN Api!Position ELSE {0},
                   v3' = [p \in Api!Parts |->
                            IF p \in changed THEN Api!Changed(p, full, n) ELSE v3[p]],
                   v2' = IF "cartRam" \in changed /\ Api!Ram = 0 THEN 1 ELSE v2
            PROVE  v2' \in Roms /\ v3' \in Machine
        <5>1. n \in Api!Contents
          BY <4>3, ApiContents DEF Api!Position
        <5>2. \A p : Api!Changed(p, full, n) \in Api!Contents
          BY <3>1, <4>1, <5>1, ApiContents DEF Api!Changed
        <5>3. v3' \in Machine
          BY <1>a, <4>3, <5>2
        <5>4. "cartRam" \in changed /\ Api!Ram = 0 => Api!P.grows
          BY <4>3 DEF Api!Changeable, Api!NotThere
        <5>5. v2' \in Roms
          BY <1>a, <4>3, <5>4, GrownRam
        <5> QED
          BY <5>3, <5>5
      <4> QED
        BY <1>4, <3>1, <4>1, <4>2, <4>3 DEF Api!RunFrame
    <3>2. CASE UNCHANGED <<v2, v3, v4>>
      BY <1>a, <3>2
    <3> QED
      BY <1>4, <3>1, <3>2 DEF Api!RunFrame
  <2>2. v1' = v1 /\ v6' = v6 /\ v5' = v5
    BY <1>4 DEF Api!RunFrame
  <2>3. v7' \in BOOLEAN /\ v8' \in BOOLEAN
    BY <1>4, <1>a DEF Api!RunFrame
  <2> QED
    BY <1>a, <1>c, <2>1, <2>2, <2>3
<1>5. ASSUME NEW room, Api!SaveState(room) PROVE Api!TypeOK'
  <2>1. Api!Serialized \in Blobs
    <3>1. Api!Ram \in Api!P.ram \cup {0}
      BY <1>a DEF Api!Ram, Api!HasRom
    <3>2. [p \in Api!Saved |-> IF v3[p] = Api!Wide THEN Api!Cropped ELSE v3[p]]
            \in [Api!Saved -> Api!Contents \ {Api!Wide}]
      BY <1>a, <1>b, ApiContents
    <3> QED
      BY <3>1, <3>2 DEF Api!Serialized
  <2>2. v5' = Api!NoBlob \/ v5' \in Blobs
    BY <1>5, <1>a, <2>1 DEF Api!SaveState
  <2>4. v6' \in Machine
    BY <1>5, <1>a DEF Api!SaveState
  <2>5. v8' \in BOOLEAN
    BY <1>5, <1>a DEF Api!SaveState
  <2>6. UNCHANGED <<v1, v2, v3, v4, v7>>
    BY <1>5 DEF Api!SaveState
  <2> QED
    BY <1>a, <1>c, <2>2, <2>4, <2>5, <2>6
<1>6. ASSUME NEW kind \in {"own", "cut", "foreign"}, Api!LoadState(kind)
      PROVE  Api!TypeOK'
  <2>2. v3' \in Machine
    <3>1. CASE Api!Deserialize(kind) /\ v5 # Api!NoBlob
      <4>1. PICK missing \in Api!Missing(kind) :
              \E left \in Api!LeftAlone(missing) :
                v3' = [p \in Api!Parts |->
                         IF p \in missing THEN IF p \in left THEN v3[p] ELSE Api!Torn
                         ELSE IF p \in Api!Saved THEN Api!Read(p) ELSE v3[p]]
        BY <3>1 DEF Api!Deserialize
      <4>2. PICK left \in Api!LeftAlone(missing) :
              v3' = [p \in Api!Parts |->
                       IF p \in missing THEN IF p \in left THEN v3[p] ELSE Api!Torn
                       ELSE IF p \in Api!Saved THEN Api!Read(p) ELSE v3[p]]
        BY <4>1
      <4>3. \A p \in Api!AllParts :
              (IF p \in missing THEN IF p \in left THEN v3[p] ELSE Api!Torn
               ELSE IF p \in Api!Saved THEN Api!Read(p) ELSE v3[p]) \in Api!Contents
        BY <1>a, <3>1, ReadContent, ApiContents
      <4> QED
        BY <1>a, <4>2, <4>3
    <3>2. CASE UNCHANGED v3
      BY <1>a, <3>2
    <3> QED
      BY <1>6, <3>1, <3>2 DEF Api!LoadState, Api!LoadResult
  <2>3. v8' \in BOOLEAN
    BY <1>6, <1>a DEF Api!LoadState
  <2>4. UNCHANGED <<v1, v2, v4, v5, v6, v7>>
    BY <1>6 DEF Api!LoadState
  <2> QED
    BY <1>a, <1>c, <2>2, <2>3, <2>4
<1> QED
  BY <1>1, <1>2, <1>3, <1>4, <1>5, <1>6 DEF Api!Next

LEMMA SavedInit == ASSUME Api!Init PROVE Api!SavedInv
<1>1. v5 = Api!NoBlob /\ v8 = FALSE /\ v3 = Api!Blank /\ v6 = Api!Blank
  BY DEF Api!Init
<1>2. "audio" \in Api!Saved => Api!Blank["audio"] = 0
  BY DEF Api!Blank, Api!PowerOn, Api!AllParts
<1>3. 0 <= OutCap
  BY DevicesFit DEF Api!ApiAssumption
<1> QED
  BY <1>1, <1>2, <1>3 DEF Api!SavedInv, Api!GoodLoadRestores

\* What a load that reports success does to the machine.
LEMMA GoodLoad ==
  ASSUME Api!TypeOK, NEW kind \in {"own", "cut", "foreign"}, Api!LoadState(kind),
         Api!LoadResult(kind) = "OK"
  PROVE  /\ v5 # Api!NoBlob /\ Api!RamFits
         /\ v3' = [p \in Api!AllParts |-> IF p \in Api!Saved THEN Api!Read(p) ELSE v3[p]]
<1>1. kind = "own" /\ Api!RamFits
  BY DEF Api!LoadResult
<1>2. v5 # Api!NoBlob
  BY <1>1 DEF Api!LoadState
<1>3. Api!Deserialize(kind)
  BY DEF Api!LoadState
<1>4. Api!Missing(kind) = {{}}
  BY <1>1 DEF Api!Missing
<1>5. Api!Parts = Api!AllParts
  BY DEF Api!TypeOK, Api!Parts
<1>6. v3' = [p \in Api!Parts |-> IF p \in Api!Saved THEN Api!Read(p) ELSE v3[p]]
  <2>1. PICK missing \in Api!Missing(kind) :
          \E left \in Api!LeftAlone(missing) :
            v3' = [p \in Api!Parts |->
                     IF p \in missing THEN IF p \in left THEN v3[p] ELSE Api!Torn
                     ELSE IF p \in Api!Saved THEN Api!Read(p) ELSE v3[p]]
    BY <1>3 DEF Api!Deserialize
  <2>2. missing = {}
    BY <1>4, <2>1
  <2> QED
    BY <2>1, <2>2
<1> QED
  BY <1>1, <1>2, <1>5, <1>6

\* Such a load finds every part as it was written, but for what another RAM
\* displaces.
LEMMA ReadBack ==
  ASSUME Api!TypeOK, Api!SavedInv, v5 # Api!NoBlob, Api!RamFits, NEW p \in Api!Saved
  PROVE  \/ Api!Read(p) = IF v6[p] = Api!Wide THEN Api!Cropped ELSE v6[p]
         \/ v5.ram # Api!Ram /\ (p = "cartRam" \/ v1 = "snes")
<1> DEFINE written == IF v6[p] = Api!Wide THEN Api!Cropped ELSE v6[p]
<1>1. v5.parts[p] = written
  BY DEF Api!SavedInv
<1>2. p = "cartRam" /\ v5.ram = Api!Ram => Api!Read(p) = written
  BY <1>1 DEF Api!Read, Api!RamRead
<1>3. ASSUME p = "audio" PROVE Api!Read(p) = written
  <2>1. v6[p] <= OutCap /\ v6[p] \in Int /\ OutCap \in Nat
    BY <1>3, DevicesFit, ApiContents
       DEF Api!SavedInv, Api!TypeOK, Api!AllParts, Api!ApiAssumption
  <2>2. written \in Int /\ written <= OutCap
    BY <2>1 DEF Api!Cropped
  <2> QED
    BY <1>1, <1>3, <2>1, <2>2 DEF Api!Read, Api!Clamped
<1>4. ASSUME p = "chips", Api!Displaced PROVE v5.ram # Api!Ram /\ v1 = "snes"
  BY <1>4 DEF Api!Displaced, Api!RamFits
<1>5. ASSUME p # "cartRam", p # "audio", p = "chips" => ~Api!Displaced
      PROVE  Api!Read(p) = written
  BY <1>1, <1>5 DEF Api!Read
<1> QED
  BY <1>2, <1>3, <1>4, <1>5

\* A step with `loaded' after it is a good load or left the machine alone.
LEMMA LoadedStep ==
  ASSUME Api!TypeOK, Api!Next, v8'
  PROVE  \/ /\ v8 /\ UNCHANGED <<v1, v2, v3, v5, v6>>
         \/ /\ UNCHANGED <<v1, v2, v5, v6>> /\ v5 # Api!NoBlob /\ Api!RamFits
            /\ v3' = [p \in Api!AllParts |->
                        IF p \in Api!Saved THEN Api!Read(p) ELSE v3[p]]
<1>0. v8 \in BOOLEAN
  BY DEF Api!TypeOK
<1>1. ~Api!Create /\ ~Api!Reset
  BY DEF Api!Create, Api!Reset
<1>2. ASSUME NEW good \in BOOLEAN, NEW ram, Api!LoadRom(good, ram) PROVE FALSE
  BY <1>2 DEF Api!LoadRom
<1>3. CASE Api!RunFrame
  BY <1>3 DEF Api!RunFrame
<1>4. ASSUME NEW room, Api!SaveState(room)
      PROVE  v8 /\ UNCHANGED <<v1, v2, v3, v5, v6>>
  BY <1>4, <1>0 DEF Api!SaveState
<1>5. ASSUME NEW kind \in {"own", "cut", "foreign"}, Api!LoadState(kind)
      PROVE  \/ v8 /\ UNCHANGED <<v1, v2, v3, v5, v6>>
             \/ /\ UNCHANGED <<v1, v2, v5, v6>> /\ v5 # Api!NoBlob /\ Api!RamFits
                /\ v3' = [p \in Api!AllParts |->
                            IF p \in Api!Saved THEN Api!Read(p) ELSE v3[p]]
  <2>1. UNCHANGED <<v1, v2, v5, v6>>
    BY <1>5 DEF Api!LoadState
  <2>2. CASE Api!LoadResult(kind) = "OK"
    BY <1>5, <2>1, <2>2, GoodLoad
  <2>3. CASE Api!LoadResult(kind) # "OK"
    <3>1. v8 /\ kind = "foreign"
      BY <1>5, <1>0, <2>3 DEF Api!LoadState
    <3>2. UNCHANGED v3
      BY <1>5, <2>3, <3>1 DEF Api!LoadState
    <3> QED
      BY <2>1, <3>1, <3>2
  <2> QED
    BY <2>2, <2>3
<1> QED
  BY <1>1, <1>2, <1>3, <1>4, <1>5 DEF Api!Next

\* The sample buffer is never more than full.
LEMMA AudioStep ==
  ASSUME Api!TypeOK, Api!SavedInv, Api!Next, "audio" \in Api!Saved
  PROVE  v3'["audio"] <= OutCap /\ v6'["audio"] <= OutCap
<1>1. /\ v3["audio"] <= OutCap /\ v6["audio"] <= OutCap /\ OutCap \in Nat
      /\ "audio" \in Api!AllParts /\ Api!Parts = Api!AllParts
      /\ v3["audio"] \in Int /\ Api!PowerOn("audio") = 0
  BY DevicesFit, ApiContents
     DEF Api!SavedInv, Api!TypeOK, Api!AllParts, Api!Parts, Api!ApiAssumption, Api!PowerOn
<1>2. CASE Api!Create
  BY <1>1, <1>2 DEF Api!Create, Api!Blank
<1>3. ASSUME NEW good \in BOOLEAN, NEW ram, Api!LoadRom(good, ram)
      PROVE  v3'["audio"] <= OutCap /\ v6' = v6
  BY <1>1, <1>3 DEF Api!LoadRom, Api!Booted
<1>4. CASE Api!Reset
  BY <1>1, <1>4 DEF Api!Reset, Api!ResetParts
<1>5. CASE Api!RunFrame
  <2>1. v6' = v6
    BY <1>5 DEF Api!RunFrame
  <2>2. CASE UNCHANGED v3
    BY <1>1, <2>1, <2>2
  <2>3. ASSUME NEW changed \in SUBSET Api!Changeable, NEW full \in BOOLEAN,
               NEW n \in IF "audio" \in Api!Parts THEN Api!Position ELSE {0},
               v3' = [p \in Api!Parts |->
                        IF p \in changed THEN Api!Changed(p, full, n) ELSE v3[p]]
        PROVE  v3'["audio"] <= OutCap
    <3>1. n <= OutCap
      BY <1>1, <2>3 DEF Api!Position
    <3>2. Api!Changed("audio", full, n) = n
      BY DEF Api!Changed
    <3> QED
      BY <1>1, <2>3, <3>1, <3>2
  <2> QED
    BY <1>1, <1>5, <2>1, <2>2, <2>3 DEF Api!RunFrame
<1>6. ASSUME NEW room, Api!SaveState(room)
      PROVE  v3' = v3 /\ (v6' = v6 \/ v6' = v3)
  BY <1>6 DEF Api!SaveState
<1>7. ASSUME NEW kind \in {"own", "cut", "foreign"}, Api!LoadState(kind)
      PROVE  v3'["audio"] <= OutCap /\ v6' = v6
  <2>1. v6' = v6
    BY <1>7 DEF Api!LoadState
  <2>2. CASE UNCHANGED v3
    BY <1>1, <2>1, <2>2
  <2>3. CASE Api!Deserialize(kind) /\ v5 # Api!NoBlob
    <3>1. PICK missing \in Api!Missing(kind) :
            \E left \in Api!LeftAlone(missing) :
              v3' = [p \in Api!Parts |->
                       IF p \in missing THEN IF p \in left THEN v3[p] ELSE Api!Torn
                       ELSE IF p \in Api!Saved THEN Api!Read(p) ELSE v3[p]]
      BY <2>3 DEF Api!Deserialize
    <3>2. Api!Read("audio") <= OutCap
      <4>1. v5.parts["audio"] \in Int
        BY <2>3, ApiContents DEF Api!TypeOK
      <4> QED
        BY <1>1, <4>1 DEF Api!Read, Api!Clamped
    <3>3. Api!Torn <= OutCap
      BY <1>1 DEF Api!Torn
    <3> QED
      BY <1>1, <2>1, <3>1, <3>2, <3>3
  <2> QED
    BY <1>7, <2>2, <2>3 DEF Api!LoadState, Api!LoadResult
<1> QED
  BY <1>1, <1>2, <1>3, <1>4, <1>5, <1>6, <1>7 DEF Api!Next

LEMMA SavedStep ==
  ASSUME Api!TypeOK, Api!SavedInv, Api!Next PROVE Api!SavedInv'
<1> DEFINE Written(m) == [p \in Api!Saved |-> IF m[p] = Api!Wide THEN Api!Cropped ELSE m[p]]
<1>0. v1' = v1
  BY DEF Api!Next, Api!Create, Api!LoadRom, Api!Reset, Api!RunFrame, Api!SaveState,
         Api!LoadState
<1>1. Api!P' = Api!P /\ Api!Saved' = Api!Saved
  BY <1>0 DEF Api!P, Api!Profile, Api!Saved
<1>2. v5' = Api!NoBlob \/ v5'.parts = Written(v6')
  <2>1. ASSUME NEW room, Api!SaveState(room)
        PROVE  UNCHANGED <<v5, v6>> \/ v5'.parts = Written(v6')
    <3>1. CASE Api!SaveResult(room) = "OK" /\ room = "enough"
      BY <2>1, <3>1 DEF Api!SaveState, Api!Serialized
    <3>2. CASE ~(Api!SaveResult(room) = "OK" /\ room = "enough")
      BY <2>1, <3>2 DEF Api!SaveState
    <3> QED
      BY <3>1, <3>2
  <2>2. UNCHANGED <<v5, v6>> \/ v5'.parts = Written(v6')
    BY <2>1 DEF Api!Next, Api!Create, Api!LoadRom, Api!Reset, Api!RunFrame,
                Api!LoadState
  <2> QED
    BY <2>2 DEF Api!SavedInv
<1>3. Api!GoodLoadRestores'
  <2> SUFFICES ASSUME v8', NEW p \in Api!Saved
               PROVE  \/ v3'[p] = v6'[p]
                      \/ v6'[p] = Api!Wide /\ v3'[p] = Api!Cropped
                      \/ v5'.ram # Api!Ram' /\ (p = "cartRam" \/ v1' = "snes")
    BY <1>1 DEF Api!GoodLoadRestores, Api!Wide, Api!Cropped
  <2>1. CASE v8 /\ UNCHANGED <<v1, v2, v3, v5, v6>>
    <3>1. Api!Ram' = Api!Ram
      BY <2>1 DEF Api!Ram, Api!HasRom, Api!NoRom
    <3> QED
      BY <2>1, <3>1 DEF Api!SavedInv, Api!GoodLoadRestores
  <2>2. CASE /\ UNCHANGED <<v1, v2, v5, v6>> /\ v5 # Api!NoBlob /\ Api!RamFits
             /\ v3' = [q \in Api!AllParts |->
                         IF q \in Api!Saved THEN Api!Read(q) ELSE v3[q]]
    <3>1. v3'[p] = Api!Read(p)
      BY <2>2 DEF Api!AllParts
    <3>2. Api!Ram' = Api!Ram
      BY <2>2 DEF Api!Ram, Api!HasRom, Api!NoRom
    <3>3. \/ Api!Read(p) = IF v6[p] = Api!Wide THEN Api!Cropped ELSE v6[p]
          \/ v5.ram # Api!Ram /\ (p = "cartRam" \/ v1 = "snes")
      BY <2>2, ReadBack
    <3> QED
      BY <2>2, <3>1, <3>2, <3>3
  <2> QED
    BY <2>1, <2>2, LoadedStep
<1>4. ("audio" \in Api!Saved => v3["audio"] <= OutCap /\ v6["audio"] <= OutCap)'
  BY <1>1, AudioStep
<1> QED
  BY <1>1, <1>2, <1>3, <1>4 DEF Api!SavedInv, Api!NoBlob, Api!Wide, Api!Cropped

LEMMA ApiStutters ==
  ASSUME Api!TypeOK, Api!SavedInv, UNCHANGED <<v1, v2, v3, v4, v5, v6, v7, v8>>
  PROVE  Api!TypeOK' /\ Api!SavedInv'
<1>1. Api!P' = Api!P
  BY DEF Api!P, Api!Profile
<1>2. Api!Saved' = Api!Saved /\ Api!Ram' = Api!Ram
  BY <1>1 DEF Api!Saved, Api!Ram, Api!HasRom, Api!NoRom
<1>3. Api!AllParts' = Api!AllParts
  BY <1>1, <1>2 DEF Api!AllParts
<1>4. Api!Contents' = Api!Contents /\ Api!Wide' = Api!Wide /\ Api!Cropped' = Api!Cropped
  BY DEF Api!Contents, Api!Torn, Api!Wide, Api!Cropped
<1>5. Api!NoBlob' = Api!NoBlob /\ Api!NoRom' = Api!NoRom
  BY DEF Api!NoBlob, Api!NoRom
<1>6. Api!TypeOK'
  BY <1>1, <1>2, <1>3, <1>4, <1>5 DEF Api!TypeOK
<1>7. Api!GoodLoadRestores'
  BY <1>2, <1>4 DEF Api!SavedInv, Api!GoodLoadRestores
<1> QED
  BY <1>2, <1>4, <1>5, <1>6, <1>7 DEF Api!SavedInv

LEMMA IdentityStep ==
  ASSUME Api!TypeOK, Api!SavedInv, Api!Next PROVE Api!CycleIsIdentity
<1> SUFFICES ASSUME v8', v6 = v3, v5.ram = Api!Ram, NEW p \in Api!Parts, v3[p] # Api!Wide
             PROVE  v3'[p] = v3[p]
  BY DEF Api!CycleIsIdentity
<1>1. CASE UNCHANGED v3
  BY <1>1
<1>2. CASE /\ v5 # Api!NoBlob /\ Api!RamFits
           /\ v3' = [q \in Api!AllParts |->
                       IF q \in Api!Saved THEN Api!Read(q) ELSE v3[q]]
  <2>1. p \in Api!AllParts
    BY DEF Api!TypeOK, Api!Parts
  <2>2. p \in Api!Saved => Api!Read(p) = v3[p]
    BY <1>2, ReadBack
  <2> QED
    BY <1>2, <2>1, <2>2
<1> QED
  BY <1>1, <1>2, LoadedStep

(***************************************************************************)
(* The DMA channels of the Game Boy Advance: each block goes on from the   *)
(* last, so that after k blocks an address has moved by k blocks, modulo   *)
(* the memory.                                                             *)
(***************************************************************************)

LEMMA DmaFacts ==
  /\ DmaMod \in Nat \ {0, 1} /\ MaxCount \in 1..CountMod /\ CountMod \in Nat \ {0, 1}
  /\ DmaValues \subseteq 0..(DmaMod - 1) /\ DmaValues \subseteq 0..(CountMod - 1)
  BY DevicesFit DEF Dma!DmaAssumption

\* A block more.
LEMMA NextBlock ==
  ASSUME NEW m \in Nat \ {0}, NEW a \in Nat, NEW r \in Nat, NEW u \in Nat
  PROVE  (((a + ((r * u) % m)) % m) + u) % m = (a + ((((r + 1) % m) * u) % m)) % m
<1> DEFINE x == r * u
           y == (r + 1) * u
           xm == x % m
<1>1. x \in Nat /\ y = x + u /\ y \in Nat
  OBVIOUS
<1>2. ((((r + 1) % m) * u) % m) = y % m
  <2> DEFINE q == r + 1
  <2>1. q \in Nat
    OBVIOUS
  <2> HIDE DEF q
  <2>2. ((q % m) * u) % m = (q * u) % m
    BY <2>1, ModTimes
  <2> QED
    BY <2>2 DEF q
<1> HIDE DEF x, y
<1>3. xm \in Nat
  BY <1>1
<1>4. (a + (y % m)) % m = (a + y) % m
  BY <1>1, ModPlus
<1>5. (a + xm) % m = (a + x) % m
  BY <1>1, ModPlus
<1> DEFINE z == a + x
<1>6. z \in Nat
  BY <1>1
<1>7. (u + (z % m)) % m = (u + z) % m
  <2> HIDE DEF z
  <2> QED
    BY <1>6, ModPlus
<1>8. (z % m) + u = u + (z % m) /\ u + z = a + y
  BY <1>1, <1>6
<1> QED
  BY <1>2, <1>4, <1>5, <1>7, <1>8 DEF x, y

\* The first two.
LEMMA FirstBlocks ==
  ASSUME NEW m \in Nat \ {0, 1}, NEW a \in 0..(m - 1), NEW u \in Nat
  PROVE  /\ (a + ((0 * u) % m)) % m = a
         /\ (a + ((1 * u) % m)) % m = (a + u) % m
<1>1. 0 * u = 0 /\ 1 * u = u /\ 0 % m = 0 /\ a + 0 = a
  OBVIOUS
<1>2. a % m = a
  OBVIOUS
<1>3. (a + (u % m)) % m = (a + u) % m
  <2>1. m \in Nat \ {0} /\ a \in Nat
    OBVIOUS
  <2> QED
    BY <2>1, ModPlus
<1> QED
  BY <1>1, <1>2, <1>3

LEMMA DmaUnits ==
  ASSUME NEW n \in 0..(CountMod - 1)
  PROVE  Dma!Units(n) \in Nat /\ Dma!Units(n) % CountMod \in 0..(CountMod - 1)
<1>1. Dma!Units(n) \in Nat
  BY DmaFacts DEF Dma!Units
<1> QED
  BY <1>1, DmaFacts, DivParts

\* A place in memory after some units.
LEMMA Around ==
  ASSUME NEW a \in Nat, NEW n \in Nat
  PROVE  (a + n) % DmaMod \in 0..(DmaMod - 1)
<1> DEFINE s == a + n
<1>1. s \in Nat
  OBVIOUS
<1> HIDE DEF s
<1>2. s % DmaMod \in 0..(DmaMod - 1)
  BY <1>1, DmaFacts, DivParts
<1> QED
  BY <1>2 DEF s

\* A transfer keeps the registers within their ranges.
LEMMA TransferTypes ==
  ASSUME NEW c \in Dma!Controls, NEW l \in 0..(DmaMod - 1), NEW n \in 0..(CountMod - 1),
         v1 \in 0..(DmaMod - 1), v2 \in 0..(DmaMod - 1), v5 \in 0..(CountMod - 1),
         Dma!Transfer(c, l, n)
  PROVE  /\ v1' \in 0..(DmaMod - 1) /\ v2' \in 0..(DmaMod - 1)
         /\ v4' \in 0..(CountMod - 1)
         /\ v6' \in Dma!Controls /\ v7' \in BOOLEAN
         /\ v6'.srcFixed = c.srcFixed /\ v6'.dst = c.dst
         /\ v7' = c.repeat /\ (v6'.on => v7')
<1>1. Dma!Units(n) \in Nat /\ Dma!Units(n) % CountMod \in 0..(CountMod - 1)
  BY DmaUnits
<1>2. /\ (v1 + Dma!Units(n)) % DmaMod \in 0..(DmaMod - 1)
      /\ (v2 + Dma!Units(n)) % DmaMod \in 0..(DmaMod - 1)
  <2>1. v1 \in Nat /\ v2 \in Nat
    BY DmaFacts
  <2> QED
    BY <1>1, <2>1, Around
<1>3. v1' \in 0..(DmaMod - 1)
  BY <1>2 DEF Dma!Transfer
<1>4. v2' \in 0..(DmaMod - 1)
  BY <1>2 DEF Dma!Transfer
<1>5. v4' \in 0..(CountMod - 1)
  BY <1>1 DEF Dma!Transfer
<1>6. v7' = c.repeat /\ c.repeat \in BOOLEAN /\ c.on \in BOOLEAN
  BY DEF Dma!Transfer, Dma!Controls
<1> DEFINE b == c.repeat /\ c.on
<1>7. v6' = [c EXCEPT !.on = b] /\ b \in BOOLEAN
  BY <1>6 DEF Dma!Transfer
<1>8. b => c.repeat
  OBVIOUS
<1> HIDE DEF b
<1>9. v6' \in Dma!Controls /\ v6'.srcFixed = c.srcFixed /\ v6'.dst = c.dst /\ v6'.on = b
  BY <1>7 DEF Dma!Controls
<1> QED
  BY <1>3, <1>4, <1>5, <1>6, <1>8, <1>9

LEMMA DmaTypeInit == ASSUME Dma!Init PROVE Dma!TypeOK /\ Dma!BlocksInv
<1>1. Dma!Off \in Dma!Controls /\ Dma!Off.on = FALSE
  BY DEF Dma!Off, Dma!Controls, Dma!Triggers
<1>2. 0 \in 0..(DmaMod - 1) /\ 0 \in 0..(CountMod - 1)
  BY DmaFacts
<1>3. Dma!TypeOK
  <2>1. v7 \in BOOLEAN
    BY DEF Dma!Init
  <2> QED
    BY <1>1, <1>2, <2>1 DEF Dma!Init, Dma!TypeOK
<1> QED
  BY <1>1, <1>3 DEF Dma!Init, Dma!BlocksInv, Dma!BlocksInOrder

LEMMA DmaStep ==
  ASSUME Dma!TypeOK, Dma!BlocksInv, Dma!Next PROVE Dma!TypeOK' /\ Dma!BlocksInv'
<1> DEFINE Adr == 0..(DmaMod - 1)
           Cnt == 0..(CountMod - 1)
           Asked == {Dma!Rewritten} \cup [src : Adr, dst : Adr, count : Cnt]
<1>a. /\ v1 \in Adr /\ v2 \in Adr /\ v3 \in Adr /\ v4 \in Cnt /\ v5 \in Cnt
      /\ v6 \in Dma!Controls /\ v7 \in BOOLEAN /\ v9 \in Adr /\ v8 \in Asked
      /\ (v6.on => v7)
  BY DEF Dma!TypeOK, Dma!BlocksInv, Dma!BlocksInOrder
<1>z. 0 \in Adr /\ 1 \in Adr /\ 0 \in Cnt
  BY DmaFacts
\* What any step has to show.
<1>b. ASSUME v1' \in Adr, v2' \in Adr, v3' \in Adr, v4' \in Cnt, v5' \in Cnt,
             v6' \in Dma!Controls, v7' \in BOOLEAN, v9' \in Adr, v8' \in Asked,
             v6'.on => v7',
             v8' # Dma!Rewritten =>
               /\ v8'.count = v5' /\ v8'.dst = v3'
               /\ v1' = IF v6'.srcFixed THEN v8'.src
                        ELSE (v8'.src + ((v9' * Dma!Units(v8'.count)) % DmaMod)) % DmaMod
               /\ v2' = IF v6'.dst = "increment"
                          THEN (v8'.dst + ((v9' * Dma!Units(v8'.count)) % DmaMod)) % DmaMod
                          ELSE v8'.dst
               /\ v7' => v4' = v8'.count
      PROVE  Dma!TypeOK' /\ Dma!BlocksInv'
  <2>1. Dma!TypeOK'
    BY <1>b DEF Dma!TypeOK
  <2>2. Dma!BlocksInv'
    BY <1>b DEF Dma!BlocksInv, Dma!BlocksInOrder, Dma!Units
  <2> QED
    BY <2>1, <2>2
<1>1. ASSUME NEW blank \in DmaBlanks, Dma!Trigger(blank)
      PROVE  Dma!TypeOK' /\ Dma!BlocksInv'
  <2>1. Dma!Transfer(v6, v3, v4) /\ v9' = (v9 + 1) % DmaMod /\ v7
    BY <1>1 DEF Dma!Trigger
  <2>2. UNCHANGED <<v3, v5, v8>>
    BY <1>1 DEF Dma!Trigger
  <2>3. /\ v1' \in Adr /\ v2' \in Adr /\ v4' \in Cnt
        /\ v6' \in Dma!Controls /\ v7' \in BOOLEAN
        /\ v6'.srcFixed = v6.srcFixed /\ v6'.dst = v6.dst
        /\ v7' = v6.repeat /\ (v6'.on => v7')
    BY <1>a, <2>1, TransferTypes
  <2>4. v9' \in Adr
    <3>1. v9 \in Nat /\ 1 \in Nat
      BY <1>a, DmaFacts
    <3> QED
      BY <2>1, <3>1, Around
  <2>5. ASSUME v8 # Dma!Rewritten
        PROVE  /\ v8.count = v5 /\ v8.dst = v3
               /\ v1' = IF v6.srcFixed THEN v8.src
                        ELSE (v8.src + ((v9' * Dma!Units(v8.count)) % DmaMod)) % DmaMod
               /\ v2' = IF v6.dst = "increment"
                          THEN (v8.dst + ((v9' * Dma!Units(v8.count)) % DmaMod)) % DmaMod
                          ELSE v8.dst
               /\ v7' => v4' = v8.count
    <3> DEFINE u == Dma!Units(v8.count)
               moved == (v9 * u) % DmaMod
               more == (v9' * u) % DmaMod
    <3>1. /\ v8.count = v5 /\ v8.dst = v3 /\ v4 = v8.count
          /\ v1 = IF v6.srcFixed THEN v8.src ELSE (v8.src + moved) % DmaMod
          /\ v2 = IF v6.dst = "increment" THEN (v8.dst + moved) % DmaMod ELSE v8.dst
      BY <2>1, <2>5 DEF Dma!BlocksInv, Dma!BlocksInOrder
    <3>2. v8.src \in Nat /\ v8.dst \in Nat /\ v9 \in Nat /\ DmaMod \in Nat \ {0}
      BY <1>a, <2>5, DmaFacts
    <3>3. u \in Nat
      BY <1>a, <3>1, DmaUnits
    <3>4. \A a \in Nat : (((a + moved) % DmaMod) + u) % DmaMod = (a + more) % DmaMod
      <4> HIDE DEF u
      <4> QED
        BY <2>1, <3>2, <3>3, NextBlock
    <3> HIDE DEF u, moved, more
    <3>5. v1' = IF v6.srcFixed THEN v8.src ELSE (v8.src + more) % DmaMod
      <4>1. v1' = IF v6.srcFixed THEN v1 ELSE (v1 + u) % DmaMod
        BY <2>1, <3>1 DEF Dma!Transfer, u
      <4> QED
        BY <3>1, <3>2, <3>4, <4>1
    <3>6. v2' = IF v6.dst = "increment" THEN (v8.dst + more) % DmaMod ELSE v8.dst
      <4>1. v2' = IF v6.dst = "fixed" THEN v2
                  ELSE IF v6.dst = "reload" THEN v3 ELSE (v2 + u) % DmaMod
        BY <2>1, <3>1 DEF Dma!Transfer, u
      <4>2. v6.dst \in {"increment", "fixed", "reload"}
        BY <1>a DEF Dma!Controls
      <4> QED
        BY <3>1, <3>2, <3>4, <4>1, <4>2
    <3>7. v7' => v4' = v8.count
      BY <2>1, <2>3, <3>1 DEF Dma!Transfer
    <3> QED
      BY <3>1, <3>5, <3>6, <3>7 DEF u, more
  <2>6. /\ v3' \in Adr /\ v5' \in Cnt /\ v8' \in Asked
    BY <1>a, <2>2
  <2> QED
    BY <1>b, <2>2, <2>3, <2>4, <2>5, <2>6
<1>2. ASSUME NEW v \in DmaValues, Dma!WriteSource(v) \/ Dma!WriteDest(v) \/ Dma!WriteCount(v)
      PROVE  Dma!TypeOK' /\ Dma!BlocksInv'
  <2>1. v \in Adr /\ v \in Cnt
    BY DmaFacts
  <2>2. v8' = Dma!Rewritten /\ v9' = 0
    BY <1>2 DEF Dma!WriteSource, Dma!WriteDest, Dma!WriteCount
  <2>3. UNCHANGED <<v3, v6, v7>>
    BY <1>2 DEF Dma!WriteSource, Dma!WriteDest, Dma!WriteCount
  <2>4. v1' \in Adr /\ v2' \in Adr /\ v4' \in Cnt /\ v5' \in Cnt
    BY <1>2, <1>a, <2>1 DEF Dma!WriteSource, Dma!WriteDest, Dma!WriteCount
  <2> QED
    BY <1>a, <1>b, <1>z, <2>2, <2>3, <2>4
<1>3. ASSUME NEW c \in Dma!Controls, Dma!WriteControl(c)
      PROVE  Dma!TypeOK' /\ Dma!BlocksInv'
  <2>0. c.on \in BOOLEAN /\ v6.on \in BOOLEAN
    BY <1>a DEF Dma!Controls
  <2>1. CASE v6.on \/ ~c.on
    <3>1. /\ v3' = v3 /\ v6' = c /\ v7' = v7 /\ UNCHANGED <<v1, v2, v4, v5>>
          /\ v8' = Dma!Rewritten /\ v9' = 0
      BY <1>3, <1>a, <2>0, <2>1 DEF Dma!WriteControl
    <3>2. v6'.on => v7'
      BY <1>a, <2>1, <3>1
    <3> QED
      BY <1>a, <1>b, <1>z, <3>1, <3>2
  <2>2. CASE ~v6.on /\ c.on
    <3> DEFINE u == Dma!Units(v5)
    <3>1. /\ v3' = v2 /\ v5' = v5
          /\ v8' = [src |-> v1, dst |-> v2, count |-> v5]
      BY <1>3, <2>0, <2>2 DEF Dma!WriteControl
    <3>2. v8' \in Asked
      BY <1>a, <3>1
    <3>3. v8'.src = v1 /\ v8'.dst = v2 /\ v8'.count = v5
      BY <3>1
    <3>4. u \in Nat /\ DmaMod \in Nat \ {0, 1}
      BY <1>a, DmaUnits, DmaFacts
    <3> HIDE DEF u
    <3>5. \A a \in Adr : /\ (a + ((0 * u) % DmaMod)) % DmaMod = a
                         /\ (a + ((1 * u) % DmaMod)) % DmaMod = (a + u) % DmaMod
      BY <3>4, FirstBlocks
    <3>6. CASE c.when = "immediate"
      <4>1. Dma!Transfer(c, v2, v5) /\ v9' = 1
        BY <1>3, <2>0, <2>2, <3>6 DEF Dma!WriteControl
      <4>2. /\ v1' \in Adr /\ v2' \in Adr /\ v4' \in Cnt
            /\ v6' \in Dma!Controls /\ v7' \in BOOLEAN
            /\ v6'.srcFixed = c.srcFixed /\ v6'.dst = c.dst
            /\ v7' = c.repeat /\ (v6'.on => v7')
        BY <1>a, <4>1, TransferTypes
      <4>3. v1' = IF c.srcFixed THEN v1 ELSE (v1 + ((v9' * u) % DmaMod)) % DmaMod
        BY <1>a, <3>5, <4>1 DEF Dma!Transfer, u
      <4>4. v2' = IF c.dst = "increment"
                    THEN (v2 + ((v9' * u) % DmaMod)) % DmaMod ELSE v2
        <5>1. v2' = IF c.dst = "increment" THEN (v2 + u) % DmaMod ELSE v2
          <6>1. c.dst \in {"increment", "fixed", "reload"}
            BY DEF Dma!Controls
          <6> QED
            BY <4>1, <6>1 DEF Dma!Transfer, u
        <5> QED
          BY <1>a, <3>5, <4>1, <5>1
      <4>5. v7' => v4' = v5
        BY <4>1, <4>2 DEF Dma!Transfer
      <4>6. v9' \in Adr /\ v3' \in Adr /\ v5' \in Cnt
        BY <1>a, <1>z, <3>1, <4>1
      <4> QED
        BY <1>b, <3>1, <3>2, <3>3, <4>2, <4>3, <4>4, <4>5, <4>6 DEF u
    <3>7. CASE c.when # "immediate"
      <4>1. /\ v6' = c /\ v7' = TRUE /\ v4' = v5 /\ UNCHANGED <<v1, v2>> /\ v9' = 0
        BY <1>3, <2>0, <2>2, <3>7 DEF Dma!WriteControl
      <4>2. /\ v1' = (v1 + ((v9' * u) % DmaMod)) % DmaMod
            /\ v2' = (v2 + ((v9' * u) % DmaMod)) % DmaMod
        BY <1>a, <3>5, <4>1
      <4> QED
        BY <1>a, <1>b, <1>z, <3>1, <3>2, <3>3, <4>1, <4>2 DEF u
    <3> QED
      BY <3>6, <3>7
  <2> QED
    BY <2>0, <2>1, <2>2
<1>4. CASE Dma!Reset
  <2>1. Dma!Off \in Dma!Controls /\ ~Dma!Off.on
    BY DEF Dma!Off, Dma!Controls, Dma!Triggers
  <2>2. /\ v1' = 0 /\ v2' = 0 /\ v3' = 0 /\ v4' = 0 /\ v5' = 0 /\ v6' = Dma!Off
        /\ v7' = FALSE /\ v8' = Dma!Rewritten /\ v9' = 0
    BY <1>4 DEF Dma!Reset
  <2> QED
    BY <1>b, <1>z, <2>1, <2>2
<1> QED
  BY <1>1, <1>2, <1>3, <1>4 DEF Dma!Next

(***************************************************************************)
(* The sound FIFO of the Game Boy Advance.  What may happen to a queue     *)
(* keeps its stream intact: the end of a byte, a burst with room for all   *)
(* of it, and bytes that are no part of the stream.                        *)
(***************************************************************************)

LEMMA FifoFacts ==
  /\ Depth \in Nat /\ FifoLow \in Nat /\ Burst \in Nat \ {0} /\ FifoLow + Burst <= Depth
  /\ PosMod \in Nat \ {0} /\ PosMod > Depth /\ Stores \subseteq Nat
  BY DevicesFit DEF Sound!FifoAssumption

LEMMA ModSmall ==
  ASSUME NEW n \in Nat \ {0}, NEW x \in 0..(n - 1)
  PROVE  x % n = x
  OBVIOUS

\* A stream with nothing queued.
LEMMA IntactNone ==
  ASSUME NEW q, NEW s, \A i \in 1..Len(q) : q[i] \in Sound!Labels
  PROVE  Sound!Intact(q, s, s)
<1>1. Sound!Streamed(q) = {}
  BY DEF Sound!Streamed
<1> QED
  BY <1>1 DEF Sound!Intact

LEMMA IntactLabels ==
  ASSUME NEW S, NEW q \in Seq(S), NEW l \in Seq(S), NEW s, NEW d,
         Sound!Intact(q, s, d), \A i \in 1..Len(l) : l[i] \in Sound!Labels
  PROVE  Sound!Intact(q \o l, s, d)
<1> DEFINE r == q \o l
<1>1. /\ Len(r) = Len(q) + Len(l)
      /\ \A i \in 1..(Len(q) + Len(l)) : r[i] = IF i <= Len(q) THEN q[i] ELSE l[i - Len(q)]
  BY ConcatProperties
<1>2. Len(q) \in Nat /\ Len(l) \in Nat
  BY LenProperties
<1> HIDE DEF r
<1>3. Sound!Streamed(r) = Sound!Streamed(q)
  <2>1. \A i \in 1..(Len(q) + Len(l)) : i > Len(q) => r[i] \in Sound!Labels
    BY <1>1, <1>2
  <2> QED
    BY <1>1, <1>2, <2>1 DEF Sound!Streamed
<1>4. \A i \in Sound!Streamed(q) : r[i] = q[i]
  BY <1>1, <1>2 DEF Sound!Streamed
<1> QED
  BY <1>3, <1>4 DEF Sound!Intact, r

LEMMA IntactBurst ==
  ASSUME NEW S, NEW q \in Seq(S), NEW b \in Seq(S), NEW s \in 0..(PosMod - 1), NEW d,
         Sound!Intact(q, s, d), Len(b) = Burst,
         \A i \in 1..Burst : b[i] = (s + i - 1) % PosMod
  PROVE  Sound!Intact(q \o b, (s + Burst) % PosMod, d)
<1> DEFINE r == q \o b
           n == Len(q)
           old == Sound!Streamed(q)
           new == Sound!Streamed(r)
<1>0. n \in Nat /\ Burst \in Nat \ {0} /\ PosMod \in Nat \ {0}
  BY FifoFacts, LenProperties
<1>1. /\ Len(r) = n + Burst
      /\ \A i \in 1..(n + Burst) : r[i] = IF i <= n THEN q[i] ELSE b[i - n]
  BY ConcatProperties
<1>2. \A i \in (n + 1)..(n + Burst) : r[i] = (s + (i - n - 1)) % PosMod /\ r[i] \notin Sound!Labels
  <2> TAKE i \in (n + 1)..(n + Burst)
  <2> DEFINE m == s + (i - n - 1)
  <2>1. i \in 1..(n + Burst) /\ ~(i <= n) /\ i - n \in 1..Burst
        /\ s + (i - n) - 1 = m /\ m \in Nat
    BY <1>0
  <2>2. r[i] = m % PosMod
    BY <1>1, <2>1
  <2> HIDE DEF m
  <2>3. m % PosMod \in 0..(PosMod - 1)
    BY <1>0, <2>1, DivParts
  <2> QED
    BY <1>0, <2>2, <2>3 DEF m, Sound!Labels, Sound!Program, Sound!Old
<1>3. new = old \cup ((n + 1)..(n + Burst))
  <2> HIDE DEF r
  <2> QED
    BY <1>0, <1>1, <1>2 DEF Sound!Streamed
<1>4. \A i \in old : i \in 1..n /\ r[i] = q[i]
  BY <1>0, <1>1 DEF Sound!Streamed
<1>5. s % PosMod = s
  <2> HIDE DEF r, n, old, new
  <2> QED
    BY <1>0, ModSmall
\* A byte of the burst and the next.
<1>6. \A k \in 0..(Burst - 1) : (((s + k) % PosMod) + 1) % PosMod = (s + (k + 1)) % PosMod
  <2> TAKE k \in 0..(Burst - 1)
  <2> DEFINE a == s + k
  <2>1. a \in Nat /\ 1 \in Nat /\ a + 1 = s + (k + 1) /\ 1 + a = s + (k + 1)
    BY <1>0
  <2> HIDE DEF a
  <2>2. (1 + (a % PosMod)) % PosMod = (1 + a) % PosMod
    BY <1>0, <2>1, ModPlus
  <2>3. a % PosMod \in Nat
    BY <1>0, <2>1, DivParts
  <2>4. 1 + (a % PosMod) = (a % PosMod) + 1
    BY <2>3
  <2> QED
    BY <2>1, <2>2, <2>4 DEF a
<1> HIDE DEF r, n, old, new
<1>7. Sound!Intact(q, s, d) <=>
        /\ old = {} => s = d
        /\ \A j \in old : /\ (\A k \in old : j <= k) => q[j] = d
                          /\ (\A k \in old : k <= j) => s = (q[j] + 1) % PosMod
        /\ \A i, j \in old :
             i < j /\ (\A k \in old : k <= i \/ j <= k) => q[j] = (q[i] + 1) % PosMod
  BY DEF Sound!Intact, old
<1>8. n + 1 \in new
  <2>1. n + 1 \in (n + 1)..(n + Burst)
    BY <1>0
  <2> QED
    BY <1>3, <2>1
<1>9. ASSUME NEW j \in new, \A k \in new : j <= k PROVE r[j] = d
  <2>1. CASE j \in old
    <3>1. \A k \in old : j <= k
      BY <1>3, <1>9
    <3> QED
      BY <1>4, <1>7, <2>1, <3>1
  <2>2. CASE j \notin old
    <3>0. j \in (n + 1)..(n + Burst) /\ j <= n + 1
      BY <1>3, <1>8, <1>9, <2>2
    <3>1. j = n + 1
      BY <1>0, <3>0
    <3>2. old = {}
      BY <1>0, <1>3, <1>4, <1>9, <3>1
    <3>3. j - n - 1 = 0 /\ s + 0 = s /\ j \in (n + 1)..(n + Burst)
      BY <1>0, <3>1
    <3>4. r[j] = (s + (j - n - 1)) % PosMod
      BY <1>2, <3>3
    <3> QED
      BY <1>5, <1>7, <3>2, <3>3, <3>4
  <2> QED
    BY <2>1, <2>2
<1>10. ASSUME NEW j \in new, \A k \in new : k <= j
       PROVE  (s + Burst) % PosMod = (r[j] + 1) % PosMod
  <2>1. n + Burst \in new
    BY <1>0, <1>3
  <2>2. j = n + Burst
    BY <1>0, <1>3, <1>4, <1>10, <2>1
  <2> DEFINE k == Burst - 1
  <2>3. j - n - 1 = k /\ k \in 0..(Burst - 1) /\ k + 1 = Burst /\ j \in (n + 1)..(n + Burst)
    BY <1>0, <2>2
  <2> HIDE DEF k
  <2>4. r[j] = (s + k) % PosMod
    BY <1>2, <2>3
  <2> QED
    BY <1>6, <2>3, <2>4
<1>11. ASSUME NEW i \in new, NEW j \in new, i < j, \A k \in new : k <= i \/ j <= k
       PROVE  r[j] = (r[i] + 1) % PosMod
  <2>1. CASE j \in old
    <3>1. i \in old
      BY <1>0, <1>3, <1>4, <1>11, <2>1
    <3>2. \A k \in old : k <= i \/ j <= k
      BY <1>3, <1>11
    <3> QED
      BY <1>4, <1>7, <1>11, <2>1, <3>1, <3>2
  <2>2. CASE i \in old /\ j \notin old
    <3>1. j = n + 1
      <4>1. n + 1 \in new /\ i \in 1..n
        BY <1>0, <1>3, <1>4, <2>2
      <4>2. j \in (n + 1)..(n + Burst)
        BY <1>3, <2>2
      <4>3. n + 1 <= i \/ j <= n + 1
        BY <1>11, <4>1
      <4> QED
        BY <1>0, <4>1, <4>2, <4>3
    <3>2. \A k \in old : k <= i
      BY <1>0, <1>3, <1>4, <1>11, <3>1
    <3>3. s = (q[i] + 1) % PosMod
      BY <1>7, <2>2, <3>2
    <3>4. j - n - 1 = 0 /\ s + 0 = s /\ j \in (n + 1)..(n + Burst)
      BY <1>0, <3>1
    <3>5. r[j] = (s + (j - n - 1)) % PosMod
      BY <1>2, <3>4
    <3> QED
      BY <1>4, <1>5, <2>2, <3>3, <3>4, <3>5
  <2>3. CASE i \notin old /\ j \notin old
    <3>0. i \in (n + 1)..(n + Burst) /\ j \in (n + 1)..(n + Burst)
      BY <1>3, <2>3
    <3>1. i + 1 \in new
      BY <1>0, <1>3, <1>11, <3>0
    <3>2. j = i + 1
      <4>1. i + 1 <= i \/ j <= i + 1
        BY <1>11, <3>1
      <4> QED
        BY <1>0, <1>11, <3>0, <4>1
    <3> DEFINE k == i - n - 1
    <3>3. k \in 0..(Burst - 1) /\ j - n - 1 = k + 1
      BY <1>0, <3>0, <3>2
    <3>4. r[i] = (s + k) % PosMod /\ r[j] = (s + (j - n - 1)) % PosMod
      BY <1>2, <3>0
    <3> HIDE DEF k
    <3> QED
      BY <1>6, <3>3, <3>4
  <2>4. ~(i \notin old /\ j \in old)
    BY <1>0, <1>3, <1>4, <1>11
  <2> QED
    BY <2>1, <2>2, <2>3, <2>4
<1> QED
  BY <1>8, <1>9, <1>10, <1>11 DEF Sound!Intact, r, new

LEMMA IntactPop ==
  ASSUME NEW S, NEW q \in Seq(S), q # <<>>, NEW s, NEW d, Sound!Intact(q, s, d)
  PROVE  Sound!Intact(Tail(q), s,
                      IF Head(q) \in Sound!Labels THEN d ELSE (d + 1) % PosMod)
<1> DEFINE t == Tail(q)
           n == Len(q)
           e == IF Head(q) \in Sound!Labels THEN d ELSE (d + 1) % PosMod
           old == Sound!Streamed(q)
           new == Sound!Streamed(t)
<1>1. /\ n \in Nat \ {0} /\ Len(t) = n - 1 /\ Head(q) = q[1]
      /\ \A i \in 1..(n - 1) : t[i] = q[i + 1]
  BY EmptySeq, HeadTailProperties, LenProperties
<1>2. \A i \in new : i \in 1..(n - 1) /\ i + 1 \in old /\ t[i] = q[i + 1]
  <2> HIDE DEF t
  <2> QED
    BY <1>1 DEF Sound!Streamed
<1>3. \A i \in old : i \in 1..n /\ (i = 1 \/ i - 1 \in new)
  <2> TAKE i \in old
  <2>1. i \in 1..n /\ q[i] \notin Sound!Labels
    BY DEF Sound!Streamed
  <2>2. CASE i # 1
    <3>1. i - 1 \in 1..(n - 1) /\ (i - 1) + 1 = i
      BY <1>1, <2>1, <2>2
    <3>2. t[i - 1] = q[i] /\ i - 1 \in 1..Len(t)
      BY <1>1, <3>1
    <3> QED
      BY <2>1, <3>2 DEF Sound!Streamed
  <2> QED
    BY <2>1, <2>2
<1>4. 1 \in old <=> q[1] \notin Sound!Labels
  BY <1>1 DEF Sound!Streamed
<1>5. /\ old = {} => s = d
      /\ \A j \in old : /\ (\A k \in old : j <= k) => q[j] = d
                        /\ (\A k \in old : k <= j) => s = (q[j] + 1) % PosMod
      /\ \A i, j \in old :
           i < j /\ (\A k \in old : k <= i \/ j <= k) => q[j] = (q[i] + 1) % PosMod
  BY DEF Sound!Intact
<1>6. e = IF 1 \in old THEN (q[1] + 1) % PosMod ELSE d
  <2>1. 1 \in old => \A k \in old : 1 <= k
    BY <1>3
  <2> QED
    BY <1>1, <1>4, <1>5, <2>1
<1> HIDE DEF t, n, e, old, new
<1>7. ASSUME new = {} PROVE s = e
  <2>1. \A k \in old : k = 1
    BY <1>3, <1>7
  <2>2. CASE 1 \in old
    <3>1. \A k \in old : k <= 1
      BY <2>1
    <3> QED
      BY <1>5, <1>6, <2>2, <3>1
  <2>3. CASE 1 \notin old
    BY <1>5, <1>6, <2>1, <2>3
  <2> QED
    BY <2>2, <2>3
<1>8. ASSUME NEW j \in new, \A k \in new : j <= k PROVE t[j] = e
  <2>1. \A k \in old : k = 1 \/ j + 1 <= k
    BY <1>1, <1>2, <1>3, <1>8
  <2>2. j + 1 \in old /\ 1 < j + 1
    BY <1>1, <1>2
  <2>3. CASE 1 \in old
    <3>1. \A k \in old : k <= 1 \/ j + 1 <= k
      BY <2>1
    <3>2. q[j + 1] = (q[1] + 1) % PosMod
      BY <1>5, <2>2, <2>3, <3>1
    <3> QED
      BY <1>2, <1>6, <2>3, <3>2
  <2>4. CASE 1 \notin old
    <3>1. \A k \in old : j + 1 <= k
      BY <2>1, <2>4
    <3> QED
      BY <1>2, <1>5, <1>6, <2>2, <2>4, <3>1
  <2> QED
    BY <2>3, <2>4
<1>9. ASSUME NEW j \in new, \A k \in new : k <= j PROVE s = (t[j] + 1) % PosMod
  <2>1. \A k \in old : k <= j + 1
    BY <1>1, <1>2, <1>3, <1>9
  <2> QED
    BY <1>2, <1>5, <2>1
<1>10. ASSUME NEW i \in new, NEW j \in new, i < j, \A k \in new : k <= i \/ j <= k
       PROVE  t[j] = (t[i] + 1) % PosMod
  <2>1. \A k \in old : k <= i + 1 \/ j + 1 <= k
    <3> TAKE k \in old
    <3>1. i \in 1..(n - 1) /\ j \in 1..(n - 1) /\ k \in 1..n
      BY <1>2, <1>3
    <3>2. k = 1 \/ k - 1 <= i \/ j <= k - 1
      BY <1>3, <1>10
    <3> QED
      BY <1>1, <3>1, <3>2
  <2>2. i + 1 < j + 1
    BY <1>1, <1>2, <1>10
  <2> QED
    BY <1>2, <1>5, <2>1, <2>2
<1> QED
  BY <1>7, <1>8, <1>9, <1>10 DEF Sound!Intact, t, e, new

\* fifo_append: all of it if there is room, and never more than there is.
LEMMA AppendFits ==
  ASSUME NEW S, NEW q \in Seq(S), Len(q) <= Depth, NEW b \in Seq(S)
  PROVE  /\ Sound!Appended(q, b) \in Seq(S) /\ Len(Sound!Appended(q, b)) <= Depth
         /\ \E l \in Seq(S) :
              /\ Sound!Appended(q, b) = q \o l
              /\ Len(l) <= Len(b) /\ \A i \in 1..Len(l) : l[i] = b[i]
              /\ Len(q) + Len(b) <= Depth => Len(l) = Len(b)
<1> DEFINE m == IF Len(b) < Depth - Len(q) THEN Len(b) ELSE Depth - Len(q)
           l == SubSeq(b, 1, m)
<1>1. Len(q) \in Nat /\ Len(b) \in Nat /\ Depth \in Nat
  BY FifoFacts, LenProperties
<1>2. m \in 0..Len(b) /\ m <= Depth - Len(q) /\ (Len(q) + Len(b) <= Depth => m = Len(b))
  BY <1>1
<1> HIDE DEF m
<1>3. l \in Seq(S) /\ Len(l) = m /\ \A i \in 1..m : l[i] = b[i]
  <2>1. \A i \in 1..m : b[i] \in S
    BY <1>1, <1>2, ElementOfSeq
  <2>2. l \in Seq(S) /\ Len(l) = (IF 1 <= m THEN m - 1 + 1 ELSE 0)
        /\ \A i \in 1..(m - 1 + 1) : l[i] = b[1 + i - 1]
    BY <1>1, <1>2, SubSeqProperties
  <2>3. m - 1 + 1 = m /\ m \in Nat
    BY <1>2
  <2> QED
    BY <2>2, <2>3
<1> HIDE DEF l
<1>4. q \o l \in Seq(S) /\ Len(q \o l) = Len(q) + m
  BY <1>3, ConcatProperties
<1>5. Sound!Appended(q, b) = q \o l
  BY DEF Sound!Appended, l, m
<1>6. /\ Sound!Appended(q, b) = q \o l
      /\ Len(l) <= Len(b) /\ \A i \in 1..Len(l) : l[i] = b[i]
      /\ Len(q) + Len(b) <= Depth => Len(l) = Len(b)
  BY <1>1, <1>2, <1>3, <1>5
<1>7. Len(q) + m <= Depth
  BY <1>1, <1>2
<1> QED
  BY <1>3, <1>4, <1>5, <1>6, <1>7

FifoInv == Sound!TypeOK /\ Sound!StreamIntact

Queued == Sound!Places \cup Sound!Labels

LEMMA FifoInit == Sound!Init => FifoInv
<1> SUFFICES ASSUME Sound!Init PROVE FifoInv
  OBVIOUS
<1>1. /\ v1 = <<>> /\ v2 = 0 /\ v5 = 0 /\ v3 = [on |-> FALSE, fixed |-> FALSE]
      /\ v4 \in BOOLEAN
  BY DEF Sound!Init
<1>2. v1 \in Seq(Queued) /\ Len(v1) = 0
  BY <1>1, EmptySeq
<1>3. Sound!Intact(v1, 0, 0)
  BY <1>2, IntactNone
<1>4. 0 \in Sound!Places
  BY FifoFacts DEF Sound!Places
<1>5. v3 \in [on : BOOLEAN, fixed : BOOLEAN]
  BY <1>1
<1> QED
  BY <1>1, <1>2, <1>3, <1>4, <1>5, FifoFacts
     DEF FifoInv, Sound!TypeOK, Sound!StreamIntact, Queued

\* What the channel reads in one burst.
LEMMA BurstRead ==
  ASSUME v2 \in Sound!Places, v3 \in [on : BOOLEAN, fixed : BOOLEAN]
  PROVE  /\ Sound!Read \in Seq(Queued) /\ Len(Sound!Read) = Burst
         /\ v3.fixed => \A i \in 1..Burst : Sound!Read[i] \in Sound!Labels
         /\ ~v3.fixed => \A i \in 1..Burst : Sound!Read[i] = (v2 + i - 1) % PosMod
<1> DEFINE byte(i) == IF v3.fixed THEN Sound!Old ELSE (v2 + i - 1) % PosMod
<1>1. \A i \in 1..Burst : byte(i) \in Queued
  <2> TAKE i \in 1..Burst
  <2> DEFINE m == v2 + i - 1
  <2>1. m \in Nat /\ PosMod \in Nat \ {0}
    BY FifoFacts DEF Sound!Places
  <2> HIDE DEF m
  <2>2. m % PosMod \in Sound!Places
    BY <2>1, DivParts DEF Sound!Places
  <2> QED
    BY <2>2 DEF Queued, Sound!Labels, m
<1>2. Sound!Read = [i \in 1..Burst |-> byte(i)]
  BY DEF Sound!Read
<1> HIDE DEF byte
<1>3. Sound!Read \in [1..Burst -> Queued]
  BY <1>1, <1>2
<1>4. Sound!Read \in Seq(Queued) /\ Len(Sound!Read) = Burst
  BY <1>3, FifoFacts
<1> QED
  BY <1>2, <1>4 DEF byte, Sound!Labels

\* gba_dma_fifo_request: there is room for all of a burst when it is asked for.
LEMMA RefillStep ==
  ASSUME NEW q \in Seq(Queued), Len(q) <= Depth, NEW d, Sound!Intact(q, v2, d),
         v2 \in Sound!Places, v3 \in [on : BOOLEAN, fixed : BOOLEAN], Sound!Refill(q)
  PROVE  /\ v1' \in Seq(Queued) /\ Len(v1') <= Depth /\ v2' \in Sound!Places
         /\ Sound!Intact(v1', v2', d)
<1>1. CASE Len(q) <= FifoLow /\ v3.on
  <2>1. v1' = Sound!Appended(q, Sound!Read)
        /\ v2' = IF v3.fixed THEN v2 ELSE (v2 + Burst) % PosMod
    BY <1>1 DEF Sound!Refill
  <2>2. /\ Sound!Read \in Seq(Queued) /\ Len(Sound!Read) = Burst
        /\ v3.fixed => \A i \in 1..Burst : Sound!Read[i] \in Sound!Labels
        /\ ~v3.fixed => \A i \in 1..Burst : Sound!Read[i] = (v2 + i - 1) % PosMod
    BY BurstRead
  <2>3. Len(q) + Burst <= Depth
    BY <1>1, FifoFacts, LenProperties
  <2>4. PICK l \in Seq(Queued) :
          /\ v1' = q \o l /\ v1' \in Seq(Queued) /\ Len(v1') <= Depth
          /\ Len(l) = Burst /\ \A i \in 1..Burst : l[i] = Sound!Read[i]
    <3> DEFINE b == Sound!Read
               a == Sound!Appended(q, b)
    <3>1. b \in Seq(Queued) /\ Len(b) = Burst /\ v1' = a
      BY <2>1, <2>2
    <3> HIDE DEF b
    <3>2. /\ a \in Seq(Queued) /\ Len(a) <= Depth
          /\ \E l \in Seq(Queued) :
               /\ a = q \o l
               /\ Len(l) <= Len(b) /\ \A i \in 1..Len(l) : l[i] = b[i]
               /\ Len(q) + Len(b) <= Depth => Len(l) = Len(b)
      BY <3>1, AppendFits
    <3> HIDE DEF a
    <3> QED
      BY <2>3, <3>1, <3>2 DEF b
  <2>5. CASE v3.fixed
    BY <2>1, <2>2, <2>4, <2>5, IntactLabels
  <2>6. CASE ~v3.fixed
    <3>1. v2 \in 0..(PosMod - 1)
      BY DEF Sound!Places
    <3>2. \A i \in 1..Burst : l[i] = (v2 + i - 1) % PosMod
      BY <2>2, <2>4, <2>6
    <3>3. Sound!Intact(q \o l, (v2 + Burst) % PosMod, d)
      BY <2>4, <3>1, <3>2, IntactBurst
    <3> DEFINE m == v2 + Burst
    <3>4. m \in Nat /\ PosMod \in Nat \ {0}
      BY <3>1, FifoFacts
    <3> HIDE DEF m
    <3>5. m % PosMod \in Sound!Places
      BY <3>4, DivParts DEF Sound!Places
    <3> QED
      BY <2>1, <2>4, <2>6, <3>3, <3>5 DEF m
  <2> QED
    BY <2>5, <2>6
<1>2. CASE ~(Len(q) <= FifoLow /\ v3.on)
  BY <1>2 DEF Sound!Refill
<1> QED
  BY <1>1, <1>2

LEMMA FifoStep == FifoInv /\ Sound!Next => FifoInv'
<1> SUFFICES ASSUME FifoInv, Sound!Next PROVE FifoInv'
  OBVIOUS
<1>1. /\ v1 \in Seq(Queued) /\ Len(v1) <= Depth
      /\ v2 \in Sound!Places /\ v5 \in Sound!Places
      /\ v3 \in [on : BOOLEAN, fixed : BOOLEAN] /\ v4 \in BOOLEAN
      /\ Sound!Intact(v1, v2, v5)
  BY DEF FifoInv, Sound!TypeOK, Sound!StreamIntact, Queued
<1> USE DEF FifoInv, Sound!TypeOK, Sound!StreamIntact
<1> SUFFICES /\ v1' \in Seq(Queued) /\ Len(v1') <= Depth
             /\ v2' \in Sound!Places /\ v5' \in Sound!Places
             /\ v3' \in [on : BOOLEAN, fixed : BOOLEAN] /\ v4' \in BOOLEAN
             /\ Sound!Intact(v1', v2', v5')
  BY DEF Queued
<1>2. CASE Sound!Pop
  <2>1. CASE v1 = <<>>
    BY <1>1, <1>2, <2>1 DEF Sound!Pop, Sound!vars
  <2>2. CASE v1 # <<>>
    <3> DEFINE t == Tail(v1)
               e == IF Head(v1) \in Sound!Labels THEN v5 ELSE (v5 + 1) % PosMod
    <3>1. Sound!Refill(t) /\ v5' = e /\ UNCHANGED <<v3, v4>>
      BY <1>2, <2>2 DEF Sound!Pop
    <3>2. t \in Seq(Queued) /\ Len(t) = Len(v1) - 1
      BY <1>1, <2>2, HeadTailProperties
    <3>3. Sound!Intact(t, v2, e)
      BY <1>1, <2>2, IntactPop
    <3>4. e \in Sound!Places
      <4> DEFINE m == v5 + 1
      <4>1. m \in Nat /\ PosMod \in Nat \ {0}
        BY <1>1, FifoFacts DEF Sound!Places
      <4> HIDE DEF m
      <4>2. m % PosMod \in Sound!Places
        BY <4>1, DivParts DEF Sound!Places
      <4> QED
        BY <1>1, <4>2 DEF m
    <3> HIDE DEF t, e
    <3>5. Len(t) <= Depth
      BY <1>1, <3>2, FifoFacts, LenProperties
    <3>6. /\ v1' \in Seq(Queued) /\ Len(v1') <= Depth /\ v2' \in Sound!Places
          /\ Sound!Intact(v1', v2', e)
      BY <1>1, <3>1, <3>2, <3>3, <3>5, RefillStep
    <3> QED
      BY <1>1, <3>1, <3>4, <3>6
  <2> QED
    BY <2>1, <2>2
<1>3. ASSUME NEW n \in Stores, Sound!Store(n)
      PROVE  /\ v1' \in Seq(Queued) /\ Len(v1') <= Depth /\ v2' \in Sound!Places
             /\ Sound!Intact(v1', v2', v5) /\ UNCHANGED <<v3, v4, v5>>
  <2> DEFINE b == [i \in 1..n |-> Sound!Program]
             q == Sound!Appended(v1, b)
  <2>1. Sound!Refill(q) /\ UNCHANGED <<v3, v4, v5>>
    BY <1>3 DEF Sound!Store
  <2>2. n \in Nat
    BY FifoFacts
  <2>3. b \in Seq(Queued) /\ Len(b) = n /\ \A i \in 1..n : b[i] \in Sound!Labels
    BY <2>2 DEF Queued, Sound!Labels
  <2> HIDE DEF b
  <2>4. PICK l \in Seq(Queued) :
          /\ q = v1 \o l /\ q \in Seq(Queued) /\ Len(q) <= Depth
          /\ Len(l) <= Len(b) /\ \A i \in 1..Len(l) : l[i] = b[i]
    BY <1>1, <2>3, AppendFits
  <2>5. Len(l) \in Nat
    BY LenProperties
  <2>6. \A i \in 1..Len(l) : l[i] \in Sound!Labels
    BY <2>2, <2>3, <2>4, <2>5
  <2>7. Sound!Intact(q, v2, v5)
    BY <1>1, <2>4, <2>6, IntactLabels
  <2> HIDE DEF q
  <2> QED
    BY <1>1, <2>1, <2>4, <2>7, RefillStep
<1>4. ASSUME NEW reset \in BOOLEAN, Sound!WriteSoundControl(reset)
      PROVE  /\ v1' \in Seq(Queued) /\ Len(v1') <= Depth /\ v2' \in Sound!Places
             /\ v5' \in Sound!Places
             /\ Sound!Intact(v1', v2', v5') /\ v3' = v3 /\ v4' \in BOOLEAN
  <2>1. <<>> \in Seq(Queued) /\ Len(<<>>) = 0 /\ 0 <= Depth
    BY FifoFacts, EmptySeq
  <2>2. Sound!Intact(<<>>, v2, v2)
    BY <2>1, IntactNone
  <2>3. v3' = v3 /\ v4' = reset
    BY <1>4 DEF Sound!WriteSoundControl
  <2>4. CASE reset /\ ~v4
    <3>1. Sound!Refill(<<>>) /\ v5' = v2
      BY <1>4, <2>4 DEF Sound!WriteSoundControl
    <3> QED
      BY <1>1, <2>1, <2>2, <2>3, <3>1, RefillStep
  <2>5. CASE reset /\ v4
    <3>1. v1' = <<>> /\ v5' = v2 /\ v2' = v2
      BY <1>4, <2>5 DEF Sound!WriteSoundControl
    <3> QED
      BY <1>1, <2>1, <2>2, <2>3, <3>1
  <2>6. CASE ~reset
    <3>1. v1' = v1 /\ v5' = v5 /\ v2' = v2
      BY <1>4, <2>6 DEF Sound!WriteSoundControl
    <3> QED
      BY <1>1, <2>3, <3>1
  <2> QED
    BY <2>4, <2>5, <2>6
<1>5. /\ Sound!Aged \in Seq(Queued) /\ Len(Sound!Aged) = Len(v1)
      /\ \A i \in 1..Len(Sound!Aged) : Sound!Aged[i] \in Sound!Labels
  <2>1. DOMAIN v1 = 1..Len(v1) /\ Len(v1) \in Nat
    BY <1>1, LenProperties
  <2>2. Sound!Aged = [i \in 1..Len(v1) |->
                        IF v1[i] = Sound!Program THEN Sound!Program ELSE Sound!Old]
    BY <2>1 DEF Sound!Aged
  <2>3. Sound!Aged \in [1..Len(v1) -> Sound!Labels]
    BY <2>2 DEF Sound!Labels
  <2> QED
    BY <2>1, <2>3 DEF Queued
<1>6. \A v : Sound!Intact(Sound!Aged, v, v)
  BY <1>5, IntactNone
<1>7. CASE Sound!WriteSource(0)
  <2>1. 0 \in Sound!Places
    BY FifoFacts DEF Sound!Places
  <2>2. v1' = Sound!Aged /\ v2' = 0 /\ v5' = 0 /\ UNCHANGED <<v3, v4>>
    BY <1>7 DEF Sound!WriteSource
  <2> QED
    BY <1>1, <1>5, <1>6, <2>1, <2>2
<1>8. ASSUME NEW c \in [on : BOOLEAN, fixed : BOOLEAN], Sound!WriteDmaControl(c)
      PROVE  /\ v1' \in Seq(Queued) /\ Len(v1') <= Depth /\ v2' = v2
             /\ v5' \in Sound!Places
             /\ Sound!Intact(v1', v2', v5') /\ v3' = c /\ v4' = v4
  <2>1. v3' = c /\ v2' = v2 /\ v4' = v4
    BY <1>8 DEF Sound!WriteDmaControl
  <2>2. (v1' = Sound!Aged /\ v5' = v2) \/ (v1' = v1 /\ v5' = v5)
    BY <1>8 DEF Sound!WriteDmaControl
  <2> QED
    BY <1>1, <1>5, <1>6, <2>1, <2>2
<1> QED
  BY <1>1, <1>2, <1>3, <1>4, <1>7, <1>8 DEF Sound!Next

(***************************************************************************)
(* Recursion up to a number.                                               *)
(***************************************************************************)

\* What holds of 0 and passes from each number to the next holds up to n.
LEMMA UpTo ==
  ASSUME NEW n \in Nat, NEW B, 0 \in B, \A k \in 0..(n - 1) : k \in B => k + 1 \in B
  PROVE  \A k \in 0..n : k \in B
<1> DEFINE Bad == (0..n) \ B
<1> SUFFICES ASSUME Bad # {} PROVE FALSE
  OBVIOUS
<1>1. Bad \subseteq Nat
  OBVIOUS
<1>2. PICK m \in Bad : \A k \in Bad : ~(<<k, m>> \in OpToRel(<, Nat))
  BY <1>1, WFMin, NatLessThanWellFounded
<1>3. m # 0 /\ m \in 0..n /\ m \notin B
  OBVIOUS
<1>4. m - 1 \in 0..(n - 1) /\ (m - 1) + 1 = m
  BY <1>3
<1>5. m - 1 \notin B
  BY <1>3, <1>4
<1>6. m - 1 \in Bad /\ <<m - 1, m>> \in OpToRel(<, Nat)
  BY <1>3, <1>4, <1>5 DEF OpToRel
<1> QED
  BY <1>2, <1>6

\* A chain of n steps from a first element exists.
LEMMA Iterated ==
  ASSUME NEW S, NEW x \in S, NEW n \in Nat, NEW T \in [1..n -> [S -> S]]
  PROVE  \E f \in [0..n -> S] : f[0] = x /\ \A k \in 1..n : f[k] = T[k][f[k - 1]]
<1> DEFINE B == {m \in 0..n : \E f \in [0..m -> S] :
                    f[0] = x /\ \A k \in 1..m : f[k] = T[k][f[k - 1]]}
<1>1. 0 \in B
  <2> DEFINE f == [k \in 0..0 |-> x]
  <2>1. f \in [0..0 -> S] /\ f[0] = x /\ \A k \in 1..0 : f[k] = T[k][f[k - 1]]
    OBVIOUS
  <2> HIDE DEF f
  <2> QED BY <2>1
<1>2. ASSUME NEW m \in 0..(n - 1), m \in B PROVE m + 1 \in B
  <2>1. PICK f \in [0..m -> S] : f[0] = x /\ \A k \in 1..m : f[k] = T[k][f[k - 1]]
    BY <1>2
  <2>2. m + 1 \in 1..n /\ m \in 0..m
    OBVIOUS
  <2> DEFINE last == T[m + 1][f[m]]
             g == [k \in 0..(m + 1) |-> IF k = m + 1 THEN last ELSE f[k]]
  <2>3. last \in S
    BY <2>1, <2>2
  <2> HIDE DEF last
  <2>4. g \in [0..(m + 1) -> S]
    <3>1. \A k \in 0..(m + 1) : k = m + 1 \/ k \in 0..m
      OBVIOUS
    <3>2. \A k \in 0..(m + 1) : (IF k = m + 1 THEN last ELSE f[k]) \in S
      BY <2>1, <2>3, <3>1
    <3> QED BY <3>2
  <2>5. g[m + 1] = last /\ \A k \in 0..m : g[k] = f[k]
    OBVIOUS
  <2> HIDE DEF g
  <2>6. g[0] = x
    BY <2>1, <2>5
  <2>7. ASSUME NEW k \in 1..(m + 1) PROVE g[k] = T[k][g[k - 1]]
    <3>1. CASE k = m + 1
      <4>1. g[k - 1] = f[m]
        BY <2>5, <3>1
      <4> QED BY <2>5, <3>1, <4>1 DEF last
    <3>2. CASE k # m + 1
      <4>1. k \in 1..m /\ k \in 0..m /\ k - 1 \in 0..m
        BY <3>2
      <4> QED BY <2>1, <2>5, <4>1
    <3> QED BY <3>1, <3>2
  <2>8. m + 1 \in 0..n
    OBVIOUS
  <2> QED BY <2>4, <2>6, <2>7, <2>8
<1> HIDE DEF B
<1>3. n \in 0..n
  OBVIOUS
<1>4. n \in B
  BY <1>1, <1>2, <1>3, UpTo
<1> QED
  BY <1>4 DEF B

(***************************************************************************)
(* The Game Boy Advance's timers.                                          *)
(***************************************************************************)

LEMMA TimerFacts ==
  /\ NTimers \in Nat \ {0} /\ CounterMod \in Nat \ {0, 1}
  /\ DOMAIN Div # {} /\ \A s \in DOMAIN Div : Div[s] \in Nat \ {0}
  /\ TimerCycles \subseteq Nat /\ TimerReloads \subseteq 0..(CounterMod - 1)
  BY DevicesFit DEF Timers!TimersAssumption

Counts == 0..(CounterMod - 1)

\* Where a counter is after n ticks, and how often it wrapped.
Adv(c, r, n) ==
  IF c + n < CounterMod THEN c + n ELSE r + (((c + n) - CounterMod) % (CounterMod - r))
Wraps(c, r, n) ==
  IF c + n < CounterMod THEN 0 ELSE 1 + (((c + n) - CounterMod) \div (CounterMod - r))

\* One tick more.
LEMMA Advances ==
  ASSUME NEW c \in Counts, NEW r \in Counts, NEW n \in Nat
  PROVE  /\ Adv(c, r, n) \in Counts /\ Wraps(c, r, n) \in Nat
         /\ Adv(c, r, n) + 1 < CounterMod =>
              Adv(c, r, n + 1) = Adv(c, r, n) + 1 /\ Wraps(c, r, n + 1) = Wraps(c, r, n)
         /\ ~(Adv(c, r, n) + 1 < CounterMod) =>
              Adv(c, r, n + 1) = r /\ Wraps(c, r, n + 1) = Wraps(c, r, n) + 1
<1> DEFINE p == CounterMod - r
           y == (c + n) - CounterMod
           q == y \div p
           s == y % p
<1>1. CounterMod \in Nat /\ p \in Nat \ {0} /\ r \in Nat /\ c \in Nat /\ r + p = CounterMod
      /\ c < CounterMod /\ r < CounterMod
  BY TimerFacts DEF Counts
<1>2. CASE c + n + 1 < CounterMod
  <2>1. c + n < CounterMod /\ c + (n + 1) < CounterMod
    BY <1>1, <1>2
  <2> QED BY <1>1, <2>1 DEF Adv, Wraps, Counts
<1>3. CASE c + n + 1 = CounterMod
  <2>1. c + n < CounterMod /\ ~(c + (n + 1) < CounterMod) /\ (c + (n + 1)) - CounterMod = 0
    BY <1>1, <1>3
  <2>2. 0 % p = 0 /\ 0 \div p = 0
    BY <1>1
  <2>3. Adv(c, r, n) = c + n /\ Wraps(c, r, n) = 0
    BY <2>1 DEF Adv, Wraps
  <2>4. Adv(c, r, n + 1) = r /\ Wraps(c, r, n + 1) = 1
    BY <1>1, <2>1, <2>2 DEF Adv, Wraps
  <2> QED BY <1>1, <1>3, <2>3, <2>4 DEF Counts
<1>4. CASE c + n >= CounterMod
  <2>1. y \in Nat /\ ~(c + n < CounterMod) /\ ~(c + (n + 1) < CounterMod)
        /\ (c + (n + 1)) - CounterMod = y + 1
    BY <1>1, <1>4
  <2>2. Adv(c, r, n) = r + s /\ Wraps(c, r, n) = 1 + q
    BY <2>1 DEF Adv, Wraps
  <2>3. Adv(c, r, n + 1) = r + ((y + 1) % p) /\ Wraps(c, r, n + 1) = 1 + ((y + 1) \div p)
    BY <2>1 DEF Adv, Wraps
  <2> HIDE DEF p, y
  <2>4. q \in Nat /\ s \in 0..(p - 1) /\ y = p * q + s
    BY <1>1, <2>1, DivParts
  <2> HIDE DEF q, s
  <2>5. r + s < CounterMod /\ r + s \in Nat
    BY <1>1, <2>4
  <2>6. CASE s + 1 < p
    <3>1. y + 1 = p * q + (s + 1) /\ s + 1 \in 0..(p - 1)
      <4> DEFINE z == p * q
      <4>1. z \in Nat
        BY <1>1, <2>4
      <4> HIDE DEF z
      <4>2. y + 1 = z + (s + 1) /\ s + 1 \in 0..(p - 1)
        BY <1>1, <2>4, <2>6, <4>1 DEF z
      <4> QED BY <4>2 DEF z
    <3>2. (y + 1) % p = s + 1 /\ (y + 1) \div p = q
      <4> DEFINE u == y + 1
                 w == s + 1
      <4>1. u \in Nat /\ q \in Int /\ p \in Nat \ {0} /\ w \in 0..(p - 1) /\ u = p * q + w
        BY <1>1, <2>1, <2>4, <3>1
      <4> HIDE DEF u, w
      <4>2. u % p = w /\ u \div p = q
        BY <4>1, DivUnique
      <4> QED BY <4>2 DEF u, w
    <3> QED BY <1>1, <2>2, <2>3, <2>4, <2>5, <2>6, <3>2 DEF Counts
  <2>7. CASE ~(s + 1 < p)
    <3>1. s + 1 = p
      BY <1>1, <2>4, <2>7
    <3>2. y + 1 = p * (q + 1) + 0 /\ 0 \in 0..(p - 1) /\ q + 1 \in Int
      <4> DEFINE z == p * q
      <4>1. z \in Nat /\ p * (q + 1) = z + p
        BY <1>1, <2>4
      <4>2. y = z + s
        BY <2>4
      <4> HIDE DEF z
      <4> QED BY <1>1, <2>4, <3>1, <4>1, <4>2
    <3>3. (y + 1) % p = 0 /\ (y + 1) \div p = q + 1
      BY <1>1, <2>1, <3>2, DivUnique
    <3> QED BY <1>1, <2>2, <2>3, <2>4, <2>5, <3>1, <3>3 DEF Counts
  <2> QED BY <2>6, <2>7
<1> QED
  <2>1. c + n + 1 < CounterMod \/ c + n + 1 = CounterMod \/ c + n >= CounterMod
    BY <1>1
  <2> QED BY <1>2, <1>3, <1>4, <2>1

LEMMA NotYet == ASSUME NEW c \in Counts, NEW r PROVE Adv(c, r, 0) = c /\ Wraps(c, r, 0) = 0
  BY TimerFacts DEF Adv, Wraps, Counts

TimerStates == [counter : [Timers!Timers -> Counts], irqs : SUBSET Timers!Timers]

LEMMA TimersTyped ==
  ASSUME Timers!TypeOK
  PROVE  /\ v1 \in [Timers!Timers -> Counts] /\ v2 \in [Timers!Timers -> Counts]
         /\ v3 \in [Timers!Timers -> Nat] /\ v4 \in [Timers!Timers -> Timers!Controls]
         /\ v5 \subseteq Timers!Timers
<1>1. TimerReloads \cup {0} \subseteq Counts
  BY TimerFacts DEF Counts
<1> QED
  BY <1>1 DEF Timers!TypeOK, Counts

LEMMA TimerRaised ==
  ASSUME NEW r \in TimerStates, NEW t \in Timers!Timers
  PROVE  /\ Timers!Raise(r, t) \in TimerStates /\ Timers!Raise(r, t).counter = r.counter
         /\ r.irqs \subseteq Timers!Raise(r, t).irqs
         /\ v4[t].irq => t \in Timers!Raise(r, t).irqs
<1> DEFINE irqs == r.irqs \cup {t}
           x == [r EXCEPT !.irqs = irqs]
<1>1. irqs \subseteq Timers!Timers
  BY DEF TimerStates
<1>2. Timers!Raise(r, t) = IF v4[t].irq THEN x ELSE r
  BY DEF Timers!Raise
<1>3. t \in irqs /\ r.irqs \subseteq irqs
  OBVIOUS
<1> HIDE DEF irqs
<1>4. x \in TimerStates /\ x.counter = r.counter /\ x.irqs = irqs
  BY <1>1 DEF TimerStates
<1> QED
  BY <1>2, <1>3, <1>4

LEMMA TimerSet ==
  ASSUME NEW r \in TimerStates, NEW u \in Timers!Timers, NEW x \in Counts
  PROVE  /\ [r EXCEPT !.counter[u] = x] \in TimerStates
         /\ [r EXCEPT !.counter[u] = x].irqs = r.irqs
         /\ [r EXCEPT !.counter[u] = x].counter[u] = x
         /\ \A t \in Timers!Timers : t # u => [r EXCEPT !.counter[u] = x].counter[t] = r.counter[t]
<1> DEFINE c == [r.counter EXCEPT ![u] = x]
           y == [r EXCEPT !.counter = c]
<1>1. r.counter \in [Timers!Timers -> Counts]
  BY DEF TimerStates
<1>2. c \in [Timers!Timers -> Counts] /\ c[u] = x
      /\ \A t \in Timers!Timers : t # u => c[t] = r.counter[t]
  BY <1>1
<1>3. [r EXCEPT !.counter[u] = x] = y
  BY DEF TimerStates
<1> HIDE DEF c
<1>4. y \in TimerStates /\ y.irqs = r.irqs /\ y.counter = c
  BY <1>2 DEF TimerStates
<1> HIDE DEF y
<1> QED
  BY <1>2, <1>3, <1>4

\* One count: the next number, or the reload value and an interrupt.
Counted(r, u, x) ==
  /\ x \in TimerStates /\ r.irqs \subseteq x.irqs
  /\ r.counter[u] + 1 < CounterMod => x.counter[u] = r.counter[u] + 1
  /\ ~(r.counter[u] + 1 < CounterMod) =>
       x.counter[u] = v2[u] /\ (v4[u].irq => u \in x.irqs)

LEMMA TimerCascade ==
  ASSUME v2 \in [Timers!Timers -> Counts], NEW r \in TimerStates, NEW u \in Timers!Timers
  PROVE  /\ Counted(r, u, Timers!Cascade(r, u))
         /\ \A t \in Timers!Timers :
              t # u => Timers!Cascade(r, u).counter[t] = r.counter[t]
<1> DEFINE n == r.counter[u] + 1
<1>1. r.counter[u] \in Counts /\ v2[u] \in Counts
  BY DEF TimerStates
<1>2. CASE n < CounterMod
  <2>1. n \in Counts
    BY <1>1, <1>2, TimerFacts DEF Counts
  <2>2. Timers!Cascade(r, u) = [r EXCEPT !.counter[u] = n]
    BY <1>2 DEF Timers!Cascade
  <2>3. r.counter[u] + 1 < CounterMod /\ n = r.counter[u] + 1
    BY <1>2
  <2> HIDE DEF n
  <2> QED BY <2>1, <2>2, <2>3, TimerSet DEF Counted
<1>3. CASE ~(n < CounterMod)
  <2> DEFINE e == v2[u]
             x == [r EXCEPT !.counter[u] = e]
  <2>1. Timers!Cascade(r, u) = Timers!Raise(x, u) /\ ~(r.counter[u] + 1 < CounterMod)
    BY <1>3 DEF Timers!Cascade
  <2> HIDE DEF e, n
  <2>2. e \in Counts
    BY <1>1 DEF e
  <2>3. /\ x \in TimerStates /\ x.irqs = r.irqs /\ x.counter[u] = e
        /\ \A t \in Timers!Timers : t # u => x.counter[t] = r.counter[t]
    BY <2>2, TimerSet
  <2> HIDE DEF x
  <2>4. /\ Timers!Raise(x, u) \in TimerStates /\ Timers!Raise(x, u).counter = x.counter
        /\ x.irqs \subseteq Timers!Raise(x, u).irqs
        /\ v4[u].irq => u \in Timers!Raise(x, u).irqs
    BY <2>3, TimerRaised
  <2> QED BY <2>1, <2>3, <2>4 DEF Counted, e
<1> QED
  BY <1>2, <1>3

\* A tick counts its timer, and where it wraps the one cascaded behind.
LEMMA TimerTick ==
  ASSUME v2 \in [Timers!Timers -> Counts], NEW r \in TimerStates, NEW t \in Timers!Timers
  PROVE  LET x == Timers!Tick(r, t)
             wraps == ~(r.counter[t] + 1 < CounterMod)
             heard == t + 1 \in Timers!Timers /\ v4[t + 1].cascade
         IN /\ Counted(r, t, x)
            /\ wraps /\ heard => Counted(r, t + 1, x)
            /\ \A u \in Timers!Timers :
                 u # t /\ ~(wraps /\ heard /\ u = t + 1) => x.counter[u] = r.counter[u]
<1> DEFINE n == r.counter[t] + 1
           heard == t + 1 \in Timers!Timers /\ v4[t + 1].cascade
           x == Timers!Tick(r, t)
<1>1. r.counter[t] \in Counts /\ v2[t] \in Counts /\ t + 1 # t
  <2>1. r.counter[t] \in Counts /\ v2[t] \in Counts
    BY DEF TimerStates
  <2>2. t \in Int
    BY TimerFacts DEF Timers!Timers
  <2> QED BY <2>1, <2>2
<1>2. CASE n < CounterMod
  <2>1. n \in Counts
    BY <1>1, <1>2, TimerFacts DEF Counts
  <2>2. x = [r EXCEPT !.counter[t] = n]
    BY <1>2 DEF Timers!Tick
  <2>3. r.counter[t] + 1 < CounterMod /\ n = r.counter[t] + 1
    BY <1>2
  <2> HIDE DEF n, x, heard
  <2>4. /\ x \in TimerStates /\ x.irqs = r.irqs /\ x.counter[t] = n
        /\ \A u \in Timers!Timers : u # t => x.counter[u] = r.counter[u]
    BY <2>1, <2>2, TimerSet
  <2> QED BY <2>3, <2>4 DEF Counted, x
<1>3. CASE ~(n < CounterMod)
  <2> DEFINE e == v2[t]
             y == [r EXCEPT !.counter[t] = e]
             z == IF heard THEN Timers!Cascade(y, t + 1) ELSE y
  <2>1. x = Timers!Raise(z, t) /\ ~(r.counter[t] + 1 < CounterMod)
    BY <1>3 DEF Timers!Tick, Timers!Overflow
  <2> HIDE DEF e, n, x
  <2>2. e \in Counts
    BY <1>1 DEF e
  <2>3. /\ y \in TimerStates /\ y.irqs = r.irqs /\ y.counter[t] = e
        /\ \A u \in Timers!Timers : u # t => y.counter[u] = r.counter[u]
    BY <2>2, TimerSet
  <2> HIDE DEF y
  <2>4. CASE heard
    <3>1. z = Timers!Cascade(y, t + 1) /\ t + 1 \in Timers!Timers
      BY <2>4
    <3>2. /\ Counted(y, t + 1, z)
          /\ \A u \in Timers!Timers : u # t + 1 => z.counter[u] = y.counter[u]
      BY <2>3, <3>1, TimerCascade
    <3> HIDE DEF z
    <3>3. z \in TimerStates
      BY <3>2 DEF Counted
    <3>4. /\ x \in TimerStates /\ x.counter = z.counter /\ z.irqs \subseteq x.irqs
          /\ v4[t].irq => t \in x.irqs
      BY <2>1, <3>3, TimerRaised
    <3>5. x.counter[t] = e /\ y.counter[t + 1] = r.counter[t + 1]
      BY <1>1, <2>3, <3>1, <3>2, <3>4
    <3>6. Counted(r, t, x)
      BY <2>1, <2>3, <3>2, <3>4, <3>5 DEF Counted, e
    <3>7. Counted(r, t + 1, x)
      BY <2>3, <3>2, <3>4, <3>5 DEF Counted
    <3>8. \A u \in Timers!Timers : u # t /\ u # t + 1 => x.counter[u] = r.counter[u]
      BY <2>3, <3>2, <3>4
    <3> QED BY <2>4, <3>6, <3>7, <3>8, <2>1 DEF x
  <2>5. CASE ~heard
    <3>1. z = y
      BY <2>5
    <3>2. /\ x \in TimerStates /\ x.counter = y.counter /\ y.irqs \subseteq x.irqs
          /\ v4[t].irq => t \in x.irqs
      BY <2>1, <2>3, <3>1, TimerRaised
    <3>3. Counted(r, t, x)
      BY <2>1, <2>3, <3>2 DEF Counted, e
    <3>4. \A u \in Timers!Timers : u # t => x.counter[u] = r.counter[u]
      BY <2>3, <3>2
    <3> QED BY <2>5, <3>3, <3>4, <2>1 DEF x
  <2> QED BY <2>4, <2>5
<1> QED
  BY <1>2, <1>3

\* Counter u of r is n counts after that of s, and a wrap was not silent.
Reached(s, u, n, r) ==
  /\ r.counter[u] = Adv(s.counter[u], v2[u], n)
  /\ v4[u].irq /\ Wraps(s.counter[u], v2[u], n) > 0 => u \in r.irqs

Heard(t) == t + 1 \in Timers!Timers /\ v4[t + 1].cascade

\* What n ticks of timer t make of s.
TimerRun(s, t, n, r) ==
  /\ r \in TimerStates /\ s.irqs \subseteq r.irqs /\ Reached(s, t, n, r)
  /\ Heard(t) => Reached(s, t + 1, Wraps(s.counter[t], v2[t], n), r)
  /\ \A u \in Timers!Timers :
       u # t /\ ~(Heard(t) /\ u = t + 1) => r.counter[u] = s.counter[u]

LEMMA ReachedOn ==
  ASSUME v2 \in [Timers!Timers -> Counts], NEW s \in TimerStates, NEW u \in Timers!Timers,
         NEW n \in Nat, NEW r \in TimerStates, Reached(s, u, n, r), NEW x, Counted(r, u, x)
  PROVE  Reached(s, u, n + 1, x)
<1> DEFINE c == s.counter[u]
           e == v2[u]
           w == Wraps(c, e, n)
<1>1. c \in Counts /\ e \in Counts
  BY DEF TimerStates
<1>2. /\ r.counter[u] = Adv(c, e, n) /\ (v4[u].irq /\ w > 0 => u \in r.irqs)
      /\ r.irqs \subseteq x.irqs
  BY DEF Reached, Counted
<1>3. w \in Nat
  BY <1>1, Advances
<1>4. CASE r.counter[u] + 1 < CounterMod
  <2>1. Adv(c, e, n + 1) = r.counter[u] + 1 /\ Wraps(c, e, n + 1) = w
    <3>1. Adv(c, e, n) + 1 < CounterMod /\ Adv(c, e, n) = r.counter[u]
      BY <1>2, <1>4
    <3> HIDE DEF c, e
    <3>2. Adv(c, e, n + 1) = Adv(c, e, n) + 1 /\ Wraps(c, e, n + 1) = Wraps(c, e, n)
      BY <1>1, <3>1, Advances
    <3> QED BY <3>1, <3>2
  <2>2. x.counter[u] = r.counter[u] + 1
    BY <1>4 DEF Counted
  <2> QED BY <1>2, <2>1, <2>2 DEF Reached
<1>5. CASE ~(r.counter[u] + 1 < CounterMod)
  <2>1. Adv(c, e, n + 1) = e
    BY <1>1, <1>2, <1>5, Advances
  <2>2. x.counter[u] = e /\ (v4[u].irq => u \in x.irqs)
    BY <1>5 DEF Counted
  <2> QED BY <2>1, <2>2 DEF Reached
<1> QED
  BY <1>4, <1>5

LEMMA TimerRunsOn ==
  ASSUME v2 \in [Timers!Timers -> Counts], NEW s \in TimerStates, NEW t \in Timers!Timers,
         NEW n \in Nat, NEW r, TimerRun(s, t, n, r)
  PROVE  TimerRun(s, t, n + 1, Timers!Tick(r, t))
<1> DEFINE x == Timers!Tick(r, t)
           c == s.counter[t]
           w == Wraps(c, v2[t], n)
           wraps == ~(r.counter[t] + 1 < CounterMod)
<1>1. /\ r \in TimerStates /\ s.irqs \subseteq r.irqs /\ Reached(s, t, n, r)
      /\ Heard(t) => Reached(s, t + 1, w, r)
      /\ \A u \in Timers!Timers :
           u # t /\ ~(Heard(t) /\ u = t + 1) => r.counter[u] = s.counter[u]
  BY DEF TimerRun
<1>2. c \in Counts /\ v2[t] \in Counts /\ t + 1 # t
  <2>1. c \in Counts /\ v2[t] \in Counts
    BY DEF TimerStates
  <2>2. t \in Int
    BY TimerFacts DEF Timers!Timers
  <2> QED BY <2>1, <2>2
<1>3. /\ Counted(r, t, x)
      /\ wraps /\ Heard(t) => Counted(r, t + 1, x)
      /\ \A u \in Timers!Timers :
           u # t /\ ~(wraps /\ Heard(t) /\ u = t + 1) => x.counter[u] = r.counter[u]
  BY <1>1, TimerTick DEF Heard
<1>4. /\ w \in Nat /\ r.counter[t] = Adv(c, v2[t], n)
      /\ ~wraps => Wraps(c, v2[t], n + 1) = w
      /\ wraps => Wraps(c, v2[t], n + 1) = w + 1
  <2>1. r.counter[t] = Adv(c, v2[t], n)
    BY <1>1 DEF Reached
  <2> QED BY <1>2, <2>1, Advances
<1> HIDE DEF x, c, w, wraps
<1>5. x \in TimerStates /\ r.irqs \subseteq x.irqs
  BY <1>3 DEF Counted
<1>6. Reached(s, t, n + 1, x)
  BY <1>1, <1>3, ReachedOn
<1>7. ASSUME Heard(t) PROVE Reached(s, t + 1, Wraps(c, v2[t], n + 1), x)
  <2>1. t + 1 \in Timers!Timers /\ Reached(s, t + 1, w, r)
    BY <1>1, <1>7 DEF Heard
  <2>2. CASE wraps
    <3>1. Reached(s, t + 1, w + 1, x)
      BY <1>1, <1>3, <1>4, <1>7, <2>1, <2>2, ReachedOn
    <3> QED BY <1>4, <2>2, <3>1
  <2>3. CASE ~wraps
    <3>1. x.counter[t + 1] = r.counter[t + 1]
      BY <1>2, <1>3, <2>1, <2>3
    <3> QED BY <1>4, <1>5, <2>1, <2>3, <3>1 DEF Reached
  <2> QED BY <2>2, <2>3
<1>8. ASSUME NEW u \in Timers!Timers, u # t, ~(Heard(t) /\ u = t + 1)
      PROVE  x.counter[u] = s.counter[u]
  BY <1>1, <1>3, <1>8
<1>9. s.irqs \subseteq x.irqs
  BY <1>1, <1>5
<1>10. TimerRun(s, t, n + 1, x)
  BY <1>5, <1>6, <1>7, <1>8, <1>9 DEF TimerRun, c
<1> QED
  BY <1>10 DEF x

LEMMA TimerRunsNone ==
  ASSUME v2 \in [Timers!Timers -> Counts], NEW s \in TimerStates, NEW t \in Timers!Timers
  PROVE  TimerRun(s, t, 0, s)
<1>1. ASSUME NEW u \in Timers!Timers PROVE Reached(s, u, 0, s)
  <2>1. s.counter[u] \in Counts
    BY DEF TimerStates
  <2> QED BY <2>1, NotYet DEF Reached
<1>2. s.counter[t] \in Counts
  BY DEF TimerStates
<1>3. Heard(t) => Reached(s, t + 1, Wraps(s.counter[t], v2[t], 0), s)
  BY <1>1, <1>2, NotYet DEF Heard
<1> QED
  BY <1>1, <1>3 DEF TimerRun

LEMMA TimerTicked ==
  ASSUME v2 \in [Timers!Timers -> Counts], NEW s \in TimerStates, NEW t \in Timers!Timers,
         NEW n \in Nat
  PROVE  TimerRun(s, t, n, Timers!Ticked(s, t, n))
<1> DEFINE Steps(f) == f = [k \in 0..n |-> IF k = 0 THEN s ELSE Timers!Tick(f[k - 1], t)]
           g == CHOOSE f : Steps(f)
<1>1. \A r \in TimerStates : Timers!Tick(r, t) \in TimerStates
  BY TimerTick DEF Counted
<1>2. PICK T \in [1..n -> [TimerStates -> TimerStates]] :
        \A k \in 1..n, r \in TimerStates : T[k][r] = Timers!Tick(r, t)
  <2> DEFINE step == [r \in TimerStates |-> Timers!Tick(r, t)]
             U == [k \in 1..n |-> step]
  <2>1. step \in [TimerStates -> TimerStates]
    BY <1>1
  <2>2. U \in [1..n -> [TimerStates -> TimerStates]]
    BY <2>1
  <2>3. \A k \in 1..n, r \in TimerStates : U[k][r] = Timers!Tick(r, t)
    OBVIOUS
  <2> HIDE DEF U
  <2> QED BY <2>2, <2>3
<1>3. PICK h \in [0..n -> TimerStates] : h[0] = s /\ \A k \in 1..n : h[k] = T[k][h[k - 1]]
  <2> HIDE DEF Steps, g
  <2> DEFINE X == TimerStates
  <2>1. s \in X /\ n \in Nat /\ T \in [1..n -> [X -> X]]
    OBVIOUS
  <2> HIDE DEF X
  <2>2. \E h \in [0..n -> X] : h[0] = s /\ \A k \in 1..n : h[k] = T[k][h[k - 1]]
    BY ONLY <2>1, Iterated
  <2> QED BY <2>2 DEF X
<1>4. Steps(h)
  <2>1. ASSUME NEW k \in 0..n
        PROVE  h[k] = IF k = 0 THEN s ELSE Timers!Tick(h[k - 1], t)
    <3>1. CASE k = 0
      BY <1>3, <3>1
    <3>2. CASE k # 0
      <4>1. k \in 1..n /\ k - 1 \in 0..n
        BY <3>2
      <4>2. h[k - 1] \in TimerStates
        BY <4>1
      <4>3. h[k] = T[k][h[k - 1]]
        BY <1>3, <4>1
      <4> QED BY <1>2, <3>2, <4>1, <4>2, <4>3
    <3> QED BY <3>1, <3>2
  <2> QED BY <2>1
<1>5. Timers!Ticked(s, t, n) = g[n]
  BY DEF Timers!Ticked
<1>6. Steps(g)
  BY <1>4
<1>7. /\ g[0] = s
      /\ \A k \in 0..(n - 1) : g[k + 1] = Timers!Tick(g[k], t)
  <2> HIDE DEF g
  <2>1. \A k \in 0..n : g[k] = IF k = 0 THEN s ELSE Timers!Tick(g[k - 1], t)
    BY <1>6
  <2>2. 0 \in 0..n /\ \A k \in 0..(n - 1) : k + 1 \in 0..n /\ k + 1 # 0 /\ (k + 1) - 1 = k
    OBVIOUS
  <2>3. g[0] = s
    BY <2>1, <2>2
  <2>4. ASSUME NEW k \in 0..(n - 1) PROVE g[k + 1] = Timers!Tick(g[k], t)
    BY <2>1, <2>2
  <2> QED BY <2>3, <2>4
<1> HIDE DEF g
<1> DEFINE B == {k \in 0..n : TimerRun(s, t, k, g[k])}
<1>8. 0 \in B
  BY <1>7, TimerRunsNone
<1>9. ASSUME NEW k \in 0..(n - 1), k \in B PROVE k + 1 \in B
  <2>1. TimerRun(s, t, k, g[k]) /\ k \in Nat /\ k + 1 \in 0..n
    BY <1>9
  <2>2. TimerRun(s, t, k + 1, Timers!Tick(g[k], t))
    BY <2>1, TimerRunsOn
  <2> QED BY <1>7, <2>1, <2>2
<1>10. n \in B
  <2> HIDE DEF B, Steps
  <2>1. n \in 0..n
    OBVIOUS
  <2> QED BY <1>8, <1>9, <2>1, UpTo
<1> QED
  BY <1>5, <1>10

TimersAtFirst == [counter |-> v1, irqs |-> v5]

\* What gba_timers_step has done when k timers have had their ticks.
TimersDone(k, cycles, r) ==
  /\ r \in TimerStates
  /\ \A t \in Timers!Timers :
       t < k /\ Timers!Prescaled(t) => Reached(TimersAtFirst, t, Timers!Ticks(t, cycles), r)
  /\ \A t \in Timers!Timers :
       t > 0 /\ t <= k /\ v4[t].cascade /\ Timers!Prescaled(t - 1) =>
         Reached(TimersAtFirst, t, Wraps(v1[t - 1], v2[t - 1], Timers!Ticks(t - 1, cycles)), r)
  /\ \A t \in Timers!Timers :
       t > k \/ (t = k /\ (t = 0 \/ ~v4[t].cascade)) => r.counter[t] = v1[t]

LEMMA TicksNat ==
  ASSUME Timers!TypeOK, NEW t \in Timers!Timers, NEW cycles \in Nat
  PROVE  Timers!Ticks(t, cycles) \in Nat
<1>1. v3[t] \in Nat /\ v4[t] \in Timers!Controls
  BY TimersTyped
<1>2. v4[t].sel \in DOMAIN Div
  BY <1>1 DEF Timers!Controls
<1> DEFINE d == Div[v4[t].sel]
           a == v3[t] + cycles
<1>3. d \in Nat \ {0} /\ a \in Nat
  BY <1>1, <1>2, TimerFacts
<1>4. Timers!Ticks(t, cycles) = IF Timers!Prescaled(t) THEN a \div d ELSE 0
  BY DEF Timers!Ticks
<1> HIDE DEF d, a
<1>5. a \div d \in Nat
  BY <1>3, DivParts
<1> QED
  BY <1>4, <1>5

LEMMA ReachedStays ==
  ASSUME NEW s, NEW u, NEW n, NEW r, Reached(s, u, n, r), NEW x,
         x.counter[u] = r.counter[u], r.irqs \subseteq x.irqs
  PROVE  Reached(s, u, n, x)
  BY DEF Reached

LEMMA ReachedFrom ==
  ASSUME NEW s, NEW u, NEW n, NEW x, Reached(s, u, n, x), s.counter[u] = v1[u]
  PROVE  Reached(TimersAtFirst, u, n, x)
  BY DEF Reached, TimersAtFirst

LEMMA TimersNext ==
  ASSUME Timers!TypeOK, NEW k \in Timers!Timers, NEW cycles \in Nat,
         NEW s, TimersDone(k, cycles, s)
  PROVE  TimersDone(k + 1, cycles, Timers!Ticked(s, k, Timers!Ticks(k, cycles)))
<1> DEFINE n == Timers!Ticks(k, cycles)
           x == Timers!Ticked(s, k, n)
           w == Wraps(v1[k], v2[k], n)
<1>1. /\ s \in TimerStates /\ v2 \in [Timers!Timers -> Counts] /\ n \in Nat
      /\ k \in Int /\ \A t \in Timers!Timers : t \in Nat
  <2>1. \A t \in Timers!Timers : t \in Nat
    BY TimerFacts DEF Timers!Timers
  <2> QED BY <2>1, TimersTyped, TicksNat DEF TimersDone
<1>2. /\ \A t \in Timers!Timers :
           t < k /\ Timers!Prescaled(t) => Reached(TimersAtFirst, t, Timers!Ticks(t, cycles), s)
      /\ \A t \in Timers!Timers :
           t > 0 /\ t <= k /\ v4[t].cascade /\ Timers!Prescaled(t - 1) =>
             Reached(TimersAtFirst, t, Wraps(v1[t - 1], v2[t - 1], Timers!Ticks(t - 1, cycles)), s)
      /\ \A t \in Timers!Timers :
           t > k \/ (t = k /\ (t = 0 \/ ~v4[t].cascade)) => s.counter[t] = v1[t]
  BY DEF TimersDone
<1>3. TimerRun(s, k, n, x)
  BY <1>1, TimerTicked
<1>n. n = 0 \/ Timers!Prescaled(k)
  BY DEF Timers!Ticks
<1>p. Timers!Prescaled(k) => k = 0 \/ ~v4[k].cascade
  BY DEF Timers!Prescaled
<1> HIDE DEF n, x, w
<1>4. /\ x \in TimerStates /\ s.irqs \subseteq x.irqs /\ Reached(s, k, n, x)
      /\ Heard(k) => Reached(s, k + 1, Wraps(s.counter[k], v2[k], n), x)
      /\ \A u \in Timers!Timers :
           u # k /\ ~(Heard(k) /\ u = k + 1) => x.counter[u] = s.counter[u]
  BY <1>3 DEF TimerRun
\* A timer that counts no cycles has no ticks, and nothing moves.
<1>5. CASE ~Timers!Prescaled(k)
  <2>1. n = 0 /\ s.counter[k] \in Counts
    BY <1>1, <1>5, <1>n DEF TimerStates
  <2>2. x.counter[k] = s.counter[k]
    BY <1>4, <2>1, NotYet DEF Reached
  <2>3. ASSUME NEW u \in Timers!Timers PROVE x.counter[u] = s.counter[u]
    <3>1. CASE Heard(k) /\ u = k + 1
      <4>1. Reached(s, u, 0, x) /\ s.counter[u] \in Counts
        BY <1>1, <1>4, <2>1, <3>1, NotYet DEF TimerStates
      <4> QED BY <4>1, NotYet DEF Reached
    <3>2. CASE ~(Heard(k) /\ u = k + 1)
      BY <1>4, <2>2, <3>2
    <3> QED BY <3>1, <3>2
  <2>4. ASSUME NEW t \in Timers!Timers, t < k + 1, Timers!Prescaled(t)
        PROVE  Reached(TimersAtFirst, t, Timers!Ticks(t, cycles), x)
    <3>1. t < k
      BY <1>1, <1>5, <2>4
    <3> QED BY <1>2, <1>4, <2>3, <2>4, <3>1, ReachedStays
  <2>5. ASSUME NEW t \in Timers!Timers, t > 0, t <= k + 1, v4[t].cascade,
               Timers!Prescaled(t - 1)
        PROVE  Reached(TimersAtFirst, t,
                       Wraps(v1[t - 1], v2[t - 1], Timers!Ticks(t - 1, cycles)), x)
    <3>1. t # k + 1
      <4> SUFFICES ASSUME t = k + 1 PROVE FALSE
        OBVIOUS
      <4>1. t - 1 = k
        BY <1>1
      <4> QED BY <1>5, <2>5, <4>1
    <3>2. t <= k
      BY <1>1, <2>5, <3>1
    <3> QED BY <1>2, <1>4, <2>3, <2>5, <3>2, ReachedStays
  <2>6. ASSUME NEW t \in Timers!Timers, t > k + 1 \/ (t = k + 1 /\ (t = 0 \/ ~v4[t].cascade))
        PROVE  x.counter[t] = v1[t]
    <3>1. t > k
      BY <1>1, <2>6
    <3> QED BY <1>2, <2>3, <3>1
  <2> QED BY <1>4, <2>4, <2>5, <2>6 DEF TimersDone, x, n
<1>6. CASE Timers!Prescaled(k)
  <2>1. s.counter[k] = v1[k]
    BY <1>2, <1>6, <1>p
  <2>2. Reached(TimersAtFirst, k, n, x)
    BY <1>4, <2>1, ReachedFrom
  <2>3. ASSUME Heard(k) PROVE Reached(TimersAtFirst, k + 1, w, x)
    <3>1. k + 1 \in Timers!Timers /\ k + 1 > k
      BY <1>1, <2>3 DEF Heard
    <3>2. s.counter[k + 1] = v1[k + 1]
      BY <1>2, <3>1
    <3>3. Reached(s, k + 1, w, x)
      BY <1>4, <2>1, <2>3 DEF w
    <3> QED BY <3>2, <3>3, ReachedFrom
  <2>4. ASSUME NEW t \in Timers!Timers, t < k + 1, Timers!Prescaled(t)
        PROVE  Reached(TimersAtFirst, t, Timers!Ticks(t, cycles), x)
    <3>1. CASE t = k
      BY <2>2, <3>1 DEF n
    <3>2. CASE t # k
      <4>1. t < k /\ t # k + 1
        BY <1>1, <2>4, <3>2
      <4>2. x.counter[t] = s.counter[t]
        BY <1>4, <3>2, <4>1
      <4> QED BY <1>2, <1>4, <2>4, <4>1, <4>2, ReachedStays
    <3> QED BY <3>1, <3>2
  <2>5. ASSUME NEW t \in Timers!Timers, t > 0, t <= k + 1, v4[t].cascade,
               Timers!Prescaled(t - 1)
        PROVE  Reached(TimersAtFirst, t,
                       Wraps(v1[t - 1], v2[t - 1], Timers!Ticks(t - 1, cycles)), x)
    <3>1. CASE t = k + 1
      <4>1. Heard(k) /\ t - 1 = k
        BY <1>1, <2>5, <3>1 DEF Heard
      <4> QED BY <2>3, <3>1, <4>1 DEF w, n
    <3>2. CASE t # k + 1
      <4>1. t # k
        BY <1>1, <1>6, <1>p, <2>5
      <4>2. t <= k /\ x.counter[t] = s.counter[t]
        BY <1>1, <1>4, <2>5, <3>2, <4>1
      <4> QED BY <1>2, <1>4, <2>5, <4>2, ReachedStays
    <3> QED BY <3>1, <3>2
  <2>6. ASSUME NEW t \in Timers!Timers, t > k + 1 \/ (t = k + 1 /\ (t = 0 \/ ~v4[t].cascade))
        PROVE  x.counter[t] = v1[t]
    <3>1. t > k /\ t # k /\ t # 0
      BY <1>1, <2>6
    <3>2. ~(Heard(k) /\ t = k + 1)
      <4> SUFFICES ASSUME Heard(k), t = k + 1 PROVE FALSE
        OBVIOUS
      <4>1. v4[t].cascade /\ ~(t > k + 1)
        BY <1>1 DEF Heard
      <4> QED BY <2>6, <3>1, <4>1
    <3>3. x.counter[t] = s.counter[t]
      BY <1>4, <3>1, <3>2
    <3> QED BY <1>2, <3>1, <3>3
  <2> QED BY <1>4, <2>4, <2>5, <2>6 DEF TimersDone, x, n
<1> QED
  BY <1>5, <1>6

LEMMA TimersAllTicked ==
  ASSUME Timers!TypeOK, NEW cycles \in Nat
  PROVE  TimersDone(NTimers, cycles, Timers!AllTicked(cycles))
<1> DEFINE Steps(f) == f = [t \in 0..NTimers |->
                              IF t = 0 THEN [counter |-> v1, irqs |-> v5]
                              ELSE Timers!Ticked(f[t - 1], t - 1, Timers!Ticks(t - 1, cycles))]
           g == CHOOSE f : Steps(f)
<1>0. NTimers \in Nat \ {0}
  BY TimerFacts
<1>1. ASSUME NEW k \in 1..NTimers
      PROVE  k - 1 \in Timers!Timers /\ Timers!Ticks(k - 1, cycles) \in Nat
  <2>1. k - 1 \in Timers!Timers
    BY <1>0 DEF Timers!Timers
  <2> QED BY <2>1, TicksNat
<1>2. PICK T \in [1..NTimers -> [TimerStates -> TimerStates]] :
        \A k \in 1..NTimers, r \in TimerStates :
          T[k][r] = Timers!Ticked(r, k - 1, Timers!Ticks(k - 1, cycles))
  <2> DEFINE U == [k \in 1..NTimers |-> [r \in TimerStates |->
                     Timers!Ticked(r, k - 1, Timers!Ticks(k - 1, cycles))]]
  <2>1. ASSUME NEW k \in 1..NTimers, NEW r \in TimerStates
        PROVE  Timers!Ticked(r, k - 1, Timers!Ticks(k - 1, cycles)) \in TimerStates
    BY <1>1, TimersTyped, TimerTicked DEF TimerRun
  <2>2. U \in [1..NTimers -> [TimerStates -> TimerStates]]
    BY <2>1
  <2>3. \A k \in 1..NTimers, r \in TimerStates :
          U[k][r] = Timers!Ticked(r, k - 1, Timers!Ticks(k - 1, cycles))
    OBVIOUS
  <2> HIDE DEF U
  <2> QED BY <2>2, <2>3
<1>3. PICK s \in TimerStates : s = TimersAtFirst
  BY TimersTyped DEF TimerStates, TimersAtFirst
<1>4. PICK h \in [0..NTimers -> TimerStates] :
        h[0] = s /\ \A k \in 1..NTimers : h[k] = T[k][h[k - 1]]
  <2> HIDE DEF Steps, g
  <2> DEFINE X == TimerStates
  <2>1. PICK n \in Nat : n = NTimers
    BY <1>0
  <2>2. s \in X /\ T \in [1..n -> [X -> X]]
    BY <2>1
  <2> HIDE DEF X
  <2>3. \E h \in [0..n -> X] : h[0] = s /\ \A k \in 1..n : h[k] = T[k][h[k - 1]]
    BY ONLY <2>1, <2>2, Iterated
  <2> QED BY <2>1, <2>3 DEF X
<1>5. Steps(h)
  <2>1. ASSUME NEW k \in 0..NTimers
        PROVE  h[k] = IF k = 0 THEN [counter |-> v1, irqs |-> v5]
                      ELSE Timers!Ticked(h[k - 1], k - 1, Timers!Ticks(k - 1, cycles))
    <3>1. CASE k = 0
      BY <1>3, <1>4, <3>1 DEF TimersAtFirst
    <3>2. CASE k # 0
      <4>1. k \in 1..NTimers /\ k - 1 \in 0..NTimers
        BY <1>0, <3>2
      <4>2. h[k - 1] \in TimerStates
        BY <4>1
      <4>3. h[k] = T[k][h[k - 1]]
        BY <1>4, <4>1
      <4> QED BY <1>2, <3>2, <4>1, <4>2, <4>3
    <3> QED BY <3>1, <3>2
  <2> QED BY <2>1
<1>6. Timers!AllTicked(cycles) = g[NTimers]
  BY DEF Timers!AllTicked
<1>7. Steps(g)
  BY <1>5
<1>8. /\ g[0] = s
      /\ \A k \in 0..(NTimers - 1) :
           g[k + 1] = Timers!Ticked(g[k], k, Timers!Ticks(k, cycles))
  <2> HIDE DEF g
  <2>1. \A k \in 0..NTimers :
          g[k] = IF k = 0 THEN [counter |-> v1, irqs |-> v5]
                 ELSE Timers!Ticked(g[k - 1], k - 1, Timers!Ticks(k - 1, cycles))
    BY <1>7
  <2>2. 0 \in 0..NTimers /\ \A k \in 0..(NTimers - 1) :
                              k + 1 \in 0..NTimers /\ k + 1 # 0 /\ (k + 1) - 1 = k
    BY <1>0
  <2>3. g[0] = s
    BY <1>3, <2>1, <2>2 DEF TimersAtFirst
  <2>4. ASSUME NEW k \in 0..(NTimers - 1)
        PROVE  g[k + 1] = Timers!Ticked(g[k], k, Timers!Ticks(k, cycles))
    BY <2>1, <2>2
  <2> QED BY <2>3, <2>4
<1> HIDE DEF g
<1> DEFINE B == {k \in 0..NTimers : TimersDone(k, cycles, g[k])}
<1>9. 0 \in B
  <2>1. \A t \in Timers!Timers : t \in Nat
    BY TimerFacts DEF Timers!Timers
  <2>2. s.counter = v1
    BY <1>3 DEF TimersAtFirst
  <2>3. TimersDone(0, cycles, s)
    BY <1>3, <2>1, <2>2 DEF TimersDone
  <2> QED BY <1>0, <1>8, <2>3
<1>10. ASSUME NEW k \in 0..(NTimers - 1), k \in B PROVE k + 1 \in B
  <2>1. TimersDone(k, cycles, g[k]) /\ k \in Timers!Timers /\ k + 1 \in 0..NTimers
    BY <1>0, <1>10 DEF Timers!Timers
  <2>2. TimersDone(k + 1, cycles, g[k + 1])
    BY <1>8, <2>1, TimersNext
  <2> QED BY <2>1, <2>2
<1>11. NTimers \in B
  <2> HIDE DEF B, Steps
  <2>1. NTimers \in 0..NTimers
    BY <1>0
  <2> QED BY <1>0, <1>9, <1>10, <2>1, UpTo
<1> QED
  BY <1>6, <1>11

LEMMA TimersStopped == Timers!Stopped \in Timers!Controls <=> DOMAIN Div # {}
<1> DEFINE c == CHOOSE s \in DOMAIN Div : TRUE
<1>1. Timers!Stopped = [on |-> FALSE, cascade |-> FALSE, irq |-> FALSE, sel |-> c]
  BY DEF Timers!Stopped
<1>2. DOMAIN Div # {} => c \in DOMAIN Div
  OBVIOUS
<1> HIDE DEF c
<1> QED
  BY <1>1, <1>2 DEF Timers!Controls

LEMMA TimersInit == ASSUME Timers!Init PROVE Timers!TypeOK
<1>1. 0 \in 0..(CounterMod - 1)
  BY TimerFacts
<1>2. Timers!Stopped \in Timers!Controls
  BY TimersStopped, TimerFacts
<1> QED
  BY <1>1, <1>2 DEF Timers!Init, Timers!TypeOK

LEMMA TimersCount ==
  ASSUME Timers!TypeOK, NEW cycles \in TimerCycles, Timers!Step(cycles)
  PROVE  Timers!TypeOK' /\ Timers!CascadeExact
<1> DEFINE x == Timers!AllTicked(cycles)
<1>1. cycles \in Nat
  BY TimerFacts
<1>2. TimersDone(NTimers, cycles, x)
  BY <1>1, TimersAllTicked
<1>3. /\ v1' = x.counter /\ v5' = x.irqs /\ v6' = cycles /\ v2' = v2 /\ v4' = v4
      /\ v3' = [t \in Timers!Timers |->
                  IF Timers!Prescaled(t) THEN (v3[t] + cycles) % Div[v4[t].sel] ELSE v3[t]]
  BY DEF Timers!Step
<1> HIDE DEF x
<1>4. x \in TimerStates /\ \A t \in Timers!Timers : t \in Nat /\ t < NTimers
  <2>1. \A t \in Timers!Timers : t \in Nat /\ t < NTimers
    BY TimerFacts DEF Timers!Timers
  <2> QED BY <1>2, <2>1 DEF TimersDone
<1>5. v3' \in [Timers!Timers -> Nat]
  <2>1. ASSUME NEW t \in Timers!Timers
        PROVE  (v3[t] + cycles) % Div[v4[t].sel] \in Nat /\ v3[t] \in Nat
    <3>1. v3[t] \in Nat /\ v4[t].sel \in DOMAIN Div
      BY TimersTyped DEF Timers!Controls
    <3> DEFINE a == v3[t] + cycles
               d == Div[v4[t].sel]
    <3>2. a \in Nat /\ d \in Nat \ {0}
      BY <1>1, <3>1, TimerFacts
    <3> HIDE DEF a, d
    <3>3. a % d \in 0..(d - 1)
      BY <3>2, DivParts
    <3>4. a % d \in Nat
      BY <3>2, <3>3
    <3> QED BY <3>1, <3>4 DEF a, d
  <2> QED BY <1>3, <2>1
<1>6. Timers!TypeOK'
  <2>1. x.counter \in [Timers!Timers -> 0..(CounterMod - 1)] /\ x.irqs \subseteq Timers!Timers
    BY <1>4 DEF TimerStates, Counts
  <2> QED BY <1>3, <1>5, <2>1 DEF Timers!TypeOK, Timers!Timers, Timers!Controls
<1>7. ASSUME NEW t \in Timers!Timers, NEW n, Reached(TimersAtFirst, t, n, x)
      PROVE  /\ v1'[t] = Timers!Advanced(t, n)
             /\ v4[t].irq /\ Timers!Wraps(t, n) > 0 => t \in v5'
  <2>1. /\ x.counter[t] = Adv(v1[t], v2[t], n)
        /\ v4[t].irq /\ Wraps(v1[t], v2[t], n) > 0 => t \in x.irqs
    BY <1>7 DEF Reached, TimersAtFirst
  <2>2. Adv(v1[t], v2[t], n) = Timers!Advanced(t, n)
    BY Zenon DEF Adv, Timers!Advanced
  <2>3. Wraps(v1[t], v2[t], n) = Timers!Wraps(t, n)
    BY Zenon DEF Wraps, Timers!Wraps
  <2> QED BY <1>3, <2>1, <2>2, <2>3
<1>8. ASSUME NEW t \in Timers!Timers, Timers!Prescaled(t)
      PROVE  Reached(TimersAtFirst, t, Timers!Ticks(t, cycles), x)
  BY <1>2, <1>4, <1>8 DEF TimersDone
<1>9. ASSUME NEW t \in Timers!Timers, t > 0, v4[t].cascade, Timers!Prescaled(t - 1)
      PROVE  Reached(TimersAtFirst, t, Timers!Wraps(t - 1, Timers!Ticks(t - 1, cycles)), x)
  <2> DEFINE w == Wraps(v1[t - 1], v2[t - 1], Timers!Ticks(t - 1, cycles))
  <2>1. t <= NTimers
    BY <1>4, TimerFacts
  <2>2. Reached(TimersAtFirst, t, w, x)
    BY <1>2, <1>9, <2>1 DEF TimersDone
  <2>3. w = Timers!Wraps(t - 1, Timers!Ticks(t - 1, cycles))
    BY Zenon DEF Wraps, Timers!Wraps
  <2> QED BY <2>2, <2>3
<1>10. Timers!CascadeExact
  BY <1>3, <1>7, <1>8, <1>9 DEF Timers!CascadeExact
<1> QED
  BY <1>6, <1>10

LEMMA TimersStep == ASSUME Timers!TypeOK, Timers!Next PROVE Timers!TypeOK' /\ Timers!CascadeExact
<1>0. /\ v1 \in [Timers!Timers -> Counts] /\ v2 \in [Timers!Timers -> TimerReloads \cup {0}]
      /\ v3 \in [Timers!Timers -> Nat] /\ v4 \in [Timers!Timers -> Timers!Controls]
      /\ v5 \subseteq Timers!Timers /\ TimerReloads \cup {0} \subseteq Counts
  BY TimersTyped, TimerFacts DEF Timers!TypeOK, Counts
<1>a. ASSUME v1' \in [Timers!Timers -> Counts], v2' \in [Timers!Timers -> TimerReloads \cup {0}],
             v3' \in [Timers!Timers -> Nat], v4' \in [Timers!Timers -> Timers!Controls],
             v5' \subseteq Timers!Timers, v6' = 0
      PROVE  Timers!TypeOK' /\ Timers!CascadeExact
  <2>1. Timers!TypeOK'
    BY <1>a DEF Timers!TypeOK, Counts, Timers!Timers, Timers!Controls
  <2> QED BY <1>a, <2>1 DEF Timers!CascadeExact
<1>1. ASSUME NEW cycles \in TimerCycles, Timers!Step(cycles)
      PROVE  Timers!TypeOK' /\ Timers!CascadeExact
  BY <1>1, TimersCount
<1>2. ASSUME NEW t \in Timers!Timers, NEW c \in Timers!Controls, Timers!WriteControl(t, c)
      PROVE  Timers!TypeOK' /\ Timers!CascadeExact
  <2>1. v2[t] \in Counts
    BY <1>0
  <2>2. /\ v4' = [v4 EXCEPT ![t] = c] /\ v2' = v2 /\ v5' = v5 /\ v6' = 0
        /\ v1' = [v1 EXCEPT ![t] = v2[t]] \/ v1' = v1
        /\ v3' = [v3 EXCEPT ![t] = 0] \/ v3' = v3
    BY <1>2 DEF Timers!WriteControl
  <2> QED BY <1>0, <1>a, <2>1, <2>2
<1>3. ASSUME NEW t \in Timers!Timers, NEW v \in TimerReloads, Timers!WriteReload(t, v)
      PROVE  Timers!TypeOK' /\ Timers!CascadeExact
  <2>1. v \in Counts
    BY <1>0
  <2> QED BY <1>0, <1>3, <1>a, <2>1 DEF Timers!WriteReload
<1>4. ASSUME NEW t \in Timers!Timers, Timers!Acknowledge(t)
      PROVE  Timers!TypeOK' /\ Timers!CascadeExact
  BY <1>0, <1>4, <1>a DEF Timers!Acknowledge
<1>5. ASSUME NEW all \in BOOLEAN, Timers!Reset(all)
      PROVE  Timers!TypeOK' /\ Timers!CascadeExact
  <2>1. 0 \in Counts
    BY <1>0
  <2>2. Timers!Stopped \in Timers!Controls
    BY TimersStopped, TimerFacts
  <2> QED BY <1>0, <1>5, <1>a, <2>1, <2>2 DEF Timers!Reset
<1> QED
  BY <1>1, <1>2, <1>3, <1>4, <1>5 DEF Timers!Next

(***************************************************************************)
(* A Super NES HDMA channel.                                               *)
(***************************************************************************)

LEMMA HdmaFacts ==
  /\ TableMod \in Nat \ {0} /\ LineMod \in Nat \ {0} /\ Lines \in Nat \ {0}
  /\ Bytes \subseteq Nat /\ HdmaUnits \cup {1} \subseteq {1, 2, 4}
  BY DevicesFit DEF Hdma!HdmaAssumption

\* Memory goes round.
LEMMA AtAround ==
  ASSUME Hdma!TypeOK, NEW a \in Nat, NEW b \in Nat
  PROVE  /\ Hdma!At(a) \in Nat /\ Hdma!At((a % TableMod) + b) = Hdma!At(a + b)
         /\ Hdma!At(a % TableMod) = Hdma!At(a) /\ a % TableMod \in Hdma!Addresses
<1> DEFINE m == TableMod
<1>1. m \in Nat \ {0} /\ v1 \in [0..(m - 1) -> Bytes] /\ Bytes \subseteq Nat
  BY HdmaFacts DEF Hdma!TypeOK, Hdma!Addresses
<1>2. a % m \in 0..(m - 1) /\ a % m \in Nat
  <2>1. a % m \in 0..(m - 1)
    BY <1>1, DivParts
  <2> QED BY <1>1, <2>1
<1>3. ((a % m) + b) % m = (a + b) % m
  <2> DEFINE r == a % m
  <2>1. (b + r) % m = (b + a) % m
    BY <1>1, ModPlus
  <2>2. b + r = r + b /\ b + a = a + b
    BY <1>2
  <2> HIDE DEF r
  <2> QED BY <2>1, <2>2 DEF r
<1>4. (a % m) % m = a % m
  <2> DEFINE r == a % m
  <2> HIDE DEF r
  <2>1. r \in 0..(m - 1)
    BY <1>2 DEF r
  <2>2. r % m = r
    BY <1>1, <2>1, ModSmall
  <2> QED BY <2>2 DEF r
<1>5. v1[a % m] \in Nat
  BY <1>1, <1>2
<1> QED
  BY <1>1, <1>2, <1>3, <1>4, <1>5 DEF Hdma!At, Hdma!Addresses

\* So do headers and pointers.
LEMMA TableAround ==
  ASSUME Hdma!TypeOK, NEW a \in Nat, NEW u \in {1, 2, 4}
  PROVE  /\ Hdma!LinesAt(a, u) \in Nat /\ Hdma!Low(a) \in Nat
         /\ Hdma!LinesAt(a % TableMod, u) = Hdma!LinesAt(a, u)
         /\ Hdma!RepeatAt(a % TableMod, u) = Hdma!RepeatAt(a, u)
         /\ Hdma!Low(a % TableMod) = Hdma!Low(a)
         /\ Hdma!HeaderSize(u) \in {1, 2} /\ Hdma!PointerSize(u) \in {2, 3}
<1> DEFINE r == a % TableMod
           x == Hdma!At(a)
           y == Hdma!At(a + 1)
<1>1. Hdma!At(r) = x /\ Hdma!At(r + 1) = y /\ x \in Nat /\ y \in Nat
  <2>1. a + 1 \in Nat
    OBVIOUS
  <2> QED BY <2>1, AtAround
<1>2. x % LineMod \in Nat /\ y % LineMod \in Nat /\ LineMod \in Nat \ {0}
  <2>1. x % LineMod \in 0..(LineMod - 1) /\ y % LineMod \in 0..(LineMod - 1)
    BY <1>1, HdmaFacts, DivParts
  <2> QED BY <2>1, HdmaFacts
<1>3. r \in Nat
  BY AtAround, HdmaFacts DEF Hdma!Addresses
<1> HIDE DEF r, x, y
<1>4. Hdma!RepeatAt(r, u) = Hdma!RepeatAt(a, u)
  <2>1. CASE u = 1
    <3>1. r + 1 - 1 = r /\ a + 1 - 1 = a
      BY <1>3
    <3> QED BY <1>1, <2>1, <3>1 DEF Hdma!RepeatAt, Hdma!HeaderSize, x
  <2>2. CASE u # 1
    <3>1. r + 2 - 1 = r + 1 /\ a + 2 - 1 = a + 1
      BY <1>3
    <3> QED BY <1>1, <2>2, <3>1 DEF Hdma!RepeatAt, Hdma!HeaderSize, y
  <2> QED BY <2>1, <2>2
<1>5. /\ Hdma!LinesAt(a, u) = IF u = 1 THEN x % LineMod ELSE x + 2 * LineMod * (y % LineMod)
      /\ Hdma!LinesAt(r, u) = IF u = 1 THEN x % LineMod ELSE x + 2 * LineMod * (y % LineMod)
      /\ Hdma!Low(a) = x + 2 * LineMod * y /\ Hdma!Low(r) = x + 2 * LineMod * y
  BY <1>1 DEF Hdma!LinesAt, Hdma!Low, x, y
<1>6. x + 2 * LineMod * y \in Nat /\ x + 2 * LineMod * (y % LineMod) \in Nat
  <2> DEFINE z == y % LineMod
  <2>1. z \in Nat
    BY <1>2
  <2> HIDE DEF z
  <2> QED BY <1>1, <1>2, <2>1 DEF z
<1> QED
  BY <1>2, <1>4, <1>5, <1>6 DEF r, Hdma!HeaderSize, Hdma!PointerSize

\* The parts of hdma_channel_line on a channel.
LEMMA HeaderIs ==
  ASSUME Hdma!TypeOK, NEW c \in Hdma!Channels, NEW b \in Nat, c.abus = b % TableMod
  PROVE  \A n, h : n = Hdma!LinesAt(b, c.unit) /\ h = Hdma!Header(c) =>
         /\ h \in Hdma!Channels
         /\ (h.on <=> c.on) /\ h.unit = c.unit /\ (h.indirect <=> c.indirect) /\ h.reload = c.reload
         /\ h.pointer = c.pointer
         /\ h.abus = (b + Hdma!HeaderSize(c.unit)) % TableMod
         /\ (h.repeat <=> Hdma!RepeatAt(b, c.unit)) /\ (h.finished <=> n = 0)
         /\ h.left = (IF n = 0 THEN 0 ELSE n - 1) /\ (n # 0 => ~h.loaded)
<1> DEFINE n == Hdma!LinesAt(b, c.unit)
           size == Hdma!HeaderSize(c.unit)
           rep == Hdma!RepeatAt(b, c.unit)
           to == (b + size) % TableMod
           rest == IF n = 0 THEN 0 ELSE n - 1
           end == n = 0
           held == c.loaded /\ n = 0
<1>1. c.unit \in {1, 2, 4}
  BY HdmaFacts DEF Hdma!Channels
<1>2. n \in Nat /\ size \in Nat /\ Hdma!LinesAt(c.abus, c.unit) = n
      /\ Hdma!RepeatAt(c.abus, c.unit) = rep
  BY <1>1, TableAround
<1>3. (c.abus + size) % TableMod = to /\ to \in Hdma!Addresses
  <2>1. b + size \in Nat
    BY <1>2
  <2>2. to \in Hdma!Addresses
    BY <2>1, AtAround
  <2>3. (size + (b % TableMod)) % TableMod = (size + b) % TableMod
    BY <1>2, HdmaFacts, ModPlus
  <2>4. b % TableMod \in Nat
    BY AtAround, HdmaFacts DEF Hdma!Addresses
  <2> DEFINE r == b % TableMod
  <2> HIDE DEF r, size
  <2>5. size + r = r + size /\ size + b = b + size
    BY <1>2, <2>4 DEF r
  <2> QED BY <2>2, <2>3, <2>5 DEF r
<1>4. rep \in BOOLEAN /\ rest \in Nat /\ end \in BOOLEAN /\ held \in BOOLEAN
  BY <1>2 DEF Hdma!RepeatAt
<1>5. Hdma!Header(c) = [c EXCEPT !.abus = to, !.repeat = rep, !.finished = end, !.left = rest,
                                 !.loaded = held]
  BY <1>2, <1>3 DEF Hdma!Header
<1>6. n # 0 => ~held
  OBVIOUS
<1> HIDE DEF to, rep, end, rest, held
<1>7. LET h == Hdma!Header(c) IN
      /\ h \in Hdma!Channels
      /\ (h.on <=> c.on) /\ h.unit = c.unit /\ (h.indirect <=> c.indirect) /\ h.reload = c.reload
      /\ h.pointer = c.pointer
      /\ h.abus = to /\ (h.repeat <=> rep) /\ (h.finished <=> end) /\ h.left = rest
      /\ (h.loaded <=> held)
  BY <1>3, <1>4, <1>5 DEF Hdma!Channels
<1> HIDE DEF n
<1> QED
  BY <1>6, <1>7 DEF to, rep, end, rest, n, size

LEMMA LoadedIs ==
  ASSUME Hdma!TypeOK, NEW c \in Hdma!Channels, NEW a \in Nat, c.abus = a % TableMod
  PROVE  \A l : l = Hdma!Loaded(c) =>
         /\ l \in Hdma!Channels
         /\ (l.on <=> c.on) /\ l.unit = c.unit /\ (l.indirect <=> c.indirect) /\ l.reload = c.reload
         /\ l.left = c.left /\ (l.repeat <=> c.repeat) /\ (l.finished <=> c.finished) /\ l.loaded
         /\ c.loaded => l = c
         /\ ~c.loaded => /\ l.pointer = Hdma!Low(a) % TableMod
                         /\ l.abus = (a + Hdma!PointerSize(c.unit)) % TableMod
<1>1. CASE c.loaded
  BY <1>1 DEF Hdma!Loaded, Hdma!Channels
<1>2. CASE ~c.loaded
  <2> DEFINE size == Hdma!PointerSize(c.unit)
             to == (a + size) % TableMod
             ptr == Hdma!Low(a) % TableMod
  <2>1. c.unit \in {1, 2, 4}
    BY HdmaFacts DEF Hdma!Channels
  <2>2. size \in Nat /\ Hdma!Low(a) \in Nat /\ Hdma!Low(c.abus) = Hdma!Low(a)
    BY <2>1, TableAround
  <2>3. ptr \in Hdma!Addresses
    BY <2>2, AtAround
  <2>4. (c.abus + size) % TableMod = to /\ to \in Hdma!Addresses
    <3>1. a + size \in Nat
      BY <2>2
    <3>2. to \in Hdma!Addresses
      BY <3>1, AtAround
    <3>3. (size + (a % TableMod)) % TableMod = (size + a) % TableMod
      BY <2>2, HdmaFacts, ModPlus
    <3>4. a % TableMod \in Nat
      BY AtAround, HdmaFacts DEF Hdma!Addresses
    <3> DEFINE r == a % TableMod
    <3> HIDE DEF r, size
    <3>5. size + r = r + size /\ size + a = a + size
      BY <2>2, <3>4 DEF r
    <3> QED BY <3>2, <3>3, <3>5 DEF r
  <2>5. Hdma!Loaded(c) = [c EXCEPT !.pointer = ptr, !.abus = to, !.loaded = TRUE]
    BY <1>2, <2>2, <2>4 DEF Hdma!Loaded
  <2> HIDE DEF ptr, to
  <2>6. LET l == Hdma!Loaded(c) IN
        /\ l \in Hdma!Channels
        /\ (l.on <=> c.on) /\ l.unit = c.unit /\ (l.indirect <=> c.indirect) /\ l.reload = c.reload
        /\ l.left = c.left /\ (l.repeat <=> c.repeat) /\ (l.finished <=> c.finished)
        /\ l.loaded /\ l.pointer = ptr /\ l.abus = to
    BY <2>3, <2>4, <2>5 DEF Hdma!Channels
  <2> QED BY <1>2, <2>6 DEF ptr, to
<1> QED BY <1>1, <1>2

LEMMA UnitOn ==
  ASSUME Hdma!TypeOK, NEW x \in Nat, NEW u \in Nat
  PROVE  /\ ((x % TableMod) + u) % TableMod = (x + u) % TableMod
         /\ (x + u) % TableMod \in Hdma!Addresses
<1> DEFINE r == x % TableMod
<1>1. r \in Nat
  BY AtAround, HdmaFacts DEF Hdma!Addresses
<1>2. (u + (x % TableMod)) % TableMod = (u + x) % TableMod
  BY HdmaFacts, ModPlus
<1> HIDE DEF r
<1>3. u + r = r + u /\ u + x = x + u /\ x + u \in Nat
  BY <1>1
<1>4. (x + u) % TableMod \in Hdma!Addresses
  BY <1>3, AtAround
<1> QED BY <1>2, <1>3, <1>4 DEF r

\* A transfer moves the address it reads from by a unit.
LEMMA TransferredDirect ==
  ASSUME Hdma!TypeOK, NEW c \in Hdma!Channels, NEW a \in Nat,
         c.abus = a % TableMod, ~c.indirect
  PROVE  \A t : t = Hdma!Transferred(c) =>
         /\ t \in Hdma!Channels
         /\ (t.on <=> c.on) /\ t.unit = c.unit /\ (t.indirect <=> c.indirect) /\ t.reload = c.reload
         /\ t.left = c.left /\ (t.repeat <=> c.repeat) /\ (t.finished <=> c.finished)
         /\ t.abus = (a + c.unit) % TableMod
<1> DEFINE to == (a + c.unit) % TableMod
<1>1. Hdma!Transferred(c) = [c EXCEPT !.abus = to] /\ to \in Hdma!Addresses
  <2>1. c.unit \in Nat
    BY HdmaFacts DEF Hdma!Channels
  <2> QED BY <2>1, UnitOn DEF Hdma!Transferred
<1> HIDE DEF to
<1>2. LET t == Hdma!Transferred(c) IN
      /\ t \in Hdma!Channels
      /\ (t.on <=> c.on) /\ t.unit = c.unit /\ (t.indirect <=> c.indirect) /\ t.reload = c.reload
      /\ t.left = c.left /\ (t.repeat <=> c.repeat) /\ (t.finished <=> c.finished)
      /\ t.abus = to
  BY <1>1 DEF Hdma!Channels
<1> QED BY <1>2 DEF to

\* ... through a pointer, which the first one of a block reads.
LEMMA TransferredIndirect ==
  ASSUME Hdma!TypeOK, NEW c \in Hdma!Channels, NEW a \in Nat, NEW k \in Nat, NEW p \in Nat,
         c.abus = a % TableMod, c.indirect,
         c.loaded => c.pointer = p % TableMod /\ k = a,
         ~c.loaded => p = Hdma!Low(a) /\ k = a + Hdma!PointerSize(c.unit)
  PROVE  \A t : t = Hdma!Transferred(c) =>
         /\ t \in Hdma!Channels
         /\ (t.on <=> c.on) /\ t.unit = c.unit /\ (t.indirect <=> c.indirect) /\ t.reload = c.reload
         /\ t.left = c.left /\ (t.repeat <=> c.repeat) /\ (t.finished <=> c.finished)
         /\ t.loaded /\ t.abus = k % TableMod
         /\ t.pointer = (p + c.unit) % TableMod
         /\ Hdma!Loaded(c).pointer = p % TableMod
<1> DEFINE l == Hdma!Loaded(c)
           ptr == (p + c.unit) % TableMod
<1>1. /\ l \in Hdma!Channels
      /\ (l.on <=> c.on) /\ l.unit = c.unit /\ (l.indirect <=> c.indirect) /\ l.reload = c.reload
      /\ l.left = c.left /\ (l.repeat <=> c.repeat) /\ (l.finished <=> c.finished) /\ l.loaded
      /\ c.loaded => l = c
      /\ ~c.loaded => /\ l.pointer = Hdma!Low(a) % TableMod
                      /\ l.abus = (a + Hdma!PointerSize(c.unit)) % TableMod
  <2> HIDE DEF l
  <2>1. l = Hdma!Loaded(c)
    BY DEF l
  <2> QED BY <2>1, LoadedIs
<1> HIDE DEF l
<1>2. l.pointer = p % TableMod /\ l.abus = k % TableMod
  <2>1. CASE c.loaded
    BY <1>1, <2>1
  <2>2. CASE ~c.loaded
    BY <1>1, <2>2
  <2> QED BY <2>1, <2>2
<1>3. (l.pointer + c.unit) % TableMod = ptr /\ ptr \in Hdma!Addresses
  <2> DEFINE u == c.unit
  <2>1. u \in Nat
    BY HdmaFacts DEF Hdma!Channels
  <2> HIDE DEF u
  <2>2. ((p % TableMod) + u) % TableMod = (p + u) % TableMod
        /\ (p + u) % TableMod \in Hdma!Addresses
    BY <2>1, UnitOn
  <2> QED BY <1>2, <2>2 DEF u
<1>4. Hdma!Transferred(c) = [l EXCEPT !.pointer = ptr]
  BY <1>3 DEF Hdma!Transferred, l
<1> HIDE DEF ptr
<1>5. LET t == Hdma!Transferred(c) IN
      /\ t \in Hdma!Channels
      /\ (t.on <=> l.on) /\ t.unit = l.unit /\ (t.indirect <=> l.indirect) /\ t.reload = l.reload
      /\ t.left = l.left /\ (t.repeat <=> l.repeat) /\ (t.finished <=> l.finished)
      /\ (t.loaded <=> l.loaded) /\ t.abus = l.abus /\ t.pointer = ptr
  BY <1>1, <1>3, <1>4 DEF Hdma!Channels
<1> QED BY <1>1, <1>2, <1>5 DEF ptr, l

Kept(c) == (c.on <=> v2.on) /\ c.unit = v2.unit /\ (c.indirect <=> v2.indirect) /\ c.reload = v2.reload

\* The first line of the block at b.
LEMMA BlockBegins ==
  ASSUME Hdma!TypeOK, v2.on, ~v2.finished, v2.left = 0, NEW b \in Nat, v2.abus = b % TableMod
  PROVE  LET step == Hdma!ChannelLine IN
         /\ step.channel \in Hdma!Channels /\ Kept(step.channel)
         /\ Hdma!Within(step.channel, b, 0) /\ step.from = Hdma!From(b, 0)
<1> DEFINE h == Hdma!Header(v2)
           u == v2.unit
           n == Hdma!LinesAt(b, u)
           data == b + Hdma!HeaderSize(u)
           to == data + Hdma!PointerSize(u)
           t == Hdma!Transferred(h)
           ptr == Hdma!Low(data)
<1>0. v2 \in Hdma!Channels /\ u \in {1, 2, 4} /\ u \in Nat
  BY HdmaFacts DEF Hdma!TypeOK, Hdma!Channels
<1>1. n \in Nat /\ data \in Nat /\ to \in Nat /\ ptr \in Nat
  <2>1. data \in Nat
    BY <1>0, TableAround
  <2> HIDE DEF data
  <2> QED BY <1>0, <2>1, TableAround
<1>2. /\ h \in Hdma!Channels
      /\ (h.on <=> v2.on) /\ h.unit = u /\ (h.indirect <=> v2.indirect) /\ h.reload = v2.reload
      /\ h.abus = data % TableMod
      /\ (h.repeat <=> Hdma!RepeatAt(b, u)) /\ (h.finished <=> n = 0)
      /\ h.left = (IF n = 0 THEN 0 ELSE n - 1) /\ (n # 0 => ~h.loaded)
  <2> HIDE DEF h, n
  <2>1. h = Hdma!Header(v2) /\ n = Hdma!LinesAt(b, v2.unit)
    BY DEF h, n
  <2>2. h \in Hdma!Channels
    BY <1>0, <2>1, HeaderIs
  <2>3. (h.on <=> v2.on) /\ h.unit = v2.unit /\ (h.indirect <=> v2.indirect) /\ h.reload = v2.reload
    BY <1>0, <2>1, HeaderIs
  <2>4. h.abus = data % TableMod
    BY <1>0, <2>1, HeaderIs
  <2>5. (h.repeat <=> Hdma!RepeatAt(b, u)) /\ (h.finished <=> n = 0)
    BY <1>0, <2>1, HeaderIs
  <2>6. h.left = (IF n = 0 THEN 0 ELSE n - 1) /\ (n # 0 => ~h.loaded)
    BY <1>0, <2>1, HeaderIs
  <2> QED BY <1>0, <2>1, <2>2, <2>3, <2>4, <2>5, <2>6
<1> HIDE DEF h
<1>3. CASE n = 0
  <2>1. h.finished
    BY <1>2, <1>3
  <2>2. Hdma!ChannelLine = [channel |-> h, from |-> Hdma!Nowhere]
    BY <2>1 DEF Hdma!ChannelLine, h
  <2>3. Hdma!From(b, 0) = Hdma!Nowhere
    BY <1>3 DEF Hdma!From
  <2>4. Hdma!Within(h, b, 0)
    BY <1>2, <1>3 DEF Hdma!Within
  <2> QED BY <1>2, <2>2, <2>3, <2>4 DEF Kept
<1>4. CASE n # 0
  <2>1. ~h.finished
    BY <1>2, <1>4
  <2>2. Hdma!ChannelLine = [channel |-> t, from |-> IF h.indirect THEN Hdma!Loaded(h).pointer
                                                     ELSE h.abus]
    BY <2>1 DEF Hdma!ChannelLine, h
  <2>3. CASE v2.indirect
    <3>1. /\ t \in Hdma!Channels
          /\ (t.on <=> h.on) /\ t.unit = h.unit /\ (t.indirect <=> h.indirect) /\ t.reload = h.reload
          /\ t.left = h.left /\ (t.repeat <=> h.repeat) /\ (t.finished <=> h.finished)
          /\ t.loaded /\ t.abus = to % TableMod
          /\ t.pointer = (ptr + u) % TableMod /\ Hdma!Loaded(h).pointer = ptr % TableMod
      <4>1. h.indirect /\ ~h.loaded /\ h.unit = u
        BY <1>2, <1>4, <2>3
      <4> HIDE DEF t, data, ptr, n, u
      <4>2. to = data + Hdma!PointerSize(h.unit) /\ ptr = Hdma!Low(data)
        BY <4>1 DEF ptr
      <4>3. t = Hdma!Transferred(h) /\ h \in Hdma!Channels /\ h.abus = data % TableMod
        BY <1>2 DEF t
      <4> HIDE DEF to
      <4> QED BY <1>1, <4>1, <4>2, <4>3, TransferredIndirect
    <3>2. ptr + 0 * u = ptr /\ ptr + (0 + 1) * u = ptr + u /\ ptr + 1 * u = ptr + u
      <4> HIDE DEF ptr, u
      <4> QED BY <1>0, <1>1
    <3> HIDE DEF ptr, t, u, n, to, data
    <3>3. Hdma!From(b, 0) = ptr % TableMod
      BY <1>4, <2>3, <3>2 DEF Hdma!From, ptr, u, n, data
    <3>4. Hdma!Within(t, b, 0)
      <4>1. t.left + 0 + 1 = n
        BY <1>1, <1>2, <1>4, <3>1
      <4> QED BY <1>2, <1>4, <2>3, <3>1, <3>2, <4>1 DEF Hdma!Within, ptr, n, to, data
    <3> QED BY <1>2, <2>2, <2>3, <3>1, <3>3, <3>4 DEF Kept, u
  <2>4. CASE ~v2.indirect
    <3>1. /\ t \in Hdma!Channels
          /\ (t.on <=> h.on) /\ t.unit = h.unit /\ (t.indirect <=> h.indirect) /\ t.reload = h.reload
          /\ t.left = h.left /\ (t.repeat <=> h.repeat) /\ (t.finished <=> h.finished)
          /\ t.abus = (data + u) % TableMod
      <4> HIDE DEF t, data, u
      <4>1. t = Hdma!Transferred(h) /\ h \in Hdma!Channels /\ h.abus = data % TableMod
            /\ ~h.indirect /\ h.unit = u
        BY <1>2, <2>4 DEF t
      <4> QED BY <1>1, <4>1, TransferredDirect
    <3>2. data + 0 * u = data /\ data + (0 + 1) * u = data + u /\ data + 1 * u = data + u
      <4> HIDE DEF data, u
      <4> QED BY <1>0, <1>1
    <3> HIDE DEF ptr, t, u, n, to, data
    <3>3. Hdma!From(b, 0) = data % TableMod
      BY <1>4, <2>4, <3>2 DEF Hdma!From, u, n, data
    <3>4. Hdma!Within(t, b, 0)
      <4>1. t.left + 0 + 1 = n
        BY <1>1, <1>2, <1>4, <3>1
      <4> QED BY <1>2, <1>4, <2>4, <3>1, <3>2, <4>1 DEF Hdma!Within, n, data
    <3> QED BY <1>2, <2>2, <2>4, <3>1, <3>3, <3>4 DEF Kept, u
  <2> QED BY <2>3, <2>4
<1> QED BY <1>3, <1>4

\* A line in the middle of a block.
LEMMA BlockGoesOn ==
  ASSUME Hdma!TypeOK, v2.on, NEW b \in Nat, NEW nth \in Nat, Hdma!Within(v2, b, nth),
         nth + 1 < Hdma!LinesAt(b, v2.unit)
  PROVE  LET step == Hdma!ChannelLine IN
         /\ step.channel \in Hdma!Channels /\ Kept(step.channel)
         /\ Hdma!Within(step.channel, b, nth + 1) /\ step.from = Hdma!From(b, nth + 1)
<1> DEFINE u == v2.unit
           n == Hdma!LinesAt(b, u)
           data == b + Hdma!HeaderSize(u)
           to == data + Hdma!PointerSize(u)
           base == IF v2.indirect THEN Hdma!Low(data) ELSE data
           p == base + (nth + 1) * u
           rest == v2.left - 1
           c == [v2 EXCEPT !.left = @ - 1]
           t == Hdma!Transferred(c)
<1>0. v2 \in Hdma!Channels /\ u \in {1, 2, 4} /\ u \in Nat
  BY HdmaFacts DEF Hdma!TypeOK, Hdma!Channels
<1>1. n \in Nat /\ data \in Nat /\ to \in Nat /\ base \in Nat
  <2>1. data \in Nat
    BY <1>0, TableAround
  <2> HIDE DEF data
  <2> QED BY <1>0, <2>1, TableAround
<1>2. p \in Nat /\ p + u = base + ((nth + 1) + 1) * u /\ p = base + (nth + 1) * u
  <2> HIDE DEF base, u
  <2> QED BY <1>0, <1>1
<1>3. /\ n > 0 /\ ~v2.finished /\ v2.left + nth + 1 = n
      /\ (v2.repeat <=> Hdma!RepeatAt(b, u))
      /\ v2.indirect =>
           /\ v2.loaded /\ v2.abus = to % TableMod
           /\ v2.pointer = (base + (IF v2.repeat THEN nth + 1 ELSE 1) * u) % TableMod
      /\ ~v2.indirect => v2.abus = (base + (IF v2.repeat THEN nth + 1 ELSE 1) * u) % TableMod
  <2>1. n > 0
    BY <1>1
  <2> HIDE DEF data, n, to
  <2> QED BY <2>1 DEF Hdma!Within, data, n, to
<1>4. v2.left # 0 /\ rest \in Nat /\ rest + (nth + 1) + 1 = n
  <2>1. v2.left \in Nat
    BY <1>0 DEF Hdma!Channels
  <2> HIDE DEF n
  <2> QED BY <1>1, <1>3, <2>1 DEF n
<1>5. c = [v2 EXCEPT !.left = rest]
  OBVIOUS
<1> HIDE DEF c, rest
<1>6. /\ c \in Hdma!Channels /\ c.left = rest
      /\ (c.on <=> v2.on) /\ c.unit = u /\ (c.indirect <=> v2.indirect) /\ c.reload = v2.reload
      /\ c.abus = v2.abus /\ (c.repeat <=> v2.repeat) /\ (c.finished <=> v2.finished)
      /\ (c.loaded <=> v2.loaded) /\ c.pointer = v2.pointer
  BY <1>0, <1>4, <1>5 DEF Hdma!Channels
<1>7. CASE ~v2.repeat
  <2>1. Hdma!ChannelLine = [channel |-> c, from |-> Hdma!Nowhere]
    BY <1>3, <1>4, <1>7 DEF Hdma!ChannelLine, c
  <2>2. Hdma!From(b, nth + 1) = Hdma!Nowhere
    BY <1>3, <1>7 DEF Hdma!From
  <2>3. Hdma!Within(c, b, nth + 1)
    <3> HIDE DEF u, n, data, to, p
    <3>1. n = Hdma!LinesAt(b, c.unit) /\ data = b + Hdma!HeaderSize(c.unit)
          /\ to = data + Hdma!PointerSize(c.unit) /\ ~Hdma!RepeatAt(b, c.unit)
          /\ base = IF v2.indirect THEN Hdma!Low(data) ELSE data
      BY <1>3, <1>6, <1>7 DEF n, data, to
    <3> HIDE DEF base
    <3>2. ~c.finished /\ n > 0 /\ c.left + (nth + 1) + 1 = n
      BY <1>3, <1>4, <1>6
    <3> QED BY <1>3, <1>6, <1>7, <3>1, <3>2 DEF Hdma!Within
  <2> QED BY <1>6, <2>1, <2>2, <2>3 DEF Kept
<1>8. CASE v2.repeat
  <2>1. Hdma!ChannelLine = [channel |-> t, from |-> IF c.indirect THEN Hdma!Loaded(c).pointer
                                                     ELSE c.abus]
    BY <1>3, <1>4, <1>6, <1>8 DEF Hdma!ChannelLine, c
  <2>2. Hdma!From(b, nth + 1) = p % TableMod
    <3>1. ~(n = 0 \/ (nth + 1 > 0 /\ ~Hdma!RepeatAt(b, u)))
      BY <1>1, <1>3, <1>8
    <3> QED BY <3>1 DEF Hdma!From
  <2>3. CASE v2.indirect
    <3>1. /\ t \in Hdma!Channels
          /\ (t.on <=> c.on) /\ t.unit = c.unit /\ (t.indirect <=> c.indirect)
          /\ t.reload = c.reload
          /\ t.left = c.left /\ (t.repeat <=> c.repeat) /\ (t.finished <=> c.finished)
          /\ t.loaded /\ t.abus = to % TableMod
          /\ t.pointer = (p + u) % TableMod /\ Hdma!Loaded(c).pointer = p % TableMod
      <4> HIDE DEF t, base, to, u
      <4>1. /\ c.indirect /\ c.loaded /\ c.unit = u /\ c.abus = to % TableMod
            /\ c.pointer = p % TableMod
        BY <1>3, <1>6, <1>8, <2>3
      <4> HIDE DEF p
      <4>2. t = Hdma!Transferred(c) /\ c \in Hdma!Channels
        BY <1>6 DEF t
      <4> QED BY <1>1, <1>2, <4>1, <4>2, TransferredIndirect
    <3>2. Hdma!Within(t, b, nth + 1)
      <4> HIDE DEF u, n, data, to, p, t, base
      <4>1. n = Hdma!LinesAt(b, t.unit) /\ data = b + Hdma!HeaderSize(t.unit)
            /\ to = data + Hdma!PointerSize(t.unit) /\ Hdma!RepeatAt(b, t.unit)
            /\ base = Hdma!Low(data) /\ t.unit = u
        BY <1>3, <1>6, <1>8, <2>3, <3>1 DEF n, data, to, base
      <4>2. ~t.finished /\ n > 0 /\ t.left + (nth + 1) + 1 = n
        BY <1>3, <1>4, <1>6, <3>1
      <4>3. t.repeat /\ t.indirect
        BY <1>6, <1>8, <2>3, <3>1
      <4>4. t.pointer = (base + ((nth + 1) + 1) * u) % TableMod
        BY <1>2, <3>1
      <4> QED BY <3>1, <4>1, <4>2, <4>3, <4>4 DEF Hdma!Within
    <3> QED BY <1>6, <2>1, <2>2, <2>3, <3>1, <3>2 DEF Kept, u
  <2>4. CASE ~v2.indirect
    <3>1. /\ t \in Hdma!Channels
          /\ (t.on <=> c.on) /\ t.unit = c.unit /\ (t.indirect <=> c.indirect)
          /\ t.reload = c.reload
          /\ t.left = c.left /\ (t.repeat <=> c.repeat) /\ (t.finished <=> c.finished)
          /\ t.abus = (p + u) % TableMod /\ c.abus = p % TableMod
      <4> HIDE DEF t, base, u
      <4>1. /\ ~c.indirect /\ c.unit = u /\ c.abus = p % TableMod
        BY <1>3, <1>6, <1>8, <2>4
      <4> HIDE DEF p
      <4>2. t = Hdma!Transferred(c) /\ c \in Hdma!Channels
        BY <1>6 DEF t
      <4> QED BY <1>2, <4>1, <4>2, TransferredDirect
    <3>2. Hdma!Within(t, b, nth + 1)
      <4> HIDE DEF u, n, data, to, p, t, base
      <4>1. n = Hdma!LinesAt(b, t.unit) /\ data = b + Hdma!HeaderSize(t.unit)
            /\ Hdma!RepeatAt(b, t.unit) /\ base = data /\ t.unit = u
        BY <1>3, <1>6, <1>8, <2>4, <3>1 DEF n, data, base
      <4>2. ~t.finished /\ n > 0 /\ t.left + (nth + 1) + 1 = n
        BY <1>3, <1>4, <1>6, <3>1
      <4>3. t.repeat /\ ~t.indirect
        BY <1>6, <1>8, <2>4, <3>1
      <4>4. t.abus = (base + ((nth + 1) + 1) * u) % TableMod
        BY <1>2, <3>1
      <4> QED BY <4>1, <4>2, <4>3, <4>4 DEF Hdma!Within
    <3> QED BY <1>6, <2>1, <2>2, <2>4, <3>1, <3>2 DEF Kept, u
  <2> QED BY <2>3, <2>4
<1> QED BY <1>7, <1>8

\* The end of a block is where the next begins.
LEMMA BlockEnds ==
  ASSUME Hdma!TypeOK, NEW b \in Nat, NEW nth \in Nat, Hdma!Within(v2, b, nth),
         Hdma!LinesAt(b, v2.unit) = nth + 1
  PROVE  /\ ~v2.finished /\ v2.left = 0
         /\ b + Hdma!BlockSize(b) \in Nat /\ v2.abus = (b + Hdma!BlockSize(b)) % TableMod
<1> DEFINE u == v2.unit
           n == Hdma!LinesAt(b, u)
           size == Hdma!HeaderSize(u)
           data == b + size
           more == Hdma!PointerSize(u)
<1>0. v2 \in Hdma!Channels /\ v2.left \in Nat /\ u \in {1, 2, 4} /\ u \in Nat
  BY HdmaFacts DEF Hdma!TypeOK, Hdma!Channels
<1>1. n = nth + 1 /\ n > 0 /\ size \in Nat /\ more \in Nat
  BY <1>0, TableAround
<1>2. ~v2.finished /\ v2.left + nth + 1 = n
  BY <1>1 DEF Hdma!Within
<1>3. v2.left = 0
  <2> HIDE DEF n
  <2> QED BY <1>0, <1>1, <1>2
<1>4. CASE v2.indirect
  <2>1. v2.abus = (data + more) % TableMod
    BY <1>1, <1>4 DEF Hdma!Within
  <2>2. Hdma!BlockSize(b) = size + more
    BY <1>4 DEF Hdma!BlockSize
  <2> HIDE DEF size, more
  <2>3. b + (size + more) = data + more /\ data + more \in Nat
    BY <1>1
  <2> QED BY <1>2, <1>3, <2>1, <2>2, <2>3
<1>5. CASE ~v2.indirect /\ Hdma!RepeatAt(b, u)
  <2>1. v2.abus = (data + (nth + 1) * u) % TableMod
    BY <1>1, <1>5 DEF Hdma!Within
  <2>2. Hdma!BlockSize(b) = size + u * n
    BY <1>5 DEF Hdma!BlockSize
  <2> HIDE DEF size, u, n
  <2>3. n \in Nat /\ (nth + 1) * u = u * n /\ u * n \in Nat
    BY <1>0, <1>1
  <2>4. b + (size + u * n) = data + u * n /\ data + u * n \in Nat
    <3> DEFINE z == u * n
    <3> HIDE DEF z
    <3>1. b + (size + z) = data + z /\ data + z \in Nat
      BY <1>1, <2>3 DEF z
    <3> QED BY <3>1 DEF z
  <2> QED BY <1>2, <1>3, <2>1, <2>2, <2>3, <2>4
<1>6. CASE ~v2.indirect /\ ~Hdma!RepeatAt(b, u)
  <2>1. v2.abus = (data + 1 * u) % TableMod
    BY <1>1, <1>6 DEF Hdma!Within
  <2>2. Hdma!BlockSize(b) = size + u
    BY <1>6 DEF Hdma!BlockSize
  <2> HIDE DEF size, u
  <2>3. b + (size + u) = data + 1 * u /\ data + 1 * u \in Nat
    BY <1>0, <1>1
  <2> QED BY <1>2, <1>3, <2>1, <2>2, <2>3
<1> QED
  BY <1>4, <1>5, <1>6

\* After the table's end nothing happens.
LEMMA TableEnds ==
  ASSUME Hdma!TypeOK, v2.on, NEW b \in Nat, NEW nth \in Nat, Hdma!Within(v2, b, nth),
         Hdma!LinesAt(b, v2.unit) = 0
  PROVE  LET step == Hdma!ChannelLine IN
         /\ step.channel \in Hdma!Channels /\ Kept(step.channel)
         /\ Hdma!Within(step.channel, b, nth) /\ step.from = Hdma!From(b, nth)
<1>1. v2.finished
  BY DEF Hdma!Within
<1>2. Hdma!ChannelLine = [channel |-> v2, from |-> Hdma!Nowhere]
  BY <1>1 DEF Hdma!ChannelLine
<1>3. Hdma!From(b, nth) = Hdma!Nowhere
  BY DEF Hdma!From
<1> QED
  BY <1>2, <1>3 DEF Kept, Hdma!TypeOK

Places == [block : Nat, nth : Nat]

\* The place of the line after p's.
NextPlace(p) ==
  LET n == Hdma!LinesAt(p.block, v2.unit) IN
  CASE n = 0 -> p
    [] p.nth + 1 < n -> [p EXCEPT !.nth = @ + 1]
    [] OTHER -> [block |-> p.block + Hdma!BlockSize(p.block), nth |-> 0]

LEMMA NextIs ==
  ASSUME Hdma!TypeOK, NEW p \in Places
  PROVE  /\ NextPlace(p) \in Places
         /\ Hdma!LinesAt(p.block, v2.unit) = 0 => NextPlace(p) = p
         /\ p.nth + 1 < Hdma!LinesAt(p.block, v2.unit) =>
              NextPlace(p).block = p.block /\ NextPlace(p).nth = p.nth + 1
         /\ Hdma!LinesAt(p.block, v2.unit) # 0 /\ ~(p.nth + 1 < Hdma!LinesAt(p.block, v2.unit)) =>
              /\ NextPlace(p).block = p.block + Hdma!BlockSize(p.block) /\ NextPlace(p).nth = 0
<1> DEFINE n == Hdma!LinesAt(p.block, v2.unit)
           b == p.block
           j == p.nth
           size == Hdma!BlockSize(p.block)
<1>1. b \in Nat /\ j \in Nat
  BY DEF Places
<1>2. v2.unit \in {1, 2, 4}
  BY HdmaFacts DEF Hdma!TypeOK, Hdma!Channels
<1>3. n \in Nat
  BY <1>1, <1>2, TableAround
<1>4. size \in Nat
  <2>1. Hdma!HeaderSize(v2.unit) \in Nat /\ Hdma!PointerSize(v2.unit) \in Nat /\ v2.unit \in Nat
    BY <1>1, <1>2, TableAround
  <2>2. v2.unit * n \in Nat
    <3> HIDE DEF n
    <3> QED BY <1>3, <2>1
  <2> QED BY <2>1, <2>2 DEF Hdma!BlockSize
<1>5. CASE n = 0
  BY <1>1, <1>5 DEF NextPlace
<1>6. CASE n # 0 /\ j + 1 < n
  <2>1. NextPlace(p) = [p EXCEPT !.nth = j + 1]
    BY <1>6 DEF NextPlace
  <2> DEFINE m == j + 1
  <2>2. m \in Nat
    BY <1>1
  <2> HIDE DEF m
  <2>3. [p EXCEPT !.nth = m] \in Places /\ [p EXCEPT !.nth = m].nth = m
        /\ [p EXCEPT !.nth = m].block = p.block
    BY <2>2 DEF Places
  <2> QED BY <1>6, <2>1, <2>3 DEF m
<1>7. CASE n # 0 /\ ~(j + 1 < n)
  <2>1. NextPlace(p) = [block |-> b + size, nth |-> 0]
    BY <1>7 DEF NextPlace
  <2> HIDE DEF size, n
  <2>2. [block |-> b + size, nth |-> 0] \in Places
    BY <1>1, <1>4 DEF Places
  <2> QED BY <1>7, <2>1, <2>2 DEF n, size
<1> QED
  BY <1>5, <1>6, <1>7

PlacesFollow ==
  /\ Hdma!Place[0] = [block |-> v2.reload, nth |-> 0]
  /\ \A k \in 0..(Lines - 1) : Hdma!Place[k] \in Places
  /\ \A k \in 0..(Lines - 1) : k + 1 \in 0..(Lines - 1) =>
       Hdma!Place[k + 1] = NextPlace(Hdma!Place[k])

LEMMA PlacesDo == Hdma!TypeOK => PlacesFollow
<1> SUFFICES ASSUME Hdma!TypeOK PROVE PlacesFollow
  OBVIOUS
<1> DEFINE Steps(f) == f = [k \in 0..(Lines - 1) |->
             IF k = 0 THEN [block |-> v2.reload, nth |-> 0]
             ELSE LET p == f[k - 1]
                      n == Hdma!LinesAt(p.block, v2.unit)
                  IN CASE n = 0 -> p
                       [] p.nth + 1 < n -> [p EXCEPT !.nth = @ + 1]
                       [] OTHER -> [block |-> p.block + Hdma!BlockSize(p.block), nth |-> 0]]
           g == CHOOSE f : Steps(f)
<1>0. PICK n \in Nat : n = Lines - 1
  BY HdmaFacts
<1>1. PICK s \in Places : s = [block |-> v2.reload, nth |-> 0]
  <2>1. v2.reload \in Nat
    BY HdmaFacts DEF Hdma!TypeOK, Hdma!Channels, Hdma!Addresses
  <2> QED BY <2>1 DEF Places
<1>2. PICK T \in [1..n -> [Places -> Places]] : \A k \in 1..n, p \in Places : T[k][p] = NextPlace(p)
  <2> DEFINE U == [k \in 1..n |-> [p \in Places |-> NextPlace(p)]]
  <2>1. \A p \in Places : NextPlace(p) \in Places
    BY NextIs
  <2>2. U \in [1..n -> [Places -> Places]]
    BY <2>1
  <2>3. \A k \in 1..n, p \in Places : U[k][p] = NextPlace(p)
    OBVIOUS
  <2> HIDE DEF U
  <2> QED BY <2>2, <2>3
<1>3. PICK h \in [0..n -> Places] : h[0] = s /\ \A k \in 1..n : h[k] = T[k][h[k - 1]]
  <2> HIDE DEF Steps, g
  <2> DEFINE X == Places
  <2>1. PICK m \in Nat : m = n
    OBVIOUS
  <2>2. s \in X /\ T \in [1..m -> [X -> X]]
    BY <2>1
  <2> HIDE DEF X
  <2>3. \E h \in [0..m -> X] : h[0] = s /\ \A k \in 1..m : h[k] = T[k][h[k - 1]]
    BY ONLY <2>1, <2>2, Iterated
  <2> QED BY <2>1, <2>3 DEF X
<1>4. Steps(h)
  <2>1. ASSUME NEW k \in 0..n
        PROVE  h[k] = IF k = 0 THEN s ELSE NextPlace(h[k - 1])
    <3>1. CASE k = 0
      BY <1>3, <3>1
    <3>2. CASE k # 0
      <4>1. k \in 1..n /\ k - 1 \in 0..n
        BY <3>2
      <4>2. h[k - 1] \in Places
        BY <4>1
      <4>3. h[k] = T[k][h[k - 1]]
        BY <1>3, <4>1
      <4> QED BY <1>2, <3>2, <4>1, <4>2, <4>3
    <3> QED BY <3>1, <3>2
  <2>2. h = [k \in 0..n |-> IF k = 0 THEN s ELSE NextPlace(h[k - 1])]
    BY <2>1
  <2> QED BY <1>0, <1>1, <2>2 DEF NextPlace
<1>5. Steps(g)
  <2> HIDE DEF Steps
  <2> QED BY <1>4
<1>6. Hdma!Place = g
  BY DEF Hdma!Place
<1> HIDE DEF g
<1>7. g = [k \in 0..n |-> IF k = 0 THEN s ELSE NextPlace(g[k - 1])]
  BY <1>0, <1>1, <1>5 DEF NextPlace
<1>8. g[0] = s /\ \A k \in 0..n : k + 1 \in 0..n => g[k + 1] = NextPlace(g[k])
  <2>1. 0 \in 0..n
    OBVIOUS
  <2>2. ASSUME NEW k \in 0..n, k + 1 \in 0..n PROVE g[k + 1] = NextPlace(g[k])
    <3>1. k + 1 # 0 /\ (k + 1) - 1 = k
      OBVIOUS
    <3> QED BY <1>7, <2>2, <3>1
  <2>3. g[0] = s
    BY <1>7, <2>1
  <2> QED BY <2>2, <2>3
<1>9. \A k \in 0..n : g[k] \in Places
  <2> DEFINE B == {k \in 0..n : g[k] \in Places}
  <2>1. 0 \in B
    BY <1>8
  <2>2. \A k \in 0..(n - 1) : k \in B => k + 1 \in B
    <3>1. ASSUME NEW k \in 0..(n - 1), k \in B PROVE k + 1 \in B
      <4>1. k \in 0..n /\ k + 1 \in 0..n
        OBVIOUS
      <4>2. g[k + 1] = NextPlace(g[k]) /\ g[k] \in Places
        BY <1>8, <3>1, <4>1
      <4> QED BY <4>1, <4>2, NextIs
    <3> QED BY <3>1
  <2> HIDE DEF B
  <2>3. \A k \in 0..n : k \in B
    BY <2>1, <2>2, UpTo
  <2> QED BY <2>3 DEF B
<1> QED
  BY <1>0, <1>1, <1>6, <1>8, <1>9 DEF PlacesFollow

LEMMA PlacesDoNext == Hdma!TypeOK' => PlacesFollow'
  BY PlacesDo, PTL

LEMMA HdmaInit == ASSUME Hdma!Init PROVE Hdma!TypeOK /\ Hdma!TableInv
<1>1. 0 \in Hdma!Addresses /\ 0 \in 0..(Lines - 1) /\ Hdma!Nowhere \in 0..TableMod
  BY HdmaFacts DEF Hdma!Addresses, Hdma!Nowhere
<1>2. Hdma!TypeOK
  BY <1>1 DEF Hdma!Init, Hdma!TypeOK, Hdma!Channels
<1> QED
  BY <1>2 DEF Hdma!Init, Hdma!TableInv

\* A line of the table, from any state: what hdma_channel_line leaves is a
\* channel with the same settings.
LEMMA LineKeeps ==
  ASSUME Hdma!TypeOK
  PROVE  LET step == Hdma!ChannelLine IN
         step.channel \in Hdma!Channels /\ Kept(step.channel) /\ step.from \in 0..TableMod
<1> DEFINE first == v2.left = 0
           h == Hdma!Header(v2)
           d == [v2 EXCEPT !.left = @ - 1]
           c == IF first THEN h ELSE d
           t == Hdma!Transferred(c)
           l == Hdma!Loaded(c)
           moves == ~c.finished /\ (first \/ v2.repeat)
<1>1. v2 \in Hdma!Channels /\ v2.left \in Nat /\ v2.abus \in Nat /\ v2.unit \in Nat
  BY HdmaFacts DEF Hdma!TypeOK, Hdma!Channels, Hdma!Addresses
<1>a. ASSUME NEW x \in Hdma!Channels
      PROVE  x.abus \in Nat /\ x.abus = x.abus % TableMod /\ x.pointer \in Nat
             /\ x.pointer = x.pointer % TableMod
  <2> DEFINE a == x.abus
             p == x.pointer
  <2>1. a \in 0..(TableMod - 1) /\ p \in 0..(TableMod - 1)
    BY DEF Hdma!Channels, Hdma!Addresses
  <2> HIDE DEF a, p
  <2>2. a % TableMod = a /\ p % TableMod = p
    BY <2>1, HdmaFacts, ModSmall
  <2> QED BY <2>1, <2>2, HdmaFacts DEF a, p
<1>2. c \in Hdma!Channels /\ Kept(c)
  <2>1. CASE first
    <3> DEFINE n == Hdma!LinesAt(v2.abus, v2.unit)
    <3>1. h = Hdma!Header(v2) /\ v2.abus = v2.abus % TableMod
      BY <1>1, <1>a
    <3> HIDE DEF h
    <3>2. \E b \in Nat : b = v2.abus
      BY <1>1
    <3>3. PICK b \in Nat : v2.abus = b % TableMod
      BY <3>1, <3>2
    <3>4. h \in Hdma!Channels
      BY <1>1, <3>1, <3>3, HeaderIs
    <3>5. (h.on <=> v2.on) /\ h.unit = v2.unit /\ (h.indirect <=> v2.indirect)
          /\ h.reload = v2.reload
      BY <1>1, <3>1, <3>3, HeaderIs
    <3>6. Kept(h)
      BY <1>1, <3>4, <3>5 DEF Kept, Hdma!Channels
    <3> QED BY <2>1, <3>4, <3>6
  <2>2. CASE ~first
    <3> DEFINE rest == v2.left - 1
    <3>1. rest \in Nat /\ d = [v2 EXCEPT !.left = rest]
      BY <1>1, <2>2
    <3> HIDE DEF rest, d
    <3>2. d \in Hdma!Channels /\ Kept(d)
      BY <1>1, <3>1 DEF Hdma!Channels, Kept
    <3> QED BY <2>2, <3>2
  <2> QED BY <2>1, <2>2
<1> HIDE DEF c
<1>3. t \in Hdma!Channels /\ Kept(t)
  <2> HIDE DEF t
  <2>0. t = Hdma!Transferred(c) /\ c \in Hdma!Channels
    BY <1>2 DEF t
  <2>a. ASSUME t \in Hdma!Channels, (t.on <=> c.on), t.unit = c.unit,
               (t.indirect <=> c.indirect), t.reload = c.reload
        PROVE  t \in Hdma!Channels /\ Kept(t)
    BY <1>1, <1>2, <2>a DEF Kept, Hdma!Channels
  <2>1. PICK a \in Nat : c.abus = a % TableMod
    BY <1>2, <1>a
  <2>2. CASE ~c.indirect
    <3>1. t \in Hdma!Channels
      BY <2>0, <2>1, <2>2, TransferredDirect
    <3>2. (t.on <=> c.on) /\ t.unit = c.unit /\ (t.indirect <=> c.indirect)
          /\ t.reload = c.reload
      BY <2>0, <2>1, <2>2, TransferredDirect
    <3> QED BY <2>a, <3>1, <3>2
  <2>3. CASE c.indirect
    <3>1. PICK p \in Nat, k \in Nat :
            /\ c.loaded => c.pointer = p % TableMod /\ k = a
            /\ ~c.loaded => p = Hdma!Low(a) /\ k = a + Hdma!PointerSize(c.unit)
      <4>1. CASE c.loaded
        BY <1>2, <1>a, <4>1
      <4>2. CASE ~c.loaded
        <5>1. c.unit \in {1, 2, 4}
          BY <1>2, HdmaFacts DEF Hdma!Channels
        <5>2. Hdma!Low(a) \in Nat /\ a + Hdma!PointerSize(c.unit) \in Nat
          BY <5>1, TableAround
        <5> QED BY <4>2, <5>2
      <4> QED BY <4>1, <4>2
    <3>2. t \in Hdma!Channels
      BY <2>0, <2>1, <2>3, <3>1, TransferredIndirect
    <3>3. (t.on <=> c.on) /\ t.unit = c.unit /\ (t.indirect <=> c.indirect)
          /\ t.reload = c.reload
      BY <2>0, <2>1, <2>3, <3>1, TransferredIndirect
    <3> QED BY <2>a, <3>2, <3>3
  <2> QED BY <2>2, <2>3
<1>4. l \in Hdma!Channels
  <2> HIDE DEF l
  <2>0. l = Hdma!Loaded(c) /\ c \in Hdma!Channels
    BY <1>2 DEF l
  <2>1. PICK a \in Nat : c.abus = a % TableMod
    BY <1>2, <1>a
  <2> QED BY <2>0, <2>1, LoadedIs
<1>5. c.abus \in 0..TableMod /\ l.pointer \in 0..TableMod /\ Hdma!Nowhere \in 0..TableMod
      /\ v2 \in Hdma!Channels /\ Kept(v2)
  <2>1. \A a \in Hdma!Addresses : a \in 0..TableMod
    BY HdmaFacts DEF Hdma!Addresses
  <2>2. c.abus \in Hdma!Addresses /\ l.pointer \in Hdma!Addresses
    BY <1>2, <1>4 DEF Hdma!Channels
  <2>3. Hdma!Nowhere \in 0..TableMod
    BY HdmaFacts DEF Hdma!Nowhere
  <2> QED BY <1>1, <2>1, <2>2, <2>3 DEF Kept
<1>6. Hdma!ChannelLine =
        IF ~v2.on \/ v2.finished THEN [channel |-> v2, from |-> Hdma!Nowhere]
        ELSE IF ~moves THEN [channel |-> c, from |-> Hdma!Nowhere]
        ELSE [channel |-> t, from |-> IF c.indirect THEN l.pointer ELSE c.abus]
  BY DEF Hdma!ChannelLine, c
<1> HIDE DEF t, l
<1> QED
  BY <1>2, <1>3, <1>5, <1>6

\* The next line of a quiet frame.
LEMMA QuietLine ==
  ASSUME Hdma!TypeOK, Hdma!TableInv, v4.quiet, v2.on, v3 + 1 < Lines
  PROVE  LET step == Hdma!ChannelLine
             p == Hdma!Place[v3] IN
         step.from = Hdma!From(p.block, p.nth) /\ Hdma!Within(step.channel, p.block, p.nth)
<1> DEFINE step == Hdma!ChannelLine
           p == Hdma!Place[v3]
<1>1. v3 \in 0..(Lines - 1) /\ v3 \in Nat /\ Lines \in Nat \ {0}
  BY HdmaFacts DEF Hdma!TypeOK
<1>2. PlacesFollow /\ p \in Places
  <2>1. PlacesFollow
    BY PlacesDo
  <2> QED BY <1>1, <2>1 DEF PlacesFollow
<1>3. CASE v3 = 0
  <2>1. v2.reload \in Hdma!Addresses /\ v2.abus = v2.reload /\ v2.left = 0 /\ ~v2.finished
    BY <1>3 DEF Hdma!TypeOK, Hdma!Channels, Hdma!TableInv
  <2>2. PICK b \in Nat : b = v2.reload /\ v2.abus = b % TableMod
    <3> DEFINE a == v2.reload
    <3>1. a \in 0..(TableMod - 1)
      BY <2>1 DEF Hdma!Addresses
    <3> HIDE DEF a
    <3>2. a % TableMod = a /\ a \in Nat
      BY <3>1, HdmaFacts, ModSmall
    <3> QED BY <2>1, <3>2 DEF a
  <2>3. Hdma!Within(step.channel, b, 0) /\ step.from = Hdma!From(b, 0)
    BY <2>1, <2>2, BlockBegins
  <2>4. p.block = b /\ p.nth = 0
    BY <1>2, <1>3, <2>2 DEF PlacesFollow
  <2> QED BY <2>3, <2>4
<1>4. CASE v3 > 0
  <2> DEFINE q == Hdma!Place[v3 - 1]
             n == Hdma!LinesAt(q.block, v2.unit)
  <2>1. v3 - 1 \in 0..(Lines - 1) /\ (v3 - 1) + 1 = v3
    BY <1>1, <1>4
  <2>2. q \in Places /\ p = NextPlace(q)
    BY <1>1, <1>2, <2>1 DEF PlacesFollow
  <2>3. Hdma!Within(v2, q.block, q.nth)
    BY <1>4 DEF Hdma!TableInv
  <2> HIDE DEF q, p
  <2>4. q.block \in Nat /\ q.nth \in Nat
    BY <2>2 DEF Places
  <2>5. n \in Nat
    <3>1. v2.unit \in {1, 2, 4}
      BY HdmaFacts DEF Hdma!TypeOK, Hdma!Channels
    <3> QED BY <2>4, <3>1, TableAround
  <2>6. PICK b \in Nat, j \in Nat : b = q.block /\ j = q.nth
    BY <2>4
  <2>7. CASE n = 0
    <3>1. p = q
      BY <2>2, <2>7, NextIs
    <3>2. Hdma!Within(step.channel, b, j) /\ step.from = Hdma!From(b, j)
      BY <2>3, <2>6, <2>7, TableEnds
    <3> QED BY <2>6, <3>1, <3>2 DEF p
  <2>8. CASE j + 1 < n
    <3>1. p.block = b /\ p.nth = j + 1
      BY <2>2, <2>6, <2>8, NextIs
    <3>2. Hdma!Within(step.channel, b, j + 1) /\ step.from = Hdma!From(b, j + 1)
      BY <2>3, <2>6, <2>8, BlockGoesOn
    <3> QED BY <3>1, <3>2 DEF p
  <2>9. CASE n # 0 /\ ~(j + 1 < n)
    <3>1. p.block = b + Hdma!BlockSize(b) /\ p.nth = 0
      BY <2>2, <2>6, <2>9, NextIs
    <3>2. n = j + 1
      <4>1. v2.left + j + 1 = n /\ v2.left \in Nat
        <5>1. n > 0
          BY <2>5, <2>9
        <5>2. v2.left \in Nat
          BY DEF Hdma!TypeOK, Hdma!Channels
        <5> QED BY <2>3, <2>6, <5>1, <5>2 DEF Hdma!Within
      <4> HIDE DEF n
      <4> QED BY <2>5, <2>9, <4>1
    <3>3. /\ ~v2.finished /\ v2.left = 0
          /\ b + Hdma!BlockSize(b) \in Nat /\ v2.abus = (b + Hdma!BlockSize(b)) % TableMod
      BY <2>3, <2>6, <3>2, BlockEnds
    <3>4. PICK c \in Nat : c = b + Hdma!BlockSize(b)
      BY <3>3
    <3>5. Hdma!Within(step.channel, c, 0) /\ step.from = Hdma!From(c, 0)
      BY <3>3, <3>4, BlockBegins
    <3> QED BY <3>1, <3>4, <3>5 DEF p
  <2> QED BY <2>6, <2>7, <2>8, <2>9
<1> QED BY <1>1, <1>3, <1>4

\* A table whose memory and settings stay is the same table.
LEMMA TableStays ==
  ASSUME UNCHANGED v1, v2'.unit = v2.unit, v2'.indirect = v2.indirect, v2'.reload = v2.reload,
         Hdma!TypeOK, Hdma!TypeOK'
  PROVE  /\ \A b, j : Hdma!From(b, j)' = Hdma!From(b, j)
         /\ \A k \in 0..(Lines - 1) : Hdma!Place[k]' = Hdma!Place[k]
<1>1. \A a : Hdma!At(a)' = Hdma!At(a)
  BY DEF Hdma!At
<1>2. \A a, u : /\ Hdma!LinesAt(a, u)' = Hdma!LinesAt(a, u)
                /\ (Hdma!RepeatAt(a, u)' <=> Hdma!RepeatAt(a, u))
                /\ Hdma!Low(a)' = Hdma!Low(a)
  BY <1>1 DEF Hdma!LinesAt, Hdma!RepeatAt, Hdma!Low
<1>3. \A b, j : Hdma!From(b, j)' = Hdma!From(b, j)
  BY <1>2 DEF Hdma!From, Hdma!HeaderSize, Hdma!Nowhere
<1>4. \A b : Hdma!BlockSize(b)' = Hdma!BlockSize(b)
  BY <1>2 DEF Hdma!BlockSize, Hdma!HeaderSize, Hdma!PointerSize
<1>5. \A p : NextPlace(p)' = NextPlace(p)
  BY <1>2, <1>4 DEF NextPlace
<1>6. PlacesFollow /\ PlacesFollow'
  BY PlacesDo, PlacesDoNext
<1>7. PICK n \in Nat : n = Lines - 1
  BY HdmaFacts
<1> DEFINE B == {k \in 0..n : Hdma!Place[k]' = Hdma!Place[k]}
<1>8. 0 \in B
  BY <1>6, <1>7 DEF PlacesFollow
<1>9. \A k \in 0..(n - 1) : k \in B => k + 1 \in B
  <2>1. ASSUME NEW k \in 0..(n - 1), k \in B PROVE k + 1 \in B
    <3>1. k \in 0..n /\ k + 1 \in 0..n
      OBVIOUS
    <3>2. Hdma!Place[k + 1] = NextPlace(Hdma!Place[k])
      BY <1>6, <1>7, <3>1 DEF PlacesFollow
    <3>3. Hdma!Place[k + 1]' = NextPlace(Hdma!Place[k])'
      BY <1>6, <1>7, <3>1 DEF PlacesFollow
    <3>4. Hdma!Place[k]' = Hdma!Place[k]
      BY <2>1
    <3> QED BY <1>5, <3>1, <3>2, <3>3, <3>4
  <2> QED BY <2>1
<1> HIDE DEF B
<1>10. \A k \in 0..n : k \in B
  BY <1>8, <1>9, UpTo
<1> QED
  BY <1>3, <1>7, <1>10 DEF B

LEMMA HdmaLine ==
  ASSUME Hdma!TypeOK, Hdma!TableInv, Hdma!LineEnds
  PROVE  Hdma!TypeOK' /\ Hdma!TableInv'
<1> DEFINE last == v3 + 1 >= Lines
           step == Hdma!ChannelLine
           s == step.channel
           f == Hdma!FrameInit(s)
<1>1. /\ v3' = IF last THEN 0 ELSE v3 + 1
      /\ v2' = IF last THEN f ELSE s
      /\ v4' = [from |-> step.from, quiet |-> last \/ v4.quiet]
      /\ v1' = v1
  BY DEF Hdma!LineEnds
<1>2. s \in Hdma!Channels /\ Kept(s) /\ step.from \in 0..TableMod
  BY LineKeeps
<1>3. v3 \in 0..(Lines - 1) /\ Lines \in Nat \ {0} /\ v4.quiet \in BOOLEAN
      /\ v1 \in [Hdma!Addresses -> Bytes]
  BY HdmaFacts DEF Hdma!TypeOK
<1> HIDE DEF step
<1>4. CASE last
  <2>1. 0 \in Hdma!Addresses
    BY HdmaFacts DEF Hdma!Addresses
  <2>2. f \in Hdma!Channels /\ f.abus = f.reload /\ f.left = 0 /\ ~f.finished
    <3> DEFINE r == s.reload
    <3>1. r \in Hdma!Addresses
      BY <1>2 DEF Hdma!Channels
    <3> HIDE DEF r
    <3>2. f = [s EXCEPT !.abus = r, !.finished = FALSE, !.left = 0, !.repeat = FALSE,
                        !.loaded = FALSE, !.pointer = 0]
      BY DEF Hdma!FrameInit, r
    <3>3. r = s.reload
      BY DEF r
    <3> HIDE DEF s, f
    <3> QED BY <1>2, <2>1, <3>1, <3>2, <3>3 DEF Hdma!Channels
  <2> HIDE DEF f
  <2>3. Hdma!TypeOK'
    <3>1. v3' \in 0..(Lines - 1)
      BY <1>1, <1>3, <1>4
    <3> HIDE DEF last
    <3> QED BY <1>1, <1>2, <1>3, <1>4, <2>2, <3>1
          DEF Hdma!TypeOK, Hdma!Channels, Hdma!Addresses
  <2>4. v3' = 0 /\ v2' = f
    BY <1>1, <1>4
  <2> QED BY <2>2, <2>3, <2>4 DEF Hdma!TableInv
<1>5. CASE ~last
  <2>1. v3 + 1 < Lines /\ v3' = v3 + 1 /\ v2' = s /\ v4'.quiet = v4.quiet
        /\ v4'.from = step.from /\ v3 \in Nat
    BY <1>1, <1>3, <1>5
  <2>2. Hdma!TypeOK'
    <3>1. v3' \in 0..(Lines - 1)
      BY <1>3, <2>1
    <3> HIDE DEF last
    <3> QED BY <1>1, <1>2, <1>3, <1>5, <3>1
          DEF Hdma!TypeOK, Hdma!Channels, Hdma!Addresses
  <2>3. ASSUME v4.quiet, v2.on
        PROVE  /\ v4'.from = Hdma!Source(v3 - 1)'
               /\ Hdma!Within(v2, Hdma!Place[v3 - 1].block, Hdma!Place[v3 - 1].nth)'
    <3> DEFINE p == Hdma!Place[v3]
    <3>1. v4'.from = Hdma!From(p.block, p.nth) /\ Hdma!Within(s, p.block, p.nth)
      BY <2>1, <2>3, QuietLine DEF step
    <3>2. v3' - 1 = v3
      BY <2>1
    <3>3. /\ \A b, j : Hdma!From(b, j)' = Hdma!From(b, j)
          /\ \A k \in 0..(Lines - 1) : Hdma!Place[k]' = Hdma!Place[k]
      <4>1. v2'.unit = v2.unit /\ v2'.reload = v2.reload
        BY <1>2, <2>1 DEF Kept
      <4>2. v2'.indirect = v2.indirect
        <5>1. v2.indirect \in BOOLEAN /\ s.indirect \in BOOLEAN /\ (s.indirect <=> v2.indirect)
          BY <1>2 DEF Kept, Hdma!TypeOK, Hdma!Channels
        <5>2. s.indirect = v2.indirect
          BY <5>1
        <5> HIDE DEF s
        <5> QED BY <2>1, <5>2
      <4> QED BY <1>1, <2>2, <4>1, <4>2, TableStays
    <3>4. PICK k \in 0..(Lines - 1) : k = v3
      BY <1>3
    <3>5. Hdma!Place'[k] = p
      BY <3>3, <3>4
    <3>6. (Hdma!Place[v3 - 1])' = p
      BY <3>2, <3>4, <3>5
    <3>7. PICK b, j : b = p.block /\ j = p.nth
      OBVIOUS
    <3>8. Hdma!Source(v3 - 1)' = Hdma!From(b, j)'
      BY <3>6, <3>7 DEF Hdma!Source
    <3>9. Hdma!Within(v2, b, j)' <=> Hdma!Within(s, b, j)
      BY <1>1, <2>1 DEF Hdma!Within, Hdma!LinesAt, Hdma!RepeatAt, Hdma!Low, Hdma!At
    <3> QED BY <3>1, <3>2, <3>3, <3>6, <3>7, <3>8, <3>9
  <2>4. v3' > 0
    BY <2>1
  <2> QED BY <1>2, <2>1, <2>2, <2>3, <2>4 DEF Hdma!TableInv, Kept
<1> QED BY <1>4, <1>5

LEMMA HdmaDisturbed ==
  ASSUME Hdma!TypeOK, NEW c \in Hdma!Channels, Hdma!Disturb(c)
  PROVE  Hdma!TypeOK' /\ Hdma!TableInv'
<1>1. v2' = c /\ v4' = [from |-> TableMod, quiet |-> FALSE] /\ v1' = v1 /\ v3' = v3
      /\ TableMod \in 0..TableMod
  BY HdmaFacts DEF Hdma!Disturb, Hdma!Nowhere
<1>2. Hdma!TypeOK'
  BY <1>1 DEF Hdma!TypeOK, Hdma!Channels, Hdma!Addresses
<1>3. ~v4'.quiet
  BY <1>1
<1> QED
  BY <1>2, <1>3 DEF Hdma!TableInv

LEMMA HdmaStep ==
  ASSUME Hdma!TypeOK, Hdma!TableInv, Hdma!Next
  PROVE  Hdma!TypeOK' /\ Hdma!TableInv'
<1>0. v2 \in Hdma!Channels
  BY DEF Hdma!TypeOK
<1>1. ASSUME NEW a \in Hdma!Addresses, Hdma!WriteAddress(a) \/ Hdma!GeneralDma(a)
      PROVE  Hdma!TypeOK' /\ Hdma!TableInv'
  <2>1. [v2 EXCEPT !.abus = a, !.reload = a] \in Hdma!Channels
        /\ [v2 EXCEPT !.abus = a] \in Hdma!Channels
    BY <1>0 DEF Hdma!Channels
  <2> QED BY <1>1, <2>1, HdmaDisturbed DEF Hdma!WriteAddress, Hdma!GeneralDma
<1>2. ASSUME NEW e \in BOOLEAN, Hdma!WriteEnable(e) PROVE Hdma!TypeOK' /\ Hdma!TableInv'
  <2>1. [v2 EXCEPT !.on = e] \in Hdma!Channels
    BY <1>0 DEF Hdma!Channels
  <2> QED BY <1>2, <2>1, HdmaDisturbed DEF Hdma!WriteEnable
<1>3. ASSUME NEW u \in HdmaUnits, NEW i \in BOOLEAN, Hdma!WriteParams(u, i)
      PROVE  Hdma!TypeOK' /\ Hdma!TableInv'
  <2>1. [v2 EXCEPT !.unit = u, !.indirect = i] \in Hdma!Channels
    BY <1>0 DEF Hdma!Channels
  <2> QED BY <1>3, <2>1, HdmaDisturbed DEF Hdma!WriteParams
<1> QED
  BY <1>1, <1>2, <1>3, HdmaLine DEF Hdma!Next

LEMMA TableInvImplies == ASSUME Hdma!TableInv PROVE Hdma!TableFollowed
  BY DEF Hdma!TableInv, Hdma!TableFollowed

LEMMA HdmaStutters ==
  ASSUME Hdma!TypeOK, Hdma!TableInv, UNCHANGED <<v1, v2, v3, v4>>
  PROVE  Hdma!TypeOK' /\ Hdma!TableInv'
<1>1. Hdma!TypeOK'
  BY DEF Hdma!TypeOK, Hdma!Channels, Hdma!Addresses
<1>2. ASSUME v4.quiet, v2.on, v3 > 0
      PROVE  /\ v4'.from = Hdma!Source(v3 - 1)'
             /\ Hdma!Within(v2, Hdma!Place[v3 - 1].block, Hdma!Place[v3 - 1].nth)'
  <2>1. /\ \A b, j : Hdma!From(b, j)' = Hdma!From(b, j)
        /\ \A k \in 0..(Lines - 1) : Hdma!Place[k]' = Hdma!Place[k]
    BY <1>1, TableStays
  <2>2. PICK k \in 0..(Lines - 1) : k = v3 - 1
    <3>1. v3 \in Nat /\ Lines \in Nat /\ v3 < Lines
      BY HdmaFacts DEF Hdma!TypeOK
    <3>2. v3 - 1 \in 0..(Lines - 1)
      BY <1>2, <3>1
    <3> QED BY <3>2
  <2>3. PICK b, j : b = Hdma!Place[k].block /\ j = Hdma!Place[k].nth
    OBVIOUS
  <2>4. v3' - 1 = k
    BY <2>2
  <2>5. Hdma!Place'[k] = Hdma!Place[k]
    BY <2>1
  <2>6. (Hdma!Place[v3 - 1])' = Hdma!Place[k]
    BY <2>4, <2>5
  <2>7. Hdma!Source(v3 - 1)' = Hdma!From(b, j)' /\ Hdma!Source(v3 - 1) = Hdma!From(b, j)
    BY <2>2, <2>3, <2>6 DEF Hdma!Source
  <2>8. Hdma!Within(v2, b, j)' <=> Hdma!Within(v2, b, j)
    BY DEF Hdma!Within, Hdma!LinesAt, Hdma!RepeatAt, Hdma!Low, Hdma!At
  <2>9. v4.from = Hdma!Source(v3 - 1) /\ Hdma!Within(v2, b, j)
    BY <1>2, <2>2, <2>3 DEF Hdma!TableInv
  <2> QED BY <2>1, <2>3, <2>6, <2>7, <2>8, <2>9
<1> QED
  BY <1>1, <1>2 DEF Hdma!TableInv

(***************************************************************************)
(* The devices together.                                                   *)
(***************************************************************************)

DevicesInv ==
  /\ focus = "gpu" => Gpu!PortInv
  /\ focus = "cart" => Cart!SerialInv /\ Cart!CounterInv
  /\ focus = "pad" => Pad!PadInv
  /\ focus = "api" => Api!TypeOK /\ Api!SavedInv
  /\ focus = "dma" => Dma!TypeOK /\ Dma!BlocksInv
  /\ focus = "sound" => FifoInv
  /\ focus = "timers" => Timers!TypeOK
  /\ focus = "hdma" => Hdma!TypeOK /\ Hdma!TableInv

LEMMA DevicesInit == Init => DevicesInv
<1> SUFFICES ASSUME Init PROVE DevicesInv
  OBVIOUS
<1>1. focus = "gpu" => Gpu!PortInv
  BY GpuInit DEF Init
<1>2. focus = "cart" => Cart!SerialInv /\ Cart!CounterInv
  BY SerialInit, CounterInit DEF Init
<1>3. focus = "pad" => Pad!PadInv
  BY PadInit DEF Init
<1>4. focus = "api" => Api!TypeOK /\ Api!SavedInv
  BY ApiTypeInit, SavedInit DEF Init
<1>5. focus = "dma" => Dma!TypeOK /\ Dma!BlocksInv
  BY DmaTypeInit DEF Init
<1>6. focus = "sound" => FifoInv
  BY FifoInit DEF Init
<1>7. focus = "timers" => Timers!TypeOK
  BY TimersInit DEF Init
<1>8. focus = "hdma" => Hdma!TypeOK /\ Hdma!TableInv
  BY HdmaInit DEF Init
<1> QED
  BY <1>1, <1>2, <1>3, <1>4, <1>5, <1>6, <1>7, <1>8 DEF DevicesInv

LEMMA DevicesStep == DevicesInv /\ [Next]_vars => DevicesInv'
<1>1. ASSUME DevicesInv, Next PROVE DevicesInv'
  <2>0. focus' = focus
    BY <1>1 DEF Next
  <2>1. focus = "gpu" => Gpu!PortInv'
    BY <1>1, GpuStep DEF Next, DevicesInv
  <2>2. focus = "cart" => Cart!SerialInv' /\ Cart!CounterInv'
    BY <1>1, SerialStep, CounterStep DEF Next, DevicesInv
  <2>3. focus = "pad" => Pad!PadInv'
    BY <1>1, PadStep DEF Next, DevicesInv
  <2>4. focus = "api" => Api!TypeOK' /\ Api!SavedInv'
    BY <1>1, ApiTypeStep, SavedStep DEF Next, DevicesInv
  <2>5. focus = "dma" => Dma!TypeOK' /\ Dma!BlocksInv'
    BY <1>1, DmaStep DEF Next, DevicesInv
  <2>6. focus = "sound" => FifoInv'
    BY <1>1, FifoStep DEF Next, DevicesInv
  <2>7. focus = "timers" => Timers!TypeOK'
    BY <1>1, TimersStep DEF Next, DevicesInv
  <2>8. focus = "hdma" => Hdma!TypeOK' /\ Hdma!TableInv'
    BY <1>1, HdmaStep DEF Next, DevicesInv
  <2> QED
    BY <2>0, <2>1, <2>2, <2>3, <2>4, <2>5, <2>6, <2>7, <2>8 DEF DevicesInv
<1>2. ASSUME DevicesInv, UNCHANGED vars PROVE DevicesInv'
  <2>0. UNCHANGED <<focus, v1, v2, v3, v4, v5, v6, v7, v8, v9>>
    BY <1>2 DEF vars
  <2>1. Gpu!PortInv => Gpu!PortInv'
    BY <2>0 DEF Gpu!PortInv
  <2>2. Cart!SerialInv /\ Cart!CounterInv => Cart!SerialInv' /\ Cart!CounterInv'
    BY <2>0 DEF Cart!SerialInv, Cart!CounterInv
  <2>3. Pad!PadInv => Pad!PadInv'
    BY <2>0 DEF Pad!PadInv
  <2>4. Api!TypeOK /\ Api!SavedInv => Api!TypeOK' /\ Api!SavedInv'
    BY <2>0, ApiStutters
  <2>5. Dma!TypeOK /\ Dma!BlocksInv => Dma!TypeOK' /\ Dma!BlocksInv'
    BY <2>0 DEF Dma!TypeOK, Dma!BlocksInv, Dma!BlocksInOrder
  <2>6. FifoInv => FifoInv'
    BY <2>0 DEF FifoInv, Sound!TypeOK, Sound!StreamIntact
  <2>7. Timers!TypeOK => Timers!TypeOK'
    BY <2>0 DEF Timers!TypeOK, Timers!Timers, Timers!Controls
  <2>8. Hdma!TypeOK /\ Hdma!TableInv => Hdma!TypeOK' /\ Hdma!TableInv'
    BY <2>0, HdmaStutters
  <2> QED
    BY <1>2, <2>0, <2>1, <2>2, <2>3, <2>4, <2>5, <2>6, <2>7, <2>8 DEF DevicesInv
<1> QED
  BY <1>1, <1>2

LEMMA DevicesInvariant == Spec => []DevicesInv
BY DevicesInit, DevicesStep, PTL DEF Spec

\* What arrives through a port in pieces is whole: the words of a GP0 packet,
\* the bits of an MMC1 register, the buttons of one strobe (psx_gpu_write_gp0,
\* mmc1_write, nes_bus_read).
THEOREM ConsolesPortsWhole == Spec => []PortsWhole
<1>1. DevicesInv => PortsWhole
  BY GpuInvImplies, SerialInvImplies, PadInvImplies DEF DevicesInv, PortsWhole
<1> QED
  BY <1>1, DevicesInvariant, PTL

\* Every block of a repeating DMA goes on where the last ended, and every byte
\* that a sound FIFO asked for leaves it once and in order (dma_transfer,
\* gba_dma_fifo_request, fifo_pop).
THEOREM ConsolesTransfersExact == Spec => []TransfersExact
<1>1. DevicesInv => TransfersExact
  BY DEF DevicesInv, Dma!BlocksInv, FifoInv, TransfersExact
<1> QED
  BY <1>1, DevicesInvariant, PTL

\* An HDMA channel that its program leaves alone sends each line of the frame
\* what its table says for it, whatever happened to the channel in the frames
\* before (hdma_channel_line, snes_hdma_init_frame).
THEOREM ConsolesTableFollowed == Spec => []TableFollowed
<1>1. DevicesInv => TableFollowed
  BY TableInvImplies DEF DevicesInv, TableFollowed
<1> QED
  BY <1>1, DevicesInvariant, PTL

\* Timers gain every tick and every overflow they are cascaded behind, however
\* many fall into one step, and the MMC3 announces as many edges after the
\* counter is set as its latch says (gba_timers_step, mmc3_chr_clock).
THEOREM ConsolesCountersExact == Spec => CountersExact
<1>1. DevicesInv /\ DevicesInv' /\ [Next]_vars =>
        [/\ focus = "timers" => Timers!CascadeExact
         /\ focus = "cart" => Cart!FirstIrqOnTime']_vars
  <2> SUFFICES ASSUME DevicesInv, DevicesInv', Next
               PROVE  /\ focus = "timers" => Timers!CascadeExact
                      /\ focus = "cart" => Cart!FirstIrqOnTime'
    OBVIOUS
  <2>1. focus = "timers" => Timers!CascadeExact
    BY TimersStep DEF DevicesInv, Next
  <2>2. focus = "cart" => Cart!FirstIrqOnTime'
    <3>1. focus = "cart" => Cart!CounterInv'
      BY DEF DevicesInv, Next
    <3> QED
      BY <3>1 DEF Cart!CounterInv, Cart!FirstIrqOnTime
  <2> QED
    BY <2>1, <2>2
<1> QED
  BY <1>1, DevicesInvariant, PTL DEF Spec, CountersExact

\* After a load that reports success every part the format holds is the saved
\* one, but for fields too large for the format and, with RAM of another size,
\* that RAM and what supersnes reads (mgbx_deserialize, snes_deserialize, ...).
THEOREM ConsolesGoodLoadRestores == Spec => []GoodLoadRestores
<1>1. DevicesInv => GoodLoadRestores
  BY DEF DevicesInv, Api!SavedInv, GoodLoadRestores
<1> QED
  BY <1>1, DevicesInvariant, PTL

\* Saving and loading the same moment, with the same RAM in the machine, changes
\* no part but those with a field too large for the format (mgbx_serialize,
\* fb_serialize, ...).
THEOREM ConsolesCycleIsIdentity == Spec => CycleIsIdentity
<1>1. DevicesInv /\ [Next]_vars => [focus = "api" => Api!CycleIsIdentity]_vars
  <2> SUFFICES ASSUME DevicesInv, Next, focus = "api" PROVE Api!CycleIsIdentity
    OBVIOUS
  <2> QED
    BY IdentityStep DEF DevicesInv, Next
<1> QED
  BY <1>1, DevicesInvariant, PTL DEF Spec, CycleIsIdentity

(***************************************************************************)
(* Arithmetic of registers of 2 * h values.                                *)
(***************************************************************************)

\* Once around, up or down.
LEMMA WrapOnce ==
  ASSUME NEW m \in Nat \ {0}, NEW x \in Int, -m <= x, x < 2 * m
  PROVE  x % m = IF x < 0 THEN x + m ELSE IF x < m THEN x ELSE x - m
<1>1. CASE x < 0
  BY <1>1
<1>2. CASE x >= 0 /\ x < m
  BY <1>2
<1>3. CASE x >= m
  BY <1>3
<1> QED
  BY <1>1, <1>2, <1>3

\* A register has as many values with the top bit as without.
LEMMA Halves ==
  ASSUME NEW m \in Nat \ {0}, m % 2 = 0
  PROVE  m \div 2 \in Nat \ {0} /\ m = 2 * (m \div 2)
  OBVIOUS

\* A register of 2 * h values read with its sign.
SignedBy(h, x) == IF x >= h THEN x - 2 * h ELSE x

\* What r is as the sum of a, b and a carry, and as their difference.
IsSum(h, a, b, c, r) ==
  /\ r \in 0..(2 * h - 1)
  /\ r = IF a + b + c >= 2 * h THEN a + b + c - 2 * h ELSE a + b + c
  /\ (a >= h <=> b >= h) /\ ~(a >= h <=> r >= h)
       <=> ~(SignedBy(h, a) + SignedBy(h, b) + c \in -h..(h - 1))

IsDifference(h, a, b, d, r) ==
  /\ r \in 0..(2 * h - 1)
  /\ r = IF a >= b + d THEN a - b - d ELSE a - b - d + 2 * h
  /\ ~(a >= h <=> b >= h) /\ ~(a >= h <=> r >= h)
       <=> ~(SignedBy(h, a) - SignedBy(h, b) - d \in -h..(h - 1))

LEMMA SumWraps ==
  ASSUME NEW h \in Nat \ {0}, NEW a \in 0..(2 * h - 1), NEW b \in 0..(2 * h - 1),
         NEW c \in {0, 1}
  PROVE  IsSum(h, a, b, c, (a + b + c) % (2 * h))
<1> DEFINE s == a + b + c
           r == s % (2 * h)
<1>1. s \in Int /\ 2 * h \in Nat \ {0} /\ -(2 * h) <= s /\ s < 2 * (2 * h) /\ s >= 0
  OBVIOUS
<1>2. r = IF s < 2 * h THEN s ELSE s - 2 * h
  <2> HIDE DEF s
  <2>1. s % (2 * h) = IF s < 0 THEN s + 2 * h ELSE IF s < 2 * h THEN s ELSE s - 2 * h
    BY <1>1, WrapOnce
  <2> QED BY <1>1, <2>1
<1> HIDE DEF r
<1>3. r \in 0..(2 * h - 1)
  BY <1>2
<1>4. (a >= h <=> b >= h) /\ ~(a >= h <=> r >= h)
        <=> ~((IF a >= h THEN a - 2 * h ELSE a) + (IF b >= h THEN b - 2 * h ELSE b) + c
              \in -h..(h - 1))
  BY <1>2
<1>5. r = IF a + b + c >= 2 * h THEN a + b + c - 2 * h ELSE a + b + c
  BY <1>2
<1>6. IsSum(h, a, b, c, r)
  BY <1>3, <1>4, <1>5 DEF IsSum, SignedBy
<1> QED
  BY <1>6 DEF r

LEMMA DifferenceWraps ==
  ASSUME NEW h \in Nat \ {0}, NEW a \in 0..(2 * h - 1), NEW b \in 0..(2 * h - 1),
         NEW d \in {0, 1}
  PROVE  IsDifference(h, a, b, d, (a - b - d) % (2 * h))
<1> DEFINE s == a - b - d
           r == s % (2 * h)
<1>1. s \in Int /\ 2 * h \in Nat \ {0} /\ -(2 * h) <= s /\ s < 2 * h
  OBVIOUS
<1>2. r = IF s < 0 THEN s + 2 * h ELSE s
  <2> DEFINE m == 2 * h
  <2>1. m \in Nat \ {0} /\ s \in Int /\ -m <= s /\ s < 2 * m /\ s < m
    BY <1>1
  <2> HIDE DEF s, m
  <2>2. s % m = IF s < 0 THEN s + m ELSE IF s < m THEN s ELSE s - m
    BY <2>1, WrapOnce
  <2> QED BY <2>1, <2>2 DEF m
<1> HIDE DEF r
<1>3. r \in 0..(2 * h - 1)
  BY <1>2
<1>4. ~(a >= h <=> b >= h) /\ ~(a >= h <=> r >= h)
        <=> ~((IF a >= h THEN a - 2 * h ELSE a) - (IF b >= h THEN b - 2 * h ELSE b) - d
              \in -h..(h - 1))
  BY <1>2
<1>5. r = IF a >= b + d THEN a - b - d ELSE a - b - d + 2 * h
  BY <1>2
<1>6. IsDifference(h, a, b, d, r)
  BY <1>3, <1>4, <1>5 DEF IsDifference, SignedBy
<1> QED
  BY <1>6 DEF r

(***************************************************************************)
(* Bytes of two digits.                                                    *)
(***************************************************************************)

LEMMA DigitFacts ==
  /\ Nib \in Nat /\ Nib >= 2 /\ Ten \in Nat /\ Ten >= 2 /\ Ten <= Nib
  /\ Digits!B = Nib * Nib /\ Digits!B \in Nat \ {0}
  /\ Digits!B \div 2 \in Nat \ {0} /\ Digits!B = 2 * (Digits!B \div 2)
<1>1. Nib \in Nat /\ Nib % 2 = 0 /\ Ten \in 2..Nib
  BY ProcessorsFit DEF Digits!ByteDataAssumption
<1>2. PICK k \in Nat : Nib = 2 * k
  <2>1. Nib = 2 * (Nib \div 2) /\ Nib \div 2 \in Nat
    BY <1>1
  <2> QED BY <2>1
<1>3. k >= 1
  BY <1>1, <1>2
<1> DEFINE h == k * Nib
<1>4. h \in Nat /\ Nib * Nib = 2 * h
  BY <1>1, <1>2
<1>5. h >= 2
  <2>1. h = 2 * (k * k) /\ k * k >= 1
    BY <1>2, <1>3
  <2> QED BY <2>1
<1> HIDE DEF h
<1>6. Digits!B = 2 * h
  BY <1>4 DEF Digits!B
<1>7. Digits!B \div 2 = h
  BY <1>4, <1>6
<1> QED
  BY <1>1, <1>4, <1>5, <1>6, <1>7 DEF Digits!B

\* What the top bits of operands and result say of a sum.
ByteSumIs(a, b, c, r) ==
  /\ r \in Digits!Byte
  /\ r = IF a + b + c >= Digits!B THEN a + b + c - Digits!B ELSE a + b + c
  /\ Digits!AddV(a, b, r)
       <=> ~Digits!Fits(Digits!Signed(a) + Digits!Signed(b) + c)
  /\ (Digits!Top(a) /\ Digits!Top(b)) \/ (Digits!Top(a) /\ ~Digits!Top(r))
       \/ (Digits!Top(b) /\ ~Digits!Top(r)) <=> a + b + c >= Digits!B
  /\ (Digits!Top(a) /\ Digits!Top(b) /\ ~Digits!Top(r))
       \/ (~Digits!Top(a) /\ ~Digits!Top(b) /\ Digits!Top(r)) <=> Digits!AddV(a, b, r)

ByteDifferenceIs(a, b, d, r) ==
  /\ r \in Digits!Byte
  /\ r = IF a >= b + d THEN a - b - d ELSE a - b - d + Digits!B
  /\ Digits!SubV(a, b, r)
       <=> ~Digits!Fits(Digits!Signed(a) - Digits!Signed(b) - d)
  /\ (~Digits!Top(a) /\ Digits!Top(b)) \/ (Digits!Top(b) /\ Digits!Top(r))
       \/ (~Digits!Top(a) /\ Digits!Top(r)) <=> ~(a >= b + d)
  /\ (Digits!Top(a) /\ ~Digits!Top(b) /\ ~Digits!Top(r))
       \/ (~Digits!Top(a) /\ Digits!Top(b) /\ Digits!Top(r)) <=> Digits!SubV(a, b, r)

LEMMA ByteSum ==
  ASSUME NEW a \in Digits!Byte, NEW b \in Digits!Byte, NEW c \in {0, 1}
  PROVE  ByteSumIs(a, b, c, Digits!Wrap(a + b + c))
<1> DEFINE h == Digits!B \div 2
           r == Digits!Wrap(a + b + c)
<1>1. h \in Nat \ {0} /\ Digits!B = 2 * h
  BY DigitFacts
<1>2. a \in 0..(2 * h - 1) /\ b \in 0..(2 * h - 1)
  BY <1>1 DEF Digits!Byte
<1>3. r = (a + b + c) % (2 * h)
  BY <1>1 DEF Digits!Wrap
<1>4. (\A x : Digits!Top(x) <=> x >= h) /\ (\A x : Digits!Signed(x) = SignedBy(h, x))
      /\ (\A x : Digits!Fits(x) <=> x \in -h..(h - 1)) /\ Digits!Byte = 0..(2 * h - 1)
  BY <1>1 DEF Digits!Top, Digits!Signed, SignedBy, Digits!Fits, Digits!Byte
<1>5. IsSum(h, a, b, c, r)
  <2> HIDE DEF h, r
  <2>1. IsSum(h, a, b, c, (a + b + c) % (2 * h))
    BY <1>1, <1>2, SumWraps
  <2> QED BY <1>3, <2>1
<1>6. Digits!AddV(a, b, r) <=> (a >= h <=> b >= h) /\ ~(a >= h <=> r >= h)
  BY DEF Digits!AddV, Digits!Top
<1> HIDE DEF h, r
<1>7. (a >= h /\ b >= h) \/ (a >= h /\ ~(r >= h)) \/ (b >= h /\ ~(r >= h)) <=> a + b + c >= 2 * h
  BY <1>1, <1>2, <1>5 DEF IsSum
<1>8. r \in 0..(2 * h - 1)
      /\ r = (IF a + b + c >= 2 * h THEN a + b + c - 2 * h ELSE a + b + c)
      /\ ((a >= h <=> b >= h) /\ ~(a >= h <=> r >= h)
           <=> ~(SignedBy(h, a) + SignedBy(h, b) + c \in -h..(h - 1)))
  BY <1>5 DEF IsSum
<1>9. ByteSumIs(a, b, c, r)
  BY <1>1, <1>4, <1>6, <1>7, <1>8 DEF ByteSumIs
<1> QED
  BY <1>9 DEF r

LEMMA ByteDifference ==
  ASSUME NEW a \in Digits!Byte, NEW b \in Digits!Byte, NEW d \in {0, 1}
  PROVE  ByteDifferenceIs(a, b, d, Digits!Wrap(a - b - d))
<1> DEFINE h == Digits!B \div 2
           r == Digits!Wrap(a - b - d)
<1>1. h \in Nat \ {0} /\ Digits!B = 2 * h
  BY DigitFacts
<1>2. a \in 0..(2 * h - 1) /\ b \in 0..(2 * h - 1)
  BY <1>1 DEF Digits!Byte
<1>3. r = (a - b - d) % (2 * h)
  BY <1>1 DEF Digits!Wrap
<1>4. (\A x : Digits!Top(x) <=> x >= h) /\ (\A x : Digits!Signed(x) = SignedBy(h, x))
      /\ (\A x : Digits!Fits(x) <=> x \in -h..(h - 1)) /\ Digits!Byte = 0..(2 * h - 1)
  BY <1>1 DEF Digits!Top, Digits!Signed, SignedBy, Digits!Fits, Digits!Byte
<1>5. IsDifference(h, a, b, d, r)
  <2> HIDE DEF h, r
  <2>1. IsDifference(h, a, b, d, (a - b - d) % (2 * h))
    BY <1>1, <1>2, DifferenceWraps
  <2> QED BY <1>3, <2>1
<1>6. Digits!SubV(a, b, r) <=> ~(a >= h <=> b >= h) /\ ~(a >= h <=> r >= h)
  BY DEF Digits!SubV, Digits!Top
<1> HIDE DEF h, r
<1>7. (~(a >= h) /\ b >= h) \/ (b >= h /\ r >= h) \/ (~(a >= h) /\ r >= h) <=> ~(a >= b + d)
  BY <1>1, <1>2, <1>5 DEF IsDifference
<1>8. r \in 0..(2 * h - 1)
      /\ r = (IF a >= b + d THEN a - b - d ELSE a - b - d + 2 * h)
      /\ (~(a >= h <=> b >= h) /\ ~(a >= h <=> r >= h)
           <=> ~(SignedBy(h, a) - SignedBy(h, b) - d \in -h..(h - 1)))
  BY <1>5 DEF IsDifference
<1>9. ByteDifferenceIs(a, b, d, r)
  BY <1>1, <1>4, <1>6, <1>7, <1>8 DEF ByteDifferenceIs
<1> QED
  BY <1>9 DEF r

LEMMA SumsExact ==
  ASSUME NEW op \in Digits!Sums, NEW a \in Digits!Byte, NEW b \in Digits!Byte,
         NEW c \in {0, 1}
  PROVE  Digits!SumExact(a, b, c, Digits!Result(op, a, b, c))
<1> DEFINE r == Digits!Wrap(a + b + c)
           res == Digits!Result(op, a, b, c)
           fits == Digits!Fits(Digits!Signed(a) + Digits!Signed(b) + c)
<1>1. a \in Nat /\ b \in Nat /\ c \in Nat /\ Digits!B \in Nat
  BY DigitFacts DEF Digits!Byte
<1>2. Digits!AddV(a, b, r) <=> ~fits
  BY ByteSum DEF ByteSumIs
<1> HIDE DEF fits
<1>3. /\ res.r = r
      /\ res.c <=> a + b + c >= Digits!B
      /\ "v" \in DOMAIN res => (res.v <=> ~fits)
      /\ "h" \in DOMAIN res => (res.h <=> Digits!Lo(a) + Digits!Lo(b) + c >= Nib)
  <2>1. CASE op \in {"6502 adc", "65816 adc"}
    <3>1. res = Digits!NesAdc(a, b, c)
      BY <2>1 DEF Digits!Result
    <3>2. res = [r |-> r, c |-> a + b + c > Digits!B - 1, v |-> Digits!AddV(a, b, r)]
      BY <3>1 DEF Digits!NesAdc
    <3> HIDE DEF r, res
    <3>3. "h" \notin DOMAIN res /\ res.r = r /\ (res.c <=> a + b + c > Digits!B - 1)
          /\ (res.v <=> Digits!AddV(a, b, r))
      BY <3>2
    <3> QED BY <1>1, <1>2, <3>3
  <2>2. CASE op = "z80 adc"
    <3>1. res = Digits!Z80Add(a, b, c)
      BY <2>2 DEF Digits!Result
    <3>2. res = [r |-> r, c |-> a + b + c > Digits!B - 1,
                 h |-> Digits!Lo(a) + Digits!Lo(b) + c >= Nib]
      BY <3>1 DEF Digits!Z80Add
    <3> HIDE DEF r, res
    <3>3. "v" \notin DOMAIN res /\ res.r = r /\ (res.c <=> a + b + c > Digits!B - 1)
          /\ (res.h <=> Digits!Lo(a) + Digits!Lo(b) + c >= Nib)
      BY <3>2
    <3> QED BY <1>1, <3>3
  <2>3. CASE op = "m68k add"
    <3> DEFINE carry == \/ Digits!Top(a) /\ Digits!Top(b)
                        \/ Digits!Top(a) /\ ~Digits!Top(r)
                        \/ Digits!Top(b) /\ ~Digits!Top(r)
               over == \/ Digits!Top(a) /\ Digits!Top(b) /\ ~Digits!Top(r)
                       \/ ~Digits!Top(a) /\ ~Digits!Top(b) /\ Digits!Top(r)
    <3>1. res = Digits!M68kAdd(a, b, c)
      BY <2>3 DEF Digits!Result
    <3>2. res = [r |-> r, c |-> carry, v |-> over]
      BY <3>1 DEF Digits!M68kAdd
    <3>3. (carry <=> a + b + c >= Digits!B) /\ (over <=> Digits!AddV(a, b, r))
      BY ByteSum DEF ByteSumIs
    <3> HIDE DEF r, res, carry, over
    <3>4. "h" \notin DOMAIN res /\ res.r = r /\ (res.c <=> carry) /\ (res.v <=> over)
      BY <3>2
    <3> QED BY <1>2, <3>3, <3>4
  <2> QED BY <2>1, <2>2, <2>3 DEF Digits!Sums
<1> HIDE DEF res
<1> QED
  BY <1>3 DEF Digits!SumExact, r, res, fits

\* Adding the complement is subtracting.
LEMMA Complement ==
  ASSUME NEW a \in Digits!Byte, NEW b \in Digits!Byte, NEW c \in {0, 1}
  PROVE  /\ Digits!Wrap(a + (Digits!B - 1 - b) + c) = Digits!Wrap(a - b - (1 - c))
         /\ a + (Digits!B - 1 - b) + c > Digits!B - 1 <=> a >= b + (1 - c)
         /\ \A r : Digits!AddV(a, Digits!B - 1 - b, r) <=> Digits!SubV(a, b, r)
<1> DEFINE h == Digits!B \div 2
           n == Digits!B - 1 - b
           d == 1 - c
<1>1. h \in Nat \ {0} /\ Digits!B = 2 * h
  BY DigitFacts
<1>2. a \in 0..(2 * h - 1) /\ b \in 0..(2 * h - 1)
  BY <1>1 DEF Digits!Byte
<1>3. n \in Digits!Byte /\ d \in {0, 1} /\ n = 2 * h - 1 - b
  BY <1>1, <1>2 DEF Digits!Byte
<1>4. ByteSumIs(a, n, c, Digits!Wrap(a + n + c))
  <2> HIDE DEF n
  <2> QED BY <1>3, ByteSum
<1>5. ByteDifferenceIs(a, b, d, Digits!Wrap(a - b - d))
  <2> HIDE DEF d
  <2> QED BY <1>3, ByteDifference
<1>6. (Digits!Top(a) <=> a >= h) /\ (Digits!Top(b) <=> b >= h) /\ (Digits!Top(n) <=> n >= h)
  BY DEF Digits!Top
<1>7. Digits!Wrap(a + n + c)
        = IF a + n + c >= Digits!B THEN a + n + c - Digits!B ELSE a + n + c
  BY <1>4 DEF ByteSumIs
<1>8. Digits!Wrap(a - b - d) = IF a >= b + d THEN a - b - d ELSE a - b - d + Digits!B
  BY <1>5 DEF ByteDifferenceIs
<1> HIDE DEF h, n
<1>9. Digits!Top(n) <=> ~Digits!Top(b)
  BY <1>1, <1>2, <1>3, <1>6
<1>10. a + n + c >= Digits!B <=> a >= b + d
  BY <1>1, <1>2, <1>3
<1>11. a + n + c > Digits!B - 1 <=> a >= b + d
  BY <1>1, <1>2, <1>3
<1>12. Digits!Wrap(a + n + c) = Digits!Wrap(a - b - d)
  <2>1. a + n + c - Digits!B = a - b - d /\ a + n + c = a - b - d + Digits!B
    BY <1>1, <1>2, <1>3
  <2> HIDE DEF d
  <2> QED BY <1>7, <1>8, <1>10, <2>1
<1>13. ASSUME NEW r PROVE Digits!AddV(a, n, r) <=> Digits!SubV(a, b, r)
  <2>1. Digits!AddV(a, n, r) <=> (Digits!Top(a) <=> Digits!Top(n)) /\ ~(Digits!Top(a) <=> Digits!Top(r))
    BY DEF Digits!AddV, Digits!Top
  <2>2. Digits!SubV(a, b, r) <=> ~(Digits!Top(a) <=> Digits!Top(b)) /\ ~(Digits!Top(a) <=> Digits!Top(r))
    BY DEF Digits!SubV, Digits!Top
  <2> QED BY <1>9, <2>1, <2>2
<1> QED
  BY <1>11, <1>12, <1>13 DEF n

\* The subtraction that takes no carry.
NoCarryIn(op) == op = "z80 sub"

LEMMA DifferencesExact ==
  ASSUME NEW op \in Digits!Differences, NEW a \in Digits!Byte, NEW b \in Digits!Byte,
         NEW c \in {0, 1}, NoCarryIn(op) => c = 1
  PROVE  Digits!DifferenceExact(op, a, b, c, Digits!Result(op, a, b, c))
<1>a. a \in Nat /\ b \in Nat /\ Digits!B \in Nat
  BY DigitFacts DEF Digits!Byte
<1>b. 1 - c \in {0, 1} /\ (NoCarryIn(op) => 1 - c = 0)
  OBVIOUS
<1> DEFINE d == 1 - c
           r == Digits!Wrap(a - b - d)
           res == Digits!Result(op, a, b, c)
           fits == Digits!Fits(Digits!Signed(a) - Digits!Signed(b) - d)
           carry == IF op \in {"z80 sub", "m68k sub"} THEN ~res.c ELSE res.c
<1>1. a \in Nat /\ b \in Nat /\ d \in {0, 1} /\ Digits!B \in Nat
  BY <1>a, <1>b
<1> HIDE DEF d
<1>2. ByteDifferenceIs(a, b, d, r)
  BY <1>1, ByteDifference
<1>3. Digits!SubV(a, b, r) <=> ~fits
  BY <1>2 DEF ByteDifferenceIs
<1> HIDE DEF fits
<1>4. /\ res.r = r
      /\ op \notin {"65816 sbc word", "z80 sbc"} => (carry <=> a >= b + d)
      /\ "v" \in DOMAIN res => (res.v <=> ~fits)
  <2>1. CASE op = "6502 sbc"
    <3> DEFINE n == Digits!B - 1 - b
    <3>1. res = Digits!NesAdc(a, n, c)
      BY <2>1 DEF Digits!Result, Digits!NesSbc
    <3>2. /\ Digits!Wrap(a + n + c) = r /\ (a + n + c > Digits!B - 1 <=> a >= b + d)
          /\ Digits!AddV(a, n, r) <=> Digits!SubV(a, b, r)
      BY Complement DEF d
    <3> HIDE DEF n, r
    <3>3. res = [r |-> r, c |-> a + n + c > Digits!B - 1, v |-> Digits!AddV(a, n, r)]
      BY <3>1, <3>2 DEF Digits!NesAdc
    <3> HIDE DEF res
    <3>4. res.r = r /\ (res.c <=> a + n + c > Digits!B - 1) /\ (res.v <=> Digits!AddV(a, n, r))
      BY <3>3
    <3> QED BY <1>3, <2>1, <3>2, <3>4
  <2>2. CASE op = "65816 sbc"
    <3>1. res = Digits!SnesSbc(a, b, c)
      BY <2>2 DEF Digits!Result
    <3>2. res = [r |-> r, c |-> a >= b + d, v |-> Digits!SubV(a, b, r)]
      BY <3>1 DEF Digits!SnesSbc, d
    <3> HIDE DEF r, res
    <3>3. res.r = r /\ (res.c <=> a >= b + d) /\ (res.v <=> Digits!SubV(a, b, r))
      BY <3>2
    <3> QED BY <1>3, <2>2, <3>3
  <2>3. CASE op = "65816 sbc word"
    <3>1. res = Digits!SnesSbcWord(a, b, c)
      BY <2>3 DEF Digits!Result
    <3>2. res = [r |-> r, c |-> a >= b + 1, v |-> Digits!SubV(a, b, r)]
      BY <3>1 DEF Digits!SnesSbcWord, Digits!SnesSbc, d
    <3> HIDE DEF r, res
    <3>3. res.r = r /\ (res.v <=> Digits!SubV(a, b, r))
      BY <3>2
    <3> QED BY <1>3, <2>3, <3>3
  <2>4. CASE op = "z80 sub"
    <3>0. d = 0
      BY ONLY <1>b, <2>4 DEF d, NoCarryIn
    <3>1. res = Digits!Z80Sub(a, b, d)
      <4>1. res = Digits!Z80Sub(a, b, 0)
        BY <2>4 DEF Digits!Result
      <4> QED BY <3>0, <4>1
    <3>2. res = [r |-> r, c |-> a - b - d < 0, h |-> Digits!Lo(a) - Digits!Lo(b) - d < 0]
      BY <3>1 DEF Digits!Z80Sub
    <3> HIDE DEF r, res
    <3>3. res.r = r /\ (res.c <=> a - b - d < 0) /\ "v" \notin DOMAIN res
      BY <3>2
    <3>4. a - b - d < 0 <=> ~(a >= b + d)
      BY ONLY <1>1
    <3> QED BY <2>4, <3>3, <3>4
  <2>5. CASE op = "z80 sbc"
    <3>1. res = Digits!Z80Sbc(a, b, d)
      BY <2>5 DEF Digits!Result, d
    <3>2. res = [r |-> r, c |-> d = 1, h |-> Digits!Lo(a) - Digits!Lo(b) - d < 0]
      BY <3>1 DEF Digits!Z80Sbc, Digits!Z80Sub
    <3> HIDE DEF r, res
    <3>3. res.r = r /\ "v" \notin DOMAIN res
      BY <3>2
    <3> QED BY <2>5, <3>3
  <2>6. CASE op = "m68k sub"
    <3> DEFINE borrow == \/ ~Digits!Top(a) /\ Digits!Top(b)
                         \/ Digits!Top(b) /\ Digits!Top(r)
                         \/ ~Digits!Top(a) /\ Digits!Top(r)
               over == \/ Digits!Top(a) /\ ~Digits!Top(b) /\ ~Digits!Top(r)
                       \/ ~Digits!Top(a) /\ Digits!Top(b) /\ Digits!Top(r)
    <3>1. res = Digits!M68kSub(a, b, d)
      BY <2>6 DEF Digits!Result, d
    <3>2. res = [r |-> r, c |-> borrow, v |-> over]
      BY <3>1 DEF Digits!M68kSub
    <3>3. (borrow <=> ~(a >= b + d)) /\ (over <=> Digits!SubV(a, b, r))
      BY <1>2 DEF ByteDifferenceIs
    <3> HIDE DEF r, res, borrow, over
    <3>4. res.r = r /\ (res.c <=> borrow) /\ (res.v <=> over)
      BY <3>2
    <3> QED BY <1>3, <2>6, <3>3, <3>4
  <2> QED BY <2>1, <2>2, <2>3, <2>4, <2>5, <2>6 DEF Digits!Differences
<1> HIDE DEF res
<1> QED
  BY <1>4 DEF Digits!DifferenceExact, r, res, fits, d, carry

(***************************************************************************)
(* Decimal bytes.                                                          *)
(***************************************************************************)

\* A number of two digits in base n.
LEMMA TwoDigits ==
  ASSUME NEW n \in Nat \ {0}, NEW p \in 0..(n - 1), NEW q \in 0..(n - 1)
  PROVE  p * n + q \in 0..(n * n - 1)
<1>1. (n - 1 - p) * n >= 0 /\ p * n >= 0
  OBVIOUS
<1>2. (n - 1 - p) * n = n * n - n - p * n
  OBVIOUS
<1>3. p * n \in Int /\ n * n \in Int
  OBVIOUS
<1> QED
  BY <1>1, <1>2, <1>3

LEMMA DecimalByte ==
  ASSUME NEW p \in 0..(Ten - 1), NEW q \in 0..(Ten - 1)
  PROVE  /\ p * Nib + q \in Digits!Decimal
         /\ Digits!Tens(p * Nib + q) = p * Ten + q
         /\ Digits!Lo(p * Nib + q) = q /\ Digits!Hi(p * Nib + q) = p
<1> DEFINE r == p * Nib + q
<1>1. Nib \in Nat \ {0} /\ p \in 0..(Nib - 1) /\ q \in 0..(Nib - 1)
  BY DigitFacts
<1>2. r \in 0..(Nib * Nib - 1)
  BY <1>1, TwoDigits
<1>3. r = Nib * p + q /\ r \in Nat
  BY <1>1, <1>2
<1> HIDE DEF r
<1>4. r % Nib = q /\ r \div Nib = p
  BY <1>1, <1>3, DivUnique
<1>5. Digits!Lo(r) = q /\ Digits!Hi(r) = p
  BY <1>4 DEF Digits!Lo, Digits!Hi
<1>6. r \in Digits!Byte
  BY <1>2, DigitFacts DEF Digits!Byte
<1>7. q < Ten /\ p < Ten
  BY DigitFacts
<1> QED
  BY <1>5, <1>6, <1>7 DEF Digits!Decimal, Digits!Tens, r

LEMMA DecimalParts ==
  ASSUME NEW x \in Digits!Decimal
  PROVE  /\ Digits!Lo(x) \in 0..(Ten - 1) /\ Digits!Hi(x) \in 0..(Ten - 1)
         /\ x = Digits!Hi(x) * Nib + Digits!Lo(x)
         /\ Digits!Tens(x) = Digits!Hi(x) * Ten + Digits!Lo(x)
         /\ x \in Digits!Byte
<1>1. x \in Digits!Byte /\ Digits!Lo(x) < Ten /\ Digits!Hi(x) < Ten
  BY DEF Digits!Decimal
<1>2. x \in Nat /\ Nib \in Nat \ {0} /\ Ten \in Nat
  BY <1>1, DigitFacts DEF Digits!Byte
<1>3. x \div Nib \in Nat /\ x % Nib \in 0..(Nib - 1) /\ x = Nib * (x \div Nib) + (x % Nib)
  BY ONLY <1>2, DivParts
<1>4. x = (x \div Nib) * Nib + (x % Nib)
  BY ONLY <1>2, <1>3
<1>5. x \div Nib \in 0..(Ten - 1) /\ x % Nib \in 0..(Ten - 1)
  BY <1>1, <1>2, <1>3 DEF Digits!Lo, Digits!Hi
<1> QED
  BY <1>1, <1>4, <1>5 DEF Digits!Lo, Digits!Hi, Digits!Tens

\* Two digits whose carries k and j are given, as the sum of la, lb and c and
\* of ha and hb.
IsDecimalSum(a, b, c, k, j, p, q) ==
  /\ k = (IF Digits!Lo(a) + Digits!Lo(b) + c >= Ten THEN 1 ELSE 0)
  /\ q = (Digits!Lo(a) + Digits!Lo(b) + c) - k * Ten
  /\ j = (IF Digits!Hi(a) + Digits!Hi(b) + k >= Ten THEN 1 ELSE 0)
  /\ p = (Digits!Hi(a) + Digits!Hi(b) + k) - j * Ten

LEMMA DecimalSum ==
  ASSUME NEW a \in Digits!Decimal, NEW b \in Digits!Decimal, NEW c \in {0, 1},
         NEW k, NEW j, NEW p, NEW q, IsDecimalSum(a, b, c, k, j, p, q)
  PROVE  /\ p \in 0..(Ten - 1) /\ q \in 0..(Ten - 1)
         /\ p * Nib + q \in Digits!Decimal
         /\ Digits!Tens(p * Nib + q)
              = (Digits!Tens(a) + Digits!Tens(b) + c) % (Ten * Ten)
         /\ j = 1 <=> Digits!Tens(a) + Digits!Tens(b) + c >= Ten * Ten
<1> DEFINE la == Digits!Lo(a)  lb == Digits!Lo(b)  ha == Digits!Hi(a)  hb == Digits!Hi(b)
           t == Digits!Tens(a) + Digits!Tens(b) + c
<1>1. la \in 0..(Ten - 1) /\ lb \in 0..(Ten - 1) /\ ha \in 0..(Ten - 1) /\ hb \in 0..(Ten - 1)
  BY DecimalParts
<1>2. t = (ha * Ten + la) + (hb * Ten + lb) + c
  BY DecimalParts
<1>3. /\ k = (IF la + lb + c >= Ten THEN 1 ELSE 0) /\ q = (la + lb + c) - k * Ten
      /\ j = (IF ha + hb + k >= Ten THEN 1 ELSE 0) /\ p = (ha + hb + k) - j * Ten
  BY Zenon DEF IsDecimalSum
<1>4. Ten \in Nat \ {0}
  BY DigitFacts
<1> HIDE DEF la, lb, ha, hb, t
<1>5. k \in {0, 1} /\ j \in {0, 1} /\ p \in 0..(Ten - 1) /\ q \in 0..(Ten - 1)
  <2>1. k \in {0, 1} /\ q \in 0..(Ten - 1)
    BY <1>1, <1>3, <1>4
  <2>2. j \in {0, 1} /\ p \in 0..(Ten - 1)
    BY <1>1, <1>3, <1>4, <2>1
  <2> QED BY <2>1, <2>2
<1> DEFINE w == p * Ten + q  tt == Ten * Ten
<1>6. w \in 0..(tt - 1)
  BY <1>4, <1>5, TwoDigits
<1>7. tt \in Nat \ {0}
  BY <1>4
<1>8. t = w + j * tt
  <2>1. p * Ten + q = (ha + hb + k) * Ten - (j * Ten) * Ten + (la + lb + c) - k * Ten
    BY <1>1, <1>3, <1>4, <1>5
  <2>2. (ha + hb + k) * Ten = ha * Ten + hb * Ten + k * Ten /\ (j * Ten) * Ten = j * tt
    BY <1>1, <1>4, <1>5
  <2>3. ha * Ten \in Int /\ hb * Ten \in Int /\ k * Ten \in Int /\ j * tt \in Int
    BY <1>1, <1>4, <1>5
  <2> QED BY <1>1, <1>2, <2>1, <2>2, <2>3
<1>9. w = t % tt /\ (j = 1 <=> t >= tt)
  <2> HIDE DEF w, tt
  <2>1. t \in 0..(2 * tt - 1) /\ t \in Int /\ -tt <= t /\ t < 2 * tt
    BY <1>5, <1>6, <1>7, <1>8
  <2>2. t % tt = IF t < 0 THEN t + tt ELSE IF t < tt THEN t ELSE t - tt
    BY <1>7, <2>1, WrapOnce
  <2>3. CASE j = 0
    BY <1>6, <1>7, <1>8, <2>1, <2>2, <2>3
  <2>4. CASE j = 1
    BY <1>6, <1>7, <1>8, <2>1, <2>2, <2>4
  <2> QED BY <1>5, <2>3, <2>4
<1>10. p * Nib + q \in Digits!Decimal /\ Digits!Tens(p * Nib + q) = w
  BY <1>5, DecimalByte
<1> HIDE DEF w
<1> QED
  BY <1>5, <1>9, <1>10 DEF t

\* A digit moved past those that are not decimal, and one taken back.
LEMMA DigitMoved ==
  ASSUME NEW lo \in 0..(2 * Ten - 1),
         NEW x, x = IF lo > Ten - 1 THEN lo + (Nib - Ten) ELSE lo
  PROVE  /\ x % Nib = (IF lo >= Ten THEN lo - Ten ELSE lo)
         /\ x > Nib - 1 <=> lo >= Ten
<1>1. Nib \in Nat \ {0} /\ Ten \in Nat /\ Ten <= Nib
  BY DigitFacts
<1>2. x \in Int /\ x >= 0 /\ x < 2 * Nib /\ -Nib <= x
  BY <1>1
<1>3. x % Nib = IF x < 0 THEN x + Nib ELSE IF x < Nib THEN x ELSE x - Nib
  BY <1>1, <1>2, WrapOnce
<1> QED
  BY <1>1, <1>2, <1>3

LEMMA DigitBack ==
  ASSUME NEW hi \in 0..(2 * Ten - 1)
  PROVE  (IF hi > Ten - 1 THEN hi - Ten ELSE hi) % Nib = (IF hi >= Ten THEN hi - Ten ELSE hi)
<1> DEFINE x == IF hi > Ten - 1 THEN hi - Ten ELSE hi
<1>1. Nib \in Nat \ {0} /\ Ten \in Nat /\ Ten <= Nib
  BY DigitFacts
<1>2. x \in 0..(Nib - 1) /\ x = (IF hi >= Ten THEN hi - Ten ELSE hi)
  BY <1>1
<1> HIDE DEF x
<1>3. x % Nib = x
  BY <1>1, <1>2
<1> QED
  BY <1>2, <1>3 DEF x

\* The sum digit by digit, corrected in either way.
LEMMA DecimalDigits ==
  ASSUME NEW a \in Digits!Decimal, NEW b \in Digits!Decimal, NEW c \in {0, 1}
  PROVE  \E k, j, p, q :
           /\ IsDecimalSum(a, b, c, k, j, p, q)
           /\ (Digits!Abcd(a, b, c).r = p * Nib + q /\ (Digits!Abcd(a, b, c).c <=> j = 1))
           /\ Digits!SnesAdcDecimal(a, b, c).r = p * Nib + q
<1> DEFINE lo == Digits!Lo(a) + Digits!Lo(b) + c
           k == IF lo >= Ten THEN 1 ELSE 0
           q == lo - k * Ten
           hi == Digits!Hi(a) + Digits!Hi(b) + k
           j == IF hi >= Ten THEN 1 ELSE 0
           p == hi - j * Ten
           x == IF lo > Ten - 1 THEN lo + (Nib - Ten) ELSE lo
           y == IF hi > Ten - 1 THEN hi - Ten ELSE hi
<1>1. lo \in 0..(2 * Ten - 1) /\ hi \in 0..(2 * Ten - 1) /\ Ten \in Nat
  <2>1. /\ Digits!Lo(a) \in 0..(Ten - 1) /\ Digits!Lo(b) \in 0..(Ten - 1)
        /\ Digits!Hi(a) \in 0..(Ten - 1) /\ Digits!Hi(b) \in 0..(Ten - 1)
    BY DecimalParts
  <2>2. Ten \in Nat
    BY DigitFacts
  <2>3. k \in {0, 1}
    OBVIOUS
  <2> HIDE DEF k
  <2> QED BY ONLY <2>1, <2>2, <2>3, c \in {0, 1}
<1>2. IsDecimalSum(a, b, c, k, j, p, q)
  <2>1. k = IF Digits!Lo(a) + Digits!Lo(b) + c >= Ten THEN 1 ELSE 0
    OBVIOUS
  <2>2. q = (Digits!Lo(a) + Digits!Lo(b) + c) - k * Ten
    OBVIOUS
  <2> HIDE DEF k, q
  <2>3. j = IF Digits!Hi(a) + Digits!Hi(b) + k >= Ten THEN 1 ELSE 0
    OBVIOUS
  <2>4. p = (Digits!Hi(a) + Digits!Hi(b) + k) - j * Ten
    OBVIOUS
  <2> HIDE DEF j, p
  <2> QED BY <2>1, <2>2, <2>3, <2>4 DEF IsDecimalSum
<1>3. Digits!Bit(lo > Ten - 1) = k
  BY <1>1 DEF Digits!Bit
<1>4. x % Nib = q /\ (x > Nib - 1 <=> k = 1)
  <2> HIDE DEF lo
  <2>1. x % Nib = (IF lo >= Ten THEN lo - Ten ELSE lo) /\ (x > Nib - 1 <=> lo >= Ten)
    BY <1>1, DigitMoved
  <2> QED BY <1>1, <2>1
<1>5. Digits!Bit(x > Nib - 1) = k
  BY <1>4 DEF Digits!Bit
<1>6. y % Nib = p /\ (hi > Ten - 1 <=> j = 1)
  <2> HIDE DEF hi
  <2>1. y % Nib = (IF hi >= Ten THEN hi - Ten ELSE hi)
    BY <1>1, DigitBack
  <2> QED BY <1>1, <2>1
<1>7. Digits!SnesAdcDecimal(a, b, c).r = p * Nib + q
  <2>1. Digits!SnesAdcDecimal(a, b, c).r = (y % Nib) * Nib + (x % Nib)
    BY <1>3 DEF Digits!SnesAdcDecimal
  <2> HIDE DEF x, y, p, q
  <2> QED BY <1>4, <1>6, <2>1
<1>8. Digits!Abcd(a, b, c).r = p * Nib + q /\ (Digits!Abcd(a, b, c).c <=> j = 1)
  <2>1. /\ Digits!Abcd(a, b, c).r = (y % Nib) * Nib + (x % Nib)
        /\ Digits!Abcd(a, b, c).c <=> hi > Ten - 1
    BY <1>5 DEF Digits!Abcd
  <2> HIDE DEF x, y, p, q, hi, j
  <2> QED BY <1>4, <1>6, <2>1
<1> HIDE DEF k, j, p, q
<1> QED
  BY <1>2, <1>7, <1>8

IsDecimalDifference(a, b, d, k, j, p, q) ==
  /\ k = (IF Digits!Lo(a) - Digits!Lo(b) - d < 0 THEN 1 ELSE 0)
  /\ q = (Digits!Lo(a) - Digits!Lo(b) - d) + k * Ten
  /\ j = (IF Digits!Hi(a) - Digits!Hi(b) - k < 0 THEN 1 ELSE 0)
  /\ p = (Digits!Hi(a) - Digits!Hi(b) - k) + j * Ten

\* Numbers of two digits compare as their digits do.
LEMMA DigitOrder ==
  ASSUME NEW n \in Nat, n >= Ten,
         NEW la \in 0..(Ten - 1), NEW lb \in 0..(Ten - 1), NEW d \in {0, 1},
         NEW ha \in 0..(Ten - 1), NEW hb \in 0..(Ten - 1)
  PROVE  (ha * n + la) - (hb * n + lb) - d < 0
           <=> ha - hb - (IF la - lb - d < 0 THEN 1 ELSE 0) < 0
<1> DEFINE g == ha - hb  e == la - lb - d
<1>1. Ten \in Nat
  BY DigitFacts
<1>2. g \in Int /\ e \in Int /\ -n <= e /\ e < n
  BY <1>1
<1>3. (ha * n + la) - (hb * n + lb) - d = g * n + e
  BY <1>1
<1> HIDE DEF g, e
<1>4. CASE g >= 1
  <2>1. (g - 1) * n >= 0 /\ g * n = (g - 1) * n + n
    BY <1>2, <1>4
  <2> QED BY <1>2, <1>3, <1>4, <2>1 DEF g, e
<1>5. CASE g = 0
  <2>1. g * n = 0
    BY <1>5
  <2> QED BY <1>2, <1>3, <1>5, <2>1 DEF g, e
<1>6. CASE g <= -1
  <2>1. (-1 - g) * n >= 0 /\ g * n = -n - (-1 - g) * n
    BY <1>2, <1>6
  <2>2. g * n \in Int /\ (-1 - g) * n \in Int
    BY <1>2
  <2>3. g * n + e < 0
    BY <1>2, <2>1, <2>2
  <2> QED BY <1>2, <1>3, <1>6, <2>3 DEF g, e
<1> QED
  BY <1>2, <1>4, <1>5, <1>6

LEMMA DecimalDifference ==
  ASSUME NEW a \in Digits!Decimal, NEW b \in Digits!Decimal, NEW d \in {0, 1},
         NEW k, NEW j, NEW p, NEW q, IsDecimalDifference(a, b, d, k, j, p, q)
  PROVE  /\ p \in 0..(Ten - 1) /\ q \in 0..(Ten - 1)
         /\ p * Nib + q \in Digits!Decimal
         /\ Digits!Tens(p * Nib + q)
              = (Digits!Tens(a) - Digits!Tens(b) - d) % (Ten * Ten)
         /\ j = 1 <=> Digits!Tens(a) < Digits!Tens(b) + d
         /\ j = 1 <=> ~(a >= b + d)
         /\ k \in {0, 1} /\ j \in {0, 1}
<1> DEFINE la == Digits!Lo(a)  lb == Digits!Lo(b)  ha == Digits!Hi(a)  hb == Digits!Hi(b)
           t == Digits!Tens(a) - Digits!Tens(b) - d
<1>1. la \in 0..(Ten - 1) /\ lb \in 0..(Ten - 1) /\ ha \in 0..(Ten - 1) /\ hb \in 0..(Ten - 1)
  BY DecimalParts
<1>2. Digits!Tens(a) = ha * Ten + la /\ Digits!Tens(b) = hb * Ten + lb
      /\ a = ha * Nib + la /\ b = hb * Nib + lb
  BY DecimalParts
<1>3. /\ k = (IF la - lb - d < 0 THEN 1 ELSE 0) /\ q = (la - lb - d) + k * Ten
      /\ j = (IF ha - hb - k < 0 THEN 1 ELSE 0) /\ p = (ha - hb - k) + j * Ten
  BY Zenon DEF IsDecimalDifference
<1>4. Ten \in Nat \ {0} /\ Nib \in Nat /\ Nib >= Ten
  BY DigitFacts
<1>t. t = (ha * Ten + la) - (hb * Ten + lb) - d
  BY <1>2
<1>n. a \in Int /\ b \in Int /\ Digits!Tens(a) \in Int /\ Digits!Tens(b) \in Int
  BY <1>1, <1>2, <1>4
<1> HIDE DEF la, lb, ha, hb
<1>5. k \in {0, 1} /\ j \in {0, 1} /\ p \in 0..(Ten - 1) /\ q \in 0..(Ten - 1)
  <2>1. k \in {0, 1} /\ q \in 0..(Ten - 1)
    BY <1>1, <1>3, <1>4
  <2>2. j \in {0, 1} /\ p \in 0..(Ten - 1)
    BY <1>1, <1>3, <1>4, <2>1
  <2> QED BY <2>1, <2>2
<1>6. j = 1 <=> Digits!Tens(a) < Digits!Tens(b) + d
  <2>1. (ha * Ten + la) - (hb * Ten + lb) - d < 0 <=> j = 1
    BY <1>1, <1>3, <1>4, DigitOrder
  <2> QED BY <1>n, <1>t, <2>1
<1>7. j = 1 <=> ~(a >= b + d)
  <2>1. (ha * Nib + la) - (hb * Nib + lb) - d < 0 <=> j = 1
    BY <1>1, <1>3, <1>4, DigitOrder
  <2>2. a - b - d < 0 <=> j = 1
    BY ONLY <1>2, <2>1
  <2> QED BY ONLY <1>n, <2>2, d \in {0, 1}
<1> DEFINE w == p * Ten + q  tt == Ten * Ten
<1>8. w \in 0..(tt - 1)
  BY <1>4, <1>5, TwoDigits
<1>9. tt \in Nat \ {0}
  BY <1>4
<1> HIDE DEF t
<1>10. t = w - j * tt /\ t \in Int
  <2>1. p * Ten + q = (ha - hb - k) * Ten + (j * Ten) * Ten + ((la - lb - d) + k * Ten)
    BY <1>1, <1>3, <1>4, <1>5
  <2>2. (ha - hb - k) * Ten = ha * Ten - hb * Ten - k * Ten /\ (j * Ten) * Ten = j * tt
    BY <1>1, <1>4, <1>5
  <2>3. ha * Ten \in Int /\ hb * Ten \in Int /\ k * Ten \in Int /\ j * tt \in Int
    BY <1>1, <1>4, <1>5
  <2> QED BY <1>1, <1>t, <2>1, <2>2, <2>3
<1>11. w = t % tt
  <2> HIDE DEF w, tt
  <2>1. -tt <= t /\ t < 2 * tt
    BY <1>5, <1>8, <1>9, <1>10
  <2>2. t % tt = IF t < 0 THEN t + tt ELSE IF t < tt THEN t ELSE t - tt
    BY <1>9, <1>10, <2>1, WrapOnce
  <2>3. CASE j = 0
    BY <1>8, <1>9, <1>10, <2>2, <2>3
  <2>4. CASE j = 1
    BY <1>8, <1>9, <1>10, <2>2, <2>4
  <2> QED BY <1>5, <2>3, <2>4
<1>12. p * Nib + q \in Digits!Decimal /\ Digits!Tens(p * Nib + q) = w
  BY <1>5, DecimalByte
<1> HIDE DEF w
<1> QED
  BY <1>5, <1>6, <1>7, <1>11, <1>12 DEF t

\* The difference digit by digit.
LEMMA DecimalBorrows ==
  ASSUME NEW a \in Digits!Decimal, NEW b \in Digits!Decimal, NEW c \in {0, 1}
  PROVE  \E k, j, p, q :
           /\ IsDecimalDifference(a, b, 1 - c, k, j, p, q)
           /\ Digits!Sbcd(a, b, 1 - c).r = p * Nib + q
           /\ Digits!Sbcd(a, b, 1 - c).c <=> j = 1
           /\ Digits!SnesSbcDecimal(a, b, c).r = p * Nib + q
           /\ Digits!SnesSbcDecimal(a, b, c).c <=> a >= b + (1 - c)
<1> DEFINE lo == Digits!Lo(a) - Digits!Lo(b) - (1 - c)
           k == IF lo < 0 THEN 1 ELSE 0
           q == lo + k * Ten
           hi == Digits!Hi(a) - Digits!Hi(b) - k
           j == IF hi < 0 THEN 1 ELSE 0
           p == hi + j * Ten
           x == IF lo < 0 THEN lo + Ten ELSE lo
           y == IF hi < 0 THEN hi + Ten ELSE hi
<1>1. IsDecimalDifference(a, b, 1 - c, k, j, p, q)
  <2>1. k = IF Digits!Lo(a) - Digits!Lo(b) - (1 - c) < 0 THEN 1 ELSE 0
    OBVIOUS
  <2>2. q = (Digits!Lo(a) - Digits!Lo(b) - (1 - c)) + k * Ten
    OBVIOUS
  <2> HIDE DEF k, q
  <2>3. j = IF Digits!Hi(a) - Digits!Hi(b) - k < 0 THEN 1 ELSE 0
    OBVIOUS
  <2>4. p = (Digits!Hi(a) - Digits!Hi(b) - k) + j * Ten
    OBVIOUS
  <2> HIDE DEF j, p
  <2> QED BY <2>1, <2>2, <2>3, <2>4 DEF IsDecimalDifference
<1>2. p \in 0..(Ten - 1) /\ q \in 0..(Ten - 1)
  <2> HIDE DEF k, j, p, q
  <2>1. 1 - c \in {0, 1}
    OBVIOUS
  <2> QED BY <1>1, <2>1, DecimalDifference
<1>3. Nib \in Nat /\ Ten \in Nat /\ Ten <= Nib
  BY DigitFacts
<1>4. p % Nib = p /\ q % Nib = q
  <2> HIDE DEF p, q
  <2> QED BY <1>2, <1>3
<1>5. x = q /\ y = p
  <2>1. Digits!Lo(a) \in Int /\ Digits!Lo(b) \in Int /\ Digits!Hi(a) \in Int /\ Digits!Hi(b) \in Int
    BY DecimalParts
  <2>2. k \in {0, 1} /\ lo \in Int
    BY <2>1
  <2>3. hi \in Int
    <3> HIDE DEF k
    <3> QED BY <2>1, <2>2
  <2>4. x = q
    <3> HIDE DEF lo
    <3> QED BY <1>3, <2>2
  <2>5. y = p
    <3> HIDE DEF hi
    <3> QED BY <1>3, <2>3
  <2> QED BY <2>4, <2>5
<1>6. Digits!Bit(lo < 0) = k
  BY DEF Digits!Bit
<1>7. Digits!Sbcd(a, b, 1 - c).r = p * Nib + q /\ (Digits!Sbcd(a, b, 1 - c).c <=> j = 1)
  <2>1. /\ Digits!Sbcd(a, b, 1 - c).r = (y % Nib) * Nib + (x % Nib)
        /\ Digits!Sbcd(a, b, 1 - c).c <=> hi < 0
    BY <1>6 DEF Digits!Sbcd
  <2>2. hi < 0 <=> j = 1
    OBVIOUS
  <2> HIDE DEF x, y, p, q, j, hi
  <2> QED BY <1>4, <1>5, <2>1, <2>2
<1>8. /\ Digits!SnesSbcDecimal(a, b, c).r = p * Nib + q
      /\ Digits!SnesSbcDecimal(a, b, c).c <=> a >= b + (1 - c)
  <2>1. /\ Digits!SnesSbcDecimal(a, b, c).r = (y % Nib) * Nib + (x % Nib)
        /\ Digits!SnesSbcDecimal(a, b, c).c <=> a >= b + (1 - c)
    BY <1>6 DEF Digits!SnesSbcDecimal
  <2> HIDE DEF x, y, p, q, j, hi
  <2> QED BY <1>4, <1>5, <2>1
<1> HIDE DEF k, j, p, q
<1> QED
  BY <1>1, <1>7, <1>8

\* What the correction makes of a sum or a difference s.
SumCorrected(s, p, q, j) ==
  /\ Digits!Z80Daa(s.r, FALSE, s.c, s.h).r = p * Nib + q
  /\ Digits!Z80Daa(s.r, FALSE, s.c, s.h).c <=> j = 1
DifferenceCorrected(s, p, q, j) ==
  /\ Digits!Z80Daa(s.r, TRUE, s.c, s.h).r = p * Nib + q
  /\ Digits!Z80Daa(s.r, TRUE, s.c, s.h).c <=> j = 1

\* The Z80 adds in binary and corrects by a digit's gap wherever a digit is no
\* decimal one or has carried.
LEMMA DaaAfterSum ==
  ASSUME NEW a \in Digits!Decimal, NEW b \in Digits!Decimal, NEW c \in {0, 1},
         NEW k, NEW j, NEW p, NEW q, IsDecimalSum(a, b, c, k, j, p, q),
         NEW s, s = Digits!Z80Add(a, b, c)
  PROVE  SumCorrected(s, p, q, j)
<1> DEFINE la == Digits!Lo(a)  lb == Digits!Lo(b)  ha == Digits!Hi(a)  hb == Digits!Hi(b)
           sum == la + lb + c
           half == IF sum >= Nib THEN 1 ELSE 0
           L == sum - half * Nib
           U == ha + hb + half
           full == IF U >= Nib THEN 1 ELSE 0
           V == U - full * Nib
           BB == Digits!B
<1>1. la \in 0..(Ten - 1) /\ lb \in 0..(Ten - 1) /\ ha \in 0..(Ten - 1) /\ hb \in 0..(Ten - 1)
  BY DecimalParts
<1>2. a = ha * Nib + la /\ b = hb * Nib + lb /\ a \in Digits!Byte /\ b \in Digits!Byte
  BY DecimalParts
<1>3. /\ k = (IF sum >= Ten THEN 1 ELSE 0) /\ q = sum - k * Ten
      /\ j = (IF (ha + hb + k) >= Ten THEN 1 ELSE 0) /\ p = (ha + hb + k) - j * Ten
  BY Zenon DEF IsDecimalSum
<1>4. Ten \in Nat \ {0} /\ Nib \in Nat \ {0} /\ Nib >= Ten /\ BB = Nib * Nib /\ BB \in Nat
  BY DigitFacts
<1>5. p \in 0..(Ten - 1) /\ q \in 0..(Ten - 1)
  BY DecimalSum
<1> HIDE DEF la, lb, ha, hb, BB
<1>6. sum \in 0..(2 * Ten - 1)
  BY <1>1, <1>4
<1>7. half \in {0, 1} /\ L \in 0..(Nib - 1) /\ U \in 0..(2 * Ten - 1)
  BY <1>1, <1>4
<1>8. full \in {0, 1} /\ V \in 0..(Nib - 1)
  <2> HIDE DEF U
  <2> QED BY <1>4, <1>7
<1>9. a + b + c = V * Nib + L + full * BB
  <2>1. a + b + c = (ha + hb) * Nib + sum
    BY <1>1, <1>2, <1>4
  <2>2. (ha + hb) * Nib + half * Nib = U * Nib
    BY <1>1, <1>4, <1>7
  <2>3. U * Nib = V * Nib + full * BB
    <3> HIDE DEF U, full
    <3>1. U = V + full * Nib
      BY <1>4, <1>7, <1>8
    <3> HIDE DEF V
    <3>2. (V + full * Nib) * Nib = V * Nib + full * (Nib * Nib)
      BY <1>4, <1>8
    <3> QED BY <1>4, <3>1, <3>2
  <2>4. sum = L + half * Nib
    <3> HIDE DEF sum, half
    <3> QED BY <1>4, <1>6, <1>7
  <2> HIDE DEF sum, half, L, U, V, full
  <2>5. (ha + hb) * Nib \in Int /\ half * Nib \in Int /\ U * Nib \in Int /\ V * Nib \in Int
        /\ full * BB \in Int
    BY <1>1, <1>4, <1>7, <1>8
  <2> QED BY <1>6, <1>7, <2>1, <2>2, <2>3, <2>4, <2>5
<1> HIDE DEF sum, half, L, U, V, full
<1>10. V * Nib + L \in 0..(BB - 1)
  BY <1>4, <1>7, <1>8, TwoDigits
<1>11. Digits!Wrap(a + b + c) = V * Nib + L
  <2> DEFINE w == V * Nib + L
           x == w + full * BB
  <2>1. w \in 0..(BB - 1) /\ BB \in Nat \ {0} /\ full \in Int
    BY <1>4, <1>8, <1>10
  <2> HIDE DEF w
  <2>2. x = BB * full + w /\ x \in Nat
    BY <1>8, <2>1
  <2> HIDE DEF x
  <2>3. x % BB = w
    BY <2>1, <2>2, DivUnique
  <2> QED BY <1>9, <2>3 DEF Digits!Wrap, w, x, BB
<1>12. s.r = V * Nib + L /\ (s.c <=> full = 1) /\ (s.h <=> half = 1)
  <2>1. s.r = Digits!Wrap(a + b + c) /\ (s.c <=> a + b + c > Digits!B - 1)
        /\ (s.h <=> Digits!Lo(a) + Digits!Lo(b) + c >= Nib)
    BY DEF Digits!Z80Add
  <2>2. a + b + c > BB - 1 <=> full = 1
    <3>1. CASE full = 0
      BY <1>4, <1>9, <1>10, <3>1
    <3>2. CASE full = 1
      BY <1>4, <1>9, <1>10, <3>2
    <3> QED BY <1>8, <3>1, <3>2
  <2> QED BY <1>11, <2>1, <2>2 DEF half, sum, la, lb, BB
<1>13. Digits!Lo(s.r) = L /\ Digits!Hi(s.r) = V
  <2> DEFINE w == V * Nib + L
  <2>1. w = Nib * V + L /\ w \in Nat /\ V \in Int
    BY <1>4, <1>7, <1>8, <1>10
  <2> HIDE DEF w
  <2>2. w % Nib = L /\ w \div Nib = V
    BY <1>4, <1>7, <2>1, DivUnique
  <2> QED BY <1>12, <2>2 DEF Digits!Lo, Digits!Hi, w
<1> DEFINE low == s.h \/ Digits!Lo(s.r) > Ten - 1
           high == s.c \/ s.r > (Ten - 1) * Nib + (Ten - 1)
<1>14. low <=> k = 1
  <2>1. half = 1 \/ L > Ten - 1 <=> k = 1
    BY <1>3, <1>4, <1>6 DEF half, L
  <2> QED BY <1>12, <1>13, <2>1
<1>15. high <=> j = 1
  <2> DEFINE e == (V - (Ten - 1)) * Nib
  <2>1. e \in Int /\ V * Nib + L - ((Ten - 1) * Nib + (Ten - 1)) = e + L - (Ten - 1)
        /\ V * Nib \in Int /\ (Ten - 1) * Nib \in Int
    BY <1>4, <1>7, <1>8
  <2>2. V * Nib + L > (Ten - 1) * Nib + (Ten - 1) <=> e + L - (Ten - 1) > 0
    <3> HIDE DEF e
    <3> QED BY <1>4, <1>7, <2>1
  <2>3. e + L - (Ten - 1) > 0 <=> V > Ten - 1 \/ (V = Ten - 1 /\ L > Ten - 1)
    <3> DEFINE f == V - (Ten - 1)
    <3>1. f \in Int
      BY <1>4, <1>8
    <3> HIDE DEF f
    <3>2. CASE f >= 1
      <4>1. (f - 1) * Nib >= 0 /\ f * Nib = (f - 1) * Nib + Nib
        BY <1>4, <3>1, <3>2
      <4> QED BY <1>4, <1>7, <1>8, <3>2, <4>1 DEF f
    <3>3. CASE f = 0
      <4>1. f * Nib = 0
        BY <1>4, <3>3
      <4> QED BY <1>4, <1>7, <1>8, <3>3, <4>1 DEF f
    <3>4. CASE f <= -1
      <4>1. (-1 - f) * Nib >= 0 /\ f * Nib = -Nib - (-1 - f) * Nib
        BY <1>4, <3>1, <3>4
      <4>2. f * Nib \in Int /\ (-1 - f) * Nib \in Int
        BY <1>4, <3>1
      <4>3. f * Nib <= -Nib
        BY <1>4, <4>1, <4>2
      <4>4. f * Nib + L - (Ten - 1) <= 0
        BY <1>4, <1>7, <4>2, <4>3
      <4> QED BY <1>4, <1>7, <1>8, <3>4, <4>2, <4>4 DEF f
    <3> QED BY <3>1, <3>2, <3>3, <3>4
  <2>4. full = 1 \/ V > Ten - 1 \/ (V = Ten - 1 /\ L > Ten - 1) <=> j = 1
    <3>1. CASE half = 1
      <4>1. k = 1 /\ U = ha + hb + 1 /\ L <= Ten - 1
        BY <1>1, <1>3, <1>4, <1>6, <3>1 DEF half, L, U
      <4> QED BY <1>1, <1>3, <1>4, <1>7, <4>1 DEF full, V
    <3>2. CASE half = 0
      <4>1. U = ha + hb /\ L = sum /\ k = IF L >= Ten THEN 1 ELSE 0
        BY <1>1, <1>3, <1>4, <1>6, <3>2 DEF half, L, U
      <4> QED BY <1>1, <1>3, <1>4, <1>7, <4>1 DEF full, V
    <3> QED BY <1>7, <3>1, <3>2
  <2> HIDE DEF e
  <2> QED BY <1>12, <2>2, <2>3, <2>4
<1>16. k \in {0, 1} /\ j \in {0, 1}
  BY <1>3
<1>17. Digits!Bit(low) = k /\ Digits!Bit(high) = j
  <2> HIDE DEF low, high
  <2> QED BY <1>14, <1>15, <1>16 DEF Digits!Bit
<1> DEFINE corr == k * (Nib - Ten) + j * (Nib - Ten) * Nib
<1>18. (V * Nib + L) + corr = p * Nib + q + (j - full) * BB
  <2>1. V * Nib + L + full * BB = (ha + hb) * Nib + sum
    <3>1. a + b + c = (ha + hb) * Nib + sum
      BY <1>1, <1>2, <1>4 DEF sum
    <3> QED BY <1>9, <3>1
  <2>2. p * Nib = (ha + hb) * Nib + k * Nib - (j * Ten) * Nib
    BY <1>1, <1>3, <1>4, <1>16
  <2>3. corr = k * Nib - k * Ten + j * BB - (j * Ten) * Nib
    <3>1. k * (Nib - Ten) = k * Nib - k * Ten
      BY <1>4, <1>16
    <3>2. j * (Nib - Ten) * Nib = j * (Nib * Nib) - (j * Ten) * Nib
      BY <1>4, <1>16
    <3>3. k * Nib \in Int /\ k * Ten \in Int /\ j * (Nib * Nib) \in Int /\ (j * Ten) * Nib \in Int
      BY <1>4, <1>16
    <3> QED BY <1>4, <3>1, <3>2, <3>3
  <2>4. (j - full) * BB = j * BB - full * BB
    BY <1>4, <1>8, <1>16
  <2>5. V * Nib \in Int /\ full * BB \in Int /\ (ha + hb) * Nib \in Int /\ k * Nib \in Int
        /\ (j * Ten) * Nib \in Int /\ k * Ten \in Int /\ j * BB \in Int
    BY <1>1, <1>4, <1>8, <1>16
  <2> HIDE DEF corr
  <2> QED BY <1>3, <1>6, <1>7, <2>1, <2>2, <2>3, <2>4, <2>5
<1>19. Digits!Wrap((V * Nib + L) + corr) = p * Nib + q
  <2> DEFINE w == p * Nib + q
  <2>1. w \in 0..(BB - 1)
    BY <1>4, <1>5, TwoDigits
  <2>2. full = 1 => j = 1
    BY <1>12, <1>15
  <2>3. j - full \in {0, 1} /\ w + (j - full) * BB = BB * (j - full) + w
        /\ w + (j - full) * BB \in Nat
    <3>1. CASE j - full = 0
      BY <1>4, <2>1, <3>1
    <3>2. CASE j - full = 1
      BY <1>4, <2>1, <3>2
    <3>3. j - full \in {0, 1}
      BY <1>8, <1>16, <2>2
    <3> QED BY <3>1, <3>2, <3>3
  <2> HIDE DEF w, corr
  <2>4. (w + (j - full) * BB) % BB = w
    BY <1>4, <2>1, <2>3, DivUnique
  <2> QED BY <1>18, <2>4 DEF Digits!Wrap, w, BB
<1>20. Digits!Z80Daa(s.r, FALSE, s.c, s.h)
         = [r |-> Digits!Wrap(s.r + (Digits!Bit(low) * (Nib - Ten) + Digits!Bit(high) * (Nib - Ten) * Nib)),
            c |-> high]
  BY Zenon DEF Digits!Z80Daa
<1> HIDE DEF low, high
<1>21. Digits!Z80Daa(s.r, FALSE, s.c, s.h) = [r |-> Digits!Wrap(s.r + corr), c |-> high]
  BY <1>17, <1>20
<1> DEFINE res == Digits!Z80Daa(s.r, FALSE, s.c, s.h)
           w == V * Nib + L
<1> HIDE DEF corr, res, w
<1>22. res.r = Digits!Wrap(s.r + corr) /\ (res.c <=> high)
  <2>1. res = [r |-> Digits!Wrap(s.r + corr), c |-> high]
    BY <1>21 DEF res
  <2> QED BY ONLY <2>1
<1>23. s.r = w /\ Digits!Wrap(w + corr) = p * Nib + q
  BY <1>12, <1>19 DEF w
<1> QED
  BY <1>15, <1>22, <1>23 DEF res, SumCorrected

LEMMA DaaAfterDifference ==
  ASSUME NEW a \in Digits!Decimal, NEW b \in Digits!Decimal,
         NEW k, NEW j, NEW p, NEW q, IsDecimalDifference(a, b, 0, k, j, p, q),
         NEW s, s = Digits!Z80Sub(a, b, 0)
  PROVE  DifferenceCorrected(s, p, q, j)
<1> DEFINE la == Digits!Lo(a)  lb == Digits!Lo(b)  ha == Digits!Hi(a)  hb == Digits!Hi(b)
           L == la - lb + k * Nib
           V == ha - hb - k + j * Nib
           BB == Digits!B
           w == V * Nib + L
<1>1. la \in 0..(Ten - 1) /\ lb \in 0..(Ten - 1) /\ ha \in 0..(Ten - 1) /\ hb \in 0..(Ten - 1)
  BY DecimalParts
<1>2. a = ha * Nib + la /\ b = hb * Nib + lb /\ a \in Digits!Byte /\ b \in Digits!Byte
  BY DecimalParts
<1>3. /\ k = (IF la - lb - 0 < 0 THEN 1 ELSE 0) /\ q = (la - lb - 0) + k * Ten
      /\ j = (IF ha - hb - k < 0 THEN 1 ELSE 0) /\ p = (ha - hb - k) + j * Ten
  BY Zenon DEF IsDecimalDifference
<1>4. Ten \in Nat \ {0} /\ Nib \in Nat \ {0} /\ Nib >= Ten /\ BB = Nib * Nib /\ BB \in Nat \ {0}
      /\ Nib >= 2
  BY DigitFacts
<1>5. p \in 0..(Ten - 1) /\ q \in 0..(Ten - 1) /\ (j = 1 <=> ~(a >= b + 0))
      /\ k \in {0, 1} /\ j \in {0, 1}
  <2> HIDE DEF la, lb, ha, hb
  <2>1. 0 \in {0, 1}
    OBVIOUS
  <2> QED BY <2>1, DecimalDifference
<1>n. a \in 0..(BB - 1) /\ b \in 0..(BB - 1)
  BY <1>2 DEF Digits!Byte
<1> HIDE DEF la, lb, ha, hb, BB
<1>6. L \in 0..(Nib - 1) /\ V \in 0..(Nib - 1)
  <2>1. L \in 0..(Nib - 1)
    BY <1>1, <1>3, <1>4, <1>5
  <2>2. V \in 0..(Nib - 1)
    BY <1>1, <1>3, <1>4, <1>5
  <2> QED BY <2>1, <2>2
<1>7. a - b = w - j * BB
  <2>1. a - b = (ha - hb) * Nib + (la - lb)
    BY <1>1, <1>2, <1>4
  <2>2. V * Nib = (ha - hb) * Nib - k * Nib + j * BB
    BY <1>1, <1>4, <1>5
  <2>3. (ha - hb) * Nib \in Int /\ k * Nib \in Int /\ j * BB \in Int /\ V * Nib \in Int
    BY <1>1, <1>4, <1>5, <1>6
  <2>4. L = la - lb + k * Nib
    OBVIOUS
  <2> HIDE DEF V, L
  <2> QED BY <1>1, <1>4, <1>6, <2>1, <2>2, <2>3, <2>4
<1> HIDE DEF L, V
<1>8. w \in 0..(BB - 1)
  BY <1>4, <1>6, TwoDigits
<1>9. Digits!Lo(w) = L
  <2>1. w = Nib * V + L /\ w \in Nat /\ V \in Int
    BY <1>4, <1>6, <1>8
  <2> HIDE DEF w
  <2>2. w % Nib = L /\ w \div Nib = V
    BY <1>4, <1>6, <2>1, DivUnique
  <2> QED BY <2>2 DEF Digits!Lo
<1> HIDE DEF w
<1>10. Digits!Wrap(a - b - 0) = w
  <2> DEFINE x == a - b
  <2>1. x \in Int /\ -BB <= x /\ x < 2 * BB /\ a - b - 0 = x
    BY <1>4, <1>n
  <2>2. x = w - j * BB
    BY <1>7
  <2> HIDE DEF x
  <2>3. x % BB = IF x < 0 THEN x + BB ELSE IF x < BB THEN x ELSE x - BB
    BY <1>4, <2>1, WrapOnce
  <2>4. CASE j = 0
    BY <1>4, <1>8, <2>1, <2>2, <2>3, <2>4 DEF Digits!Wrap, BB
  <2>5. CASE j = 1
    BY <1>4, <1>8, <2>1, <2>2, <2>3, <2>5 DEF Digits!Wrap, BB
  <2> QED BY <1>5, <2>4, <2>5
<1>11. s.r = w /\ (s.c <=> j = 1) /\ (s.h <=> k = 1)
  <2>1. s.r = Digits!Wrap(a - b - 0) /\ (s.c <=> a - b - 0 < 0)
        /\ (s.h <=> Digits!Lo(a) - Digits!Lo(b) - 0 < 0)
    BY DEF Digits!Z80Sub
  <2>2. a - b - 0 < 0 <=> j = 1
    BY <1>5, <1>n
  <2>3. la - lb - 0 < 0 <=> k = 1
    BY <1>1, <1>3
  <2> QED BY <1>10, <2>1, <2>2, <2>3 DEF la, lb
<1> DEFINE low == s.h \/ Digits!Lo(s.r) > Ten - 1
           high == s.c \/ s.r > (Ten - 1) * Nib + (Ten - 1)
<1>12. low <=> k = 1
  <2>1. k = 0 => ~(L > Ten - 1)
    BY <1>1, <1>4 DEF L
  <2> QED BY <1>5, <1>9, <1>11, <2>1
<1>13. high <=> j = 1
  <2>1. ASSUME j = 0 PROVE ~(w > (Ten - 1) * Nib + (Ten - 1))
    <3>1. w <= a
      BY <1>4, <1>7, <1>8, <1>n, <2>1
    <3>2. (Ten - 1 - ha) * Nib >= 0
          /\ (Ten - 1 - ha) * Nib = (Ten - 1) * Nib - ha * Nib
      BY <1>1, <1>4
    <3>3. (Ten - 1) * Nib \in Int /\ ha * Nib \in Int
      BY <1>1, <1>4
    <3> QED BY <1>1, <1>2, <1>4, <1>8, <1>n, <3>1, <3>2, <3>3
  <2> QED BY <1>5, <1>11, <2>1
<1>14. Digits!Bit(low) = k /\ Digits!Bit(high) = j
  <2> HIDE DEF low, high
  <2> QED BY <1>12, <1>13, <1>5 DEF Digits!Bit
<1> DEFINE corr == k * (Nib - Ten) + j * (Nib - Ten) * Nib
<1>15. w - corr = p * Nib + q /\ corr \in Int
  <2>1. p * Nib = (ha - hb) * Nib - k * Nib + (j * Ten) * Nib
    BY <1>1, <1>3, <1>4, <1>5
  <2>2. V * Nib = (ha - hb) * Nib - k * Nib + j * BB
    BY <1>1, <1>4, <1>5 DEF V
  <2>3. corr = k * Nib - k * Ten + j * BB - (j * Ten) * Nib
    <3>1. k * (Nib - Ten) = k * Nib - k * Ten
      BY <1>4, <1>5
    <3>2. j * (Nib - Ten) * Nib = j * (Nib * Nib) - (j * Ten) * Nib
      BY <1>4, <1>5
    <3>3. k * Nib \in Int /\ k * Ten \in Int /\ j * (Nib * Nib) \in Int /\ (j * Ten) * Nib \in Int
      BY <1>4, <1>5
    <3> QED BY <1>4, <3>1, <3>2, <3>3
  <2>4. (ha - hb) * Nib \in Int /\ k * Nib \in Int /\ k * Ten \in Int /\ j * BB \in Int
        /\ (j * Ten) * Nib \in Int /\ p * Nib \in Int /\ V * Nib \in Int
    BY <1>1, <1>4, <1>5, <1>6
  <2> HIDE DEF corr
  <2>5. L = la - lb + k * Nib
    BY DEF L
  <2> QED BY <1>1, <1>3, <1>5, <1>6, <2>1, <2>2, <2>3, <2>4, <2>5 DEF w
<1>16. Digits!Wrap(w - corr) = p * Nib + q
  <2>1. Nib \in Nat \ {0} /\ p \in 0..(Nib - 1) /\ q \in 0..(Nib - 1)
    BY <1>4, <1>5
  <2>2. p * Nib + q \in 0..(BB - 1)
    BY <1>4, <2>1, TwoDigits
  <2> HIDE DEF corr
  <2> QED BY <1>4, <1>15, <2>2 DEF Digits!Wrap, BB
<1>17. Digits!Z80Daa(s.r, TRUE, s.c, s.h)
         = [r |-> Digits!Wrap(s.r - (Digits!Bit(low) * (Nib - Ten) + Digits!Bit(high) * (Nib - Ten) * Nib)),
            c |-> high]
  BY Zenon DEF Digits!Z80Daa
<1> HIDE DEF low, high
<1>18. Digits!Z80Daa(s.r, TRUE, s.c, s.h) = [r |-> Digits!Wrap(s.r - corr), c |-> high]
  BY <1>14, <1>17
<1> DEFINE res == Digits!Z80Daa(s.r, TRUE, s.c, s.h)
<1> HIDE DEF corr, res
<1>19. res.r = Digits!Wrap(s.r - corr) /\ (res.c <=> high)
  <2>1. res = [r |-> Digits!Wrap(s.r - corr), c |-> high]
    BY <1>18 DEF res
  <2> QED BY ONLY <2>1
<1>20. s.r = w /\ Digits!Wrap(w - corr) = p * Nib + q
  BY <1>11, <1>16
<1> QED
  BY <1>13, <1>19, <1>20 DEF res, DifferenceCorrected

LEMMA DecimalSumsExact ==
  ASSUME NEW op \in Digits!DecimalSums, NEW a \in Digits!Decimal, NEW b \in Digits!Decimal,
         NEW c \in {0, 1}
  PROVE  Digits!DecimalSumExact(op, a, b, c, Digits!Result(op, a, b, c))
<1> DEFINE res == Digits!Result(op, a, b, c)
           s == Digits!Z80Add(a, b, c)
<1>1. PICK k, j, p, q :
        /\ IsDecimalSum(a, b, c, k, j, p, q)
        /\ (Digits!Abcd(a, b, c).r = p * Nib + q /\ (Digits!Abcd(a, b, c).c <=> j = 1))
        /\ Digits!SnesAdcDecimal(a, b, c).r = p * Nib + q
  BY DecimalDigits
<1>2. /\ p * Nib + q \in Digits!Decimal
      /\ Digits!Tens(p * Nib + q)
           = (Digits!Tens(a) + Digits!Tens(b) + c) % (Ten * Ten)
      /\ j = 1 <=> Digits!Tens(a) + Digits!Tens(b) + c >= Ten * Ten
  BY <1>1, DecimalSum
<1>3. /\ Digits!Z80Daa(s.r, FALSE, s.c, s.h).r = p * Nib + q
      /\ Digits!Z80Daa(s.r, FALSE, s.c, s.h).c <=> j = 1
  <2>1. SumCorrected(s, p, q, j)
    BY <1>1, DaaAfterSum
  <2> QED BY <2>1 DEF SumCorrected
<1>4. CASE op = "65816 adc decimal"
  <2>1. res = Digits!SnesAdcDecimal(a, b, c)
    BY <1>4 DEF Digits!Result
  <2> HIDE DEF res
  <2>2. res.r = p * Nib + q
    BY <1>1, <2>1
  <2> QED BY <1>2, <1>4, <2>2 DEF Digits!DecimalSumExact, res
<1>5. CASE op # "65816 adc decimal"
  <2>1. res.r = p * Nib + q /\ (res.c <=> j = 1)
    <3>1. CASE op = "z80 add daa"
      <4>1. res = Digits!Z80Daa(s.r, FALSE, s.c, s.h)
        BY <3>1 DEF Digits!Result
      <4> HIDE DEF res, s
      <4> QED BY <1>3, <4>1
    <3>2. CASE op = "abcd"
      <4>1. res = Digits!Abcd(a, b, c)
        BY <3>2 DEF Digits!Result
      <4> HIDE DEF res
      <4> QED BY <1>1, <4>1
    <3> QED BY <1>5, <3>1, <3>2 DEF Digits!DecimalSums
  <2> HIDE DEF res
  <2> QED BY <1>2, <1>5, <2>1 DEF Digits!DecimalSumExact, res
<1> QED
  BY <1>4, <1>5

\* The two subtractions that take no carry.
NoDecimalCarryIn(op) == op = "z80 sub daa"

LEMMA DecimalDifferencesExact ==
  ASSUME NEW op \in Digits!DecimalDifferences, NEW a \in Digits!Decimal,
         NEW b \in Digits!Decimal, NEW c \in {0, 1}, NoDecimalCarryIn(op) => c = 1
  PROVE  Digits!DecimalDifferenceExact(op, a, b, c, Digits!Result(op, a, b, c))
<1> DEFINE d == 1 - c
           res == Digits!Result(op, a, b, c)
           s == Digits!Z80Sub(a, b, 0)
           borrow == IF op = "65816 sbc decimal" THEN ~res.c ELSE res.c
<1>0. d \in {0, 1} /\ (NoDecimalCarryIn(op) => d = 0)
  OBVIOUS
<1>1. PICK k, j, p, q :
        /\ IsDecimalDifference(a, b, d, k, j, p, q)
        /\ Digits!Sbcd(a, b, d).r = p * Nib + q
        /\ Digits!Sbcd(a, b, d).c <=> j = 1
        /\ Digits!SnesSbcDecimal(a, b, c).r = p * Nib + q
        /\ Digits!SnesSbcDecimal(a, b, c).c <=> a >= b + d
  BY DecimalBorrows
<1>s. Digits!Result("sbcd", a, b, c) = Digits!Sbcd(a, b, d)
  BY DEF Digits!Result
<1> HIDE DEF d
<1>2. /\ p * Nib + q \in Digits!Decimal
      /\ Digits!Tens(p * Nib + q)
           = (Digits!Tens(a) - Digits!Tens(b) - d) % (Ten * Ten)
      /\ j = 1 <=> Digits!Tens(a) < Digits!Tens(b) + d
      /\ j = 1 <=> ~(a >= b + d)
  BY <1>0, <1>1, DecimalDifference
<1>3. res.r = p * Nib + q /\ (borrow <=> j = 1)
  <2>1. CASE op = "65816 sbc decimal"
    <3>1. res = Digits!SnesSbcDecimal(a, b, c)
      BY <2>1 DEF Digits!Result
    <3> HIDE DEF res
    <3>2. res.r = p * Nib + q /\ (res.c <=> a >= b + d)
      BY <1>1, <3>1
    <3> QED BY <1>2, <2>1, <3>2
  <2>2. CASE op = "z80 sub daa"
    <3>1. res = Digits!Z80Daa(s.r, TRUE, s.c, s.h)
      BY <2>2 DEF Digits!Result
    <3>2. d = 0
      BY <1>0, <2>2 DEF NoDecimalCarryIn
    <3>3. IsDecimalDifference(a, b, 0, k, j, p, q)
      BY <1>1, <3>2
    <3>4. /\ Digits!Z80Daa(s.r, TRUE, s.c, s.h).r = p * Nib + q
          /\ Digits!Z80Daa(s.r, TRUE, s.c, s.h).c <=> j = 1
      <4>1. DifferenceCorrected(s, p, q, j)
        BY <3>3, DaaAfterDifference
      <4> QED BY <4>1 DEF DifferenceCorrected
    <3> HIDE DEF res, s
    <3>5. res.r = p * Nib + q /\ (res.c <=> j = 1)
      BY <3>1, <3>4
    <3> QED BY <2>2, <3>5
  <2>3. CASE op = "sbcd"
    <3>1. res = Digits!Sbcd(a, b, d)
      BY <1>s, <2>3
    <3> HIDE DEF res
    <3>2. res.r = p * Nib + q /\ (res.c <=> j = 1)
      BY <1>1, <3>1
    <3> QED BY <2>3, <3>2
  <2> QED BY <2>1, <2>2, <2>3 DEF Digits!DecimalDifferences
<1> HIDE DEF res
<1> QED
  BY <1>2, <1>3 DEF Digits!DecimalDifferenceExact, res, borrow, d

(***************************************************************************)
(* Division towards zero.                                                  *)
(***************************************************************************)

Size(x) == IF x < 0 THEN -x ELSE x

\* A square is below another if the number is, whatever its sign.
LEMMA SquareBelow ==
  ASSUME NEW x \in Int, NEW y \in Int
  PROVE  x * x < y * y <=> Size(x) < Size(y)
<1> DEFINE m == Size(x)  n == Size(y)
<1>1. m \in Nat /\ n \in Nat
  BY DEF Size
<1>2. x * x = m * m /\ y * y = n * n
  BY DEF Size
<1> HIDE DEF m, n
<1>3. m < n => m * m < n * n
  <2> SUFFICES ASSUME m < n PROVE m * m < n * n
    OBVIOUS
  <2>1. (n - m) * (n + m) > 0
    <3>1. \A i, j \in Nat \ {0} : i * j > 0
      OBVIOUS
    <3>2. n - m \in Nat \ {0} /\ n + m \in Nat \ {0}
      BY <1>1
    <3> QED BY <3>1, <3>2
  <2>2. (n - m) * (n + m) = n * n - m * m
    BY <1>1
  <2>3. n * n \in Int /\ m * m \in Int
    BY <1>1
  <2> QED BY <2>1, <2>2, <2>3
<1>4. m >= n => m * m >= n * n
  <2> SUFFICES ASSUME m >= n PROVE m * m >= n * n
    OBVIOUS
  <2>1. (m - n) * (n + m) >= 0
    <3>1. m - n \in Nat /\ n + m \in Nat
      BY <1>1
    <3> QED BY <3>1
  <2>2. (m - n) * (n + m) = m * m - n * n
    BY <1>1
  <2>3. n * n \in Int /\ m * m \in Int
    BY <1>1
  <2> QED BY <2>1, <2>2, <2>3
<1>5. m * m \in Int /\ n * n \in Int
  BY <1>1
<1>6. m * m < n * n <=> m < n
  BY <1>1, <1>3, <1>4, <1>5
<1> QED
  BY <1>2, <1>6 DEF m, n

\* The one quotient that leaves a remainder smaller than y and of the sign of x.
Truncates(x, y, q) ==
  LET rem == x - q * y IN
  rem * rem < y * y /\ (rem # 0 => (rem < 0 <=> x < 0))

\* The division of the sizes behind a quotient.
Unsigned(x, y, q) == IF x < 0 <=> y < 0 THEN q ELSE -q

LEMMA TruncatesIsDivision ==
  ASSUME NEW x \in Int, NEW y \in Int \ {0}, NEW q \in Int
  PROVE  Truncates(x, y, q) <=> Unsigned(x, y, q) = Size(x) \div Size(y)
<1> DEFINE n == Size(y)  a == Size(x)  d == Unsigned(x, y, q)
           rem == x - q * y
           r == a - n * d
<1>1. n \in Nat \ {0} /\ a \in Nat /\ d \in Int
  BY DEF Size, Unsigned
<1>2. n * d = IF x < 0 THEN -(q * y) ELSE q * y
  <2>1. CASE x < 0 /\ y < 0
    BY <2>1 DEF Size, Unsigned
  <2>2. CASE x < 0 /\ y > 0
    BY <2>2 DEF Size, Unsigned
  <2>3. CASE x >= 0 /\ y < 0
    BY <2>3 DEF Size, Unsigned
  <2>4. CASE x >= 0 /\ y > 0
    BY <2>4 DEF Size, Unsigned
  <2> QED BY <2>1, <2>2, <2>3, <2>4
<1>3. q * y \in Int /\ n * d \in Int
  BY <1>1
<1> HIDE DEF d
<1>4. r = IF x < 0 THEN -rem ELSE rem
  <2>1. a = IF x < 0 THEN -x ELSE x
    BY DEF Size
  <2> HIDE DEF a, n
  <2> QED BY <1>1, <1>2, <1>3, <2>1
<1>5. rem \in Int /\ r \in Int /\ n * d + r = a
  <2> HIDE DEF a, n
  <2> QED BY <1>1, <1>3
<1> HIDE DEF a, n
<1>6. Truncates(x, y, q) <=> Size(rem) < n /\ (rem # 0 => (rem < 0 <=> x < 0))
  <2> HIDE DEF rem
  <2>1. rem * rem < y * y <=> Size(rem) < Size(y)
    BY <1>5, SquareBelow
  <2> QED BY <2>1 DEF Truncates, rem, n
<1> HIDE DEF r, rem
<1>7. Truncates(x, y, q) <=> r \in 0..(n - 1)
  BY <1>1, <1>4, <1>5, <1>6 DEF Size
<1>8. r \in 0..(n - 1) => d = a \div n
  BY <1>1, <1>5, DivUnique
<1>9. d = a \div n => r \in 0..(n - 1)
  <2> SUFFICES ASSUME d = a \div n PROVE r \in 0..(n - 1)
    OBVIOUS
  <2>1. a % n \in 0..(n - 1) /\ a = n * (a \div n) + (a % n)
    BY ONLY <1>1, DivParts
  <2>2. a = n * d + (a % n)
    BY <2>1
  <2>3. r = a % n
    BY <1>1, <1>5, <2>1, <2>2
  <2> QED BY <2>1, <2>3
<1> QED
  BY <1>7, <1>8, <1>9 DEF a, n, d

LEMMA QuotientTruncates ==
  ASSUME NEW x \in Int, NEW y \in Int \ {0}
  PROVE  /\ Digits!Quotient(x, y) \in Int /\ Truncates(x, y, Digits!Quotient(x, y))
         /\ \A q \in Int : Truncates(x, y, q) => q = Digits!Quotient(x, y)
<1> DEFINE d == Size(x) \div Size(y)
           q0 == Digits!Quotient(x, y)
<1>1. Size(x) \in Nat /\ Size(y) \in Nat \ {0}
  BY DEF Size
<1>2. d \in Int
  BY ONLY <1>1, DivParts
<1>3. q0 = IF x < 0 <=> y < 0 THEN d ELSE -d
  BY DEF Digits!Quotient, Size
<1> HIDE DEF d, q0
<1>4. q0 \in Int /\ Unsigned(x, y, q0) = d
  BY <1>2, <1>3 DEF Unsigned
<1>5. Truncates(x, y, q0)
  BY <1>4, TruncatesIsDivision DEF d
<1>6. ASSUME NEW q \in Int, Truncates(x, y, q) PROVE q = q0
  <2>1. Unsigned(x, y, q) = d
    BY <1>6, TruncatesIsDivision DEF d
  <2> QED BY <1>2, <1>3, <2>1 DEF Unsigned
<1> QED
  BY <1>4, <1>5, <1>6 DEF q0

LEMMA DivisionsExact ==
  ASSUME NEW x \in Int, NEW y \in Int \ {0}, NEW signed \in BOOLEAN
  PROVE  Digits!DivisionExact(x, y, signed, Digits!Divided(x, y, signed))
<1> DEFINE q0 == Digits!Quotient(x, y)
           rem0 == x - q0 * y
           res == Digits!Divided(x, y, signed)
           Q == Digits!Quotients(signed)
<1>1. q0 \in Int /\ Truncates(x, y, q0) /\ \A q \in Int : Truncates(x, y, q) => q = q0
  BY QuotientTruncates
<1>2. Q \subseteq Int /\ (-Digits!B)..Digits!B \subseteq Int
  BY DigitFacts DEF Digits!Quotients, Digits!Byte
<1> HIDE DEF Q
<1>3. CASE q0 \in Q
  <2>1. res = [v |-> FALSE, q |-> q0, rem |-> rem0]
    BY <1>3 DEF Digits!Divided, Q
  <2>2. rem0 * rem0 < y * y /\ (rem0 # 0 => (rem0 < 0 <=> x < 0))
    BY <1>1 DEF Truncates
  <2>3. x = q0 * y + rem0
    <3> HIDE DEF q0
    <3> QED BY <1>1
  <2> HIDE DEF q0, rem0, res
  <2>4. ~res.v /\ res.q = q0 /\ res.rem = rem0
    BY ONLY <2>1
  <2>5. rem0 # 0 => (rem0 < 0) = (x < 0)
    BY <2>2
  <2> QED BY <1>3, <2>2, <2>3, <2>4, <2>5 DEF Digits!DivisionExact, res, Q
<1>4. CASE q0 \notin Q
  <2>1. res = [v |-> TRUE]
    BY <1>4 DEF Digits!Divided, Q
  <2> HIDE DEF q0, res
  <2>2. ASSUME NEW q \in Q, NEW rem \in (-Digits!B)..Digits!B, x = q * y + rem,
               ~(rem * rem >= y * y), ~(rem # 0 /\ (rem < 0) # (x < 0))
        PROVE FALSE
    <3>1. q \in Int /\ rem \in Int
      BY <1>2
    <3>2. x - q * y = rem
      BY <2>2, <3>1
    <3>3. rem * rem \in Int /\ y * y \in Int
      BY <3>1
    <3>4. rem * rem < y * y
      BY ONLY <2>2, <3>3
    <3>5. rem # 0 => (rem < 0 <=> x < 0)
      BY ONLY <2>2
    <3>6. Truncates(x, y, q)
      BY ONLY <3>2, <3>4, <3>5 DEF Truncates
    <3> QED BY <1>1, <1>4, <3>1, <3>6
  <2>3. res.v
    BY ONLY <2>1
  <2>4. \A q \in Q, rem \in (-Digits!B)..Digits!B :
          x = q * y + rem => rem * rem >= y * y \/ (rem # 0 /\ (rem < 0) # (x < 0))
    BY <2>2
  <2> QED BY <2>3, <2>4 DEF Digits!DivisionExact, res, Q
<1> QED
  BY <1>3, <1>4

\* An operation leaves its exact result.
LEMMA BytesStep ==
  ASSUME Digits!Next
  PROVE  Digits!ArithmeticExact'
<1> DEFINE Done(op, a, b, c, res) == v1' = [op |-> op, a |-> a, b |-> b, c |-> c, res |-> res]
<1>1. ASSUME NEW op, NEW a, NEW b, NEW c, NEW res, Done(op, a, b, c, res)
      PROVE  v1'.op = op /\ v1'.a = a /\ v1'.b = b /\ v1'.c = c /\ v1'.res = res
  BY <1>1
<1>2. ASSUME NEW c \in {0, 1}, NEW op \in Digits!Sums \cup Digits!Differences,
             NEW a \in Digits!Byte, NEW b \in Digits!Byte, Digits!Compute(op, a, b, c)
      PROVE  Digits!ArithmeticExact'
  <2> DEFINE res == Digits!Result(op, a, b, c)
  <2>1. Done(op, a, b, c, res) /\ (op \in {"z80 sub", "z80 sub daa"} => c = 1)
    BY <1>2 DEF Digits!Compute
  <2>2. v1'.op = op /\ v1'.a = a /\ v1'.b = b /\ v1'.c = c /\ v1'.res = res
    <3> HIDE DEF Done, res
    <3> QED BY <1>1, <2>1
  <2>3. op \in Digits!Sums => Digits!SumExact(a, b, c, res)
    BY SumsExact
  <2>4. op \in Digits!Differences => Digits!DifferenceExact(op, a, b, c, res)
    <3>1. NoCarryIn(op) => c = 1
      BY <2>1 DEF NoCarryIn
    <3> QED BY <3>1, DifferencesExact
  <2>5. op \notin Digits!DecimalSums /\ op \notin Digits!DecimalDifferences /\ op # "div"
    BY DEF Digits!Sums, Digits!Differences, Digits!DecimalSums, Digits!DecimalDifferences
  <2> HIDE DEF res, Done
  <2> QED BY <2>2, <2>3, <2>4, <2>5 DEF Digits!ArithmeticExact
<1>3. ASSUME NEW c \in {0, 1}, NEW op \in Digits!DecimalSums \cup Digits!DecimalDifferences,
             NEW a \in Digits!Decimal, NEW b \in Digits!Decimal, Digits!Compute(op, a, b, c)
      PROVE  Digits!ArithmeticExact'
  <2> DEFINE res == Digits!Result(op, a, b, c)
  <2>1. Done(op, a, b, c, res) /\ (op \in {"z80 sub", "z80 sub daa"} => c = 1)
    BY <1>3 DEF Digits!Compute
  <2>2. v1'.op = op /\ v1'.a = a /\ v1'.b = b /\ v1'.c = c /\ v1'.res = res
    <3> HIDE DEF Done, res
    <3> QED BY <1>1, <2>1
  <2>3. op \in Digits!DecimalSums => Digits!DecimalSumExact(op, a, b, c, res)
    BY DecimalSumsExact
  <2>4. op \in Digits!DecimalDifferences => Digits!DecimalDifferenceExact(op, a, b, c, res)
    <3>1. NoDecimalCarryIn(op) => c = 1
      BY <2>1 DEF NoDecimalCarryIn
    <3> QED BY <3>1, DecimalDifferencesExact
  <2>5. op \notin Digits!Sums /\ op \notin Digits!Differences /\ op # "div"
    BY DEF Digits!Sums, Digits!Differences, Digits!DecimalSums, Digits!DecimalDifferences
  <2> HIDE DEF res, Done
  <2> QED BY <2>2, <2>3, <2>4, <2>5 DEF Digits!ArithmeticExact
<1>4. ASSUME NEW signed \in BOOLEAN, NEW x \in Int, NEW y \in Int \ {0},
             Digits!Divide(signed, x, y)
      PROVE  Digits!ArithmeticExact'
  <2> DEFINE res == Digits!Divided(x, y, signed)
  <2>1. Done("div", x, y, signed, res)
    BY <1>4 DEF Digits!Divide
  <2>2. v1'.op = "div" /\ v1'.a = x /\ v1'.b = y /\ v1'.c = signed /\ v1'.res = res
    <3> HIDE DEF Done, res
    <3> QED BY <1>1, <2>1
  <2>3. Digits!DivisionExact(x, y, signed, res)
    BY DivisionsExact
  <2>4. /\ "div" \notin Digits!Sums /\ "div" \notin Digits!Differences
        /\ "div" \notin Digits!DecimalSums /\ "div" \notin Digits!DecimalDifferences
    BY DEF Digits!Sums, Digits!Differences, Digits!DecimalSums, Digits!DecimalDifferences
  <2> HIDE DEF res, Done
  <2> QED BY <2>2, <2>3, <2>4 DEF Digits!ArithmeticExact
<1>5. CASE v1' = Digits!None
  <2>1. v1'.op = "none"
    BY <1>5 DEF Digits!None
  <2> QED BY <2>1 DEF Digits!ArithmeticExact, Digits!Sums, Digits!Differences,
                      Digits!DecimalSums, Digits!DecimalDifferences
<1>6. Digits!Byte \subseteq Int /\ 1..(Digits!B - 1) \subseteq Int \ {0}
      /\ 0..(Digits!B * Digits!B - 1) \subseteq Int
      /\ \A h \in Int : (-h)..(h - 1) \subseteq Int
  BY DigitFacts DEF Digits!Byte
<1>7. -((Digits!B * Digits!B) \div 2)..((Digits!B * Digits!B) \div 2 - 1) \subseteq Int
      /\ (-(Digits!B \div 2)..(Digits!B \div 2 - 1)) \ {0} \subseteq Int \ {0}
  <2>1. Digits!B * Digits!B \in Int
    BY DigitFacts
  <2>2. (Digits!B * Digits!B) \div 2 \in Int /\ Digits!B \div 2 \in Int
    BY <2>1, DigitFacts
  <2> QED BY <2>2
<1>8. CASE \E x \in 0..(Digits!B * Digits!B - 1), y \in 1..(Digits!B - 1) :
             Digits!Divide(FALSE, x, y)
  BY <1>4, <1>6, <1>8
<1>9. CASE \E x \in -((Digits!B * Digits!B) \div 2)..((Digits!B * Digits!B) \div 2 - 1),
              y \in (-(Digits!B \div 2)..(Digits!B \div 2 - 1)) \ {0} :
             Digits!Divide(TRUE, x, y)
  BY <1>4, <1>7, <1>9
<1> HIDE DEF Done
<1> QED
  BY <1>2, <1>3, <1>5, <1>8, <1>9 DEF Digits!Next

(***************************************************************************)
(* The arithmetic of the SH-2 and the SH-4: a register of 2 * h values.    *)
(***************************************************************************)

LEMMA ShSize ==
  /\ ShWords \div 2 \in Nat \ {0} /\ ShWords = 2 * (ShWords \div 2)
  /\ ShAlu!Reg = 0..(2 * (ShWords \div 2) - 1)
<1>1. ShWords \in Nat \ {0} /\ ShWords % 2 = 0
  BY ProcessorsFit DEF ShAlu!ShDataAssumption
<1> QED
  BY <1>1, Halves DEF ShAlu!Reg

LEMMA ShWraps ==
  ASSUME NEW x \in Int, -ShWords <= x, x < 2 * ShWords
  PROVE  ShAlu!Wrap(x) = IF x < 0 THEN x + ShWords ELSE IF x < ShWords THEN x ELSE x - ShWords
<1>1. ShWords \in Nat \ {0}
  BY ShSize
<1> QED
  BY <1>1, WrapOnce DEF ShAlu!Wrap

\* Sums and differences, and T with them.
LEMMA ShAddc ==
  ASSUME NEW n \in ShAlu!Reg, NEW m \in ShAlu!Reg, NEW t \in {0, 1}
  PROVE  /\ ShAlu!Exact("addc", n, m, t, ShAlu!Addc(n, m, t))
         /\ ShAlu!Addc(n, m, t).r \in ShAlu!Reg
<1> DEFINE h == ShWords \div 2
           s == ShAlu!Wrap(n + m)
           r == ShAlu!Wrap(s + t)
           res == ShAlu!Addc(n, m, t)
<1>1. h \in Nat \ {0} /\ ShWords = 2 * h /\ ShAlu!Reg = 0..(2 * h - 1)
  BY ShSize
<1>0. res.r = r /\ res.t = (s < n \/ r < s)
  BY DEF ShAlu!Addc
<1> HIDE DEF h, s, r, res
<1>2. n \in 0..(2 * h - 1) /\ m \in 0..(2 * h - 1)
  BY <1>1
<1>3. s = IF n + m < 2 * h THEN n + m ELSE n + m - 2 * h
  <2> DEFINE x == n + m
  <2>1. x \in Int /\ -ShWords <= x /\ x < 2 * ShWords /\ x >= 0
    BY <1>1, <1>2
  <2>2. s = ShAlu!Wrap(x)
    BY DEF s
  <2> HIDE DEF x
  <2>3. s = IF x < 0 THEN x + ShWords ELSE IF x < ShWords THEN x ELSE x - ShWords
    BY <2>1, <2>2, ShWraps
  <2> QED BY <1>1, <2>1, <2>3 DEF x
<1>4. s \in 0..(2 * h - 1)
  BY <1>1, <1>2, <1>3
<1>5. r = IF s + t < 2 * h THEN s + t ELSE s + t - 2 * h
  <2> DEFINE x == s + t
  <2>1. x \in Int /\ -ShWords <= x /\ x < 2 * ShWords /\ x >= 0
    BY <1>1, <1>4
  <2>2. r = ShAlu!Wrap(x)
    BY DEF r
  <2> HIDE DEF x
  <2>3. r = IF x < 0 THEN x + ShWords ELSE IF x < ShWords THEN x ELSE x - ShWords
    BY <2>1, <2>2, ShWraps
  <2> QED BY <1>1, <1>4, <2>1, <2>3 DEF x
<1>6. r \in 0..(2 * h - 1)
  BY <1>1, <1>4, <1>5
<1>7. (s < n \/ r < s) <=> n + m + t >= 2 * h
  BY <1>1, <1>2, <1>3, <1>5
<1>8. r = IF n + m + t >= 2 * h THEN n + m + t - 2 * h ELSE n + m + t
  BY <1>1, <1>2, <1>3, <1>5
<1>9. ShAlu!Bit(res.t) = IF n + m + t >= 2 * h THEN 1 ELSE 0
  BY <1>0, <1>7 DEF ShAlu!Bit
<1>10. r + ShWords * ShAlu!Bit(res.t) = n + m + t
  BY <1>1, <1>2, <1>8, <1>9
<1> QED
  BY <1>0, <1>1, <1>6, <1>10 DEF ShAlu!Exact, res

LEMMA ShSubc ==
  ASSUME NEW n \in ShAlu!Reg, NEW m \in ShAlu!Reg, NEW t \in {0, 1}
  PROVE  /\ ShAlu!Exact("subc", n, m, t, ShAlu!Subc(n, m, t))
         /\ ShAlu!Subc(n, m, t).r \in ShAlu!Reg
<1> DEFINE h == ShWords \div 2
           s == ShAlu!Wrap(n - m)
           r == ShAlu!Wrap(s - t)
           res == ShAlu!Subc(n, m, t)
<1>1. h \in Nat \ {0} /\ ShWords = 2 * h /\ ShAlu!Reg = 0..(2 * h - 1)
  BY ShSize
<1>0. res.r = r /\ res.t = (n < m \/ s < t)
  BY DEF ShAlu!Subc
<1> HIDE DEF h, s, r, res
<1>2. n \in 0..(2 * h - 1) /\ m \in 0..(2 * h - 1)
  BY <1>1
<1>3. s = IF n < m THEN n - m + 2 * h ELSE n - m
  <2>1. n - m \in Int /\ -ShWords <= n - m /\ n - m < 2 * ShWords /\ n - m < ShWords
    BY <1>1, <1>2
  <2> HIDE DEF s
  <2>2. s = IF n - m < 0 THEN n - m + ShWords ELSE IF n - m < ShWords THEN n - m
            ELSE n - m - ShWords
    BY <2>1, ShWraps DEF s
  <2> QED BY <1>1, <1>2, <2>1, <2>2
<1>4. s \in 0..(2 * h - 1)
  BY <1>1, <1>2, <1>3
<1>5. r = IF s < t THEN s - t + 2 * h ELSE s - t
  <2>1. s - t \in Int /\ -ShWords <= s - t /\ s - t < 2 * ShWords /\ s - t < ShWords
    BY <1>1, <1>4
  <2> HIDE DEF r
  <2>2. r = IF s - t < 0 THEN s - t + ShWords ELSE IF s - t < ShWords THEN s - t
            ELSE s - t - ShWords
    BY <2>1, ShWraps DEF r
  <2> QED BY <1>1, <1>4, <2>1, <2>2
<1>6. r \in 0..(2 * h - 1)
  BY <1>1, <1>4, <1>5
<1>7. ~((n < m) /\ (s < t))
  BY <1>1, <1>2, <1>3
<1>8. ShAlu!Bit(res.t) = IF n < m \/ s < t THEN 1 ELSE 0
  BY <1>0 DEF ShAlu!Bit
<1>9. r - ShWords * ShAlu!Bit(res.t) = n - m - t
  BY <1>1, <1>2, <1>3, <1>5, <1>7, <1>8
<1> QED
  BY <1>0, <1>1, <1>6, <1>9 DEF ShAlu!Exact, res

\* A negation is a difference from 0.
LEMMA ShNegc ==
  ASSUME NEW m \in ShAlu!Reg, NEW t \in {0, 1}
  PROVE  /\ ShAlu!Exact("subc", 0, m, t, ShAlu!Negc(m, t))
         /\ ShAlu!Negc(m, t).r \in ShAlu!Reg
<1> DEFINE r == ShAlu!Wrap(-m - t)
           res == ShAlu!Negc(m, t)
<1>1. ShWords \in Nat \ {0, 1} /\ m \in 0..(ShWords - 1)
      /\ ShAlu!Reg = 0..(ShWords - 1)
  BY ShSize DEF ShAlu!Reg
<1>0. res.r = r /\ res.t = (m # 0 \/ t = 1)
  BY DEF ShAlu!Negc
<1> HIDE DEF r, res
<1>2. r = IF m # 0 \/ t = 1 THEN -m - t + ShWords ELSE -m - t
  <2>1. -m - t \in Int /\ -ShWords <= -m - t /\ -m - t < 2 * ShWords /\ -m - t < ShWords
    BY <1>1
  <2>2. r = IF -m - t < 0 THEN -m - t + ShWords ELSE IF -m - t < ShWords THEN -m - t
            ELSE -m - t - ShWords
    BY <2>1, ShWraps DEF r
  <2> QED BY <1>1, <2>1, <2>2
<1>3. ShAlu!Bit(res.t) = IF m # 0 \/ t = 1 THEN 1 ELSE 0
  BY <1>0 DEF ShAlu!Bit
<1>4. r - ShWords * ShAlu!Bit(res.t) = 0 - m - t /\ r \in 0..(ShWords - 1)
  BY <1>1, <1>2, <1>3
<1> QED
  BY <1>0, <1>1, <1>4 DEF ShAlu!Exact, res

LEMMA ShSigned ==
  \A x \in ShAlu!Reg : /\ ShAlu!Signed(x) = SignedBy(ShWords \div 2, x)
                       /\ ShAlu!Signed(x) \in Int
                       /\ ShAlu!Top(x) <=> x >= ShWords \div 2
<1>1. ShWords \div 2 \in Nat \ {0} /\ ShWords = 2 * (ShWords \div 2)
      /\ ShAlu!Reg = 0..(2 * (ShWords \div 2) - 1)
  BY ShSize
<1> QED
  BY <1>1 DEF ShAlu!Signed, SignedBy, ShAlu!Top

LEMMA ShOverflows ==
  ASSUME NEW n \in ShAlu!Reg, NEW m \in ShAlu!Reg
  PROVE  /\ ShAlu!Exact("addv", n, m, 0, ShAlu!Addv(n, m))
         /\ ShAlu!Exact("subv", n, m, 0, ShAlu!Subv(n, m))
         /\ ShAlu!Addv(n, m).r \in ShAlu!Reg /\ ShAlu!Subv(n, m).r \in ShAlu!Reg
<1> DEFINE h == ShWords \div 2
           s == ShAlu!Wrap(n + m)
           d == ShAlu!Wrap(n - m)
           sum == ShAlu!Addv(n, m)
           dif == ShAlu!Subv(n, m)
           S == ShAlu!Signed(n)
           T == ShAlu!Signed(m)
<1>1. h \in Nat \ {0} /\ ShWords = 2 * h /\ ShAlu!Reg = 0..(2 * h - 1)
  BY ShSize
<1>2. /\ sum.r = s /\ dif.r = d
      /\ sum.t <=> (ShAlu!Top(n) <=> ShAlu!Top(m)) /\ ~(ShAlu!Top(n) <=> ShAlu!Top(s))
      /\ dif.t <=> ~(ShAlu!Top(n) <=> ShAlu!Top(m)) /\ ~(ShAlu!Top(n) <=> ShAlu!Top(d))
  <2> DEFINE v == ShAlu!Top(n) = ShAlu!Top(m) /\ ShAlu!Top(n) # ShAlu!Top(s)
             w == ShAlu!Top(n) # ShAlu!Top(m) /\ ShAlu!Top(n) # ShAlu!Top(d)
  <2>1. sum = [r |-> s, t |-> v] /\ dif = [r |-> d, t |-> w]
    BY DEF ShAlu!Addv, ShAlu!Subv
  <2>2. v <=> (ShAlu!Top(n) <=> ShAlu!Top(m)) /\ ~(ShAlu!Top(n) <=> ShAlu!Top(s))
    BY DEF ShAlu!Top
  <2>3. w <=> ~(ShAlu!Top(n) <=> ShAlu!Top(m)) /\ ~(ShAlu!Top(n) <=> ShAlu!Top(d))
    BY DEF ShAlu!Top
  <2> HIDE DEF sum, dif, s, d, v, w
  <2>4. sum.r = s /\ dif.r = d /\ sum.t = v /\ dif.t = w
    BY ONLY <2>1
  <2> QED BY <2>2, <2>3, <2>4
<1>3. /\ S = SignedBy(h, n) /\ S \in Int /\ (ShAlu!Top(n) <=> n >= h)
      /\ T = SignedBy(h, m) /\ T \in Int /\ (ShAlu!Top(m) <=> m >= h)
  BY ShSigned
<1>4. \A x : ShAlu!Fits(x) <=> x \in (-h)..(h - 1)
  BY DEF ShAlu!Fits
<1>5. n \in 0..(2 * h - 1) /\ m \in 0..(2 * h - 1)
  BY <1>1
<1> HIDE DEF h, s, d, sum, dif, S, T
<1>6. IsSum(h, n, m, 0, s)
  <2>1. n + m + 0 = n + m
    BY <1>5
  <2>2. IsSum(h, n, m, 0, (n + m + 0) % (2 * h))
    BY <1>1, <1>5, SumWraps
  <2> QED BY <1>1, <2>1, <2>2 DEF s, ShAlu!Wrap
<1>7. IsDifference(h, n, m, 0, d)
  <2>1. n - m - 0 = n - m
    BY <1>5
  <2>2. IsDifference(h, n, m, 0, (n - m - 0) % (2 * h))
    BY <1>1, <1>5, DifferenceWraps
  <2> QED BY <1>1, <2>1, <2>2 DEF d, ShAlu!Wrap
<1>8. s \in ShAlu!Reg /\ d \in ShAlu!Reg
  BY <1>1, <1>6, <1>7 DEF IsSum, IsDifference
<1>9. (ShAlu!Top(s) <=> s >= h) /\ (ShAlu!Top(d) <=> d >= h)
  BY <1>8, ShSigned DEF h
<1>10. sum.t <=> ~ShAlu!Fits(S + T)
  <2>1. (n >= h <=> m >= h) /\ ~(n >= h <=> s >= h) <=> ~(S + T + 0 \in (-h)..(h - 1))
    BY <1>3, <1>6 DEF IsSum
  <2>2. S + T + 0 = S + T
    BY <1>3
  <2> QED BY <1>2, <1>3, <1>4, <1>9, <2>1, <2>2
<1>11. dif.t <=> ~ShAlu!Fits(S - T)
  <2>1. ~(n >= h <=> m >= h) /\ ~(n >= h <=> d >= h) <=> ~(S - T - 0 \in (-h)..(h - 1))
    BY <1>3, <1>7 DEF IsDifference
  <2>2. S - T - 0 = S - T
    BY <1>3
  <2> QED BY <1>2, <1>3, <1>4, <1>9, <2>1, <2>2
<1>12. ShAlu!Exact("addv", n, m, 0, sum)
  BY <1>2, <1>10 DEF ShAlu!Exact, s, S, T
<1>13. ShAlu!Exact("subv", n, m, 0, dif)
  BY <1>2, <1>11 DEF ShAlu!Exact, d, S, T
<1> QED
  BY <1>2, <1>8, <1>12, <1>13 DEF sum, dif

\* A register as twice its upper bits and its lowest, and as its top bit and
\* the bits below.
LEMMA ShBits ==
  ASSUME NEW n \in ShAlu!Reg
  PROVE  LET h == ShWords \div 2 IN
         /\ n \div 2 \in 0..(h - 1) /\ n % 2 \in {0, 1} /\ n = 2 * (n \div 2) + (n % 2)
         /\ ShAlu!Bit(ShAlu!Top(n)) = IF n >= h THEN 1 ELSE 0
         /\ ShAlu!Wrap(2 * n) = IF n >= h THEN 2 * n - 2 * h ELSE 2 * n
<1> DEFINE h == ShWords \div 2
<1>1. h \in Nat \ {0} /\ ShWords = 2 * h /\ n \in 0..(2 * h - 1)
  BY ShSize
<1>2. ShAlu!Bit(ShAlu!Top(n)) = IF n >= h THEN 1 ELSE 0
  BY ShSigned DEF ShAlu!Bit
<1> HIDE DEF h
<1>3. n \div 2 \in 0..(h - 1) /\ n % 2 \in {0, 1} /\ n = 2 * (n \div 2) + (n % 2)
  BY <1>1
<1>4. ShAlu!Wrap(2 * n) = IF n >= h THEN 2 * n - 2 * h ELSE 2 * n
  <2> DEFINE x == 2 * n
  <2>1. x \in Int /\ -ShWords <= x /\ x < 2 * ShWords /\ x >= 0
    BY <1>1
  <2> HIDE DEF x
  <2>2. ShAlu!Wrap(x) = IF x < 0 THEN x + ShWords ELSE IF x < ShWords THEN x ELSE x - ShWords
    BY <2>1, ShWraps
  <2> QED BY <1>1, <2>1, <2>2 DEF x
<1> QED
  BY <1>2, <1>3, <1>4 DEF h

\* A shift's result and T, in the parts of the register.
LEMMA ShShifts ==
  ASSUME NEW op \in ShAlu!Shifts, NEW n \in ShAlu!Reg, NEW t \in {0, 1}
  PROVE  /\ ShAlu!Exact(op, n, 0, t, ShAlu!Shift(op, n, t))
         /\ ShAlu!Shift(op, n, t).t \in {0, 1} /\ ShAlu!Shift(op, n, t).r \in ShAlu!Reg
<1> DEFINE h == ShWords \div 2
           k == n \div 2
           u == n % 2
           w == ShAlu!Wrap(2 * n)
           b == ShAlu!Bit(ShAlu!Top(n))
           res == ShAlu!Shift(op, n, t)
<1>1. h \in Nat \ {0} /\ ShWords = 2 * h /\ ShAlu!Reg = 0..(2 * h - 1)
  BY ShSize
<1>2. /\ k \in 0..(h - 1) /\ u \in {0, 1} /\ n = 2 * k + u
      /\ b = (IF n >= h THEN 1 ELSE 0)
      /\ w = (IF n >= h THEN 2 * n - 2 * h ELSE 2 * n)
  BY ShBits
<1>3. n \in 0..(2 * h - 1)
  BY <1>1
<1>4. CASE op \in {"shll", "shal"}
  <2>1. res = [r |-> w, t |-> b]
    BY <1>4 DEF ShAlu!Shift
  <2> HIDE DEF h, k, u, w, b, res
  <2>2. res.r = w /\ res.t = b
    BY ONLY <2>1
  <2>3. w + ShWords * b = 2 * n /\ w \in 0..(2 * h - 1) /\ b \in {0, 1}
    BY <1>1, <1>2, <1>3
  <2> QED BY <1>1, <1>4, <2>2, <2>3 DEF ShAlu!Exact, res
<1>5. CASE op = "shlr"
  <2>1. res = [r |-> k, t |-> u]
    BY <1>5 DEF ShAlu!Shift
  <2> HIDE DEF h, k, u, w, b, res
  <2>2. res.r = k /\ res.t = u
    BY ONLY <2>1
  <2>3. 2 * k + u = n /\ k \in 0..(2 * h - 1)
    BY <1>1, <1>2, <1>3
  <2> QED BY <1>1, <1>2, <1>5, <2>2, <2>3 DEF ShAlu!Exact, res
<1>6. CASE op = "shar"
  <2> DEFINE q == ShAlu!Signed(n) \div 2
             r == ShAlu!Wrap(q)
             S == ShAlu!Signed(n)
  <2>1. res = [r |-> r, t |-> u]
    BY <1>6 DEF ShAlu!Shift
  <2>2. S = IF n >= h THEN n - 2 * h ELSE n
    BY ShSigned DEF SignedBy
  <2>3. q = IF n >= h THEN k - h ELSE k
    <3>1. q = S \div 2
      OBVIOUS
    <3>2. ASSUME NEW j \in Int, NEW d \in {0, 1}, S = 2 * j + d PROVE S \div 2 = j
      BY ONLY <3>2
    <3> HIDE DEF h, S, k, u, q
    <3>3. S = IF n >= h THEN 2 * (k - h) + u ELSE 2 * k + u
      BY <1>1, <1>2, <1>3, <2>2
    <3>4. k - h \in Int /\ k \in Int
      BY <1>1, <1>2
    <3> QED BY <1>2, <3>1, <3>2, <3>3, <3>4
  <2> HIDE DEF h, k, u, w, b, res, q, S
  <2>4. r = IF n >= h THEN k + h ELSE k
    <3>1. q \in Int /\ -ShWords <= q /\ q < 2 * ShWords /\ q < ShWords /\ (q < 0 <=> n >= h)
      BY <1>1, <1>2, <1>3, <2>3
    <3>2. r = IF q < 0 THEN q + ShWords ELSE IF q < ShWords THEN q ELSE q - ShWords
      BY <3>1, ShWraps
    <3> QED BY <1>1, <1>2, <1>3, <2>3, <3>1, <3>2
  <2> HIDE DEF r
  <2>5. res.r = r /\ res.t = u
    BY ONLY <2>1
  <2>6. r \in ShAlu!Reg
    BY <1>1, <1>2, <1>3, <2>4
  <2>7. ShAlu!Signed(r) = IF r >= h THEN r - 2 * h ELSE r
    BY <2>6, ShSigned DEF SignedBy, h
  <2>8. 2 * ShAlu!Signed(r) + u = S
    BY <1>1, <1>2, <1>3, <2>2, <2>4, <2>7
  <2> QED BY <1>2, <1>6, <2>5, <2>6, <2>8 DEF ShAlu!Exact, res, S
<1>7. CASE op = "rotl"
  <2>1. res = [r |-> w + b, t |-> b]
    BY <1>7 DEF ShAlu!Shift
  <2> HIDE DEF h, k, u, w, b, res
  <2>2. res.r = w + b /\ res.t = b
    BY ONLY <2>1
  <2>3. (w + b) + (ShWords - 1) * b = 2 * n /\ w + b \in 0..(2 * h - 1) /\ b \in {0, 1}
    BY <1>1, <1>2, <1>3
  <2> QED BY <1>1, <1>7, <2>2, <2>3 DEF ShAlu!Exact, res
<1>8. CASE op = "rotr"
  <2>1. res = [r |-> k + u * h, t |-> u]
    BY <1>8 DEF ShAlu!Shift
  <2> HIDE DEF h, k, u, w, b, res
  <2>2. res.r = k + u * h /\ res.t = u
    BY ONLY <2>1
  <2>3. 2 * (k + u * h) = n + (ShWords - 1) * u /\ k + u * h \in 0..(2 * h - 1)
    <3>1. CASE u = 0
      BY <1>1, <1>2, <1>3, <3>1
    <3>2. CASE u = 1
      BY <1>1, <1>2, <1>3, <3>2
    <3> QED BY <1>2, <3>1, <3>2
  <2> QED BY <1>1, <1>2, <1>8, <2>2, <2>3 DEF ShAlu!Exact, res
<1>9. CASE op = "rotcl"
  <2>1. res = [r |-> w + t, t |-> b]
    BY <1>9 DEF ShAlu!Shift
  <2> HIDE DEF h, k, u, w, b, res
  <2>2. res.r = w + t /\ res.t = b
    BY ONLY <2>1
  <2>3. (w + t) + ShWords * b = 2 * n + t /\ w + t \in 0..(2 * h - 1) /\ b \in {0, 1}
    BY <1>1, <1>2, <1>3
  <2> QED BY <1>1, <1>9, <2>2, <2>3 DEF ShAlu!Exact, res
<1>10. CASE op = "rotcr"
  <2>1. res = [r |-> k + t * h, t |-> u]
    BY <1>10 DEF ShAlu!Shift
  <2> HIDE DEF h, k, u, w, b, res
  <2>2. res.r = k + t * h /\ res.t = u
    BY ONLY <2>1
  <2>3. 2 * (k + t * h) + u = n + ShWords * t /\ k + t * h \in 0..(2 * h - 1)
    <3>1. CASE t = 0
      BY <1>1, <1>2, <1>3, <3>1
    <3>2. CASE t = 1
      BY <1>1, <1>2, <1>3, <3>2
    <3> QED BY <3>1, <3>2
  <2> QED BY <1>1, <1>2, <1>10, <2>2, <2>3 DEF ShAlu!Exact, res
<1> QED
  BY <1>4, <1>5, <1>6, <1>7, <1>8, <1>9, <1>10 DEF ShAlu!Shifts

\* A product of two signed registers is less than half of what two registers
\* hold, so that a sum with it goes around once at most.
LEMMA ShMac ==
  ASSUME NEW n \in ShAlu!Reg, NEW m \in ShAlu!Reg, NEW acc \in 0..(ShWords * ShWords - 1)
  PROVE  /\ ShAlu!Exact("mac", n, m, acc, ShAlu!Mac(n, m, acc))
         /\ ShAlu!Mac(n, m, acc) \in 0..(ShWords * ShWords - 1)
<1> DEFINE h == ShWords \div 2
           S == ShAlu!Signed(n)
           T == ShAlu!Signed(m)
           p == S * T
           q == ShWords * ShWords
           x == acc + p
           res == ShAlu!Mac(n, m, acc)
<1>1. h \in Nat \ {0} /\ ShWords = 2 * h /\ ShAlu!Reg = 0..(2 * h - 1)
  BY ShSize
<1>2. S \in (-h)..h /\ T \in (-h)..h
  <2>1. S = SignedBy(h, n) /\ T = SignedBy(h, m)
    BY ShSigned
  <2> HIDE DEF h, S, T
  <2> QED BY <1>1, <2>1 DEF SignedBy
<1>3. res = x % q
  BY DEF ShAlu!Mac
<1> HIDE DEF res, h, S, T
<1>4. p \in Int /\ -(h * h) <= p /\ p <= h * h
  <2>1. (h - S) * (h + T) >= 0 /\ (h + S) * (h - T) >= 0
        /\ (h - S) * (h - T) >= 0 /\ (h + S) * (h + T) >= 0
    <3>1. \A i, j \in Nat : i * j >= 0
      OBVIOUS
    <3>2. h - S \in Nat /\ h + S \in Nat /\ h - T \in Nat /\ h + T \in Nat
      BY <1>1, <1>2
    <3> HIDE DEF p
    <3> QED BY <3>1, <3>2
  <2>2. /\ (h - S) * (h + T) = h * h + h * T - S * h - S * T
        /\ (h + S) * (h - T) = h * h - h * T + S * h - S * T
        /\ (h - S) * (h - T) = h * h - h * T - S * h + S * T
        /\ (h + S) * (h + T) = h * h + h * T + S * h + S * T
    BY <1>1, <1>2
  <2>3. h * h \in Int /\ h * T \in Int /\ S * h \in Int /\ S * T \in Int
    BY <1>1, <1>2
  <2> QED BY <2>1, <2>2, <2>3
<1>5. q = 4 * (h * h) /\ h * h \in Nat \ {0}
  BY <1>1
<1> HIDE DEF p, q
<1>6. acc \in 0..(q - 1)
  BY DEF q
<1>7. x \in Int /\ -q <= x /\ x < 2 * q /\ q \in Nat \ {0}
  BY <1>4, <1>5, <1>6
<1> HIDE DEF x
<1>8. res = IF x < 0 THEN x + q ELSE IF x < q THEN x ELSE x - q
  BY <1>3, <1>7, WrapOnce
<1>9. res \in 0..(q - 1)
  BY <1>7, <1>8
<1>10. \E k \in -1..1 : res + k * q = x
  <2>1. CASE x < 0
    <3>1. res + (-1) * q = x
      BY <1>7, <1>8, <2>1
    <3> QED BY <3>1
  <2>2. CASE x >= 0 /\ x < q
    <3>1. res + 0 * q = x
      BY <1>7, <1>8, <2>2
    <3> QED BY <3>1
  <2>3. CASE x >= q
    <3>1. res + 1 * q = x
      BY <1>7, <1>8, <2>3
    <3> QED BY <3>1
  <2> QED BY <1>7, <2>1, <2>2, <2>3
<1>11. \E k \in -1..1 : res + k * (ShWords * ShWords) = acc + ShAlu!Signed(n) * ShAlu!Signed(m)
  BY ONLY <1>10 DEF x, p, q, S, T
<1> QED
  BY <1>9, <1>11 DEF ShAlu!Exact, res, q

\* An operation leaves its exact result.
LEMMA ShAluStep ==
  ASSUME ShAlu!Next
  PROVE  ShAlu!ArithmeticExact'
<1>1. ASSUME NEW op, NEW a, NEW b, NEW c, NEW res, ShAlu!Did(op, a, b, c, res),
             ShAlu!Exact(op, a, b, c, res),
             op \in ShAlu!Shifts => res.t \in {0, 1},
             op = "mac" => res \in 0..(ShWords * ShWords - 1),
             op \notin {"none", "mac"} => res.r \in ShAlu!Reg
      PROVE  ShAlu!ArithmeticExact'
  <2>1. v1' = [op |-> op, a |-> a, b |-> b, c |-> c, res |-> res]
    BY <1>1 DEF ShAlu!Did
  <2>2. v1'.op = op /\ v1'.a = a /\ v1'.b = b /\ v1'.c = c /\ v1'.res = res
    BY ONLY <2>1
  <2>3. ShAlu!Exact(v1'.op, v1'.a, v1'.b, v1'.c, v1'.res)
    BY <1>1, <2>2
  <2>4. /\ v1'.op \in ShAlu!Shifts => v1'.res.t \in {0, 1}
        /\ v1'.op = "mac" => v1'.res \in 0..(ShWords * ShWords - 1)
        /\ v1'.op \notin {"none", "mac"} => v1'.res.r \in ShAlu!Reg
    BY <1>1, <2>2
  <2> QED BY <2>3, <2>4 DEF ShAlu!ArithmeticExact
<1>2. {"addc", "subc", "addv", "subv", "mac"} \cap ShAlu!Shifts = {}
  BY DEF ShAlu!Shifts
<1>3. ASSUME NEW n \in ShAlu!Reg, NEW m \in ShAlu!Reg, NEW t \in {0, 1},
             \/ ShAlu!Did("addc", n, m, t, ShAlu!Addc(n, m, t))
             \/ ShAlu!Did("subc", n, m, t, ShAlu!Subc(n, m, t))
             \/ ShAlu!Did("subc", 0, m, t, ShAlu!Negc(m, t))
             \/ ShAlu!Did("addv", n, m, 0, ShAlu!Addv(n, m))
             \/ ShAlu!Did("subv", n, m, 0, ShAlu!Subv(n, m))
      PROVE  ShAlu!ArithmeticExact'
  <2>1. CASE ShAlu!Did("addc", n, m, t, ShAlu!Addc(n, m, t))
    BY <1>1, <1>2, <2>1, ShAddc
  <2>2. CASE ShAlu!Did("subc", n, m, t, ShAlu!Subc(n, m, t))
    BY <1>1, <1>2, <2>2, ShSubc
  <2>3. CASE ShAlu!Did("subc", 0, m, t, ShAlu!Negc(m, t))
    BY <1>1, <1>2, <2>3, ShNegc
  <2>4. CASE ShAlu!Did("addv", n, m, 0, ShAlu!Addv(n, m))
    BY <1>1, <1>2, <2>4, ShOverflows
  <2>5. CASE ShAlu!Did("subv", n, m, 0, ShAlu!Subv(n, m))
    BY <1>1, <1>2, <2>5, ShOverflows
  <2> QED BY <1>3, <2>1, <2>2, <2>3, <2>4, <2>5
<1>4. ASSUME NEW n \in ShAlu!Reg, NEW t \in {0, 1}, NEW op \in ShAlu!Shifts,
             ShAlu!Did(op, n, 0, t, ShAlu!Shift(op, n, t))
      PROVE  ShAlu!ArithmeticExact'
  <2>1. op # "mac"
    BY DEF ShAlu!Shifts
  <2> QED BY <1>1, <1>4, <2>1, ShShifts
<1>5. ASSUME NEW n \in ShAlu!Reg, NEW m \in ShAlu!Reg, NEW acc \in 0..(ShWords * ShWords - 1),
             ShAlu!Did("mac", n, m, acc, ShAlu!Mac(n, m, acc))
      PROVE  ShAlu!ArithmeticExact'
  BY <1>1, <1>2, <1>5, ShMac
<1>6. CASE v1' = ShAlu!None
  <2>1. v1'.op = "none"
    BY <1>6 DEF ShAlu!None
  <2> QED BY <2>1 DEF ShAlu!ArithmeticExact, ShAlu!Exact, ShAlu!Shifts
<1>7. CASE ShAlu!Execute
  BY <1>3, <1>4, <1>5, <1>7 DEF ShAlu!Execute
<1> QED
  BY <1>6, <1>7 DEF ShAlu!Next

=============================================================================
