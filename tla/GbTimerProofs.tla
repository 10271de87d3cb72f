--------------------------- MODULE GbTimerProofs ---------------------------
(***************************************************************************)
(* The timer neither loses nor repeats an overflow, for every width of its *)
(* counter and of TIMA and every choice of watched bits; and it implements *)
(* the countdown of IntervalTimer, step by step.                           *)
(***************************************************************************)
EXTENDS GbTimer, TLAPS

\* TIMA keeps to its width when it counts.
LEMMA ModBounds ==
  ASSUME NEW a \in Nat, NEW m \in Nat \ {0}
  PROVE  a % m \in 0..(m - 1)
  OBVIOUS

\* A counter at zero has no watched bit set, so no edge can fall from it.
LEMMA NoEdgeFromZero ==
  ASSUME TypeOK
  PROVE  ~BitSet(0)
<1>1. Half[sel] \in Nat \ {0}
  BY TimerAssumption DEF TypeOK, Select
<1>2. 0 \div Half[sel] = 0
  BY <1>1
<1> QED
  BY <1>2 DEF BitSet

\* The registers after a TIMA tick of t, whatever edge caused it.
LEMMA TickType ==
  ASSUME NEW old, NEW now, NEW t \in Values
  PROVE  /\ TimaAfter(old, now, t) \in Values
         /\ Overflows(old, now, t) => TimaAfter(old, now, t) = 0
         /\ Overflows(old, now, t) => t # 0
         /\ ~FallingEdge(old, now) => ~Overflows(old, now, t)
         /\ ~FallingEdge(old, now) => TimaAfter(old, now, t) = t
         /\ t = 0 => TimaAfter(old, now, t) \in {0, 1}
<1>1. TimaMod \in Nat \ {0} /\ TimaMod >= 2
  BY TimerAssumption
<1>2. t \in Nat /\ t + 1 \in Nat
  BY <1>1 DEF Values
<1>3. (t + 1) % TimaMod \in Values
  BY <1>1, <1>2, ModBounds DEF Values
<1>4. t = 0 => (t + 1) % TimaMod = 1
  BY <1>1
<1> QED
  BY <1>2, <1>3, <1>4 DEF TimaAfter, Overflows

IInv == TypeOK /\ StrayTick /\ OverflowAccounted

LEMMA InitIInv == Init => IInv
<1> SUFFICES ASSUME Init PROVE IInv
  OBVIOUS
<1>1. 0 \in Values /\ 0 \in Select /\ ResetCounter \in 0..(CounterMod - 1)
  BY TimerAssumption DEF Values
<1>2. TypeOK
  BY <1>1 DEF Init, TypeOK
<1>3. StrayTick /\ OverflowAccounted
  BY DEF Init, StrayTick, OverflowAccounted
<1> QED
  BY <1>2, <1>3 DEF IInv

LEMMA NextIInv == IInv /\ [Next]_vars => IInv'
<1> SUFFICES ASSUME IInv, [Next]_vars PROVE IInv'
  OBVIOUS
<1> USE DEF IInv, TypeOK
<1>0. CounterMod \in Nat \ {0} /\ TimaMod \in Nat /\ TimaMod >= 2
  BY TimerAssumption
<1>1. CASE Step
  <2> DEFINE now == (counter + 1) % CounterMod
             t == IF reload THEN tma ELSE tima
  <2>1. t \in Values
    OBVIOUS
  <2>2. now \in 0..(CounterMod - 1)
    BY <1>0, ModBounds
  <2>3. /\ counter' = now
        /\ tima' = TimaAfter(counter, now, t)
        /\ reload' = Overflows(counter, now, t)
        /\ irq' = (irq \/ reload)
        /\ owed' = owed - (IF reload THEN 1 ELSE 0)
                        + (IF Overflows(counter, now, t) THEN 1 ELSE 0)
        /\ UNCHANGED <<tma, on, sel>>
    BY <1>1 DEF Step
  <2> HIDE DEF now, t
  <2>4. tima' \in Values /\ (reload' => tima' = 0)
    BY <2>1, <2>3, TickType
  <2>5. reload' \in BOOLEAN
    BY <2>3 DEF Overflows, FallingEdge
  <2>6. owed' = IF reload' THEN 1 ELSE 0
    BY <2>3 DEF OverflowAccounted
  <2> QED
    BY <2>2, <2>3, <2>4, <2>5, <2>6 DEF StrayTick, OverflowAccounted
<1>2. CASE WriteDiv
  <2>1. /\ counter' = 0
        /\ tima' = TimaAfter(counter, 0, tima)
        /\ reload' = (reload \/ Overflows(counter, 0, tima))
        /\ owed' = owed + (IF Overflows(counter, 0, tima) THEN 1 ELSE 0)
        /\ UNCHANGED <<tma, on, sel, irq>>
    BY <1>2 DEF WriteDiv
  <2>2. tima' \in Values
    BY <2>1, TickType
  <2>3. reload' \in BOOLEAN
    BY <2>1 DEF Overflows, FallingEdge
  <2>4. counter = 0 => ~FallingEdge(counter, 0)
    BY NoEdgeFromZero DEF FallingEdge
  <2>5. reload => ~Overflows(counter, 0, tima)
    BY <2>4, TickType DEF StrayTick
  <2>6. StrayTick'
    BY <2>1, <2>4, TickType DEF StrayTick
  <2>7. OverflowAccounted'
    <3>0. owed = IF reload THEN 1 ELSE 0
      BY DEF OverflowAccounted
    <3>1. CASE reload
      <4>1. owed' = 1 + 0
        BY <2>1, <2>5, <3>0, <3>1
      <4>2. reload' = TRUE
        BY <2>1, <3>1
      <4> QED
        BY <4>1, <4>2 DEF OverflowAccounted
    <3>2. CASE ~reload /\ Overflows(counter, 0, tima)
      <4>1. owed' = 0 + 1
        BY <2>1, <3>0, <3>2
      <4>2. reload' = TRUE
        BY <2>1, <3>2
      <4> QED
        BY <4>1, <4>2 DEF OverflowAccounted
    <3>3. CASE ~reload /\ ~Overflows(counter, 0, tima)
      BY <2>1, <3>3 DEF OverflowAccounted
    <3> QED
      BY <3>1, <3>2, <3>3
  <2> QED
    BY <1>0, <2>1, <2>2, <2>3, <2>6, <2>7 DEF OverflowAccounted
<1>3. ASSUME NEW v \in Values, WriteTima(v) PROVE IInv'
  BY <1>3 DEF WriteTima, StrayTick, OverflowAccounted
<1>4. ASSUME NEW v \in Values, WriteTma(v) PROVE IInv'
  BY <1>4 DEF WriteTma, StrayTick, OverflowAccounted
<1>5. ASSUME NEW enable \in BOOLEAN, NEW s \in Select, WriteTac(enable, s)
      PROVE  IInv'
  BY <1>5 DEF WriteTac, StrayTick, OverflowAccounted
<1>6. CASE Acknowledge
  BY <1>6 DEF Acknowledge, StrayTick, OverflowAccounted
<1>7. CASE Reset
  <2>1. 0 \in Values /\ 0 \in Select /\ ResetCounter \in 0..(CounterMod - 1)
    BY TimerAssumption DEF Values
  <2> QED
    BY <1>7, <2>1 DEF Reset, StrayTick, OverflowAccounted
<1>8. CASE UNCHANGED vars
  BY <1>8 DEF vars, StrayTick, OverflowAccounted
<1> QED
  BY <1>1, <1>2, <1>3, <1>4, <1>5, <1>6, <1>7, <1>8 DEF Next

LEMMA InductiveInvariant == Spec => []IInv
  BY InitIInv, NextIInv, PTL DEF Spec

\* Registers keep their widths and types under every legal use.
THEOREM TimerTypeCorrect == Spec => []TypeOK
<1>1. IInv => TypeOK
  BY DEF IInv
<1> QED
  BY InductiveInvariant, <1>1, PTL

\* Every TIMA overflow is delivered once or explicitly cancelled: the single
\* flag tima_reload never has to stand for two of them.
THEOREM TimerOverflowAccounted == Spec => []OverflowAccounted
<1>1. IInv => OverflowAccounted
  BY DEF IInv
<1> QED
  BY InductiveInvariant, <1>1, PTL

\* What TIMA reads while an overflow waits for its reload.
THEOREM TimerStrayTick == Spec => []StrayTick
<1>1. IInv => StrayTick
  BY DEF IInv
<1> QED
  BY InductiveInvariant, <1>1, PTL

(***************************************************************************)
(* The countdown.  The phase of the counter, its remainder modulo twice    *)
(* the weight of the watched bit, is what the abstract timer counts down;  *)
(* the watched bit is set in the second half of the phase.                 *)
(***************************************************************************)


\* Division with remainder, and that there is only one way to do it.
LEMMA DivParts ==
  ASSUME NEW a \in Nat, NEW n \in Nat \ {0}
  PROVE  /\ a \div n \in Nat /\ a % n \in 0..(n - 1)
         /\ a = n * (a \div n) + (a % n)
  OBVIOUS

LEMMA MultStep == ASSUME NEW n \in Nat \ {0}, NEW j \in Int, NEW k \in Int, j < k
  PROVE n * j + n <= n * k
<1>1. n * (k - j) >= n
  <2>1. \A x \in Nat \ {0} : n * x >= n
    OBVIOUS
  <2> QED
    BY <2>1
<1>2. n * (k - j) = n * k - n * j
  OBVIOUS
<1>3. n * k \in Int /\ n * j \in Int
  OBVIOUS
<1> QED
  BY <1>1, <1>2, <1>3

LEMMA DivUnique ==
  ASSUME NEW a \in Nat, NEW n \in Nat \ {0}, NEW k \in Int, NEW r \in 0..(n - 1),
         a = n * k + r
  PROVE  a % n = r /\ a \div n = k
<1> DEFINE q == a \div n
           s == a % n
<1>1. q \in Int /\ s \in 0..(n - 1) /\ a = n * q + s
  BY ONLY DivParts
<1> HIDE DEF q, s
<1>2. n * q \in Int /\ n * k \in Int
  BY <1>1
<1>3. ~(q < k)
  <2> SUFFICES ASSUME q < k PROVE FALSE
    OBVIOUS
  <2>1. n * q + n <= n * k
    BY <1>1, MultStep
  <2> QED
    BY <1>1, <1>2, <2>1
<1>4. ~(k < q)
  <2> SUFFICES ASSUME k < q PROVE FALSE
    OBVIOUS
  <2>1. n * k + n <= n * q
    BY <1>1, MultStep
  <2> QED
    BY <1>1, <1>2, <2>1
<1>5. q = k
  BY <1>1, <1>3, <1>4
<1>6. s = r
  BY <1>1, <1>2, <1>5
<1> QED
  BY <1>5, <1>6 DEF q, s

\* A bit of weight h is set in the second half of every 2h values.
LEMMA WatchedBit ==
  ASSUME NEW c \in Nat, NEW h \in Nat \ {0}
  PROVE  (c \div h) % 2 = 1 <=> c % (2 * h) >= h
<1> DEFINE q == c \div h
           r == c % h
           k == q \div 2
           b == q % 2
<1>1. q \in Nat /\ r \in 0..(h - 1) /\ c = h * q + r
  BY DivParts
<1> HIDE DEF q, r
<1>2. k \in Nat /\ b \in {0, 1} /\ q = 2 * k + b
  BY <1>1
<1> HIDE DEF k, b
<1>3. h * q = (2 * h) * k + h * b
  BY <1>1, <1>2
<1>4. 2 * h \in Nat \ {0} /\ h * b \in {0, h} /\ h * b + r \in 0..(2 * h - 1)
  BY <1>1, <1>2
<1>5. c = (2 * h) * k + (h * b + r)
  BY <1>1, <1>2, <1>3, <1>4
<1>6. c % (2 * h) = h * b + r
  <2> DEFINE n == 2 * h
             d == h * b + r
  <2>1. n \in Nat \ {0} /\ d \in 0..(n - 1) /\ k \in Int /\ c = n * k + d
    BY <1>2, <1>4, <1>5
  <2> HIDE DEF n, d
  <2>2. c % n = d
    BY <2>1, DivUnique
  <2> QED
    BY <2>2 DEF n, d
<1>7. b = 1 <=> h * b + r >= h
  BY <1>1, <1>2, <1>4
<1> QED
  BY <1>6, <1>7 DEF q, b

\* The phase after one more cycle, when the counter may wrap at m.
LEMMA NextPhase ==
  ASSUME NEW n \in Nat \ {0}, NEW m \in Nat \ {0}, m % n = 0, NEW c \in 0..(m - 1)
  PROVE  ((c + 1) % m) % n = IF c % n = n - 1 THEN 0 ELSE (c % n) + 1
<1> DEFINE k == c \div n
           r == c % n
<1>1. c \in Nat /\ k \in Nat /\ r \in 0..(n - 1) /\ c = n * k + r
  <2>1. c \in Nat
    OBVIOUS
  <2> QED
    BY <2>1, DivParts
<1> HIDE DEF k, r
<1>2. (c + 1) % n = IF r = n - 1 THEN 0 ELSE r + 1
  <2>1. CASE r = n - 1
    <3>1. c + 1 = n * (k + 1) + 0
      BY <1>1, <2>1
    <3> QED
      BY <1>1, <2>1, <3>1, DivUnique
  <2>2. CASE r # n - 1
    <3>1. c + 1 = n * k + (r + 1) /\ r + 1 \in 0..(n - 1)
      BY <1>1, <2>2
    <3> QED
      BY <1>1, <2>2, <3>1, DivUnique
  <2> QED
    BY <2>1, <2>2
<1>3. CASE c + 1 < m
  <2>1. (c + 1) % m = c + 1
    BY <1>3
  <2> QED
    BY <1>2, <2>1 DEF r
<1>4. CASE c + 1 = m
  <2>1. (c + 1) % m = 0 /\ 0 % n = 0
    BY <1>4
  <2>2. r = n - 1
    BY <1>1, <1>2, <1>4
  <2> QED
    BY <2>1, <2>2 DEF r
<1> QED
  BY <1>3, <1>4

\* Where the countdown stands, and when the watched bit falls.
LEMMA Countdown ==
  ASSUME TypeOK
  PROVE  /\ 2 * Half[sel] \in Nat \ {0}
         /\ 2 * Half[sel] \in {2 * Half[s] : s \in Select}
         /\ counter % (2 * Half[sel]) \in 0..(2 * Half[sel] - 1)
         /\ BitSet(counter) <=> counter % (2 * Half[sel]) >= Half[sel]
<1>1. Half[sel] \in Nat \ {0} /\ counter \in Nat /\ sel \in Select
  BY TimerAssumption DEF TypeOK
<1>2. 2 * Half[sel] \in Nat \ {0}
  BY <1>1
<1>3. counter % (2 * Half[sel]) \in 0..(2 * Half[sel] - 1)
  BY <1>1, <1>2, ModBounds
<1>4. BitSet(counter) <=> counter % (2 * Half[sel]) >= Half[sel]
  BY <1>1, WatchedBit DEF BitSet
<1> QED
  BY <1>1, <1>2, <1>3, <1>4

\* A TAC selection names a period and, with any counter, a point in it.
LEMMA PhaseOf ==
  ASSUME NEW s \in Select, NEW c \in 0..(CounterMod - 1)
  PROVE  /\ 2 * Half[s] \in {2 * Half[z] : z \in Select}
         /\ 2 * Half[s] - (c % (2 * Half[s])) \in 1..(2 * Half[s])
<1>1. 2 * Half[s] \in Nat \ {0} /\ c \in Nat
  BY TimerAssumption
<1>2. c % (2 * Half[s]) \in 0..(2 * Half[s] - 1)
  BY <1>1, ModBounds
<1> QED
  BY <1>1, <1>2

LEMMA InitRefines == Init => Rate!Init
<1> SUFFICES ASSUME Init PROVE Rate!Init
  OBVIOUS
<1>1. ResetCounter \in 0..(CounterMod - 1) /\ 0 \in Select
  BY TimerAssumption
<1> QED
  BY <1>1, PhaseOf DEF Init, Rate!Init

LEMMA StepRefines == ASSUME TypeOK, Step PROVE Rate!Elapse
<1> DEFINE n == 2 * Half[sel]
           now == (counter + 1) % CounterMod
           t == IF reload THEN tma ELSE tima
<1>1. /\ n \in Nat \ {0} /\ counter % n \in 0..(n - 1)
      /\ BitSet(counter) <=> counter % n >= Half[sel]
  BY Countdown
<1>2. /\ CounterMod \in Nat \ {0} /\ CounterMod % n = 0
      /\ Half[sel] \in Nat \ {0} /\ counter \in 0..(CounterMod - 1)
  BY TimerAssumption DEF TypeOK
<1>3. now \in Nat /\ now % n = IF counter % n = n - 1 THEN 0 ELSE (counter % n) + 1
  <2>1. now \in Nat
    BY <1>2, ModBounds
  <2> HIDE DEF n
  <2>2. now % n = IF counter % n = n - 1 THEN 0 ELSE (counter % n) + 1
    BY <1>1, <1>2, NextPhase
  <2> QED
    BY <2>1, <2>2
<1>4. BitSet(now) <=> now % n >= Half[sel]
  BY <1>2, <1>3, WatchedBit DEF BitSet
<1>5. n - (counter % n) = 1 <=> BitSet(counter) /\ ~BitSet(now)
  BY <1>1, <1>2, <1>3, <1>4
<1>6. t \in Values /\ ((t + 1) % TimaMod = 0 <=> t + 1 = TimaMod)
  BY TimerAssumption DEF TypeOK, Values
<1>7. /\ counter' = now /\ tima' = TimaAfter(counter, now, t)
      /\ reload' = Overflows(counter, now, t) /\ irq' = (irq \/ reload)
      /\ UNCHANGED <<tma, on, sel>>
  BY DEF Step
<1>8. n - (now % n) = IF n - (counter % n) = 1 THEN n ELSE n - (counter % n) - 1
  BY <1>1, <1>3
<1>9. Rate!Count(t, on /\ n - (counter % n) = 1)
  BY <1>5, <1>6, <1>7 DEF Rate!Count, TimaAfter, Overflows, FallingEdge
<1> QED
  BY <1>7, <1>8, <1>9 DEF Rate!Elapse

LEMMA WriteDivRefines == ASSUME TypeOK, WriteDiv PROVE Rate!Restart
<1> DEFINE n == 2 * Half[sel]
           ticks == on /\ 2 * (n - (counter % n)) <= n
<1>1. /\ n \in Nat \ {0} /\ counter % n \in 0..(n - 1) /\ Half[sel] \in Nat \ {0}
      /\ BitSet(counter) <=> counter % n >= Half[sel]
  BY Countdown, TimerAssumption DEF TypeOK
<1>2. 0 % n = 0
  BY <1>1
<1>3. ticks <=> FallingEdge(counter, 0)
  BY <1>1, NoEdgeFromZero DEF FallingEdge
<1>4. (tima + 1) % TimaMod = 0 <=> tima + 1 = TimaMod
  BY TimerAssumption DEF TypeOK, Values
<1>5. /\ counter' = 0 /\ tima' = TimaAfter(counter, 0, tima)
      /\ reload' = (reload \/ Overflows(counter, 0, tima))
      /\ UNCHANGED <<tma, on, sel, irq>>
  BY DEF WriteDiv
<1>6. n - (counter' % n) = n
  BY <1>1, <1>2, <1>5
<1> QED
  BY <1>3, <1>4, <1>5, <1>6 DEF Rate!Restart, TimaAfter, Overflows

LEMMA NextRefines == IInv /\ [Next]_vars => [Rate!Next]_(Rate!vars)
<1> SUFFICES ASSUME TypeOK, [Next]_vars PROVE [Rate!Next]_(Rate!vars)
  BY DEF IInv
<1>1. CASE Step
  BY <1>1, StepRefines DEF Rate!Next
<1>2. CASE WriteDiv
  BY <1>2, WriteDivRefines DEF Rate!Next
<1>3. ASSUME NEW v \in Values, WriteTima(v) PROVE Rate!SetTima
  BY <1>3 DEF WriteTima, Values, Rate!SetTima
<1>4. ASSUME NEW v \in Values, WriteTma(v) PROVE Rate!SetTma
  BY <1>4 DEF WriteTma, Values, Rate!SetTma
<1>5. ASSUME NEW enable \in BOOLEAN, NEW s \in Select, WriteTac(enable, s)
      PROVE  Rate!Configure
  BY <1>5, PhaseOf DEF WriteTac, TypeOK, Rate!Configure
<1>6. CASE Acknowledge
  BY <1>6 DEF Acknowledge, Rate!Next, Rate!Acknowledge
<1>7. CASE Reset
  <2>1. ResetCounter \in 0..(CounterMod - 1) /\ 0 \in Select
    BY TimerAssumption
  <2> QED
    BY <1>7, <2>1, PhaseOf DEF Reset, Rate!Next, Rate!PowerOn
<1>8. CASE UNCHANGED vars
  BY <1>8 DEF vars, Rate!vars
<1> QED
  BY <1>1, <1>2, <1>3, <1>4, <1>5, <1>6, <1>7, <1>8 DEF Next, Rate!Next

\* gb_timer_step and gb_timer_write keep the promise of the comment at
\* timer.c:4-6: a countdown of twice the weight of the watched bit, whatever
\* the width of the counter, as long as it is a multiple of every period.
THEOREM TimerImplementsRate == Spec => RateSpec
  BY InitRefines, NextRefines, InductiveInvariant, PTL
     DEF Spec, RateSpec, Rate!Spec
=============================================================================
