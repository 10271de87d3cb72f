-------------------------- MODULE HandheldsProofs --------------------------
(***************************************************************************)
(* The Game Boy's frame loop, the clock of its cartridges and the Game Boy *)
(* Advance's interrupt dispatch, for every length of a frame, cost of a    *)
(* step, size of the audio buffer, number of clock registers, set of modes *)
(* and set of interrupts.                                                  *)
(***************************************************************************)
EXTENDS MCHandhelds, WellFoundedInduction, TLAPS

(***************************************************************************)
(* Division, for the samples a step generates.                             *)
(***************************************************************************)

\* Division with remainder.
LEMMA DivParts ==
  ASSUME NEW a \in Nat, NEW n \in Nat \ {0}
  PROVE  /\ a \div n \in Nat /\ a % n \in 0..(n - 1)
         /\ a = n * (a \div n) + (a % n)
  OBVIOUS

\* The next multiple is a whole divisor away, so that there is only one way
\* to divide with remainder.
LEMMA MultStep == ASSUME NEW n \in Nat \ {0}, NEW j \in Int, NEW k \in Int, j < k
  PROVE n * j + n <= n * k
<1>1. n * (k - j) >= n
  <2>1. \A x \in Nat \ {0} : n * x >= n
    OBVIOUS
  <2> QED
    BY <2>1
<1>2. n * (k - j) = n * k - n * j
  OBVIOUS
<1>3. n * k \in Int /\ n * j \in Int
  OBVIOUS
<1> QED
  BY <1>1, <1>2, <1>3

LEMMA DivUnique ==
  ASSUME NEW a \in Nat, NEW n \in Nat \ {0}, NEW k \in Int, NEW r \in 0..(n - 1),
         a = n * k + r
  PROVE  a % n = r /\ a \div n = k
<1> DEFINE q == a \div n
           s == a % n
<1>1. q \in Int /\ s \in 0..(n - 1) /\ a = n * q + s
  BY ONLY DivParts
<1> HIDE DEF q, s
<1>2. n * q \in Int /\ n * k \in Int
  BY <1>1
<1>3. ~(q < k)
  <2> SUFFICES ASSUME q < k PROVE FALSE
    OBVIOUS
  <2>1. n * q + n <= n * k
    BY <1>1, MultStep
  <2> QED
    BY <1>1, <1>2, <2>1
<1>4. ~(k < q)
  <2> SUFFICES ASSUME k < q PROVE FALSE
    OBVIOUS
  <2>1. n * k + n <= n * q
    BY <1>1, MultStep
  <2> QED
    BY <1>1, <1>2, <2>1
<1>5. q = k
  BY <1>1, <1>3, <1>4
<1>6. s = r
  BY <1>1, <1>2, <1>5
<1> QED
  BY <1>5, <1>6 DEF q, s

\* Less than twice around wraps at most once.
LEMMA ModOnce ==
  ASSUME NEW m \in Nat \ {0}, NEW a \in 0..(2 * m - 1)
  PROVE  a % m = IF a < m THEN a ELSE a - m
<1>1. CASE a < m
  BY <1>1
<1>2. CASE a >= m
  <2>1. a = m * 1 + (a - m) /\ a - m \in 0..(m - 1) /\ a \in Nat
    BY <1>2
  <2>2. a % m = a - m
    BY <2>1, DivUnique
  <2> QED
    BY <1>2, <2>2
<1> QED
  BY <1>1, <1>2

\* A product that stays below n * k has its other factor below k.
LEMMA FactorBelow ==
  ASSUME NEW n \in Nat \ {0}, NEW j \in Nat, NEW k \in Nat, n * j < n * k
  PROVE  j < k
<1> SUFFICES ASSUME j >= k PROVE FALSE
  OBVIOUS
<1>1. n * (j - k) >= 0 /\ n * (j - k) = n * j - n * k
  OBVIOUS
<1>2. n * j \in Nat /\ n * k \in Nat
  OBVIOUS
<1> QED
  BY <1>1, <1>2

(***************************************************************************)
(* The frame loop.  Inside a call the VBlanks counted are those the beam   *)
(* must have met in acc cycles to be as far past the last one as it is;    *)
(* the samples made, with the remainder kept for the next, fit the cycles  *)
(* run.                                                                    *)
(***************************************************************************)

LEMMA FrameFacts ==
  /\ FrameLen \in Nat \ {0} /\ VBlankAt \in 0..(FrameLen - 1)
  /\ Costs # {} /\ Costs \subseteq 1..FrameLen
  /\ SampleLen \in Nat \ {0} /\ OutCap \in Nat /\ LagMax \in Nat
  BY FrameFits DEF Frame!FrameAssumption

\* The audio buffer has room for one call.
LEMMA Room ==
  \A t \in Costs : FrameLen + t + SampleLen <= SampleLen * (OutCap + 1)
  BY FrameFits DEF Frame!FrameAssumption

\* The longest CPU step.
LEMMA LongestStep ==
  /\ Frame!MaxCost \in Costs
  /\ \A t \in Costs : t <= Frame!MaxCost
<1> DEFINE gaps == {FrameLen - t : t \in Costs}
<1>1. gaps \subseteq Nat /\ gaps # {}
  <2>1. \A t \in Costs : FrameLen - t \in Nat
    BY FrameFacts
  <2>2. \E t \in Costs : TRUE
    BY FrameFacts
  <2> QED
    BY <2>1, <2>2
<1>2. \E x \in gaps : \A y \in gaps : ~(<<y, x>> \in OpToRel(<, Nat))
  BY <1>1, WFMin, NatLessThanWellFounded
<1>3. PICK x \in gaps : \A y \in gaps : ~(<<y, x>> \in OpToRel(<, Nat))
  BY <1>2
<1>4. \A y \in gaps : x <= y
  <2> HIDE DEF gaps
  <2>1. \A y \in gaps : ~(y < x)
    BY <1>1, <1>3 DEF OpToRel
  <2> QED
    BY <1>1, <2>1
<1>5. PICK t \in Costs : x = FrameLen - t
  OBVIOUS
<1>6. ASSUME NEW u \in Costs PROVE u <= t
  <2>1. FrameLen - t <= FrameLen - u
    BY <1>4, <1>5
  <2>2. t \in Nat /\ u \in Nat /\ FrameLen \in Nat
    BY FrameFacts
  <2> QED
    BY <2>1, <2>2
<1> QED
  BY <1>6 DEF Frame!MaxCost

\* Cycles since the beam was at VBlank.
Since(b) == IF b >= VBlankAt THEN b - VBlankAt ELSE b - VBlankAt + FrameLen

\* VBlanks met in the last n cycles, when the last was s cycles ago.
Met(n, s) == IF n <= s THEN 0 ELSE IF n <= s + FrameLen THEN 1 ELSE 2

FrameInv ==
  /\ Frame!TypeOK
  /\ running => vblanks = Met(acc, Since(beam))
  /\ running /\ taken => /\ made = outPos
                         /\ SampleLen * made + sampleAcc <= acc + SampleLen - 1
  /\ ~running /\ taken => outPos = 0

LEMMA FrameStart == Frame!Init => FrameInv
<1> SUFFICES ASSUME Frame!Init PROVE FrameInv
  OBVIOUS
<1>1. Frame!MaxCost \in 1..FrameLen
  BY LongestStep, FrameFacts
<1>2. Frame!TypeOK
  <2>1. running \in BOOLEAN /\ callback \in BOOLEAN /\ taken \in BOOLEAN
    BY DEF Frame!Init
  <2>2. acc \in 0..(FrameLen - 1 + Frame!MaxCost)
    BY <1>1, FrameFacts DEF Frame!Init
  <2>3. beam \in 0..(FrameLen - 1) /\ sampleAcc \in 0..(SampleLen - 1)
    BY FrameFacts DEF Frame!Init
  <2>4. outPos \in 0..OutCap /\ vblanks \in 0..3
    BY FrameFacts DEF Frame!Init
  <2>5. made \in 0..(OutCap + 1) /\ lag \in 0..LagMax
    BY FrameFacts DEF Frame!Init
  <2> QED
    BY <2>1, <2>2, <2>3, <2>4, <2>5 DEF Frame!TypeOK
<1> QED
  BY <1>2 DEF Frame!Init, FrameInv

\* The beam meets a VBlank on the way just when the last one is a frame ago
\* by then.
LEMMA BeamMoves ==
  ASSUME NEW b \in 0..(FrameLen - 1), NEW t \in Costs
  PROVE  /\ (b + t) % FrameLen \in 0..(FrameLen - 1)
         /\ Frame!Crossings(t) \in {0, 1}
         /\ b = beam => (Frame!Crossings(t) = 1 <=> Since(b) + t >= FrameLen)
         /\ Since((b + t) % FrameLen) =
              IF Since(b) + t >= FrameLen THEN Since(b) + t - FrameLen
              ELSE Since(b) + t
<1>1. t \in 1..FrameLen /\ FrameLen \in Nat \ {0} /\ VBlankAt \in 0..(FrameLen - 1)
  BY FrameFacts
<1>2. \A d \in 1..t : (b + d) % FrameLen = IF b + d < FrameLen THEN b + d
                                           ELSE b + d - FrameLen
  <2> SUFFICES ASSUME NEW d \in 1..t
               PROVE  (b + d) % FrameLen = IF b + d < FrameLen THEN b + d
                                           ELSE b + d - FrameLen
    OBVIOUS
  <2> DEFINE a == b + d
  <2>1. a \in 0..(2 * FrameLen - 1)
    BY <1>1
  <2> HIDE DEF a
  <2>2. a % FrameLen = IF a < FrameLen THEN a ELSE a - FrameLen
    BY <1>1, <2>1, ModOnce
  <2> USE DEF a
  <2> QED
    BY <1>1, <2>2
<1>3. (\E d \in 1..t : (b + d) % FrameLen = VBlankAt) <=> Since(b) + t >= FrameLen
  <2>1. ASSUME NEW d \in 1..t, (b + d) % FrameLen = VBlankAt
        PROVE  Since(b) + t >= FrameLen
    <3>1. VBlankAt = IF b + d < FrameLen THEN b + d ELSE b + d - FrameLen
      BY <1>2, <2>1
    <3> QED
      BY <1>1, <3>1 DEF Since
  <2>2. ASSUME Since(b) + t >= FrameLen
        PROVE  \E d \in 1..t : (b + d) % FrameLen = VBlankAt
    <3> DEFINE d == FrameLen - Since(b)
    <3>1. d \in 1..t
      BY <1>1, <2>2 DEF Since
    <3>2. (b + d) % FrameLen = IF b + d < FrameLen THEN b + d ELSE b + d - FrameLen
      BY <1>2, <3>1
    <3>3. (IF b + d < FrameLen THEN b + d ELSE b + d - FrameLen) = VBlankAt
      BY <1>1, <3>1 DEF Since
    <3> QED
      BY <3>1, <3>2, <3>3
  <2> QED
    BY <2>1, <2>2
<1>4. (b + t) % FrameLen = IF b + t < FrameLen THEN b + t ELSE b + t - FrameLen
  BY <1>1, <1>2
<1> DEFINE now == (b + t) % FrameLen
<1>5. now = IF b + t < FrameLen THEN b + t ELSE b + t - FrameLen
  BY <1>4
<1> HIDE DEF now
<1>6. /\ now \in 0..(FrameLen - 1)
      /\ Since(now) = IF Since(b) + t >= FrameLen THEN Since(b) + t - FrameLen
                      ELSE Since(b) + t
  BY <1>1, <1>5 DEF Since
<1>7. b = beam => (Frame!Crossings(t) = 1 <=> Since(b) + t >= FrameLen)
  BY <1>3 DEF Frame!Crossings
<1>8. Frame!Crossings(t) \in {0, 1}
  BY DEF Frame!Crossings
<1> QED
  BY <1>6, <1>7, <1>8 DEF now

\* One turn of the loop.
LEMMA CpuStepSound ==
  ASSUME FrameInv, NEW t \in Costs, Frame!CpuStep(t) PROVE FrameInv'
<1> DEFINE n == (sampleAcc + t) \div SampleLen
           r == (sampleAcc + t) % SampleLen
<1>1. /\ running /\ acc < FrameLen /\ UNCHANGED <<running, callback, taken>>
      /\ acc' = acc + t /\ beam' = (beam + t) % FrameLen
      /\ vblanks' = Frame!UpTo(vblanks + Frame!Crossings(t), 3)
      /\ sampleAcc' = r /\ outPos' = Frame!UpTo(outPos + n, OutCap)
      /\ made' = Frame!UpTo(made + n, OutCap + 1)
      /\ lag' = Frame!UpTo(lag + t - 1, LagMax)
  BY DEF Frame!CpuStep, Frame!LoopTest, Frame!Counted, Frame!Stored, Frame!TimerSteps
<1>2. /\ t \in 1..FrameLen /\ t <= Frame!MaxCost /\ Frame!MaxCost \in 1..FrameLen
      /\ FrameLen \in Nat \ {0} /\ SampleLen \in Nat \ {0} /\ OutCap \in Nat
      /\ LagMax \in Nat
  BY LongestStep, FrameFacts
<1>3. /\ acc \in Nat /\ beam \in 0..(FrameLen - 1) /\ sampleAcc \in 0..(SampleLen - 1)
      /\ outPos \in 0..OutCap /\ made \in 0..(OutCap + 1) /\ vblanks \in 0..3
      /\ lag \in 0..LagMax
  BY <1>2 DEF FrameInv, Frame!TypeOK
<1>4. /\ n \in Nat /\ r \in 0..(SampleLen - 1)
      /\ sampleAcc + t = SampleLen * n + r
  <2>1. sampleAcc + t \in Nat
    BY <1>2, <1>3
  <2> QED
    BY <1>2, <2>1, DivParts
<1> HIDE DEF n, r
<1>5. /\ beam' \in 0..(FrameLen - 1) /\ Frame!Crossings(t) \in {0, 1}
      /\ Frame!Crossings(t) = 1 <=> Since(beam) + t >= FrameLen
      /\ Since(beam') = IF Since(beam) + t >= FrameLen THEN Since(beam) + t - FrameLen
                        ELSE Since(beam) + t
  BY <1>1, <1>3, BeamMoves
<1>6. Frame!TypeOK'
  <2>1. acc' \in 0..(FrameLen - 1 + Frame!MaxCost)
    BY <1>1, <1>2, <1>3
  <2>2. vblanks' \in 0..3
    BY <1>1, <1>3, <1>5 DEF Frame!UpTo
  <2>3. outPos' \in 0..OutCap /\ made' \in 0..(OutCap + 1)
    BY <1>1, <1>2, <1>3, <1>4 DEF Frame!UpTo
  <2>4. lag' \in 0..LagMax
    BY <1>1, <1>2, <1>3 DEF Frame!UpTo
  <2>5. Frame!MaxCost' = Frame!MaxCost
    BY DEF Frame!MaxCost
  <2> QED
    BY <1>1, <1>4, <1>5, <2>1, <2>2, <2>3, <2>4, <2>5 DEF FrameInv, Frame!TypeOK
<1>7. vblanks' = Met(acc', Since(beam'))
  <2>1. Since(beam) \in 0..(FrameLen - 1)
    BY <1>3, FrameFacts DEF Since
  <2>2. vblanks = Met(acc, Since(beam)) /\ vblanks \in {0, 1}
    BY <1>1, <1>2, <1>3, <2>1 DEF FrameInv, Met
  <2>3. vblanks' = vblanks + Frame!Crossings(t)
    BY <1>1, <1>5, <2>2 DEF Frame!UpTo
  <2> QED
    BY <1>1, <1>2, <1>3, <1>5, <2>1, <2>2, <2>3 DEF Met
<1>8. ASSUME taken
      PROVE  made' = outPos' /\ SampleLen * made' + sampleAcc' <= acc' + SampleLen - 1
  <2>1. made = outPos /\ SampleLen * made + sampleAcc <= acc + SampleLen - 1
    BY <1>1, <1>8 DEF FrameInv
  <2>2. SampleLen * (made + n) = SampleLen * made + SampleLen * n
    BY <1>2, <1>3, <1>4
  <2>3. SampleLen * made \in Nat /\ SampleLen * n \in Nat
    BY <1>2, <1>3, <1>4
  <2>4. SampleLen * (made + n) + r <= acc + t + SampleLen - 1
    BY <1>2, <1>3, <1>4, <2>1, <2>2, <2>3
  <2>5. SampleLen * (made + n) < SampleLen * (OutCap + 1)
    <3>1. FrameLen + t + SampleLen <= SampleLen * (OutCap + 1)
      BY Room
    <3>2. SampleLen * (OutCap + 1) \in Nat /\ SampleLen * (made + n) \in Nat
      BY <1>2, <1>3, <1>4
    <3> QED
      BY <1>1, <1>2, <1>3, <1>4, <2>4, <3>1, <3>2
  <2>6. made + n < OutCap + 1
    BY <1>2, <1>3, <1>4, <2>5, FactorBelow
  <2>7. made' = made + n /\ outPos' = made + n
    BY <1>1, <1>2, <1>3, <1>4, <2>1, <2>6 DEF Frame!UpTo
  <2> QED
    BY <1>1, <2>4, <2>7
<1> QED
  BY <1>1, <1>6, <1>7, <1>8 DEF FrameInv

LEMMA FrameStep == ASSUME FrameInv, Frame!Next PROVE FrameInv'
<1> USE FrameFacts DEF FrameInv, Frame!TypeOK
<1>0. Frame!MaxCost' = Frame!MaxCost /\ Frame!MaxCost \in 1..FrameLen
  BY LongestStep DEF Frame!MaxCost
<1>1. CASE Frame!Begin
  <2>1. Since(beam) \in 0..(FrameLen - 1)
    BY DEF Since
  <2>2. running' /\ acc' = 0 /\ vblanks' = 0 /\ made' = 0 /\ ~running
        /\ UNCHANGED <<beam, sampleAcc, outPos, callback, taken, lag>>
    BY <1>1 DEF Frame!Begin
  <2>3. vblanks' = Met(acc', Since(beam'))
    BY <2>1, <2>2 DEF Met
  <2>4. SampleLen * made' = 0
    BY <2>2
  <2> QED
    BY <1>0, <2>2, <2>3, <2>4
<1>2. ASSUME NEW t \in Costs, Frame!CpuStep(t) PROVE FrameInv'
  BY <1>2, CpuStepSound
<1>3. CASE Frame!EndFrame
  <2>1. running' \in BOOLEAN /\ taken' \in BOOLEAN /\ callback' \in BOOLEAN
    BY <1>3 DEF Frame!EndFrame
  <2>2. outPos' \in 0..OutCap
    BY <1>3 DEF Frame!EndFrame
  <2>3. Frame!TypeOK'
    BY <1>0, <1>3, <2>1, <2>2 DEF Frame!EndFrame
  <2> QED
    BY <1>3, <2>3 DEF Frame!EndFrame
<1>4. ASSUME NEW set \in BOOLEAN, Frame!SetCallback(set) PROVE FrameInv'
  BY <1>0, <1>4 DEF Frame!SetCallback
<1>5. ASSUME NEW b \in 0..(FrameLen - 1), NEW s \in 0..(SampleLen - 1), NEW o \in 0..OutCap,
             Frame!LoadState(b, s, o)
      PROVE  FrameInv'
  BY <1>0, <1>5 DEF Frame!LoadState
<1>6. CASE Frame!PowerOn
  BY <1>0, <1>6 DEF Frame!PowerOn
<1> QED
  BY <1>1, <1>2, <1>3, <1>4, <1>5, <1>6 DEF Frame!Next

LEMMA FrameSound ==
  FrameInv => Frame!TypeOK /\ Frame!NewPicture /\ Frame!AudioComplete
<1> SUFFICES ASSUME FrameInv PROVE Frame!TypeOK /\ Frame!NewPicture /\ Frame!AudioComplete
  OBVIOUS
<1>1. Frame!MaxCost \in 1..FrameLen
  BY LongestStep, FrameFacts
<1>2. Since(beam) \in 0..(FrameLen - 1)
  BY FrameFacts DEF Since, FrameInv, Frame!TypeOK
<1>3. Frame!NewPicture
  BY <1>1, <1>2, FrameFacts DEF FrameInv, Frame!TypeOK, Frame!NewPicture, Met
<1> QED
  BY <1>3 DEF FrameInv, Frame!AudioComplete

(***************************************************************************)
(* The cartridge's clock: its registers keep to their ranges.              *)
(***************************************************************************)

LEMMA RtcFacts ==
  /\ NRegs \in Nat \ {0} /\ RegMod \in Nat \ {0}
  /\ SecondLen \in Nat \ {0} /\ Costs \subseteq 1..SecondLen
  BY RtcFits DEF Rtc!RtcAssumption

RegStates == [Rtc!Regs -> 0..(RegMod - 1)]

LEMMA RtcZero == Rtc!Zero \in RegStates
<1>1. 0 \in 0..(RegMod - 1)
  BY RtcFacts
<1> QED
  BY <1>1 DEF Rtc!Zero, RegStates

LEMMA RippledSound == ASSUME NEW d \in RegStates PROVE Rtc!Rippled(d) \in RegStates
<1>1. \A v \in 0..(RegMod - 1) : (v + 1) % RegMod \in 0..(RegMod - 1)
  BY RtcFacts, DivParts
<1> QED
  BY <1>1 DEF Rtc!Rippled, RegStates

\* Rtc!TypeOK in terms of the single registers, and the halt flag's two copies.
RtcInv ==
  /\ reg \in RegStates /\ high \in BOOLEAN /\ stop \in BOOLEAN /\ carry \in BOOLEAN
  /\ latched \in Rtc!Registers
  /\ halt \in BOOLEAN /\ divider \in 0..(SecondLen - 1)
  /\ latchedValid \in BOOLEAN /\ armed \in BOOLEAN /\ wrote \in BOOLEAN
  /\ halt = stop

LEMMA RtcSound == RtcInv => Rtc!TypeOK
  BY DEF RtcInv, Rtc!TypeOK, Rtc!Live, Rtc!Registers, RegStates

LEMMA RtcStart == Rtc!Init => RtcInv
<1> SUFFICES ASSUME Rtc!Init PROVE RtcInv
  OBVIOUS
<1>1. 0 \in 0..(SecondLen - 1)
  BY RtcFacts
<1>2. /\ high \in BOOLEAN /\ stop \in BOOLEAN /\ carry \in BOOLEAN /\ halt \in BOOLEAN
      /\ latchedValid \in BOOLEAN /\ armed \in BOOLEAN /\ wrote \in BOOLEAN
      /\ halt = stop
  BY DEF Rtc!Init
<1>3. reg \in RegStates /\ latched \in Rtc!Registers /\ divider \in 0..(SecondLen - 1)
  BY <1>1, RtcZero DEF Rtc!Init, Rtc!Registers, RegStates
<1> QED
  BY <1>2, <1>3 DEF RtcInv

LEMMA RtcStep == ASSUME RtcInv, Rtc!Next PROVE RtcInv'
<1>1. ASSUME NEW t \in Costs, Rtc!Tick(t) PROVE RtcInv'
  <2>1. divider' \in 0..(SecondLen - 1)
    <3>1. divider + t \in Nat
      BY RtcFacts DEF RtcInv
    <3>2. (divider + t) % SecondLen \in 0..(SecondLen - 1)
      BY <3>1, RtcFacts, DivParts
    <3> QED
      BY <1>1, <3>2 DEF Rtc!Tick
  <2>2. reg' \in RegStates
    BY <1>1, RippledSound DEF Rtc!Tick, RtcInv
  <2>3. carry' \in BOOLEAN /\ wrote' \in BOOLEAN
    BY <1>1 DEF Rtc!Tick, Rtc!WrapsBelow
  <2>4. UNCHANGED <<high, stop, halt, latched, latchedValid, armed>>
    BY <1>1 DEF Rtc!Tick
  <2> QED
    BY <2>1, <2>2, <2>3, <2>4 DEF RtcInv, Rtc!Registers
<1>2. ASSUME NEW r \in Rtc!Regs, NEW v \in 0..(RegMod - 1), Rtc!WriteReg(r, v)
      PROVE  RtcInv'
  <2>1. reg' \in RegStates
    BY <1>2 DEF Rtc!WriteReg, RtcInv, RegStates
  <2> QED
    BY <1>2, <2>1 DEF Rtc!WriteReg, RtcInv, Rtc!Registers
<1>3. ASSUME NEW h \in BOOLEAN, NEW s \in BOOLEAN, NEW c \in BOOLEAN,
             Rtc!WriteFlags(h, s, c)
      PROVE  RtcInv'
  BY <1>3 DEF Rtc!WriteFlags, RtcInv, Rtc!Registers
<1>4. CASE Rtc!LatchArm
  BY <1>4 DEF Rtc!LatchArm, RtcInv, Rtc!Registers
<1>5. CASE Rtc!Latch
  <2>1. latched' \in Rtc!Registers
    BY <1>5 DEF Rtc!Latch, RtcInv, Rtc!Live, Rtc!Registers, RegStates
  <2> QED
    BY <1>5, <2>1 DEF Rtc!Latch, RtcInv
<1>6. CASE Rtc!Reset
  <2>1. 0 \in 0..(SecondLen - 1)
    BY RtcFacts
  <2> QED
    BY <1>6, <2>1, RtcZero DEF Rtc!Reset, RtcInv, Rtc!Registers, RegStates
<1> QED
  BY <1>1, <1>2, <1>3, <1>4, <1>5, <1>6 DEF Rtc!Next

\* Only the two-write protocol changes what a program reads from a snapshot.
LEMMA LatchStep ==
  ASSUME Rtc!Next, latchedValid, latchedValid', Rtc!Shown' # Rtc!Shown
  PROVE  armed /\ ~armed'
<1>1. latched' # latched
  BY DEF Rtc!Shown
<1> QED
  BY <1>1
     DEF Rtc!Next, Rtc!Tick, Rtc!WriteReg, Rtc!WriteFlags, Rtc!LatchArm, Rtc!Latch,
         Rtc!Reset

(***************************************************************************)
(* The registers read as one number of seconds.  Spans and Seconds are     *)
(* recursive functions: a chain of steps is one such function, and what    *)
(* holds from step to step holds for all of them.                          *)
(***************************************************************************)

\* What is true of 0 and handed on to the next is true up to n.
LEMMA UpTo ==
  ASSUME NEW n \in Nat, NEW B, 0 \in B, \A k \in 0..(n - 1) : k \in B => k + 1 \in B
  PROVE  \A k \in 0..n : k \in B
<1> DEFINE Bad == (0..n) \ B
<1> SUFFICES ASSUME Bad # {} PROVE FALSE
  OBVIOUS
<1>1. Bad \subseteq Nat
  OBVIOUS
<1>2. PICK m \in Bad : \A k \in Bad : ~(<<k, m>> \in OpToRel(<, Nat))
  BY <1>1, WFMin, NatLessThanWellFounded
<1>3. m # 0 /\ m \in 0..n /\ m \notin B
  OBVIOUS
<1>4. m - 1 \in 0..(n - 1) /\ (m - 1) + 1 = m
  BY <1>3
<1>5. m - 1 \notin B
  BY <1>3, <1>4
<1>6. m - 1 \in Bad /\ <<m - 1, m>> \in OpToRel(<, Nat)
  BY <1>3, <1>4, <1>5 DEF OpToRel
<1> QED
  BY <1>2, <1>6

\* A chain of n steps from a first element exists.
LEMMA Iterated ==
  ASSUME NEW S, NEW x \in S, NEW n \in Nat, NEW T \in [1..n -> [S -> S]]
  PROVE  \E f \in [0..n -> S] : f[0] = x /\ \A k \in 1..n : f[k] = T[k][f[k - 1]]
<1> DEFINE B == {m \in 0..n : \E f \in [0..m -> S] :
                    f[0] = x /\ \A k \in 1..m : f[k] = T[k][f[k - 1]]}
<1>1. 0 \in B
  <2> DEFINE f == [k \in 0..0 |-> x]
  <2>1. f \in [0..0 -> S] /\ f[0] = x /\ \A k \in 1..0 : f[k] = T[k][f[k - 1]]
    OBVIOUS
  <2> HIDE DEF f
  <2> QED BY <2>1
<1>2. ASSUME NEW m \in 0..(n - 1), m \in B PROVE m + 1 \in B
  <2>1. PICK f \in [0..m -> S] : f[0] = x /\ \A k \in 1..m : f[k] = T[k][f[k - 1]]
    BY <1>2
  <2>2. m + 1 \in 1..n /\ m \in 0..m
    OBVIOUS
  <2> DEFINE last == T[m + 1][f[m]]
             g == [k \in 0..(m + 1) |-> IF k = m + 1 THEN last ELSE f[k]]
  <2>3. last \in S
    BY <2>1, <2>2
  <2> HIDE DEF last
  <2>4. g \in [0..(m + 1) -> S]
    <3>1. \A k \in 0..(m + 1) : k = m + 1 \/ k \in 0..m
      OBVIOUS
    <3>2. \A k \in 0..(m + 1) : (IF k = m + 1 THEN last ELSE f[k]) \in S
      BY <2>1, <2>3, <3>1
    <3> QED BY <3>2
  <2>5. g[m + 1] = last /\ \A k \in 0..m : g[k] = f[k]
    OBVIOUS
  <2> HIDE DEF g
  <2>6. g[0] = x
    BY <2>1, <2>5
  <2>7. ASSUME NEW k \in 1..(m + 1) PROVE g[k] = T[k][g[k - 1]]
    <3>1. CASE k = m + 1
      <4>1. g[k - 1] = f[m]
        BY <2>5, <3>1
      <4> QED BY <2>5, <3>1, <4>1 DEF last
    <3>2. CASE k # m + 1
      <4>1. k \in 1..m /\ k \in 0..m /\ k - 1 \in 0..m
        BY <3>2
      <4> QED BY <2>1, <2>5, <4>1
    <3> QED BY <3>1, <3>2
  <2>8. m + 1 \in 0..n
    OBVIOUS
  <2> QED BY <2>4, <2>6, <2>7, <2>8
<1> HIDE DEF B
<1>3. n \in 0..n
  OBVIOUS
<1>4. n \in B
  BY <1>1, <1>2, <1>3, UpTo
<1> QED
  BY <1>4 DEF B

\* The number of times.
LEMMA SpansAre ==
  /\ Rtc!Spans[0] = 1 /\ \A k \in 1..NRegs : Rtc!Spans[k] = RegMod * Rtc!Spans[k - 1]
  /\ \A k \in 0..NRegs : Rtc!Spans[k] \in Nat \ {0}
<1> DEFINE Steps(f) == f = [n \in 0..NRegs |-> IF n = 0 THEN 1 ELSE RegMod * f[n - 1]]
           g == CHOOSE f : Steps(f)
<1>0. PICK n \in Nat : n = NRegs
  BY RtcFacts
<1>1. PICK X : X = Nat \ {0}
  OBVIOUS
<1>2. PICK T \in [1..n -> [X -> X]] : \A k \in 1..n, x \in X : T[k][x] = RegMod * x
  <2> DEFINE U == [k \in 1..n |-> [x \in X |-> RegMod * x]]
  <2>1. \A x \in X : RegMod * x \in X
    <3>1. \A x \in Nat \ {0} : RegMod * x \in Nat \ {0}
      BY RtcFacts
    <3> QED BY <1>1, <3>1
  <2>2. U \in [1..n -> [X -> X]]
    BY <2>1
  <2>3. \A k \in 1..n, x \in X : U[k][x] = RegMod * x
    OBVIOUS
  <2> HIDE DEF U
  <2> QED BY <2>2, <2>3
<1>3. PICK s \in X : s = 1
  BY <1>1
<1>4. PICK h \in [0..n -> X] : h[0] = s /\ \A k \in 1..n : h[k] = T[k][h[k - 1]]
  <2> HIDE DEF Steps, g
  <2>1. n \in Nat /\ s \in X /\ T \in [1..n -> [X -> X]]
    OBVIOUS
  <2> QED BY ONLY <2>1, Iterated
<1>5. Steps(h)
  <2>1. ASSUME NEW k \in 0..n PROVE h[k] = IF k = 0 THEN 1 ELSE RegMod * h[k - 1]
    <3>1. CASE k = 0
      BY <1>3, <1>4, <3>1
    <3>2. CASE k # 0
      <4>1. k \in 1..n /\ k - 1 \in 0..n
        BY <3>2
      <4>2. h[k] = T[k][h[k - 1]] /\ h[k - 1] \in X
        BY <1>4, <4>1
      <4> QED BY <1>2, <3>2, <4>1, <4>2
    <3> QED BY <3>1, <3>2
  <2> QED BY <1>0, <2>1
<1>6. Steps(g)
  <2> HIDE DEF Steps
  <2> QED BY <1>5
<1>7. Rtc!Spans = g
  BY DEF Rtc!Spans
<1> HIDE DEF g
<1>8. \A k \in 0..n : g[k] = IF k = 0 THEN 1 ELSE RegMod * g[k - 1]
  BY <1>0, <1>6
<1>9. g[0] = 1 /\ \A k \in 1..n : g[k] = RegMod * g[k - 1]
  <2>1. 0 \in 0..n /\ \A k \in 1..n : k \in 0..n /\ k # 0
    OBVIOUS
  <2> QED BY <1>8, <2>1
<1>10. \A k \in 0..n : g[k] \in Nat \ {0}
  <2> DEFINE B == {k \in 0..n : g[k] \in Nat \ {0}}
  <2>1. 0 \in B
    BY <1>9
  <2>2. \A k \in 0..(n - 1) : k \in B => k + 1 \in B
    <3>1. ASSUME NEW k \in 0..(n - 1), k \in B PROVE k + 1 \in B
      <4>1. k + 1 \in 1..n /\ k + 1 \in 0..n /\ (k + 1) - 1 = k
        OBVIOUS
      <4>2. g[k + 1] = RegMod * g[k] /\ g[k] \in Nat \ {0}
        BY <1>9, <3>1, <4>1
      <4>3. \A x \in Nat \ {0} : RegMod * x \in Nat \ {0}
        BY RtcFacts
      <4> QED BY <4>1, <4>2, <4>3
    <3> QED BY <3>1
  <2> HIDE DEF B
  <2>3. \A k \in 0..n : k \in B
    BY <2>1, <2>2, UpTo
  <2> QED BY <2>3 DEF B
<1> QED
  BY <1>0, <1>7, <1>9, <1>10

\* A chain of numbers from 0.
IsChain(f, n, T) ==
  f \in [0..n -> Nat] /\ f[0] = 0 /\ \A k \in 1..n : f[k] = T[k][f[k - 1]]

LEMMA Chained ==
  ASSUME NEW n \in Nat, NEW T, T \in [1..n -> [Nat -> Nat]]
  PROVE  \E f : IsChain(f, n, T)
<1> DEFINE X == Nat
<1>1. PICK s \in X : s = 0
  OBVIOUS
<1>2. PICK m \in Nat : m = n
  OBVIOUS
<1>3. s \in X /\ T \in [1..m -> [X -> X]]
  BY <1>2
<1> HIDE DEF X
<1>4. \E f \in [0..m -> X] : f[0] = s /\ \A k \in 1..m : f[k] = T[k][f[k - 1]]
  BY ONLY <1>2, <1>3, Iterated
<1> QED
  BY <1>1, <1>2, <1>4 DEF X, IsChain

\* f[r]: the number the registers of d from r on stand for.
Number(f, d) ==
  /\ f \in [0..NRegs -> Nat] /\ f[NRegs] = 0
  /\ \A r \in Rtc!Regs : f[r] = d[r] + RegMod * f[r + 1]

LEMMA NumberExists ==
  ASSUME NEW d \in RegStates
  PROVE  \E f : Number(f, d) /\ Rtc!Seconds(d) = f[0]
<1> DEFINE Steps(f) == f = [r \in 0..NRegs |->
                              IF r = NRegs THEN 0 ELSE d[r] + RegMod * f[r + 1]]
           g == CHOOSE f : Steps(f)
<1>0. PICK n \in Nat : n = NRegs
  BY RtcFacts
<1>a. \A r \in Rtc!Regs : d[r] \in Nat
  BY RtcFacts DEF RegStates
<1>1. PICK T : /\ T \in [1..n -> [Nat -> Nat]]
               /\ \A k \in 1..n, x \in Nat : T[k][x] = d[n - k] + RegMod * x
  <2> DEFINE U == [k \in 1..n |-> [x \in Nat |-> d[n - k] + RegMod * x]]
  <2>1. \A k \in 1..n : d[n - k] \in Nat
    <3>1. \A k \in 1..n : n - k \in Rtc!Regs
      BY <1>0 DEF Rtc!Regs
    <3> QED BY <1>a, <3>1
  <2>2. \A x, y \in Nat : y + RegMod * x \in Nat
    BY RtcFacts
  <2>3. U \in [1..n -> [Nat -> Nat]]
    BY <2>1, <2>2
  <2>4. \A k \in 1..n, x \in Nat : U[k][x] = d[n - k] + RegMod * x
    OBVIOUS
  <2> HIDE DEF U
  <2> QED BY <2>3, <2>4
<1>b. PICK h : IsChain(h, n, T)
  <2> HIDE DEF Steps, g
  <2>1. n \in Nat /\ T \in [1..n -> [Nat -> Nat]]
    BY <1>1
  <2> QED BY <2>1, Chained
<1>2. h \in [0..n -> Nat] /\ h[0] = 0 /\ \A k \in 1..n : h[k] = T[k][h[k - 1]]
  <2> HIDE DEF Steps, g
  <2> QED BY <1>b DEF IsChain
<1> DEFINE e == [r \in 0..n |-> h[n - r]]
<1>5. Steps(e)
  <2>1. ASSUME NEW r \in 0..n PROVE e[r] = IF r = n THEN 0 ELSE d[r] + RegMod * e[r + 1]
    <3>1. CASE r = n
      <4>1. n - r = 0
        BY <3>1
      <4> QED BY <1>2, <3>1, <4>1
    <3>2. CASE r # n
      <4>1. n - r \in 1..n /\ n - (n - r) = r /\ (n - r) - 1 = n - (r + 1) /\ r + 1 \in 0..n
            /\ (n - r) - 1 \in 0..n
        BY <3>2
      <4>2. h[n - r] = T[n - r][h[(n - r) - 1]] /\ h[(n - r) - 1] \in Nat
        BY <1>2, <4>1
      <4>3. h[n - r] = d[r] + RegMod * h[n - (r + 1)]
        BY <1>1, <4>1, <4>2
      <4> QED BY <3>2, <4>1, <4>3
    <3> QED BY <3>1, <3>2
  <2> HIDE DEF e
  <2>2. e = [r \in 0..n |-> e[r]]
    BY DEF e
  <2> QED BY <1>0, <2>1, <2>2
<1>6. Steps(g)
  <2> HIDE DEF Steps, e
  <2> QED BY <1>5
<1>7. Rtc!Seconds(d) = g[0]
  BY DEF Rtc!Seconds
<1> HIDE DEF g
<1>8. \A r \in 0..n : g[r] = IF r = n THEN 0 ELSE d[r] + RegMod * g[r + 1]
  BY <1>0, <1>6
<1>9. g[n] = 0 /\ \A r \in Rtc!Regs : g[r] = d[r] + RegMod * g[r + 1]
  <2>1. n \in 0..n /\ \A r \in Rtc!Regs : r \in 0..n /\ r # n
    BY <1>0 DEF Rtc!Regs
  <2> QED BY <1>8, <2>1
<1>10. \A r \in 0..n : g[r] \in Nat
  <2> DEFINE B == {k \in 0..n : g[n - k] \in Nat}
  <2>1. 0 \in B
    <3>1. n - 0 = n
      OBVIOUS
    <3> QED BY <1>9, <3>1
  <2>2. \A k \in 0..(n - 1) : k \in B => k + 1 \in B
    <3>1. ASSUME NEW k \in 0..(n - 1), k \in B PROVE k + 1 \in B
      <4>1. n - (k + 1) \in Rtc!Regs /\ k + 1 \in 0..n /\ (n - (k + 1)) + 1 = n - k
        BY <1>0 DEF Rtc!Regs
      <4>2. g[n - (k + 1)] = d[n - (k + 1)] + RegMod * g[n - k] /\ g[n - k] \in Nat
        BY <1>9, <3>1, <4>1
      <4>3. \A x, y \in Nat : y + RegMod * x \in Nat
        BY RtcFacts
      <4> QED BY <1>a, <4>1, <4>2, <4>3
    <3> QED BY <3>1
  <2> HIDE DEF B
  <2>3. \A k \in 0..n : k \in B
    BY <2>1, <2>2, UpTo
  <2>4. ASSUME NEW r \in 0..n PROVE g[r] \in Nat
    <3>1. n - r \in 0..n /\ n - (n - r) = r
      OBVIOUS
    <3>2. n - r \in B
      BY <2>3, <3>1
    <3> QED BY <3>1, <3>2 DEF B
  <2> QED BY <2>4
<1>11. g \in [0..n -> Nat]
  <2>1. g = [r \in 0..n |-> g[r]]
    BY <1>0, <1>6, <1>8
  <2> QED BY <1>10, <2>1
<1> QED
  BY <1>0, <1>7, <1>9, <1>11 DEF Number

\* The registers below the last k stand for less than Spans[k].
LEMMA NumberBelow ==
  ASSUME NEW d \in RegStates, NEW f, Number(f, d)
  PROVE  \A k \in 0..NRegs : f[NRegs - k] \in 0..(Rtc!Spans[k] - 1)
<1>0. PICK n \in Nat : n = NRegs
  BY RtcFacts
<1> DEFINE S(k) == Rtc!Spans[k]
           B == {k \in 0..n : f[n - k] \in 0..(S(k) - 1)}
<1>1. 0 \in B
  <2>1. S(0) = 1 /\ f[n] = 0 /\ n - 0 = n
    BY <1>0, SpansAre DEF Number
  <2> QED BY <2>1
<1>2. \A k \in 0..(n - 1) : k \in B => k + 1 \in B
  <2> SUFFICES ASSUME NEW k \in 0..(n - 1), k \in B PROVE k + 1 \in B
    OBVIOUS
  <2>1. n - (k + 1) \in Rtc!Regs /\ (n - (k + 1)) + 1 = n - k /\ k + 1 \in 1..n /\ k + 1 \in 0..n
        /\ (k + 1) - 1 = k /\ k \in 0..n
    BY <1>0 DEF Rtc!Regs
  <2>2. f[n - (k + 1)] = d[n - (k + 1)] + RegMod * f[n - k]
    BY <2>1 DEF Number
  <2>3. S(k + 1) = RegMod * S(k) /\ S(k) \in Nat \ {0}
    BY <1>0, <2>1, SpansAre
  <2>4. d[n - (k + 1)] \in 0..(RegMod - 1)
    BY <2>1 DEF RegStates
  <2>5. f[n - k] \in 0..(S(k) - 1)
    OBVIOUS
  <2> HIDE DEF S, B
  <2>6. \A m, s \in Nat \ {0} : \A a \in 0..(m - 1), b \in 0..(s - 1) :
          a + m * b \in 0..((m * s) - 1)
    <3> SUFFICES ASSUME NEW m \in Nat \ {0}, NEW s \in Nat \ {0},
                        NEW a \in 0..(m - 1), NEW b \in 0..(s - 1)
                 PROVE  a + m * b \in 0..((m * s) - 1)
      OBVIOUS
    <3>1. m * b \in Nat /\ m * (s - 1) \in Nat /\ m * b <= m * (s - 1) /\ m * (s - 1) = m * s - m
      OBVIOUS
    <3> QED BY <3>1
  <2>7. f[n - (k + 1)] \in 0..(S(k + 1) - 1)
    BY <2>2, <2>3, <2>4, <2>5, <2>6, RtcFacts
  <2> QED BY <2>1, <2>7 DEF B
<1> HIDE DEF B
<1>3. \A k \in 0..n : k \in B
  BY <1>1, <1>2, UpTo
<1> QED BY <1>0, <1>3 DEF B

\* The lowest digit and the rest of a number below m * s.
LEMMA DigitParts ==
  ASSUME NEW m \in Nat \ {0}, NEW s \in Nat \ {0}, NEW a \in 0..(m - 1), NEW b \in 0..(s - 1)
  PROVE  /\ m * b \in Nat /\ m * s \in Nat \ {0}
         /\ b + 1 < s => (m * b) + m + m <= m * s
         /\ b + 1 = s => (m * b) + m = m * s
         /\ (m * b) + m <= m * s
<1>1. m * b \in Nat /\ m * s \in Nat \ {0} /\ m * (b + 1) = m * b + m
  OBVIOUS
<1>2. b + 1 < s => m * (b + 1) + m <= m * s
  BY MultStep
<1>3. b < s => m * b + m <= m * s
  BY MultStep
<1> QED
  BY <1>1, <1>2, <1>3

\* A second is one more, over when every register is at its end.
LEMMA NumberRipples ==
  ASSUME NEW d \in RegStates, NEW f, NEW g, Number(f, d), Number(g, Rtc!Rippled(d))
  PROVE  \A k \in 0..NRegs :
           g[NRegs - k] = IF Rtc!WrapsBelow(d, NRegs - k)
                          THEN (f[NRegs - k] + 1) % Rtc!Spans[k] ELSE f[NRegs - k]
<1>0. PICK n \in Nat : n = NRegs
  BY RtcFacts
<1> DEFINE S(k) == Rtc!Spans[k]
           W(r) == Rtc!WrapsBelow(d, r)
           e == Rtc!Rippled(d)
           B == {k \in 0..n : g[n - k] = IF W(n - k) THEN (f[n - k] + 1) % S(k) ELSE f[n - k]}
<1>1. 0 \in B
  <2>1. S(0) = 1 /\ f[n] = 0 /\ g[n] = 0 /\ n - 0 = n
    BY <1>0, SpansAre DEF Number
  <2>2. (0 + 1) % 1 = 0
    OBVIOUS
  <2> QED BY <2>1, <2>2
<1>2. \A k \in 0..(n - 1) : k \in B => k + 1 \in B
  <2> SUFFICES ASSUME NEW k \in 0..(n - 1), k \in B PROVE k + 1 \in B
    OBVIOUS
  <2> DEFINE r == n - (k + 1)
  <2>1. r \in Rtc!Regs /\ r + 1 = n - k /\ k + 1 \in 1..n /\ k + 1 \in 0..n
        /\ (k + 1) - 1 = k /\ k \in 0..n /\ r \in Nat
    BY <1>0 DEF Rtc!Regs
  <2>2. f[r] = d[r] + RegMod * f[r + 1] /\ g[r] = e[r] + RegMod * g[r + 1]
    BY <2>1 DEF Number
  <2>3. S(k + 1) = RegMod * S(k) /\ S(k) \in Nat \ {0}
    BY <1>0, <2>1, SpansAre
  <2>4. d[r] \in 0..(RegMod - 1)
    BY <2>1 DEF RegStates
  <2>5. f[r + 1] \in 0..(S(k) - 1)
    <3>1. f[n - k] \in 0..(S(k) - 1)
      BY <1>0, <2>1, NumberBelow
    <3> QED BY <2>1, <3>1
  <2>6. g[r + 1] = IF W(r + 1) THEN (f[r + 1] + 1) % S(k) ELSE f[r + 1]
    <3>1. g[n - k] = IF W(n - k) THEN (f[n - k] + 1) % S(k) ELSE f[n - k]
      OBVIOUS
    <3> HIDE DEF S, W, B, r
    <3> QED BY <2>1, <3>1
  <2>7. W(r + 1) <=> W(r) /\ d[r] = RegMod - 1
    <3>1. \A q : q \in 0..((r + 1) - 1) <=> q \in 0..(r - 1) \/ q = r
      BY <2>1
    <3> HIDE DEF r
    <3> QED BY <3>1 DEF Rtc!WrapsBelow
  <2>8. e[r] = IF W(r) THEN (d[r] + 1) % RegMod ELSE d[r]
    BY <2>1 DEF Rtc!Rippled
  <2>9. g[r] = IF W(r) THEN (f[r] + 1) % S(k + 1) ELSE f[r]
    <3> DEFINE m == RegMod
               s == S(k)
               a == d[r]
               b == f[r + 1]
               p == f[r]
               q == g[r]
               c == e[r]
               h == g[r + 1]
               t == S(k + 1)
    <3>1. /\ m \in Nat \ {0} /\ s \in Nat \ {0} /\ a \in 0..(m - 1) /\ b \in 0..(s - 1)
          /\ p = a + m * b /\ q = c + m * h /\ t = m * s
      BY <2>2, <2>3, <2>4, <2>5, RtcFacts
    <3>2. c = (IF W(r) THEN (a + 1) % m ELSE a) /\ h = (IF W(r + 1) THEN (b + 1) % s ELSE b)
      BY <2>6, <2>8
    <3>3. W(r + 1) <=> W(r) /\ a = m - 1
      BY <2>7
    <3> HIDE DEF m, s, a, b, p, q, c, h, t, W
    <3>4. /\ m * b \in Nat /\ m * s \in Nat \ {0}
          /\ b + 1 < s => (m * b) + m + m <= m * s
          /\ b + 1 = s => (m * b) + m = m * s
          /\ (m * b) + m <= m * s
      BY <3>1, DigitParts
    <3>5. CASE ~W(r)
      <4>1. c = a /\ h = b
        BY <3>2, <3>3, <3>5
      <4>2. q = p
        BY <3>1, <4>1
      <4> QED BY <3>5, <4>2 DEF p, q
    <3>6. CASE W(r) /\ a # m - 1
      <4>1. c = a + 1 /\ h = b
        BY <3>1, <3>2, <3>3, <3>6
      <4>2. q = p + 1
        BY <3>1, <3>4, <4>1
      <4>3. p + 1 \in 0..(t - 1)
        BY <3>1, <3>4, <3>6
      <4>4. t \in Nat \ {0}
        BY <3>1, <3>4
      <4>5. (p + 1) % t = p + 1
        BY <4>3, <4>4
      <4> QED BY <3>6, <4>2, <4>5 DEF p, q, t
    <3>7. CASE W(r) /\ a = m - 1
      <4>1. c = 0 /\ h = (b + 1) % s
        <5>1. m % m = 0
          BY <3>1
        <5> QED BY <3>1, <3>2, <3>3, <3>7, <5>1
      <4>2. p + 1 = m * b + m
        BY <3>1, <3>4, <3>7
      <4>3. t \in Nat \ {0}
        BY <3>1, <3>4
      <4>4. CASE b + 1 = s
        <5>1. h = 0 /\ p + 1 = t
          <6>1. s % s = 0
            BY <3>1
          <6> QED BY <3>1, <3>4, <4>1, <4>2, <4>4, <6>1
        <5>2. t % t = 0
          BY <4>3
        <5>3. q = 0
          BY <3>1, <4>1, <5>1
        <5> QED BY <3>7, <5>1, <5>2, <5>3 DEF p, q, t
      <4>5. CASE b + 1 # s
        <5>1. h = b + 1
          BY <3>1, <4>1, <4>5
        <5>2. q = p + 1
          <6>1. m * (b + 1) = m * b + m
            BY <3>1
          <6> QED BY <3>1, <4>1, <4>2, <5>1, <6>1, <3>4
        <5>3. p + 1 \in 0..(t - 1)
          BY <3>1, <3>4, <4>2, <4>5
        <5>4. (p + 1) % t = p + 1
          BY <4>3, <5>3
        <5> QED BY <3>7, <5>2, <5>4 DEF p, q, t
      <4> QED BY <4>4, <4>5
    <3> QED BY <3>5, <3>6, <3>7 DEF p, q, t
  <2> HIDE DEF S, W, e
  <2> QED BY <2>1, <2>9
<1> HIDE DEF B
<1>3. \A k \in 0..n : k \in B
  BY <1>1, <1>2, UpTo
<1> QED BY <1>0, <1>3 DEF B

\* The number is at its last when every register is.
LEMMA NumberFull ==
  ASSUME NEW d \in RegStates, NEW f, Number(f, d)
  PROVE  Rtc!WrapsBelow(d, NRegs) <=> f[0] = Rtc!Spans[NRegs] - 1
<1>0. PICK n \in Nat : n = NRegs
  BY RtcFacts
<1> DEFINE S(k) == Rtc!Spans[k]
           A(k) == \A q \in (n - k)..(n - 1) : d[q] = RegMod - 1
           B == {k \in 0..n : A(k) <=> f[n - k] = S(k) - 1}
<1>1. 0 \in B
  <2>1. S(0) = 1 /\ f[n] = 0 /\ n - 0 = n
    BY <1>0, SpansAre DEF Number
  <2>2. A(0)
    OBVIOUS
  <2> HIDE DEF A
  <2> QED BY <2>1, <2>2
<1>2. \A k \in 0..(n - 1) : k \in B => k + 1 \in B
  <2> SUFFICES ASSUME NEW k \in 0..(n - 1), k \in B PROVE k + 1 \in B
    OBVIOUS
  <2> DEFINE r == n - (k + 1)
  <2>1. r \in Rtc!Regs /\ r + 1 = n - k /\ k + 1 \in 1..n /\ k + 1 \in 0..n
        /\ (k + 1) - 1 = k /\ k \in 0..n /\ r \in 0..(n - 1)
    BY <1>0 DEF Rtc!Regs
  <2>2. f[r] = d[r] + RegMod * f[r + 1]
    BY <2>1 DEF Number
  <2>3. S(k + 1) = RegMod * S(k) /\ S(k) \in Nat \ {0}
    BY <1>0, <2>1, SpansAre
  <2>4. d[r] \in 0..(RegMod - 1)
    BY <2>1 DEF RegStates
  <2>5. f[r + 1] \in 0..(S(k) - 1)
    <3>1. f[n - k] \in 0..(S(k) - 1)
      BY <1>0, <2>1, NumberBelow
    <3> QED BY <2>1, <3>1
  <2>6. A(k) <=> f[r + 1] = S(k) - 1
    <3>1. A(k) <=> f[n - k] = S(k) - 1
      OBVIOUS
    <3> HIDE DEF A, S, B, r
    <3> QED BY <2>1, <3>1
  <2>7. A(k + 1) <=> A(k) /\ d[r] = RegMod - 1
    <3>1. \A q : q \in (n - (k + 1))..(n - 1) <=> q \in (n - k)..(n - 1) \/ q = r
      BY <2>1
    <3> HIDE DEF r
    <3> QED BY <3>1
  <2>8. f[r] = S(k + 1) - 1 <=> d[r] = RegMod - 1 /\ f[r + 1] = S(k) - 1
    <3> DEFINE m == RegMod
               s == S(k)
               a == d[r]
               b == f[r + 1]
               p == f[r]
               t == S(k + 1)
    <3>1. /\ m \in Nat \ {0} /\ s \in Nat \ {0} /\ a \in 0..(m - 1) /\ b \in 0..(s - 1)
          /\ p = a + m * b /\ t = m * s
      BY <2>2, <2>3, <2>4, <2>5, RtcFacts
    <3> HIDE DEF m, s, a, b, p, t
    <3>2. /\ m * b \in Nat /\ m * s \in Nat \ {0}
          /\ b + 1 < s => (m * b) + m + m <= m * s
          /\ b + 1 = s => (m * b) + m = m * s
      BY <3>1, DigitParts
    <3>3. p = t - 1 <=> a = m - 1 /\ b = s - 1
      <4>1. CASE b + 1 < s
        BY <3>1, <3>2, <4>1
      <4>2. CASE b + 1 = s
        BY <3>1, <3>2, <4>2
      <4> QED BY <3>1, <4>1, <4>2
    <3> QED BY <3>3 DEF m, s, a, b, p, t
  <2> HIDE DEF S, A
  <2> QED BY <2>1, <2>6, <2>7, <2>8
<1> HIDE DEF B
<1>3. \A k \in 0..n : k \in B
  BY <1>1, <1>2, UpTo
<1>4. A(n) <=> f[0] = S(n) - 1
  <2>1. n \in 0..n /\ n - n = 0
    OBVIOUS
  <2>2. A(n) <=> f[n - n] = S(n) - 1
    BY <1>3, <2>1 DEF B
  <2> HIDE DEF A, S
  <2> QED BY <2>1, <2>2
<1>5. A(n) <=> Rtc!WrapsBelow(d, n)
  <2>1. n - n = 0
    OBVIOUS
  <2> QED BY <2>1 DEF Rtc!WrapsBelow
<1> QED BY <1>0, <1>4, <1>5

\* What a number of seconds is and how it moves.
LEMMA SecondsCount ==
  ASSUME NEW d \in RegStates
  PROVE  /\ Rtc!Seconds(d) \in 0..(Rtc!Spans[NRegs] - 1)
         /\ Rtc!Seconds(Rtc!Rippled(d)) = (Rtc!Seconds(d) + 1) % Rtc!Spans[NRegs]
         /\ Rtc!WrapsBelow(d, NRegs) <=> Rtc!Seconds(d) = Rtc!Spans[NRegs] - 1
<1>1. PICK f : Number(f, d) /\ Rtc!Seconds(d) = f[0]
  BY NumberExists
<1>2. PICK g : Number(g, Rtc!Rippled(d)) /\ Rtc!Seconds(Rtc!Rippled(d)) = g[0]
  BY NumberExists, RippledSound
<1>3. NRegs \in 0..NRegs /\ NRegs - NRegs = 0
  BY RtcFacts
<1>4. f[0] \in 0..(Rtc!Spans[NRegs] - 1)
  <2>1. f[NRegs - NRegs] \in 0..(Rtc!Spans[NRegs] - 1)
    BY <1>1, <1>3, NumberBelow
  <2> QED BY <1>3, <2>1
<1>5. Rtc!WrapsBelow(d, 0)
  BY DEF Rtc!WrapsBelow
<1>6. g[0] = (f[0] + 1) % Rtc!Spans[NRegs]
  <2>1. g[NRegs - NRegs] = IF Rtc!WrapsBelow(d, NRegs - NRegs)
                           THEN (f[NRegs - NRegs] + 1) % Rtc!Spans[NRegs] ELSE f[NRegs - NRegs]
    BY <1>1, <1>2, <1>3, NumberRipples
  <2> QED BY <1>3, <1>5, <2>1
<1>7. Rtc!WrapsBelow(d, NRegs) <=> f[0] = Rtc!Spans[NRegs] - 1
  BY <1>1, NumberFull
<1> QED
  BY <1>1, <1>2, <1>4, <1>6, <1>7

\* No seconds at power-on.
LEMMA ZeroSeconds == Rtc!Seconds(Rtc!Zero) = 0
<1>1. PICK f : Number(f, Rtc!Zero) /\ Rtc!Seconds(Rtc!Zero) = f[0]
  BY NumberExists, RtcZero
<1>2. PICK n \in Nat : n = NRegs
  BY RtcFacts
<1> DEFINE B == {k \in 0..n : f[n - k] = 0}
<1>3. 0 \in B
  <2>1. n - 0 = n
    OBVIOUS
  <2> QED BY <1>1, <1>2, <2>1 DEF Number
<1>4. \A k \in 0..(n - 1) : k \in B => k + 1 \in B
  <2> SUFFICES ASSUME NEW k \in 0..(n - 1), k \in B PROVE k + 1 \in B
    OBVIOUS
  <2>1. n - (k + 1) \in Rtc!Regs /\ (n - (k + 1)) + 1 = n - k /\ k + 1 \in 0..n
    BY <1>2 DEF Rtc!Regs
  <2>2. f[n - (k + 1)] = Rtc!Zero[n - (k + 1)] + RegMod * f[n - k]
    BY <1>1, <2>1 DEF Number
  <2>3. Rtc!Zero[n - (k + 1)] = 0 /\ f[n - k] = 0
    BY <2>1 DEF Rtc!Zero
  <2>4. f[n - (k + 1)] = 0
    BY <2>2, <2>3, RtcFacts
  <2> QED BY <2>1, <2>4
<1> HIDE DEF B
<1>5. \A k \in 0..n : k \in B
  BY <1>3, <1>4, UpTo
<1>6. n \in 0..n /\ n - n = 0
  OBVIOUS
<1>7. f[0] = 0
  BY <1>5, <1>6 DEF B
<1> QED
  BY <1>1, <1>7

\* Every step of the registers is a step of the seconds.
LEMMA ClockStart == Rtc!Init => Rtc!Clock!Init
  BY ZeroSeconds DEF Rtc!Init, Rtc!Clock!Init, Rtc!Shown, Rtc!Live

LEMMA ClockStep == ASSUME RtcInv, Rtc!Next PROVE Rtc!Clock!Next
<1> DEFINE time == Rtc!Seconds(reg)
           shown == [time |-> Rtc!Seconds(Rtc!Shown.reg), carry |-> Rtc!Shown.carry]
<1>1. /\ Rtc!Seconds(reg) \in 0..(Rtc!Spans[NRegs] - 1)
      /\ Rtc!Seconds(Rtc!Rippled(reg)) = (Rtc!Seconds(reg) + 1) % Rtc!Spans[NRegs]
      /\ Rtc!WrapsBelow(reg, NRegs) <=> Rtc!Seconds(reg) = Rtc!Spans[NRegs] - 1
  BY SecondsCount DEF RtcInv
<1>2. Rtc!Seconds(reg') \in 0..(Rtc!Spans[NRegs] - 1)
  BY RtcStep, SecondsCount DEF RtcInv
<1>3. ASSUME UNCHANGED <<latched, latchedValid>> PROVE Rtc!Clock!Live
  BY <1>3 DEF Rtc!Clock!Live, Rtc!Shown, Rtc!Live
<1>4. ASSUME UNCHANGED <<reg, high, stop, carry, latched, latchedValid>>, wrote' = FALSE
      PROVE  Rtc!Clock!Pass
  BY <1>4 DEF Rtc!Clock!Pass, Rtc!Shown, Rtc!Live
<1>5. ASSUME NEW t \in Costs, Rtc!Tick(t) PROVE Rtc!Clock!Next
  <2>1. CASE divider + t >= SecondLen
    <3>1. /\ ~stop /\ reg' = Rtc!Rippled(reg) /\ wrote' = FALSE
          /\ carry' = (carry \/ Rtc!WrapsBelow(reg, NRegs))
          /\ UNCHANGED <<stop, latched, latchedValid>>
      BY <1>5, <2>1 DEF Rtc!Tick, RtcInv
    <3>2. Rtc!Clock!Live
      BY <1>3, <3>1
    <3>3. carry' = (carry \/ Rtc!Seconds(reg) = Rtc!Spans[NRegs] - 1)
      BY <1>1, <3>1
    <3>4. Rtc!Seconds(reg') = (Rtc!Seconds(reg) + 1) % Rtc!Spans[NRegs]
      BY <1>1, <3>1
    <3>5. Rtc!Clock!Second
      BY <3>1, <3>2, <3>3, <3>4 DEF Rtc!Clock!Second
    <3> QED BY <3>5 DEF Rtc!Clock!Next
  <2>2. CASE ~(divider + t >= SecondLen)
    <3>1. /\ reg' = reg /\ wrote' = FALSE /\ carry' = (carry \/ FALSE)
          /\ UNCHANGED <<high, stop, latched, latchedValid>>
      BY <1>5, <2>2 DEF Rtc!Tick
    <3>2. carry' = carry
      BY <3>1 DEF RtcInv
    <3> QED BY <1>4, <3>1, <3>2 DEF Rtc!Clock!Next
  <2> QED BY <2>1, <2>2
<1>6. ASSUME NEW r \in Rtc!Regs, NEW v \in 0..(RegMod - 1), Rtc!WriteReg(r, v)
      PROVE  Rtc!Clock!Next
  <2>1. wrote' = TRUE /\ UNCHANGED <<stop, carry, latched, latchedValid>>
    BY <1>6 DEF Rtc!WriteReg
  <2>2. Rtc!Clock!Set
    BY <1>2, <1>3, <2>1 DEF Rtc!Clock!Set, Rtc!Clock!Times, RtcInv
  <2> QED BY <2>2 DEF Rtc!Clock!Next
<1>7. ASSUME NEW h \in BOOLEAN, NEW s \in BOOLEAN, NEW c \in BOOLEAN, Rtc!WriteFlags(h, s, c)
      PROVE  Rtc!Clock!Next
  <2>1. /\ wrote' = TRUE /\ UNCHANGED <<reg, latched, latchedValid>>
        /\ stop' \in BOOLEAN /\ carry' \in BOOLEAN
    BY <1>7 DEF Rtc!WriteFlags
  <2>2. Rtc!Clock!Set
    BY <1>2, <1>3, <2>1 DEF Rtc!Clock!Set, Rtc!Clock!Times
  <2> QED BY <2>2 DEF Rtc!Clock!Next
<1>8. CASE Rtc!LatchArm
  BY <1>4, <1>8 DEF Rtc!LatchArm, Rtc!Clock!Next
<1>9. CASE Rtc!Latch
  <2>1. Rtc!Clock!Snapshot
    BY <1>9 DEF Rtc!Latch, Rtc!Clock!Snapshot, Rtc!Shown, Rtc!Live
  <2> QED BY <2>1 DEF Rtc!Clock!Next
<1>10. CASE Rtc!Reset
  <2>1. Rtc!Clock!PowerOn
    BY <1>10, ZeroSeconds DEF Rtc!Reset, Rtc!Clock!PowerOn, Rtc!Shown, Rtc!Live
  <2> QED BY <2>1 DEF Rtc!Clock!Next
<1> QED
  BY <1>5, <1>6, <1>7, <1>8, <1>9, <1>10 DEF Rtc!Next

(***************************************************************************)
(* The Game Boy Advance.  While a handler runs that has left its frame and *)
(* its saved status alone, both are still where an interrupt put them: in  *)
(* the current registers in interrupt mode, in that mode's bank otherwise. *)
(***************************************************************************)

LEMMA GbaFacts ==
  /\ "irq" \in GbaModes /\ "usr" \in GbaModes
  /\ Home \in Places /\ \E p \in Places : p # Home
  BY GbaFits DEF Gba!GbaCpuAssumption

GbaStates == [mode : GbaModes, cpsr : Gba!Psrs, spsrs : [Gba!Banks -> Gba!Psrs],
              cache : Gba!Psrs, sp : Gba!Stacks, sps : [Gba!Banks -> Gba!Stacks],
              at : Places]

\* Every stack pointer is of the bank it is kept for.
Banked(s) ==
  /\ s.sp.bank = Gba!Bank(s.mode)
  /\ \A b \in Gba!Banks : s.sps[b].bank = b

\* The saved status and the stack pointer of interrupt mode.
IrqStatus(s) == IF Gba!Bank(s.mode) = "irq" THEN s.cache ELSE s.spsrs["irq"]
IrqStack(s)  == IF Gba!Bank(s.mode) = "irq" THEN s.sp ELSE s.sps["irq"]

LEMMA BankFacts ==
  /\ "irq" \in Gba!Banks /\ "usr" \in Gba!Banks
  /\ \A m \in GbaModes : Gba!Bank(m) \in Gba!Banks
  /\ \A m \in GbaModes : Gba!Bank(m) = "irq" <=> m = "irq"
  BY GbaFacts DEF Gba!Banks, Gba!Bank

\* gba_cpu_set_mode moves what is banked and changes no bank's content.
LEMMA SetModeSound ==
  ASSUME NEW s \in GbaStates, NEW m \in GbaModes, Banked(s)
  PROVE  /\ Gba!SetMode(s, m) \in GbaStates /\ Banked(Gba!SetMode(s, m))
         /\ Gba!SetMode(s, m).mode = m /\ Gba!SetMode(s, m).at = s.at
         /\ Gba!SetMode(s, m).cpsr = [s.cpsr EXCEPT !.mode = m]
         /\ IrqStatus(Gba!SetMode(s, m)) = IrqStatus(s)
         /\ IrqStack(Gba!SetMode(s, m)) = IrqStack(s)
<1> DEFINE old == Gba!Bank(s.mode)
           new == Gba!Bank(m)
           t == Gba!SetMode(s, m)
           sps == [s.sps EXCEPT ![old] = s.sp]
           spsrs == [s.spsrs EXCEPT ![old] = s.cache]
           cpsr == [s.cpsr EXCEPT !.mode = m]
<1>1. /\ old \in Gba!Banks /\ new \in Gba!Banks /\ "irq" \in Gba!Banks
  BY BankFacts DEF GbaStates
<1>2. cpsr \in Gba!Psrs
  BY DEF GbaStates, Gba!Psrs
<1>3. CASE old = new
  <2>1. t = [s EXCEPT !.mode = m, !.cpsr = cpsr]
    BY <1>3 DEF Gba!SetMode, GbaStates
  <2> HIDE DEF t, cpsr
  <2>2. /\ t \in GbaStates /\ t.mode = m /\ t.at = s.at /\ t.cpsr = cpsr
        /\ t.sp = s.sp /\ t.sps = s.sps /\ t.cache = s.cache /\ t.spsrs = s.spsrs
    BY <1>2, <2>1 DEF GbaStates
  <2> QED
    BY <1>3, <2>2 DEF Banked, IrqStatus, IrqStack, t, cpsr
<1>4. CASE old # new
  <2>1. t = [s EXCEPT !.mode = m, !.cpsr = cpsr, !.sps = sps, !.sp = sps[new],
                      !.spsrs = spsrs, !.cache = spsrs[new]]
    BY <1>4 DEF Gba!SetMode, GbaStates
  <2>2. /\ sps \in [Gba!Banks -> Gba!Stacks] /\ sps[new] = s.sps[new]
        /\ sps[old] = s.sp /\ \A b \in Gba!Banks \ {old} : sps[b] = s.sps[b]
    BY <1>1, <1>4 DEF GbaStates
  <2>3. /\ spsrs \in [Gba!Banks -> Gba!Psrs] /\ spsrs[new] = s.spsrs[new]
        /\ spsrs[old] = s.cache /\ \A b \in Gba!Banks \ {old} : spsrs[b] = s.spsrs[b]
    BY <1>1, <1>4 DEF GbaStates
  <2> HIDE DEF t, cpsr, sps, spsrs
  <2>4. /\ t \in GbaStates /\ t.mode = m /\ t.at = s.at /\ t.cpsr = cpsr
        /\ t.sp = sps[new] /\ t.sps = sps /\ t.cache = spsrs[new] /\ t.spsrs = spsrs
    BY <1>1, <1>2, <2>1, <2>2, <2>3 DEF GbaStates
  <2>5. Banked(t)
    BY <1>1, <2>2, <2>4 DEF Banked
  <2>6. IrqStatus(t) = IrqStatus(s) /\ IrqStack(t) = IrqStack(s)
    BY <1>1, <1>4, <2>2, <2>3, <2>4 DEF IrqStatus, IrqStack
  <2> QED
    BY <2>4, <2>5, <2>6 DEF t, cpsr
<1> QED
  BY <1>3, <1>4

GbaInv ==
  /\ gba \in GbaStates /\ Banked(gba)
  /\ asleep \in Gba!Sleeps /\ inside \in BOOLEAN
  /\ irq \in [if : SUBSET GbaInts, ie : SUBSET GbaInts]
  /\ pushed \in Places
  /\ inside /\ cut # Gba!Spoilt =>
       /\ cut.at = pushed /\ cut.cpsr = IrqStatus(gba)
       /\ IrqStack(gba) = [bank |-> "irq", frames |-> 1]

\* A state that keeps what interrupt mode has saved keeps the invariant.
LEMMA KeepsSaved ==
  ASSUME GbaInv, gba' \in GbaStates, Banked(gba'), IrqStatus(gba') = IrqStatus(gba),
         IrqStack(gba') = IrqStack(gba), UNCHANGED <<asleep, inside, irq, pushed, cut>>
  PROVE  GbaInv'
  BY DEF GbaInv, Gba!Sleeps, Gba!Spoilt

LEMMA PowerOnSound == Gba!PowerOnCpu \in GbaStates /\ Banked(Gba!PowerOnCpu)
<1>1. Gba!First \in GbaModes
  <2>1. \E m \in GbaModes : m # "irq" /\ (m = "svc" \/ "svc" \notin GbaModes)
    BY GbaFacts
  <2> QED
    BY <2>1 DEF Gba!First
<1>2. (CHOOSE p \in Places : p # Home) \in Places
  BY GbaFacts
<1>3. Gba!Bank(Gba!First) \in Gba!Banks /\ "usr" \in GbaModes
  BY <1>1, BankFacts, GbaFacts
<1> QED
  BY <1>1, <1>2, <1>3
     DEF Gba!PowerOnCpu, GbaStates, Banked, Gba!Psrs, Gba!Stacks

LEMMA GbaStart == Gba!Init => GbaInv
<1> SUFFICES ASSUME Gba!Init PROVE GbaInv
  OBVIOUS
<1>1. gba \in GbaStates /\ Banked(gba)
  BY PowerOnSound DEF Gba!Init
<1>2. asleep \in Gba!Sleeps
  BY DEF Gba!Init, Gba!Awake, Gba!Sleeps
<1>3. ~inside /\ inside \in BOOLEAN
  BY DEF Gba!Init
<1>4. irq \in [if : SUBSET GbaInts, ie : SUBSET GbaInts] /\ pushed \in Places
  BY GbaFacts DEF Gba!Init
<1> QED
  BY <1>1, <1>2, <1>3, <1>4 DEF GbaInv

\* gba_irq_dispatch_return in the terms of HandlerReturns.
LEMMA ReturnStep ==
  ASSUME GbaInv, Gba!ReturnHome
  PROVE  /\ gba' \in GbaStates /\ Banked(gba')
         /\ cut # Gba!Spoilt /\ Gba!Bank(gba.mode) = "irq" =>
              gba'.at = cut.at /\ gba'.cpsr = cut.cpsr /\ gba'.mode = cut.cpsr.mode
<1>1. PICK p \in Places :
        /\ gba.sp = [bank |-> "irq", frames |-> 1] => p = pushed
        /\ gba' = Gba!SetMode([gba EXCEPT !.at = p, !.cpsr = gba.cache, !.sp.frames = 0],
                               gba.cache.mode)
  BY DEF Gba!ReturnHome
<1> DEFINE s == [gba EXCEPT !.at = p, !.cpsr = gba.cache, !.sp.frames = 0]
<1>2. /\ s \in GbaStates /\ s.mode = gba.mode /\ s.at = p /\ s.cpsr = gba.cache
      /\ s.sp.bank = gba.sp.bank /\ s.sps = gba.sps
  BY DEF GbaInv, GbaStates, Gba!Stacks
<1>3. Banked(s) /\ gba.cache \in Gba!Psrs
  BY <1>2 DEF GbaInv, GbaStates, Banked
<1>4. gba.cache.mode \in GbaModes /\ [gba.cache EXCEPT !.mode = gba.cache.mode] = gba.cache
  BY <1>3 DEF Gba!Psrs
<1> HIDE DEF s
<1>5. /\ gba' \in GbaStates /\ Banked(gba')
      /\ gba'.at = p /\ gba'.cpsr = gba.cache /\ gba'.mode = gba.cache.mode
  <2>1. gba' = Gba!SetMode(s, gba.cache.mode)
    BY <1>1 DEF s
  <2>2. /\ gba' \in GbaStates /\ Banked(gba') /\ gba'.mode = gba.cache.mode
        /\ gba'.at = s.at /\ gba'.cpsr = [s.cpsr EXCEPT !.mode = gba.cache.mode]
    BY <1>2, <1>3, <1>4, <2>1, SetModeSound
  <2> QED
    BY <1>2, <1>4, <2>2
<1>6. inside
  BY DEF Gba!ReturnHome, Gba!Returns
<1>7. cut # Gba!Spoilt /\ Gba!Bank(gba.mode) = "irq" => gba.cache = cut.cpsr /\ p = cut.at
  BY <1>1, <1>6 DEF GbaInv, IrqStatus, IrqStack
<1> QED
  BY <1>5, <1>7

\* gba_irq_dispatch leaves the interrupted status and place where the return
\* looks for them.
LEMMA DispatchStep == ASSUME GbaInv, Gba!Dispatch PROVE GbaInv'
<1>1. PICK p \in Places :
        gba' = [Gba!SetMode(gba, "irq") EXCEPT
                  !.cache = gba.cpsr, !.at = p, !.sp.frames = 1,
                  !.cpsr = [mode |-> IF gba.cpsr.mode \in {"sys", "svc", "und"}
                                       THEN gba.cpsr.mode ELSE "irq",
                            i |-> TRUE]]
  BY DEF Gba!Dispatch
<1> DEFINE s == Gba!SetMode(gba, "irq")
           cpsr == [mode |-> IF gba.cpsr.mode \in {"sys", "svc", "und"}
                               THEN gba.cpsr.mode ELSE "irq",
                    i |-> TRUE]
<1>2. s \in GbaStates /\ Banked(s) /\ s.mode = "irq"
  BY GbaFacts, SetModeSound DEF GbaInv
<1>3. cpsr \in Gba!Psrs /\ gba.cpsr \in Gba!Psrs
  BY GbaFacts DEF GbaInv, GbaStates, Gba!Psrs
<1>4. Gba!Bank("irq") = "irq"
  BY DEF Gba!Bank
<1>5. s.sp.bank = "irq" /\ s.sp \in Gba!Stacks
  BY <1>2, <1>4 DEF Banked, GbaStates
<1>6. gba' = [s EXCEPT !.cache = gba.cpsr, !.at = p, !.cpsr = cpsr,
                       !.sp = [bank |-> "irq", frames |-> 1]]
  <2>1. [s.sp EXCEPT !.frames = 1] = [bank |-> "irq", frames |-> 1]
    BY <1>5 DEF Gba!Stacks
  <2>2. gba' = [s EXCEPT !.cache = gba.cpsr, !.at = p, !.cpsr = cpsr,
                         !.sp = [s.sp EXCEPT !.frames = 1]]
    <3>1. s = [s EXCEPT !.sp = s.sp]
      BY <1>2 DEF GbaStates
    <3> HIDE DEF s
    <3> QED
      BY <1>1, <1>2 DEF GbaStates, s
  <2> QED
    BY <2>1, <2>2
<1> HIDE DEF s, cpsr
<1>7. [bank |-> "irq", frames |-> 1] \in Gba!Stacks
  BY BankFacts DEF Gba!Stacks
<1>8. /\ gba' \in GbaStates /\ gba'.mode = "irq" /\ gba'.cache = gba.cpsr
      /\ gba'.sp = [bank |-> "irq", frames |-> 1] /\ gba'.sps = s.sps
  BY <1>2, <1>3, <1>6, <1>7 DEF GbaStates
<1>9. Banked(gba')
  BY <1>2, <1>4, <1>8 DEF Banked
<1>10. IrqStatus(gba') = gba.cpsr /\ IrqStack(gba') = [bank |-> "irq", frames |-> 1]
  BY <1>4, <1>8 DEF IrqStatus, IrqStack
<1>11. /\ pushed' = gba.at /\ cut' = [cpsr |-> gba.cpsr, at |-> gba.at]
       /\ inside' = TRUE /\ UNCHANGED <<asleep, irq>> /\ gba.at \in Places
  BY DEF Gba!Dispatch, GbaInv, GbaStates
<1>12. cut'.at = pushed' /\ cut'.cpsr = gba.cpsr
  BY <1>11
<1> QED
  BY <1>8, <1>9, <1>10, <1>11, <1>12 DEF GbaInv, Gba!Sleeps

LEMMA GbaStep == ASSUME GbaInv, Gba!Next PROVE GbaInv'
<1>0. gba \in GbaStates /\ Banked(gba)
  BY DEF GbaInv
<1>1. CASE Gba!ReturnHome
  <2>1. gba' \in GbaStates /\ Banked(gba')
    BY <1>1, ReturnStep
  <2>2. inside' = FALSE /\ UNCHANGED <<asleep, irq, pushed>>
    BY <1>1 DEF Gba!ReturnHome
  <2> QED
    BY <2>1, <2>2 DEF GbaInv, Gba!Sleeps
<1>2. CASE Gba!Sleep
  BY <1>2 DEF Gba!Sleep, GbaInv, Gba!Sleeps, Gba!Wakes
<1>3. CASE Gba!Dispatch
  BY <1>3, DispatchStep
<1>4. CASE UNCHANGED gba /\ UNCHANGED <<asleep, inside, irq, pushed, cut>>
  BY <1>0, <1>4, KeepsSaved
<1>5. ASSUME NEW p \in Places, Gba!Plain(p) PROVE GbaInv'
  <2>1. gba' = [gba EXCEPT !.at = p] /\ UNCHANGED <<asleep, inside, irq, pushed, cut>>
    BY <1>5 DEF Gba!Plain
  <2>2. /\ gba' \in GbaStates /\ gba'.mode = gba.mode /\ gba'.sp = gba.sp
        /\ gba'.sps = gba.sps /\ gba'.cache = gba.cache /\ gba'.spsrs = gba.spsrs
    BY <1>0, <2>1 DEF GbaStates
  <2> QED
    BY <1>0, <2>1, <2>2, KeepsSaved DEF Banked, IrqStatus, IrqStack
<1>6. ASSUME NEW m \in GbaModes, gba' = Gba!SetMode(gba, m),
             UNCHANGED <<asleep, inside, irq, pushed, cut>>
      PROVE  GbaInv'
  BY <1>0, <1>6, SetModeSound, KeepsSaved
<1>7. gba.cpsr.mode \in GbaModes
  BY <1>0 DEF GbaStates, Gba!Psrs
<1>8. ASSUME NEW m \in GbaModes, NEW i \in BOOLEAN, Gba!WriteControl(m, i) PROVE GbaInv'
  <2>1. CASE gba.mode = "usr"
    BY <1>6, <1>7, <1>8, <2>1 DEF Gba!WriteControl
  <2>2. CASE gba.mode # "usr"
    <3> DEFINE s == Gba!SetMode(gba, m)
    <3>1. /\ s \in GbaStates /\ Banked(s) /\ IrqStatus(s) = IrqStatus(gba)
          /\ IrqStack(s) = IrqStack(gba)
      BY <1>0, SetModeSound
    <3>2. /\ gba' = [s EXCEPT !.cpsr.i = i]
          /\ UNCHANGED <<asleep, inside, irq, pushed, cut>>
      BY <1>8, <2>2 DEF Gba!WriteControl
    <3> HIDE DEF s
    <3>3. /\ gba' \in GbaStates /\ gba'.mode = s.mode /\ gba'.sp = s.sp
          /\ gba'.sps = s.sps /\ gba'.cache = s.cache /\ gba'.spsrs = s.spsrs
      BY <3>1, <3>2 DEF GbaStates, Gba!Psrs
    <3> QED
      BY <3>1, <3>2, <3>3, KeepsSaved DEF Banked, IrqStatus, IrqStack
  <2> QED
    BY <2>1, <2>2
<1>9. CASE Gba!WriteFlags
  BY <1>6, <1>7, <1>9 DEF Gba!WriteFlags
<1>10. ASSUME NEW v \in Gba!Psrs, Gba!WriteSpsr(v) PROVE GbaInv'
  <2>1. gba' = [gba EXCEPT !.cache = v] /\ UNCHANGED <<asleep, inside, irq, pushed>>
    BY <1>10 DEF Gba!WriteSpsr
  <2>2. /\ gba' \in GbaStates /\ gba'.mode = gba.mode /\ gba'.sp = gba.sp
        /\ gba'.sps = gba.sps /\ gba'.spsrs = gba.spsrs
    BY <1>0, <2>1 DEF GbaStates
  <2>3. CASE Gba!Bank(gba.mode) = "irq"
    <3>1. cut' = Gba!Spoilt
      BY <1>10, <2>3 DEF Gba!WriteSpsr
    <3> QED
      BY <1>0, <2>1, <2>2, <3>1 DEF GbaInv, Banked, Gba!Sleeps, Gba!Spoilt
  <2>4. CASE Gba!Bank(gba.mode) # "irq"
    <3>1. cut' = cut
      BY <1>10, <2>4 DEF Gba!WriteSpsr
    <3> QED
      BY <1>0, <2>1, <2>2, <2>4, <3>1, KeepsSaved DEF Banked, IrqStatus, IrqStack
  <2> QED
    BY <2>3, <2>4
<1>11. ASSUME NEW p \in Places, Gba!ExceptionReturn(p) PROVE GbaInv'
  <2> DEFINE s == [gba EXCEPT !.cpsr = gba.cache]
             t == Gba!SetMode(s, gba.cache.mode)
  <2>1. /\ s \in GbaStates /\ s.mode = gba.mode /\ s.sp = gba.sp /\ s.sps = gba.sps
        /\ s.cache = gba.cache /\ s.spsrs = gba.spsrs /\ gba.cache.mode \in GbaModes
    BY <1>0 DEF GbaStates, Gba!Psrs
  <2>2. Banked(s) /\ IrqStatus(s) = IrqStatus(gba) /\ IrqStack(s) = IrqStack(gba)
    BY <1>0, <2>1 DEF Banked, IrqStatus, IrqStack
  <2>3. gba' = [t EXCEPT !.at = p] /\ UNCHANGED <<asleep, inside, irq, pushed, cut>>
    BY <1>11 DEF Gba!ExceptionReturn
  <2> HIDE DEF s
  <2>4. /\ t \in GbaStates /\ Banked(t) /\ IrqStatus(t) = IrqStatus(gba)
        /\ IrqStack(t) = IrqStack(gba)
    BY <2>1, <2>2, SetModeSound
  <2> HIDE DEF t
  <2>5. /\ gba' \in GbaStates /\ gba'.mode = t.mode /\ gba'.sp = t.sp
        /\ gba'.sps = t.sps /\ gba'.cache = t.cache /\ gba'.spsrs = t.spsrs
    BY <2>3, <2>4 DEF GbaStates
  <2> QED
    BY <2>3, <2>4, <2>5, KeepsSaved DEF Banked, IrqStatus, IrqStack
<1>12. CASE Gba!Undefined
  <2> DEFINE s == Gba!SetMode(gba, "und")
  <2>1. /\ s \in GbaStates /\ Banked(s) /\ IrqStatus(s) = IrqStatus(gba)
        /\ IrqStack(s) = IrqStack(gba) /\ s.mode = "und"
    BY <1>0, <1>12, SetModeSound DEF Gba!Undefined
  <2>2. /\ gba' = [s EXCEPT !.cache = gba.cpsr, !.cpsr.i = TRUE]
        /\ UNCHANGED <<asleep, inside, irq, pushed, cut>>
    BY <1>12 DEF Gba!Undefined
  <2> HIDE DEF s
  <2>3. /\ gba' \in GbaStates /\ gba'.mode = s.mode /\ gba'.sp = s.sp
        /\ gba'.sps = s.sps /\ gba'.spsrs = s.spsrs
    BY <1>0, <2>1, <2>2 DEF GbaStates, Gba!Psrs
  <2>4. Gba!Bank("und") # "irq"
    BY DEF Gba!Bank
  <2> QED
    BY <2>1, <2>2, <2>3, <2>4, KeepsSaved DEF Banked, IrqStatus, IrqStack
<1>13. CASE Gba!SoftReset
  BY <1>13, PowerOnSound DEF Gba!SoftReset, GbaInv, Gba!Awake, Gba!Sleeps
<1>14. CASE /\ asleep' \in Gba!Sleeps
            /\ irq' \in [if : SUBSET GbaInts, ie : SUBSET GbaInts]
            /\ UNCHANGED <<gba, inside, pushed, cut>>
  BY <1>14 DEF GbaInv, Gba!Spoilt
<1>15. CASE Gba!Halt
  BY <1>14, <1>15 DEF Gba!Halt, GbaInv, Gba!Sleeps
<1>16. ASSUME NEW d \in BOOLEAN, NEW i \in GbaInts, Gba!IntrWait(d, {i}) PROVE GbaInv'
  <2>1. asleep' \in Gba!Sleeps
    BY <1>16 DEF Gba!IntrWait, GbaInv, Gba!Sleeps
  <2>2. irq' \in [if : SUBSET GbaInts, ie : SUBSET GbaInts]
    BY <1>16 DEF Gba!IntrWait, GbaInv
  <2> QED
    BY <1>14, <1>16, <2>1, <2>2 DEF Gba!IntrWait
<1>17. ASSUME NEW set \in SUBSET GbaInts, Gba!WriteIe(set) PROVE GbaInv'
  BY <1>14, <1>17 DEF Gba!WriteIe, GbaInv
<1>18. ASSUME NEW i \in GbaInts, Gba!Acknowledge(i) \/ Gba!Request(i) PROVE GbaInv'
  BY <1>14, <1>18 DEF Gba!Acknowledge, Gba!Request, GbaInv
<1>19. [mode |-> "irq", i |-> TRUE] \in Gba!Psrs
  BY GbaFacts DEF Gba!Psrs
<1>20. CASE Gba!DispatchNowhere
  BY <1>4, <1>20 DEF Gba!DispatchNowhere, Gba!gbavars
<1>21. CASE Gba!Execute
  BY <1>5, <1>8, <1>9, <1>10, <1>11, <1>12, <1>13, <1>15, <1>16, <1>17, <1>18, <1>19,
     <1>21 DEF Gba!Execute
<1> QED
  BY <1>1, <1>2, <1>3, <1>18, <1>20, <1>21 DEF Gba!Next, Gba!Step

(***************************************************************************)
(* The three together: the invariant of each holds whichever is in focus.  *)
(***************************************************************************)

IInv == FrameInv /\ RtcInv /\ GbaInv

LEMMA InitIInv == Init => IInv
  BY FrameStart, RtcStart, GbaStart DEF Init, IInv

LEMMA NextIInv == IInv /\ [Next]_vars => IInv'
<1> SUFFICES ASSUME IInv, [Next]_vars PROVE IInv'
  OBVIOUS
<1>1. UNCHANGED frame => FrameInv'
  BY DEF IInv, frame, FrameInv, Frame!TypeOK, Frame!MaxCost, Met, Since
<1>2. UNCHANGED rtc => RtcInv'
  BY DEF IInv, rtc, RtcInv, Rtc!Registers
<1>3. UNCHANGED gbax => GbaInv'
  BY DEF IInv, gbax, GbaInv, Banked, IrqStatus, IrqStack, Gba!Sleeps, Gba!Spoilt
<1>4. CASE Frame!Next /\ UNCHANGED <<rtc, gbax>>
  BY <1>2, <1>3, <1>4, FrameStep DEF IInv
<1>5. CASE Rtc!Next /\ UNCHANGED <<frame, gbax>>
  BY <1>1, <1>3, <1>5, RtcStep DEF IInv
<1>6. CASE Gba!Next /\ UNCHANGED <<frame, rtc>>
  BY <1>1, <1>2, <1>6, GbaStep DEF IInv
<1>7. CASE UNCHANGED vars
  BY <1>1, <1>2, <1>3, <1>7 DEF IInv, vars
<1> QED
  BY <1>4, <1>5, <1>6, <1>7 DEF Next

LEMMA InductiveInvariant == Spec => []IInv
  BY InitIInv, NextIInv, PTL DEF Spec

\* What the frame loop, the clock and the Game Boy Advance keep stays in range:
\* a call of run_frame is over before it has run a frame and a CPU step.
THEOREM HandheldsTypeCorrect == Spec => []TypeOK
<1>1. GbaInv => Gba!TypeOK
  BY DEF GbaInv, Gba!TypeOK, GbaStates
<1>2. IInv => TypeOK
  BY <1>1, FrameSound, RtcSound DEF IInv, TypeOK
<1> QED
  BY InductiveInvariant, <1>2, PTL

\* A call of run_frame meets one VBlank or two, wherever in the picture the
\* last call or a loaded state has left the beam (mgbx_run_frame).
THEOREM HandheldsNewPicture == Spec => []NewPicture
<1>1. IInv => NewPicture
  BY FrameSound DEF IInv, NewPicture
<1> QED
  BY InductiveInvariant, <1>1, PTL

\* No sample of a call is dropped, and none of an earlier one is left before
\* it, for a host that takes the audio of every call (gb_apu_step, run_frame).
THEOREM HandheldsAudioComplete == Spec => []AudioComplete
<1>1. IInv => AudioComplete
  BY FrameSound DEF IInv, AudioComplete
<1> QED
  BY InductiveInvariant, <1>1, PTL

\* The registers of the clock, their carries, the halt bit and the latch count
\* seconds as one number does: none is lost or counted twice (gb_cart_tick_rtc,
\* gb_cart_write), for every number of registers, range and length of a second.
THEOREM HandheldsClockSpec == Spec => ClockSpec
<1>1. Init => Rtc!Clock!Init
  BY ClockStart DEF Init
<1>2. IInv /\ [Next]_vars => [Rtc!Clock!Next]_(Rtc!Clock!vars)
  <2> SUFFICES ASSUME IInv, [Next]_vars PROVE [Rtc!Clock!Next]_(Rtc!Clock!vars)
    OBVIOUS
  <2>1. CASE Rtc!Next
    BY <2>1, ClockStep DEF IInv
  <2>2. CASE UNCHANGED rtc
    BY <2>2 DEF rtc, Rtc!Clock!vars, Rtc!Shown, Rtc!Live
  <2> QED
    BY <2>1, <2>2 DEF Next, vars
<1> QED
  BY <1>1, <1>2, InductiveInvariant, PTL DEF Spec, ClockSpec, Rtc!ClockSpec, Rtc!Clock!Spec

\* What a program reads from a snapshot of the clock changes by another 0, 1
\* protocol only (gb_cart_write).
THEOREM HandheldsLatchProtocol == Spec => LatchProtocol
<1>1. [Next]_vars => [latchedValid /\ latchedValid' /\ Rtc!Shown' # Rtc!Shown
                       => armed /\ ~armed']_(Rtc!vars)
  <2> SUFFICES ASSUME [Next]_vars, latchedValid, latchedValid', Rtc!Shown' # Rtc!Shown,
                      ~UNCHANGED Rtc!vars
               PROVE  armed /\ ~armed'
    OBVIOUS
  <2>1. ~UNCHANGED rtc
    BY DEF rtc, Rtc!vars
  <2>2. Rtc!Next
    BY <2>1 DEF Next, vars
  <2> QED
    BY <2>2, LatchStep
<1> QED
  BY <1>1, PTL DEF Spec, LatchProtocol, Rtc!LatchProtocol

\* A handler that comes home in interrupt mode with its frame and SPSR intact
\* resumes what was interrupted, through every change of mode in between
\* (gba_irq_dispatch, gba_cpu_set_mode, gba_irq_dispatch_return).
THEOREM HandheldsHandlerReturns == Spec => HandlerReturns
<1>1. IInv => (focus = "gba" => Gba!HandlerReturns)
  BY ReturnStep DEF IInv, Gba!HandlerReturns
<1>2. IInv /\ [Next]_vars => [focus = "gba" => Gba!HandlerReturns]_vars
  BY <1>1
<1> QED
  BY InductiveInvariant, <1>2, PTL DEF Spec, HandlerReturns
=============================================================================
