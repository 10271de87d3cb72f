---------------------------- MODULE GbPpuProofs ----------------------------
(***************************************************************************)
(* The picture is complete and in order for every frame geometry, under    *)
(* any switching of the LCD and any register writes.                       *)
(***************************************************************************)
EXTENDS GbPpu, TLAPS

IInv == TypeOK /\ DrawnBehindBeam /\ ModeAtBeam /\ CoincidenceSound

LEMMA InitIInv == Init => IInv
<1> SUFFICES ASSUME Init PROVE IInv
  OBVIOUS
<1>1. /\ 0 \in 0..(Lines - 1) /\ 0 \in 0..(LineDots - 1) /\ 0 \in 0..Lines
      /\ 0 \in 0..Visible /\ {} \in SUBSET Sources /\ "VBLANK" \in Modes
  BY PpuAssumption DEF Modes
<1>2. TypeOK
  BY <1>1 DEF Init, TypeOK
<1>3. DrawnBehindBeam /\ ModeAtBeam
  BY PpuAssumption DEF Init, DrawnBehindBeam, ModeAtBeam
<1>4. CoincidenceSound
  BY DEF Init, CoincidenceSound
<1> QED
  BY <1>2, <1>3, <1>4 DEF IInv

\* The beam reaches the end of a line.
LEMMA EndOfLineIInv == IInv /\ on /\ EndOfLine /\ UNCHANGED <<on, lyc, sources>> => IInv'
<1> SUFFICES ASSUME IInv, on, EndOfLine, UNCHANGED <<on, lyc, sources>>
             PROVE  IInv'
  OBVIOUS
<1> DEFINE y == NextLine(ly)
<1>1. /\ dot = LineDots - 1 /\ dot' = 0 /\ ly' = y
      /\ coincident' = (y = lyc) /\ compared' = TRUE
      /\ mode' = LineMode(y) /\ settled' = TRUE
      /\ drawn' = IF y = 0 THEN 0 ELSE drawn
      /\ vblankIrq' \in BOOLEAN /\ statIrq' \in BOOLEAN
  BY DEF EndOfLine, Compare
<1>2. y = (IF ly = Lines - 1 THEN 0 ELSE ly + 1) /\ y \in 0..(Lines - 1)
  BY PpuAssumption DEF IInv, TypeOK, NextLine
<1>3. DrawnBehindBeam'
  <2>1. drawn = IF ly < Visible THEN ly + 1 ELSE Visible
    BY <1>1, PpuAssumption DEF IInv, TypeOK, DrawnBehindBeam
  <2> QED
    BY <1>1, <1>2, <2>1, PpuAssumption DEF IInv, TypeOK, DrawnBehindBeam
<1>4. drawn' \in 0..Visible
  BY <1>1, PpuAssumption DEF IInv, TypeOK
<1>5. mode' \in Modes /\ (y < Visible => mode' = "OAM")
  BY <1>1, <1>2, PpuAssumption DEF LineMode, Modes
<1>6. TypeOK'
  BY <1>1, <1>2, <1>4, <1>5, PpuAssumption DEF IInv, TypeOK
<1>7. ModeAtBeam'
  BY <1>1, <1>5, PpuAssumption DEF ModeAtBeam
<1>8. CoincidenceSound'
  BY <1>1 DEF CoincidenceSound
<1> QED
  BY <1>3, <1>6, <1>7, <1>8 DEF IInv

\* The beam moves on inside a line.
LEMMA WithinLineIInv == IInv /\ WithinLine /\ UNCHANGED <<on, lyc, sources>> => IInv'
<1> SUFFICES ASSUME IInv, WithinLine, UNCHANGED <<on, lyc, sources>>
             PROVE  IInv'
  OBVIOUS
<1>1. /\ dot < LineDots - 1 /\ dot' = dot + 1
      /\ UNCHANGED <<ly, coincident, vblankIrq, settled, compared>>
  BY DEF WithinLine
<1>2. CoincidenceSound'
  BY <1>1 DEF IInv, CoincidenceSound
<1>3. dot' \in 0..(LineDots - 1)
  BY <1>1, PpuAssumption DEF IInv, TypeOK
<1>4. CASE /\ ly < Visible /\ dot + 1 = OamDots /\ EnterMode("DRAW")
           /\ drawn' = drawn + 1
  BY <1>1, <1>2, <1>3, <1>4, PpuAssumption
     DEF EnterMode, IInv, TypeOK, Modes, DrawnBehindBeam, ModeAtBeam
<1>5. CASE /\ ly < Visible /\ dot + 1 = DrawEnd /\ EnterMode("HBLANK")
           /\ UNCHANGED drawn
  BY <1>1, <1>2, <1>3, <1>5, PpuAssumption
     DEF EnterMode, IInv, TypeOK, Modes, DrawnBehindBeam, ModeAtBeam
<1>6. CASE /\ ~(ly < Visible /\ dot + 1 \in {OamDots, DrawEnd})
           /\ UNCHANGED <<mode, statIrq, drawn>>
  BY <1>1, <1>2, <1>3, <1>6, PpuAssumption
     DEF IInv, TypeOK, DrawnBehindBeam, ModeAtBeam
<1> QED
  BY <1>4, <1>5, <1>6 DEF WithinLine

LEMMA NextIInv == IInv /\ [Next]_vars => IInv'
<1> SUFFICES ASSUME IInv, [Next]_vars PROVE IInv'
  OBVIOUS
<1>1. CASE Dot
  BY <1>1, EndOfLineIInv, WithinLineIInv DEF Dot
<1>2. CASE LcdOff
  <2>1. /\ 0 \in 0..(Lines - 1) /\ 0 \in 0..(LineDots - 1)
        /\ 0 \in 0..Visible /\ "HBLANK" \in Modes
    BY PpuAssumption DEF Modes
  <2>2. TypeOK'
    BY <1>2, <2>1 DEF LcdOff, IInv, TypeOK
  <2>3. DrawnBehindBeam' /\ ModeAtBeam'
    BY <1>2, PpuAssumption DEF LcdOff, DrawnBehindBeam, ModeAtBeam
  <2>4. CoincidenceSound'
    BY <1>2 DEF LcdOff, CoincidenceSound
  <2> QED
    BY <2>2, <2>3, <2>4 DEF IInv
<1>3. CASE LcdOn
  BY <1>3 DEF LcdOn, IInv, TypeOK, DrawnBehindBeam, ModeAtBeam,
              CoincidenceSound
<1>4. ASSUME NEW s \in SUBSET Sources, WriteStat(s) PROVE IInv'
  BY <1>4 DEF WriteStat, IInv, TypeOK, DrawnBehindBeam, ModeAtBeam,
              CoincidenceSound
<1>5. ASSUME NEW c \in 0..Lines, WriteLyc(c) PROVE IInv'
  BY <1>5 DEF WriteLyc, Compare, IInv, TypeOK, DrawnBehindBeam, ModeAtBeam,
              CoincidenceSound
<1>6. CASE AckVBlank
  BY <1>6 DEF AckVBlank, IInv, TypeOK, DrawnBehindBeam, ModeAtBeam,
              CoincidenceSound
<1>7. CASE AckStat
  BY <1>7 DEF AckStat, IInv, TypeOK, DrawnBehindBeam, ModeAtBeam,
              CoincidenceSound
<1>8. CASE Reset
  <2>1. /\ 0 \in 0..(Lines - 1) /\ 0 \in 0..(LineDots - 1) /\ 0 \in 0..Lines
        /\ 0 \in 0..Visible /\ {} \in SUBSET Sources /\ "VBLANK" \in Modes
    BY PpuAssumption DEF Modes
  <2>2. TypeOK'
    BY <1>8, <2>1 DEF Reset, TypeOK
  <2>3. DrawnBehindBeam' /\ ModeAtBeam'
    BY <1>8, PpuAssumption DEF Reset, DrawnBehindBeam, ModeAtBeam
  <2>4. CoincidenceSound'
    BY <1>8 DEF Reset, CoincidenceSound
  <2> QED
    BY <2>2, <2>3, <2>4 DEF IInv
<1>9. CASE UNCHANGED vars
  BY <1>9 DEF vars, IInv, TypeOK, DrawnBehindBeam, ModeAtBeam,
              CoincidenceSound
<1> QED
  BY <1>1, <1>2, <1>3, <1>4, <1>5, <1>6, <1>7, <1>8, <1>9 DEF Next

LEMMA InductiveInvariant == Spec => []IInv
  BY InitIInv, NextIInv, PTL DEF Spec

\* Beam, registers and history keep their ranges.
THEOREM PpuTypeCorrect == Spec => []TypeOK
<1>1. IInv => TypeOK
  BY DEF IInv
<1> QED
  BY InductiveInvariant, <1>1, PTL

\* Every line of the picture is drawn once and in order in every frame.
THEOREM PpuDrawnBehindBeam == Spec => []DrawnBehindBeam
<1>1. IInv => DrawnBehindBeam
  BY DEF IInv
<1> QED
  BY InductiveInvariant, <1>1, PTL

\* A program that waits on STAT's mode inside the picture is told the truth.
THEOREM PpuModeAtBeam == Spec => []ModeAtBeam
<1>1. IInv => ModeAtBeam
  BY DEF IInv
<1> QED
  BY InductiveInvariant, <1>1, PTL

\* The coincidence bit lags only between LCD off and the next comparison.
THEOREM PpuCoincidenceSound == Spec => []CoincidenceSound
<1>1. IInv => CoincidenceSound
  BY DEF IInv
<1> QED
  BY InductiveInvariant, <1>1, PTL

\* A new VBlank request is made only over a complete picture.
THEOREM PpuVBlankAfterPicture == Spec => VBlankAfterPicture
<1>1. IInv /\ [Next]_vars
        => [~vblankIrq /\ vblankIrq' /\ settled'
              => drawn' = Visible /\ ly' = Visible /\ dot' = 0]_vars
  <2> SUFFICES ASSUME IInv, [Next]_vars, IInv', ~vblankIrq, vblankIrq', settled'
               PROVE  drawn' = Visible /\ ly' = Visible /\ dot' = 0
    BY NextIInv
  <2>1. on /\ EndOfLine
    BY DEF Next, vars, Dot, WithinLine, LcdOff, LcdOn, WriteStat, WriteLyc,
           AckVBlank, AckStat, Reset
  <2>2. ly' = Visible /\ dot' = 0
    BY <2>1 DEF EndOfLine, VBlankBegins
  <2>3. drawn' = Visible
    BY <2>2, PpuAssumption DEF IInv, DrawnBehindBeam
  <2> QED
    BY <2>2, <2>3
<1> QED
  BY InductiveInvariant, <1>1, PTL DEF Spec, VBlankAfterPicture
=============================================================================
