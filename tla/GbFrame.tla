------------------------------ MODULE GbFrame ------------------------------
(***************************************************************************)
(* The frame loop of the Game Boy core (mgbx_run_frame in src/mgbx/mgbx.c) *)
(* and what it does to the clocks of the components it drives: one CPU     *)
(* step, then as many cycles of the PPU and the APU as it took, and one    *)
(* step of the timer.  Between two calls the host may set or clear the     *)
(* audio callback, load a state or reset.                                  *)
(*                                                                         *)
(* Time is counted in M-cycles of four T-cycles, every CPU step taking a   *)
(* whole number of them; a sample is a stereo pair.  The LCD is on.        *)
(***************************************************************************)
EXTENDS Integers

CONSTANTS
  FrameLen,   \* M-cycles of a frame, for the loop and for the PPU (17556)
  VBlankAt,   \* the beam's position at VBlank
  Costs,      \* M-cycles a CPU step may take, dispatch included (1..11)
  SampleLen,  \* M-cycles of an output sample (32)
  OutCap,     \* samples the audio buffer holds (1024)
  LagMax      \* bound on the timer lag kept (history)

FrameAssumption ==
  /\ FrameLen \in Nat \ {0} /\ VBlankAt \in 0..(FrameLen - 1)
  /\ Costs # {} /\ Costs \subseteq 1..FrameLen
  /\ SampleLen \in Nat \ {0} /\ OutCap \in Nat /\ LagMax \in Nat
  \* The buffer holds what one call generates.
  /\ \A t \in Costs : FrameLen + t + SampleLen <= SampleLen * (OutCap + 1)

VARIABLES
  running,    \* inside mgbx_run_frame
  acc,        \* M-cycles run by this call
  beam,       \* the PPU's position in its frame
  sampleAcc,  \* sample_acc
  outPos,     \* out_pos
  callback,   \* an audio callback is set
  vblanks,    \* history: VBlanks announced during this call, up to 3
  made,       \* history: samples generated during this call, up to OutCap + 1
  taken,      \* history: the host has been given all audio made before this call
  lag         \* history: M-cycles elapsed that the timer has not seen

vars == <<running, acc, beam, sampleAcc, outPos, callback, vblanks, made,
          taken, lag>>

Init ==
  /\ running = FALSE /\ acc = 0
  /\ beam = 0 /\ sampleAcc = 0 /\ outPos = 0
  /\ callback = FALSE
  /\ vblanks = 0 /\ made = 0 /\ taken = TRUE /\ lag = 0

-----------------------------------------------------------------------------

Begin ==
  /\ ~running
  /\ running' = TRUE /\ acc' = 0
  /\ vblanks' = 0 /\ made' = 0
  /\ UNCHANGED <<beam, sampleAcc, outPos, callback, taken, lag>>

\* VBlanks the beam meets when it moves on by t.
Crossings(t) == IF \E d \in 1..t : (beam + d) % FrameLen = VBlankAt THEN 1 ELSE 0

UpTo(n, bound) == IF n <= bound THEN n ELSE bound

StoredUncapped(pos, n) == pos + n   \* mutant: the end of the buffer is not looked at

\* gb_apu_step drops what its buffer has no room for.
Stored(pos, n) == UpTo(pos + n, OutCap)

\* The timer is stepped once, whatever the CPU step took.
TimerSteps(t) == 1

Counted(t) == acc + t

LoopTestLate == acc <= FrameLen + 2   \* mutant
LoopTest == acc < FrameLen

CpuStep(t) ==
  LET n == (sampleAcc + t) \div SampleLen IN
  /\ running /\ LoopTest
  /\ acc' = Counted(t)
  /\ beam' = (beam + t) % FrameLen
  /\ vblanks' = UpTo(vblanks + Crossings(t), 3)
  /\ sampleAcc' = (sampleAcc + t) % SampleLen
  /\ outPos' = Stored(outPos, n)
  /\ made' = UpTo(made + n, OutCap + 1)
  /\ lag' = UpTo(lag + t - TimerSteps(t), LagMax)
  /\ UNCHANGED <<running, callback, taken>>

\* The loop is over: hand the audio to the host.
EndFrameKeepsAudio ==   \* mutant: the buffer is not emptied
  /\ running /\ ~LoopTest
  /\ running' = FALSE
  /\ taken' = callback
  /\ UNCHANGED <<acc, beam, sampleAcc, outPos, callback, vblanks, made, lag>>

EndFrame ==
  /\ running /\ ~LoopTest
  /\ running' = FALSE
  /\ outPos' = IF callback THEN 0 ELSE outPos
  /\ taken' = callback
  /\ UNCHANGED <<acc, beam, sampleAcc, callback, vblanks, made, lag>>

\* mgbx_set_audio_callback
SetCallback(set) ==
  /\ ~running
  /\ callback' = set
  /\ UNCHANGED <<running, acc, beam, sampleAcc, outPos, vblanks, made, taken, lag>>

\* mgbx_load_state: the buffer position is part of the state.
LoadState(b, s, o) ==
  /\ ~running
  /\ beam' = b /\ sampleAcc' = s /\ outPos' = o
  /\ taken' = (o = 0)
  /\ UNCHANGED <<running, acc, callback, vblanks, made, lag>>

\* mgbx_power_on, from reset and load_rom
PowerOn ==
  /\ ~running
  /\ beam' = 0 /\ sampleAcc' = 0 /\ outPos' = 0 /\ lag' = 0
  /\ taken' = TRUE
  /\ UNCHANGED <<running, acc, callback, vblanks, made>>

Next ==
  \/ Begin
  \/ \E t \in Costs : CpuStep(t)
  \/ EndFrame
  \/ \E set \in BOOLEAN : SetCallback(set)
  \/ \E b \in 0..(FrameLen - 1), s \in 0..(SampleLen - 1), o \in 0..OutCap :
       LoadState(b, s, o)
  \/ PowerOn

Spec == Init /\ [][Next]_vars

-----------------------------------------------------------------------------

MaxCost == CHOOSE t \in Costs : \A u \in Costs : u <= t

TypeOK ==
  /\ running \in BOOLEAN /\ acc \in 0..(FrameLen - 1 + MaxCost)
  /\ beam \in 0..(FrameLen - 1) /\ sampleAcc \in 0..(SampleLen - 1)
  /\ outPos \in 0..OutCap /\ callback \in BOOLEAN
  /\ vblanks \in 0..3 /\ made \in 0..(OutCap + 1)
  /\ taken \in BOOLEAN /\ lag \in 0..LagMax

\* Each call shows a new picture, whatever cycle the last one ended on: it
\* meets a VBlank, or two, and runs past its end by less than one CPU step.
NewPicture ==
  running /\ acc >= FrameLen => vblanks \in {1, 2} /\ acc < FrameLen + MaxCost

\* A host that takes the audio of every frame gets each frame's samples
\* complete and alone: none is dropped and none is left over.
AudioComplete == running /\ taken => made = outPos

\* The comment in gb_timer_step (timer.c:54): it is called once per M-cycle.
TimerInStep == lag = 0
=============================================================================
