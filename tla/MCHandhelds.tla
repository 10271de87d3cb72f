---------------------------- MODULE MCHandhelds ----------------------------
(* What paces the handhelds, one at a time: the Game Boy's frame loop, the *)
(* cartridge's clock it ticks, and the Game Boy Advance's CPU, which       *)
(* sleeps until a device calls it.  A behaviour exercises the one in focus.*)
(* A frame has eight M-cycles, CPU steps take one to three and a sample    *)
(* two: as in the code the audio buffer has room for the samples of one    *)
(* frame and not of two.  The clock has three registers of one bit and a   *)
(* second of four cycles, so every carry meets every place of a latch or a *)
(* halt within a second.                                                   *)
EXTENDS Integers

CONSTANTS
  Foci,   \* the parts to exercise
  FrameLen, VBlankAt, Costs, SampleLen, OutCap, LagMax,
  NRegs, RegMod, SecondLen,
  GbaModes, GbaInts, Places, Home

VARIABLES
  focus,
  running, acc, beam, sampleAcc, outPos, callback, vblanks, made, taken, lag,
  reg, high, stop, carry, halt, divider, latched, latchedValid, armed,
  wrote,
  gba, asleep, inside, irq, pushed, cut

frame == <<running, acc, beam, sampleAcc, outPos, callback, vblanks, made,
           taken, lag>>
rtc   == <<reg, high, stop, carry, halt, divider, latched, latchedValid, armed,
           wrote>>
gbax  == <<gba, asleep, inside, irq, pushed, cut>>
vars  == <<focus, frame, rtc, gbax>>

Frame == INSTANCE GbFrame
Rtc   == INSTANCE GbRtc
Gba   == INSTANCE GbaCpu

ASSUME FrameFits == Frame!FrameAssumption
ASSUME RtcFits == Rtc!RtcAssumption
ASSUME GbaFits == Gba!GbaCpuAssumption

Init == focus \in Foci /\ Frame!Init /\ Rtc!Init /\ Gba!Init

Next ==
  /\ UNCHANGED focus
  /\ \/ focus = "frame" /\ Frame!Next /\ UNCHANGED <<rtc, gbax>>
     \/ focus = "rtc" /\ Rtc!Next /\ UNCHANGED <<frame, gbax>>
     \/ focus = "gba" /\ Gba!Next /\ UNCHANGED <<frame, rtc>>

\* The frame loop of the Game Boy Advance steps a sleeping CPU without end.
Sleep == focus = "gba" /\ Gba!Sleep /\ UNCHANGED <<focus, frame, rtc>>

Spec == Init /\ [][Next]_vars /\ WF_vars(Sleep)

-----------------------------------------------------------------------------

\* The types of all three.
TypeOK == Frame!TypeOK /\ Rtc!TypeOK /\ Gba!TypeOK

\* Each call of run_frame meets a VBlank, and overruns by less than a step.
NewPicture == Frame!NewPicture

\* Audio taken every frame is complete and alone (gb_apu_step, run_frame).
AudioComplete == Frame!AudioComplete

\* The timer is stepped once per M-cycle (timer.c:54).
TimerInStep == Frame!TimerInStep

\* The clock's registers count seconds as one number (gb_cart_tick_rtc).
ClockSpec == Rtc!ClockSpec

\* A snapshot needs its two writes, and stays (gb_cart_write).
LatchProtocol == Rtc!LatchProtocol

\* A handler the BIOS dispatches gives the interrupted program back
\* (gba_irq_dispatch, gba_irq_dispatch_return).
HandlerReturns == [][focus = "gba" => Gba!HandlerReturns]_vars

\* A halted CPU wakes for an interrupt it waits for (gba_cpu_step).
HaltEnds == (focus = "gba" /\ Gba!Called) ~> ~Gba!Halted
=============================================================================
