------------------------------- MODULE GbApu -------------------------------
(***************************************************************************)
(* The control state of the Game Boy sound unit (src/mgbx/apu.c): which    *)
(* channels play, their length counters and envelopes, the sweep of the    *)
(* first square channel, the frame sequencer that clocks them and the      *)
(* power bit.  What the channels sound like is left out.                   *)
(*                                                                         *)
(* A frequency has 8 low and 3 high bits in the code; here it has one high *)
(* bit, of weight LowMod.                                                  *)
(***************************************************************************)
EXTENDS Integers

CONSTANTS
  Channels,    \* of the four channels, those modelled
  Enveloped,   \* those with an envelope; the wave channel has none
  Swept,       \* the channel with a sweep (sq[0])
  Wave,        \* the wave channel
  LenMax,      \* channel -> length a trigger reloads (64, the wave 256)
  LenByte,     \* values of a saved length (a byte: 256)
  VolMax,      \* loudest volume (15)
  PeriodMax,   \* longest envelope or sweep period (7)
  LongTimer,   \* the timer a trigger loads for period 0 (8)
  LowMod,      \* weight of the high frequency bit
  Shifts       \* sweep shift counts (0..7)

ApuAssumption ==
  /\ Enveloped \subseteq Channels
  /\ LenMax \in [Channels -> Nat \ {0}]
  /\ VolMax \in Nat /\ PeriodMax \in Nat /\ LowMod \in Nat \ {0}
  /\ LongTimer \in Nat /\ LongTimer > PeriodMax
  /\ Shifts \subseteq Nat /\ 0 \in Shifts
  /\ \A s \in Shifts : 2^s > 0

VARIABLES
  power,    \* NR52 bit 7
  ch,       \* channel -> [dac, active, len, lenOn]
  env,      \* channel -> [start, up, period, timer, volume]
  sweep,    \* [period, shift, negate, timer, enabled]
  freq,     \* frequency of the swept channel
  seq       \* frame_seq_step

vars == <<power, ch, env, sweep, freq, seq>>

FreqMax == 2 * LowMod - 1

Silent == [dac |-> FALSE, active |-> FALSE, len |-> 0, lenOn |-> FALSE]
NoEnvelope ==
  [start |-> 0, up |-> FALSE, period |-> 0, timer |-> 0, volume |-> 0]
NoSweep ==
  [period |-> 0, shift |-> 0, negate |-> FALSE, timer |-> 0, enabled |-> FALSE]

Cleared ==
  /\ ch' = [c \in Channels |-> Silent]
  /\ env' = [c \in Enveloped |-> NoEnvelope]
  /\ sweep' = NoSweep
  /\ freq' = 0

Init ==
  /\ power = TRUE /\ seq = 0
  /\ ch = [c \in Channels |-> Silent]
  /\ env = [c \in Enveloped |-> NoEnvelope]
  /\ sweep = NoSweep
  /\ freq = 0

-----------------------------------------------------------------------------

\* chan_len_tick for one channel
LengthTick(c) ==
  IF c.lenOn /\ c.len > 0
    THEN [c EXCEPT !.len = @ - 1, !.active = @ /\ c.len # 1]
    ELSE c

\* envelope_tick for one channel, active or not
Louder(e) == e.up /\ e.volume < VolMax
Softer(e) == ~e.up /\ e.volume > 0
EnvelopeTick(e, active) ==
  IF ~active \/ e.period = 0 THEN e
  ELSE IF e.timer > 1 THEN [e EXCEPT !.timer = @ - 1]
  ELSE [e EXCEPT !.timer = e.period,
                 !.volume = IF Louder(e) THEN @ + 1
                            ELSE IF Softer(e) THEN @ - 1 ELSE @]

\* sweep_calc
Swing(s, f) == IF s.negate THEN f - (f \div 2^s.shift) ELSE f + (f \div 2^s.shift)

\* The sweep's timer runs out at this clock.
SweepDue == sweep.period # 0 /\ sweep.timer <= 1

\* sweep_tick: the frequency it leaves, and whether it silences the channel.
SweptFreqUnchecked(s, f) == IF s.shift # 0 THEN Swing(s, f) ELSE f   \* mutant
SweptFreq(s, f) ==
  IF s.shift # 0 /\ Swing(s, f) <= FreqMax THEN Swing(s, f) ELSE f

Overflows(s, f) ==
  \/ Swing(s, f) > FreqMax
  \/ s.shift # 0 /\ Swing(s, Swing(s, f)) > FreqMax

\* chan_len_tick clocks every channel, after which the sweep may silence its own.
Lengths == [c \in Channels |-> LengthTick(ch[c])]

SweepTick ==
  /\ sweep' = IF sweep.period = 0 THEN sweep
              ELSE [sweep EXCEPT !.timer = IF SweepDue THEN sweep.period ELSE @ - 1]
  /\ IF SweepDue /\ sweep.enabled
       THEN /\ freq' = SweptFreq(sweep, freq)
            /\ ch' = [Lengths EXCEPT ![Swept].active = @ /\ ~Overflows(sweep, freq)]
       ELSE /\ ch' = Lengths
            /\ UNCHANGED freq

\* One step of the frame sequencer, every 8192 T-cycles of gb_apu_step,
\* powered or not.
Clock ==
  /\ seq' = (seq + 1) % 8
  /\ \/ seq \in {0, 4} /\ ch' = Lengths /\ UNCHANGED <<env, sweep, freq>>
     \/ seq \in {2, 6} /\ SweepTick /\ UNCHANGED env
     \/ /\ seq = 7
        /\ env' = [c \in Enveloped |-> EnvelopeTick(env[c], ch[c].active)]
        /\ UNCHANGED <<ch, sweep, freq>>
     \/ seq \in {1, 3, 5} /\ UNCHANGED <<ch, env, sweep, freq>>
  /\ UNCHANGED power

\* NRx1.  With the power off every register but NR52 ignores writes.
WriteLength(c, v) ==
  /\ power
  /\ ch' = [ch EXCEPT ![c].len = LenMax[c] - v]
  /\ UNCHANGED <<power, env, sweep, freq, seq>>

\* The DAC bits of NRx2 and NR30: a channel without its DAC falls silent.
SetDac(c, dac) == [ch EXCEPT ![c].dac = dac, ![c].active = @ /\ dac]

WriteDac(c, dac) ==
  /\ power
  /\ c \notin Enveloped
  /\ ch' = SetDac(c, dac)
  /\ UNCHANGED <<power, env, sweep, freq, seq>>

WriteEnvelope(c, start, up, period) ==
  /\ power
  /\ c \in Enveloped
  /\ env' = [env EXCEPT ![c].start = start, ![c].up = up, ![c].period = period]
  /\ ch' = SetDac(c, start # 0 \/ up)
  /\ UNCHANGED <<power, sweep, freq, seq>>

WriteFreqLow(lo) ==
  /\ power
  /\ freq' = (freq \div LowMod) * LowMod + lo
  /\ UNCHANGED <<power, ch, env, sweep, seq>>

WriteSweep(period, shift, negate) ==
  /\ power
  /\ sweep' = [sweep EXCEPT !.period = period, !.shift = shift, !.negate = negate]
  /\ UNCHANGED <<power, ch, env, freq, seq>>

\* NRx4 sets high frequency bits and never clears them.
WithHigh(f, hi) == IF hi /\ f < LowMod THEN f + LowMod ELSE f

\* The parts of chan_trigger_square, _wave and _noise.
TriggeredKeepsLength(c, n) ==   \* mutant: a spent length is not reloaded
  [c EXCEPT !.active = c.dac]
Triggered(c, n) ==
  [c EXCEPT !.active = c.dac, !.len = IF @ = 0 THEN n ELSE @]

TimerFor(period) == IF period = 0 THEN LongTimer ELSE period

TriggeredEnvelope(e) == [e EXCEPT !.volume = e.start, !.timer = TimerFor(e.period)]

TriggeredSweep(s) ==
  [s EXCEPT !.timer = TimerFor(s.period), !.enabled = s.period # 0 \/ s.shift # 0]

\* A write to NRx4 without, and with, the trigger bit.
WriteControl(c, lenOn, hi) ==
  /\ power
  /\ ch' = [ch EXCEPT ![c].lenOn = lenOn]
  /\ freq' = IF c = Swept THEN WithHigh(freq, hi) ELSE freq
  /\ UNCHANGED <<power, env, sweep, seq>>

Trigger(c, lenOn, hi) ==
  LET f == IF c = Swept THEN WithHigh(freq, hi) ELSE freq
      t == Triggered([ch[c] EXCEPT !.lenOn = lenOn], LenMax[c])
      swings == c = Swept /\ sweep.shift # 0 /\ Swing(sweep, f) > FreqMax
  IN
  /\ power
  /\ freq' = f
  /\ ch' = [ch EXCEPT ![c] = [t EXCEPT !.active = @ /\ ~swings]]
  /\ env' = IF c \in Enveloped THEN [env EXCEPT ![c] = TriggeredEnvelope(@)] ELSE env
  /\ sweep' = IF c = Swept THEN TriggeredSweep(sweep) ELSE sweep
  /\ UNCHANGED <<power, seq>>

\* NR52
PowerOff ==
  /\ power' = FALSE
  /\ Cleared
  /\ UNCHANGED seq

PowerOn ==
  /\ power' = TRUE
  /\ seq' = IF power THEN seq ELSE 0
  /\ UNCHANGED <<ch, env, sweep, freq>>

\* gb_apu_reset
Reset ==
  /\ power' = TRUE /\ seq' = 0
  /\ Cleared

\* Bus writes to the channels `played', and what happens to all of them.
PlayOn(played) ==
  \/ Clock
  \/ \E c \in played :
       \/ \E v \in 0..(LenMax[c] - 1) : WriteLength(c, v)
       \/ \E dac \in BOOLEAN : WriteDac(c, dac)
       \/ \E start \in 0..VolMax, up \in BOOLEAN, period \in 0..PeriodMax :
            WriteEnvelope(c, start, up, period)
       \/ \E lenOn, hi \in BOOLEAN : WriteControl(c, lenOn, hi) \/ Trigger(c, lenOn, hi)
  \/ \E lo \in 0..(LowMod - 1) : WriteFreqLow(lo)
  \/ \E period \in 0..PeriodMax, shift \in Shifts, negate \in BOOLEAN :
       WriteSweep(period, shift, negate)
  \/ PowerOff
  \/ PowerOn
  \/ Reset

Play == PlayOn(Channels)

Spec == Init /\ [][Play]_vars

\* A channel after mgbx_save_state and mgbx_load_state: wave.len_counter goes
\* through a byte.
Reloaded(c) == IF c = Wave THEN [ch[c] EXCEPT !.len = @ % LenByte] ELSE ch[c]

-----------------------------------------------------------------------------

Periods == 0..PeriodMax

\* The sweep among them: it never pushes the frequency past its 11 bits, where
\* the channel's period (2048 - freq) * 4 would vanish.
TypeOK ==
  /\ power \in BOOLEAN /\ seq \in 0..7
  /\ freq \in 0..FreqMax
  /\ \A c \in Channels :
       ch[c] \in [dac : BOOLEAN, active : BOOLEAN, len : 0..LenMax[c],
                  lenOn : BOOLEAN]
  /\ env \in [Enveloped -> [start : 0..VolMax, up : BOOLEAN, period : Periods,
                            timer : 0..LongTimer, volume : 0..VolMax]]
  /\ sweep \in [period : Periods, shift : Shifts, negate : BOOLEAN,
                timer : 0..LongTimer, enabled : BOOLEAN]

\* A note plays only with power and through a DAC that is on, so no write
\* order lets it outlive either; it has length left, so that counting can end
\* it (a length of 0 would never be counted); and its envelope's timer cannot
\* stand at 0, which would step the volume at every clock.
NotesSound ==
  \A c \in Channels : ch[c].active =>
    /\ power /\ ch[c].dac
    /\ ch[c].len > 0
    /\ c \in Enveloped => env[c].timer > 0

\* The round trip test (tests/mgbx/state.c:81): the state that would be
\* loaded is the state that was saved.
RoundTripExact == \A c \in Channels : Reloaded(c) = ch[c]
=============================================================================
