--------------------------- MODULE GbPartsProofs ---------------------------
(***************************************************************************)
(* The joypad, the cartridge's banks and the sound unit of the Game Boy,   *)
(* for every number of keys, every size of ROM and RAM, every register     *)
(* width and every set of sound channels.                                  *)
(***************************************************************************)
EXTENDS MCGbParts, TLAPS

(***************************************************************************)
(* The joypad: what was announced is what is low, so it is the whole       *)
(* invariant.                                                              *)
(***************************************************************************)

LEMMA JoypadStep ==
  ASSUME Joypad!EveryPressAnnounced, Joypad!Next PROVE Joypad!EveryPressAnnounced'
<1> USE DEF Joypad!EveryPressAnnounced
<1>1. ASSUME NEW sel, NEW down, Joypad!Change(sel, down)
      PROVE  Joypad!EveryPressAnnounced'
  <2> DEFINE now == Joypad!PulledLow(sel, down)
             falls == Joypad!Falls(Joypad!Zeros(select, buttons), Joypad!Zeros(sel, down))
  <2>1. announced' = IF falls THEN now ELSE announced \cap now
    BY <1>1 DEF Joypad!Change
  <2>2. ~falls => now \subseteq announced
    BY KeysAssumption DEF Joypad!JoypadAssumption, Joypad!Falls, Joypad!Zeros,
       Joypad!PulledLow
  <2>3. announced' = now
    BY <2>1, <2>2
  <2> QED
    BY <1>1, <2>3 DEF Joypad!Change, Joypad!PulledLow
<1>2. CASE \E sel \in SUBSET Groups : Joypad!Select(sel)
  BY <1>1, <1>2 DEF Joypad!Select
<1>3. CASE \E down \in SUBSET Joypad!Keys : Joypad!SetButtons(down)
  BY <1>1, <1>3 DEF Joypad!SetButtons
<1>4. CASE Joypad!Acknowledge
  BY <1>4 DEF Joypad!Acknowledge, Joypad!PulledLow
<1>5. CASE Joypad!PowerOn
  BY <1>5 DEF Joypad!PowerOn, Joypad!PulledLow
<1> QED
  BY <1>2, <1>3, <1>4, <1>5 DEF Joypad!Next

(***************************************************************************)
(* The cartridge: reads and writes select the same bank of RAM, so that    *)
(* the RAM is what was stored; the windows need the types, and that an     *)
(* image present has banks.                                                *)
(***************************************************************************)

LEMMA ModBounds ==
  ASSUME NEW a \in Nat, NEW m \in Nat \ {0}
  PROVE  a % m \in 0..(m - 1)
  OBVIOUS

\* Of a number below m nothing is lost modulo m.
LEMMA ModSmall ==
  ASSUME NEW m \in Nat \ {0}, NEW a \in 0..(m - 1)
  PROVE  a % m = a
  OBVIOUS

\* A number in two digits has its lower digit as remainder.
LEMMA ModOffset ==
  ASSUME NEW h \in Nat, NEW m \in Nat \ {0}, NEW a \in 0..(m - 1)
  PROVE  h * m + a \in Nat /\ (h * m + a) % m = a
  OBVIOUS

\* A remainder leaves the remainder by a divisor alone.
LEMMA ModDivisor ==
  ASSUME NEW x \in Nat, NEW n \in Nat \ {0}, NEW d \in Nat \ {0}, n % d = 0
  PROVE  (x % n) % d = x % d
<1> DEFINE q == x \div n
           k == n \div d
           a == x \div d
           r == x % d
<1>1. q \in Nat /\ k \in Nat /\ a \in Nat /\ r \in 0..(d - 1)
  OBVIOUS
<1>2. x % n = x - n * q /\ n = d * k /\ x = d * a + r
  OBVIOUS
<1> HIDE DEF q, k, a, r
<1>3. n * q = d * (k * q) /\ k * q \in Nat
  BY <1>1, <1>2
<1>4. a - k * q \in Int /\ x % n = d * (a - k * q) + r
  BY <1>1, <1>2, <1>3
<1>5. \A c \in Int : (d * c + r) % d = r
  BY <1>1
<1> QED
  BY <1>4, <1>5 DEF r

MapperInv ==
  /\ Mapper!TypeOK
  /\ ram = stored
  /\ present => banks \in RomSizes

\* The bank the window at 0x4000 selects before it is reduced to the image.
LEMMA NonZeroBelow ==
  ASSUME NEW b \in Nat, NEW m \in Nat \ {0}
  PROVE  /\ Mapper!NonZero(b % m) \in Nat \ {0}
         /\ Mapper!NonZero(b % m) < m \/ Mapper!NonZero(b % m) = 1
  BY ModBounds DEF Mapper!NonZero

LEMMA MapperWindows ==
  ASSUME MapperInv PROVE Mapper!WindowsApart
<1> SUFFICES ASSUME present, kind \in {"MBC1", "MBC2", "MBC3"},
                    banks % (CASE kind = "MBC1" -> Low
                               [] kind = "MBC2" -> Mbc2Mod
                               [] OTHER -> ByteMod \div 2) = 0
             PROVE  Mapper!Switchable # Mapper!Fixed
  BY DEF Mapper!WindowsApart
<1>1. /\ banks \in Nat \ {0, 1} /\ bank1 \in Nat /\ bank2 \in Nat
      /\ Low \in Nat \ {0, 1} /\ High \in Nat \ {0} /\ Mbc2Mod \in Nat \ {0, 1}
      /\ ByteMod \in Nat \ {0, 1}
  BY CartAssumption DEF MapperInv, Mapper!MapperAssumption, Mapper!TypeOK, Mapper!Bytes
\* A bank register that names no bank of a larger block, reduced to the image.
<1>2. ASSUME NEW m \in Nat \ {0}, banks % m = 0
      PROVE  Mapper!InRom(Mapper!NonZero(bank1 % m)) # 0
  <2>1. banks >= m
    BY <1>1, <1>2
  <2>2. Mapper!NonZero(bank1 % m) \in 1..(banks - 1)
    BY <1>1, <2>1, NonZeroBelow
  <2> HIDE DEF Mapper!NonZero
  <2> QED
    BY <1>1, <2>2, ModSmall DEF Mapper!InRom
<1>3. CASE kind = "MBC2"
  BY <1>1, <1>2, <1>3 DEF Mapper!Switchable, Mapper!Fixed
<1>4. CASE kind = "MBC3"
  <2>1. ByteMod \div 2 \in Nat \ {0} /\ banks % (ByteMod \div 2) = 0
    BY <1>1, <1>4
  <2> QED
    BY <1>2, <1>4, <2>1 DEF Mapper!Switchable, Mapper!Fixed
<1>5. CASE kind = "MBC1"
  <2> DEFINE b == Mapper!NonZero(bank1 % Low)
             h == bank2 % High
  <2>1. b \in 1..(Low - 1) /\ h \in Nat
    <3>1. b \in Nat \ {0} /\ (b < Low \/ b = 1)
      BY <1>1, NonZeroBelow
    <3>2. h \in Nat
      BY <1>1, ModBounds
    <3> QED
      BY <1>1, <3>1, <3>2
  <2>2. banks % Low = 0
    BY <1>5
  <2> HIDE DEF b, h
  <2>3. (h * Low) + b \in Nat /\ ((h * Low) + b) % Low = b
    BY <1>1, <2>1, ModOffset
  <2>4. Mapper!InRom((h * Low) + b) % Low = b
    BY <1>1, <2>2, <2>3, ModDivisor DEF Mapper!InRom
  <2>5. Mapper!Switchable % Low # 0
    BY <1>5, <2>1, <2>4 DEF Mapper!Switchable, b, h
  <2>6. bank2 * Low \in Nat /\ (bank2 * Low) % Low = 0 /\ 0 % Low = 0
    <3>1. bank2 * Low + 0 \in Nat /\ (bank2 * Low + 0) % Low = 0
      BY <1>1, ModOffset
    <3>2. bank2 * Low + 0 = bank2 * Low /\ 0 % Low = 0
      BY <1>1
    <3> QED
      BY <3>1, <3>2
  <2>7. Mapper!InRom(bank2 * Low) % Low = 0
    BY <1>1, <2>2, <2>6, ModDivisor DEF Mapper!InRom
  <2>8. Mapper!Fixed % Low = 0
    BY <2>6, <2>7 DEF Mapper!Fixed
  <2> QED
    BY <2>5, <2>8
<1> QED
  BY <1>3, <1>4, <1>5

LEMMA MapperReads ==
  ASSUME MapperInv PROVE Mapper!RamReadsBack
<1> USE DEF Mapper!RamReadsBack, Mapper!ReadRam
<1>1. CASE ~Mapper!ClockSelected /\ Mapper!ReadBank < ramBanks /\ (ramOn \/ kind = "MBC2")
  <2>1. bank2 \in Nat /\ ramBanks \in Nat /\ High \in Nat \ {0}
    BY CartAssumption DEF MapperInv, Mapper!MapperAssumption, Mapper!TypeOK, Mapper!Bytes
  <2>2. Mapper!ReadBank \in Nat
    BY <2>1, ModBounds DEF Mapper!ReadBank
  <2>3. Mapper!ReadBank \in DOMAIN stored
    BY <1>1, <2>1, <2>2 DEF MapperInv, Mapper!TypeOK
  <2> QED
    BY <1>1, <2>3 DEF MapperInv
<1>2. CASE ~(~Mapper!ClockSelected /\ Mapper!ReadBank < ramBanks /\ (ramOn \/ kind = "MBC2"))
  BY <1>2
<1> QED
  BY <1>1, <1>2

LEMMA MapperInit == Mapper!Init => MapperInv
<1> SUFFICES ASSUME Mapper!Init PROVE MapperInv
  OBVIOUS
<1>1. ByteMod \in Nat \ {0, 1} /\ Blank \in Cells
  BY CartAssumption DEF Mapper!MapperAssumption
<1>2. {0, 1} \subseteq Mapper!Bytes /\ 1 \in 0..(2 * ByteMod - 1)
  BY <1>1 DEF Mapper!Bytes
<1>3. ram \in [0..(ramBanks - 1) -> Cells] /\ stored = ram
  BY <1>1 DEF Mapper!Init, Mapper!Empty
<1> QED
  BY <1>2, <1>3 DEF Mapper!Init, MapperInv, Mapper!TypeOK, Mapper!Kinds

\* What a reset of n banks leaves.
LEMMA MapperRegisters ==
  ASSUME NEW n, Mapper!ResetRegisters(n)
  PROVE  /\ ramOn' \in BOOLEAN /\ mode' \in {0, 1} /\ bank1' \in Mapper!Bytes
         /\ bank2' \in Mapper!Bytes /\ romBank' \in 0..(2 * ByteMod - 1)
         /\ ram' \in [0..(n - 1) -> Cells] /\ stored' = ram'
<1>1. ByteMod \in Nat \ {0, 1} /\ Blank \in Cells
  BY CartAssumption DEF Mapper!MapperAssumption
<1>2. {0, 1} \subseteq Mapper!Bytes /\ 1 \in 0..(2 * ByteMod - 1)
  BY <1>1 DEF Mapper!Bytes
<1> QED
  BY <1>1, <1>2 DEF Mapper!ResetRegisters, Mapper!Empty

LEMMA MapperStep == ASSUME MapperInv, Mapper!Next PROVE MapperInv'
<1> USE DEF MapperInv, Mapper!TypeOK, Mapper!cart
<1>0. /\ Low \in Nat \ {0, 1} /\ High \in Nat \ {0} /\ Mbc2Mod \in Nat \ {0, 1}
      /\ ByteMod \in Nat \ {0, 1} /\ Mbc5Rams \in Nat \ {0} /\ Blank \in Cells
      /\ RomSizes \subseteq Nat \ {0, 1} /\ RamSizes \subseteq Nat
      /\ romBank \in Nat
  BY CartAssumption DEF Mapper!MapperAssumption
<1>1. ASSUME NEW k \in Mapper!Kinds, NEW n \in RomSizes, NEW r \in RamSizes,
             Mapper!Load(k, n, r)
      PROVE  MapperInv'
  <2>1. /\ Mapper!ResetRegisters(r)
        /\ present' = TRUE /\ kind' = k /\ banks' = n /\ ramBanks' = r
    BY <1>1 DEF Mapper!Load
  <2> QED
    BY <2>1, MapperRegisters
<1>2. CASE Mapper!LoadFails
  <2>1. ram' \in [0..(ramBanks' - 1) -> Cells] /\ stored' = ram'
    BY <1>0, <1>2 DEF Mapper!LoadFails, Mapper!Empty
  <2> QED
    BY <1>2, <2>1 DEF Mapper!LoadFails
<1>3. CASE Mapper!Reset
  <2>1. Mapper!ResetRegisters(ramBanks) /\ UNCHANGED <<present, kind, banks, ramBanks>>
    BY <1>3 DEF Mapper!Reset
  <2> QED
    BY <2>1, MapperRegisters
<1>4. ASSUME NEW enable \in BOOLEAN, Mapper!WriteGate(enable) PROVE MapperInv'
  BY <1>4 DEF Mapper!WriteGate
<1>5. ASSUME NEW v \in Mapper!Bytes, Mapper!WriteBank1(v) PROVE MapperInv'
  <2>1. v % Mbc2Mod \in Mapper!Bytes
    BY <1>0 DEF Mapper!Bytes
  <2> QED
    BY <1>5, <2>1 DEF Mapper!WriteBank1
<1>6. ASSUME NEW v \in Mapper!Bytes, Mapper!WriteBank2(v) PROVE MapperInv'
  <2>1. v % Mbc5Rams \in Mapper!Bytes
    BY <1>0 DEF Mapper!Bytes
  <2> QED
    BY <1>6, <2>1 DEF Mapper!WriteBank2
<1>7. ASSUME NEW v \in Mapper!Bytes, Mapper!WriteRomLow(v) PROVE MapperInv'
  <2>1. ((romBank \div ByteMod) * ByteMod) + v \in 0..(2 * ByteMod - 1)
    <3>1. romBank \div ByteMod \in {0, 1} /\ v \in 0..(ByteMod - 1)
      BY <1>0 DEF Mapper!Bytes
    <3> QED
      BY <1>0, <3>1
  <2> QED
    BY <1>7, <2>1 DEF Mapper!WriteRomLow
<1>8. ASSUME NEW bit \in {0, 1}, Mapper!WriteRomHigh(bit) PROVE MapperInv'
  <2>1. (bit * ByteMod) + (romBank % ByteMod) \in 0..(2 * ByteMod - 1)
    <3>1. romBank % ByteMod \in 0..(ByteMod - 1)
      BY <1>0, ModBounds
    <3>2. bit * ByteMod \in {0, ByteMod}
      BY <1>0
    <3> QED
      BY <1>0, <3>1, <3>2
  <2> QED
    BY <1>8, <2>1 DEF Mapper!WriteRomHigh
<1>9. ASSUME NEW bit \in {0, 1}, Mapper!WriteMode(bit) PROVE MapperInv'
  BY <1>9 DEF Mapper!WriteMode
<1>10. ASSUME NEW x \in Cells, Mapper!WriteRam(x) PROVE MapperInv'
  <2>1. Mapper!WriteBank = Mapper!ReadBank
    BY DEF Mapper!WriteBank, Mapper!ReadBank
  <2> QED
    BY <1>10, <2>1 DEF Mapper!WriteRam
<1> QED
  BY <1>1, <1>2, <1>3, <1>4, <1>5, <1>6, <1>7, <1>8, <1>9, <1>10 DEF Mapper!Next

(***************************************************************************)
(* The sound unit: the types and the soundness of notes are inductive      *)
(* together, once the channels are known to be a function.                 *)
(***************************************************************************)

ChannelStates(c) ==
  [dac : BOOLEAN, active : BOOLEAN, len : 0..LenMax[c], lenOn : BOOLEAN]
EnvelopeStates ==
  [start : 0..VolMax, up : BOOLEAN, period : 0..PeriodMax, timer : 0..LongTimer,
   volume : 0..VolMax]
SweepStates ==
  [period : 0..PeriodMax, shift : Shifts, negate : BOOLEAN, timer : 0..LongTimer,
   enabled : BOOLEAN]

\* A channel that plays has power, its DAC and a length; its envelope a timer.
NoteSound(x, p) == x.active => p /\ x.dac /\ x.len > 0
EnvelopePaced(c, x, e) == x.active /\ c \in Enveloped => e[c].timer > 0

ApuInv ==
  /\ power \in BOOLEAN /\ seq \in 0..7 /\ freq \in 0..Apu!FreqMax
  /\ ch = [c \in Channels |-> ch[c]]
  /\ \A c \in Channels : /\ ch[c] \in ChannelStates(c) /\ NoteSound(ch[c], power)
                         /\ EnvelopePaced(c, ch[c], env)
  /\ env \in [Enveloped -> EnvelopeStates]
  /\ sweep \in SweepStates

LEMMA ApuFacts ==
  /\ Enveloped \subseteq Channels /\ Swept \in Channels /\ Wave \in Channels
  /\ \A c \in Channels : LenMax[c] \in Nat \ {0}
  /\ VolMax \in Nat /\ PeriodMax \in Nat /\ LowMod \in Nat \ {0}
  /\ LongTimer \in Nat /\ LongTimer > PeriodMax
  /\ Shifts \subseteq Nat /\ 0 \in Shifts
  BY SoundAssumption DEF Apu!ApuAssumption

\* A clock of the length counter starts no note and ends one whose length is spent.
LEMMA LengthTickSound ==
  ASSUME NEW c \in Channels, NEW x \in ChannelStates(c), NEW p, NoteSound(x, p)
  PROVE  /\ Apu!LengthTick(x) \in ChannelStates(c)
         /\ NoteSound(Apu!LengthTick(x), p)
         /\ Apu!LengthTick(x).active => x.active
<1>1. CASE x.lenOn /\ x.len > 0
  <2>1. Apu!LengthTick(x) = [x EXCEPT !.len = x.len - 1, !.active = x.active /\ x.len # 1]
    BY <1>1 DEF Apu!LengthTick
  <2>2. x.len - 1 \in 0..LenMax[c] /\ (x.len # 1 => x.len - 1 > 0)
    BY <1>1, ApuFacts DEF ChannelStates
  <2>3. (x.active /\ x.len # 1) \in BOOLEAN
    OBVIOUS
  <2>4. /\ Apu!LengthTick(x) \in ChannelStates(c)
        /\ Apu!LengthTick(x).len = x.len - 1 /\ Apu!LengthTick(x).dac = x.dac
        /\ Apu!LengthTick(x).active <=> x.active /\ x.len # 1
    BY <2>1, <2>2, <2>3 DEF ChannelStates
  <2> QED
    BY <2>2, <2>4 DEF NoteSound
<1>2. CASE ~(x.lenOn /\ x.len > 0)
  BY <1>2 DEF Apu!LengthTick
<1> QED
  BY <1>1, <1>2

\* A clock of the envelope keeps its timer and its volume in range.
LEMMA EnvelopeTickSound ==
  ASSUME NEW e \in EnvelopeStates, NEW active \in BOOLEAN
  PROVE  /\ Apu!EnvelopeTick(e, active) \in EnvelopeStates
         /\ e.timer > 0 => Apu!EnvelopeTick(e, active).timer > 0
<1>1. CASE ~active \/ e.period = 0
  BY <1>1 DEF Apu!EnvelopeTick
<1>2. CASE active /\ e.period # 0 /\ e.timer > 1
  BY <1>2, ApuFacts DEF Apu!EnvelopeTick, EnvelopeStates
<1>3. CASE active /\ e.period # 0 /\ ~(e.timer > 1)
  <2> DEFINE v == IF Apu!Louder(e) THEN e.volume + 1
                  ELSE IF Apu!Softer(e) THEN e.volume - 1 ELSE e.volume
  <2>1. v \in 0..VolMax
    BY ApuFacts DEF EnvelopeStates, Apu!Louder, Apu!Softer
  <2>2. Apu!EnvelopeTick(e, active) = [e EXCEPT !.timer = e.period, !.volume = v]
    BY <1>3 DEF Apu!EnvelopeTick
  <2>3. e.period \in 0..LongTimer /\ e.period > 0
    BY <1>3, ApuFacts DEF EnvelopeStates
  <2> HIDE DEF v
  <2> QED
    BY <2>1, <2>2, <2>3 DEF EnvelopeStates
<1> QED
  BY <1>1, <1>2, <1>3

\* The sweep never leaves the frequencies of 11 bits.
LEMMA SweptFreqInRange ==
  ASSUME NEW s \in SweepStates, NEW f \in 0..Apu!FreqMax
  PROVE  Apu!SweptFreq(s, f) \in 0..Apu!FreqMax
<1>1. LowMod \in Nat \ {0} /\ s.shift \in Nat /\ 2^s.shift \in Int
  <2>1. s.shift \in Shifts
    BY DEF SweepStates
  <2>2. LowMod \in Nat \ {0} /\ s.shift \in Nat
    BY <2>1, ApuFacts
  <2>3. \A n \in Nat : 2^n \in Int
    OBVIOUS
  <2> QED
    BY <2>2, <2>3
<1>0. 2^s.shift > 0
  BY SoundAssumption DEF SweepStates, Apu!ApuAssumption
<1> DEFINE d == 2^s.shift
<1>2. d \in Nat \ {0} /\ f \in Nat
  BY <1>0, <1>1 DEF Apu!FreqMax
<1> HIDE DEF d
<1>3. f \div d \in 0..f
  BY <1>2
<1>4. Apu!Swing(s, f) \in Nat
  BY <1>2, <1>3 DEF Apu!Swing, d
<1> QED
  BY <1>1, <1>4 DEF Apu!SweptFreq, Apu!FreqMax

\* What a trigger makes of a channel: a length, and a note if its DAC is on.
LEMMA TriggeredSound ==
  ASSUME NEW c \in Channels, NEW x \in ChannelStates(c)
  PROVE  /\ Apu!Triggered(x, LenMax[c]) \in ChannelStates(c)
         /\ Apu!Triggered(x, LenMax[c]).len > 0
         /\ Apu!Triggered(x, LenMax[c]).active = Apu!Triggered(x, LenMax[c]).dac
<1> DEFINE n == IF x.len = 0 THEN LenMax[c] ELSE x.len
<1>1. n \in 0..LenMax[c] /\ n > 0
  BY ApuFacts DEF ChannelStates
<1>2. Apu!Triggered(x, LenMax[c]) = [x EXCEPT !.active = x.dac, !.len = n]
  BY DEF Apu!Triggered
<1> HIDE DEF n
<1> QED
  BY <1>1, <1>2 DEF ChannelStates

\* What a trigger makes of an envelope: a timer that is not 0.
LEMMA TriggeredEnvelopeSound ==
  ASSUME NEW e \in EnvelopeStates
  PROVE  /\ Apu!TriggeredEnvelope(e) \in EnvelopeStates
         /\ Apu!TriggeredEnvelope(e).timer > 0
<1>1. Apu!TimerFor(e.period) \in 0..LongTimer /\ Apu!TimerFor(e.period) > 0
  BY ApuFacts DEF Apu!TimerFor, EnvelopeStates
<1>2. e.start \in 0..VolMax
  BY DEF EnvelopeStates
<1> QED
  BY <1>1, <1>2 DEF Apu!TriggeredEnvelope, EnvelopeStates

\* One channel x takes the place of channel c.
LEMMA ChannelWrite ==
  ASSUME ApuInv, NEW c \in Channels, NEW x \in ChannelStates(c), NoteSound(x, power),
         ch' = [ch EXCEPT ![c] = x],
         UNCHANGED <<power, seq>>, freq' \in 0..Apu!FreqMax,
         env' \in [Enveloped -> EnvelopeStates], sweep' \in SweepStates,
         \A d \in Channels \ {c} : EnvelopePaced(d, ch[d], env'),
         EnvelopePaced(c, x, env')
  PROVE  ApuInv'
<1>1. ch' = [d \in Channels |-> IF d = c THEN x ELSE ch[d]]
  BY DEF ApuInv
<1> QED
  BY <1>1 DEF ApuInv, NoteSound, EnvelopePaced, ChannelStates, EnvelopeStates,
              SweepStates, Apu!FreqMax

\* What is left when everything is cleared.
LEMMA ClearedSound ==
  ASSUME Apu!Cleared, power' \in BOOLEAN, seq' \in 0..7 PROVE ApuInv'
<1>1. /\ Apu!NoEnvelope \in EnvelopeStates /\ Apu!NoSweep \in SweepStates
  BY ApuFacts DEF Apu!NoEnvelope, Apu!NoSweep, EnvelopeStates, SweepStates
<1>2. \A c \in Channels : Apu!Silent \in ChannelStates(c) /\ ~Apu!Silent.active
  BY ApuFacts DEF ChannelStates, Apu!Silent
<1>3. 0 \in 0..Apu!FreqMax
  BY ApuFacts DEF Apu!FreqMax
<1> QED
  BY <1>1, <1>2, <1>3
     DEF Apu!Cleared, ApuInv, NoteSound, EnvelopePaced, ChannelStates, EnvelopeStates,
         SweepStates, Apu!FreqMax

\* A step of the frame sequencer: lengths, then the sweep; or the envelopes.
LEMMA ClockSound == ASSUME ApuInv, Apu!Clock PROVE ApuInv'
<1>0. seq' \in 0..7 /\ power' = power
  BY DEF ApuInv, Apu!Clock
<1>1. /\ Apu!Lengths = [c \in Channels |-> Apu!Lengths[c]]
      /\ \A c \in Channels :
           /\ Apu!Lengths[c] \in ChannelStates(c) /\ NoteSound(Apu!Lengths[c], power)
           /\ EnvelopePaced(c, Apu!Lengths[c], env)
  BY LengthTickSound DEF Apu!Lengths, ApuInv, EnvelopePaced
<1>2. CASE seq \in {0, 4} /\ ch' = Apu!Lengths /\ UNCHANGED <<env, sweep, freq>>
  BY <1>0, <1>1, <1>2
     DEF ApuInv, NoteSound, EnvelopePaced, ChannelStates, EnvelopeStates, SweepStates,
         Apu!FreqMax
<1>3. CASE Apu!SweepTick /\ UNCHANGED env
  <2>1. sweep' \in SweepStates
    <3>1. CASE sweep.period = 0
      BY <1>3, <3>1 DEF Apu!SweepTick, ApuInv
    <3>2. CASE sweep.period # 0
      <4> DEFINE t == IF sweep.timer <= 1 THEN sweep.period ELSE sweep.timer - 1
      <4>1. t \in 0..LongTimer
        BY ApuFacts DEF ApuInv, SweepStates
      <4>2. sweep' = [sweep EXCEPT !.timer = t]
        BY <1>3, <3>2 DEF Apu!SweepTick, Apu!SweepDue
      <4> QED
        BY <4>1, <4>2 DEF ApuInv, SweepStates
    <3> QED
      BY <3>1, <3>2
  <2>2. CASE Apu!SweepDue /\ sweep.enabled
    <3> DEFINE x == [Apu!Lengths[Swept] EXCEPT
                       !.active = Apu!Lengths[Swept].active
                                  /\ ~Apu!Overflows(sweep, freq)]
    <3>1. /\ freq' = Apu!SweptFreq(sweep, freq)
          /\ ch' = [Apu!Lengths EXCEPT ![Swept] = x]
      BY <1>3, <2>2 DEF Apu!SweepTick
    <3>2. freq' \in 0..Apu!FreqMax
      BY <3>1, SweptFreqInRange DEF ApuInv
    <3>3. /\ x \in ChannelStates(Swept) /\ NoteSound(x, power)
          /\ EnvelopePaced(Swept, x, env)
      BY <1>1, ApuFacts DEF ChannelStates, NoteSound, EnvelopePaced, Apu!Overflows
    <3> HIDE DEF x
    <3>4. ch' = [c \in Channels |-> IF c = Swept THEN x ELSE Apu!Lengths[c]]
      BY <1>1, <3>1
    <3> QED
      BY <1>0, <1>1, <1>3, <2>1, <3>2, <3>3, <3>4
         DEF ApuInv, NoteSound, EnvelopePaced, ChannelStates, EnvelopeStates,
             SweepStates, Apu!FreqMax
  <2>3. CASE ~(Apu!SweepDue /\ sweep.enabled)
    BY <1>0, <1>1, <1>3, <2>1, <2>3
       DEF Apu!SweepTick, ApuInv, NoteSound, EnvelopePaced, ChannelStates,
           EnvelopeStates, SweepStates, Apu!FreqMax
  <2> QED
    BY <2>2, <2>3
<1>4. CASE /\ env' = [c \in Enveloped |-> Apu!EnvelopeTick(env[c], ch[c].active)]
           /\ UNCHANGED <<ch, sweep, freq>>
  <2>1. \A c \in Enveloped : ch[c].active \in BOOLEAN /\ env[c] \in EnvelopeStates
    BY ApuFacts DEF ApuInv, ChannelStates
  <2>2. /\ env' \in [Enveloped -> EnvelopeStates]
        /\ \A c \in Enveloped : env[c].timer > 0 => env'[c].timer > 0
    BY <1>4, <2>1, EnvelopeTickSound
  <2> QED
    BY <1>0, <1>4, <2>2
       DEF ApuInv, NoteSound, EnvelopePaced, ChannelStates, EnvelopeStates, SweepStates,
           Apu!FreqMax
<1>5. CASE UNCHANGED <<ch, env, sweep, freq>>
  BY <1>0, <1>5
     DEF ApuInv, NoteSound, EnvelopePaced, ChannelStates, EnvelopeStates, SweepStates,
         Apu!FreqMax
<1> QED
  BY <1>2, <1>3, <1>4, <1>5 DEF Apu!Clock

LEMMA ApuStep ==
  ASSUME ApuInv, NEW played \in SUBSET Channels, Apu!PlayOn(played) PROVE ApuInv'
<1>1. CASE Apu!Clock
  BY <1>1, ClockSound
<1>2. ASSUME NEW c \in played, NEW v \in 0..(LenMax[c] - 1), Apu!WriteLength(c, v)
      PROVE  ApuInv'
  <2> DEFINE x == [ch[c] EXCEPT !.len = LenMax[c] - v]
  <2>1. LenMax[c] - v \in 1..LenMax[c]
    BY <1>2, ApuFacts
  <2>2. x \in ChannelStates(c) /\ NoteSound(x, power) /\ EnvelopePaced(c, x, env)
    BY <2>1 DEF ApuInv, ChannelStates, NoteSound, EnvelopePaced
  <2>3. ch' = [ch EXCEPT ![c] = x]
    BY <1>2 DEF Apu!WriteLength
  <2> HIDE DEF x
  <2> QED
    BY <1>2, <2>2, <2>3, ChannelWrite DEF Apu!WriteLength, ApuInv
<1>3. ASSUME NEW c \in played, NEW dac \in BOOLEAN, Apu!WriteDac(c, dac)
      PROVE  ApuInv'
  <2> DEFINE x == [ch[c] EXCEPT !.dac = dac, !.active = ch[c].active /\ dac]
  <2>1. x \in ChannelStates(c) /\ NoteSound(x, power) /\ EnvelopePaced(c, x, env)
    BY DEF ApuInv, ChannelStates, NoteSound, EnvelopePaced
  <2>2. ch' = [ch EXCEPT ![c] = x]
    BY <1>3 DEF Apu!WriteDac, Apu!SetDac, ApuInv
  <2> HIDE DEF x
  <2> QED
    BY <1>3, <2>1, <2>2, ChannelWrite DEF Apu!WriteDac, ApuInv
<1>4. ASSUME NEW c \in played, NEW start \in 0..VolMax, NEW up \in BOOLEAN,
             NEW period \in 0..PeriodMax, Apu!WriteEnvelope(c, start, up, period)
      PROVE  ApuInv'
  <2> DEFINE dac == start # 0 \/ up
             x == [ch[c] EXCEPT !.dac = dac, !.active = ch[c].active /\ dac]
  <2>1. dac \in BOOLEAN
    OBVIOUS
  <2> HIDE DEF dac
  <2>2. ch' = [ch EXCEPT ![c] = x]
    BY <1>4 DEF Apu!WriteEnvelope, Apu!SetDac, ApuInv, dac
  <2>3. /\ x \in ChannelStates(c) /\ NoteSound(x, power)
        /\ x.active => ch[c].active
    BY <2>1 DEF ApuInv, ChannelStates, NoteSound
  <2>4. env' = [env EXCEPT ![c] = [env[c] EXCEPT !.start = start, !.up = up,
                                                 !.period = period]]
    BY <1>4 DEF Apu!WriteEnvelope, ApuInv
  <2>5. /\ env' \in [Enveloped -> EnvelopeStates]
        /\ \A d \in Enveloped : env'[d].timer = env[d].timer
    BY <2>4 DEF ApuInv, EnvelopeStates
  <2> HIDE DEF x
  <2>6. /\ EnvelopePaced(c, x, env')
        /\ \A d \in Channels \ {c} : EnvelopePaced(d, ch[d], env')
    BY <2>3, <2>5 DEF ApuInv, EnvelopePaced
  <2> QED
    BY <1>4, <2>2, <2>3, <2>5, <2>6, ChannelWrite DEF Apu!WriteEnvelope, ApuInv
<1>5. ASSUME NEW c \in played, NEW lenOn \in BOOLEAN, NEW hi \in BOOLEAN,
             Apu!WriteControl(c, lenOn, hi)
      PROVE  ApuInv'
  <2> DEFINE x == [ch[c] EXCEPT !.lenOn = lenOn]
  <2>1. x \in ChannelStates(c) /\ NoteSound(x, power) /\ EnvelopePaced(c, x, env)
    BY DEF ApuInv, ChannelStates, NoteSound, EnvelopePaced
  <2>2. ch' = [ch EXCEPT ![c] = x]
    BY <1>5 DEF Apu!WriteControl
  <2>3. freq' \in 0..Apu!FreqMax
    BY <1>5, ApuFacts DEF Apu!WriteControl, Apu!WithHigh, ApuInv, Apu!FreqMax
  <2> HIDE DEF x
  <2> QED
    BY <1>5, <2>1, <2>2, <2>3, ChannelWrite DEF Apu!WriteControl, ApuInv
<1>6. ASSUME NEW c \in played, NEW lenOn \in BOOLEAN, NEW hi \in BOOLEAN,
             Apu!Trigger(c, lenOn, hi)
      PROVE  ApuInv'
  <2> DEFINE f == IF c = Swept THEN Apu!WithHigh(freq, hi) ELSE freq
             swings == c = Swept /\ sweep.shift # 0 /\ Apu!Swing(sweep, f) > Apu!FreqMax
             old == [ch[c] EXCEPT !.lenOn = lenOn]
             t == Apu!Triggered(old, LenMax[c])
             x == [t EXCEPT !.active = t.active /\ ~swings]
  <2>1. old \in ChannelStates(c)
    BY DEF ApuInv, ChannelStates
  <2>2. /\ t \in ChannelStates(c) /\ t.len > 0 /\ t.active = t.dac
    BY <2>1, TriggeredSound
  <2>3. swings \in BOOLEAN
    OBVIOUS
  <2>4. ch' = [ch EXCEPT ![c] = x] /\ power
    BY <1>6 DEF Apu!Trigger
  <2> HIDE DEF t, swings
  <2>5. x \in ChannelStates(c) /\ NoteSound(x, power)
    BY <2>2, <2>3, <2>4 DEF ChannelStates, NoteSound
  <2>6. freq' \in 0..Apu!FreqMax
    BY <1>6, ApuFacts DEF Apu!Trigger, Apu!WithHigh, ApuInv, Apu!FreqMax
  <2>7. \A p \in 0..PeriodMax : Apu!TimerFor(p) \in 1..LongTimer
    BY ApuFacts DEF Apu!TimerFor
  <2>8. sweep' \in SweepStates
    <3>1. sweep.period \in 0..PeriodMax
      BY DEF ApuInv, SweepStates
    <3>2. Apu!TimerFor(sweep.period) \in 0..LongTimer
      BY <2>7, <3>1, ApuFacts
    <3>3. Apu!TriggeredSweep(sweep) \in SweepStates
      BY <3>2 DEF Apu!TriggeredSweep, ApuInv, SweepStates
    <3> QED
      BY <1>6, <3>3 DEF Apu!Trigger, ApuInv
  <2>9. /\ env' \in [Enveloped -> EnvelopeStates]
        /\ c \in Enveloped => env'[c].timer > 0
        /\ \A d \in Enveloped \ {c} : env'[d] = env[d]
    <3>1. CASE c \in Enveloped
      <4>1. /\ Apu!TriggeredEnvelope(env[c]) \in EnvelopeStates
            /\ Apu!TriggeredEnvelope(env[c]).timer > 0
        BY <3>1, TriggeredEnvelopeSound DEF ApuInv
      <4>2. env' = [env EXCEPT ![c] = Apu!TriggeredEnvelope(env[c])]
        BY <1>6, <3>1 DEF Apu!Trigger, ApuInv
      <4> QED
        BY <3>1, <4>1, <4>2 DEF ApuInv
    <3>2. CASE c \notin Enveloped
      BY <1>6, <3>2 DEF Apu!Trigger, ApuInv
    <3> QED
      BY <3>1, <3>2
  <2> HIDE DEF x
  <2>10. /\ EnvelopePaced(c, x, env')
         /\ \A d \in Channels \ {c} : EnvelopePaced(d, ch[d], env')
    BY <2>9 DEF EnvelopePaced, ApuInv
  <2>11. UNCHANGED <<power, seq>>
    BY <1>6 DEF Apu!Trigger
  <2> QED
    BY <2>4, <2>5, <2>6, <2>8, <2>9, <2>10, <2>11, ChannelWrite
<1>7. ASSUME NEW lo \in 0..(LowMod - 1), Apu!WriteFreqLow(lo) PROVE ApuInv'
  <2>1. freq \div LowMod \in {0, 1}
    <3>1. \A m \in Nat \ {0} : \A a \in 0..(2 * m - 1) : a \div m \in {0, 1}
      OBVIOUS
    <3> QED
      BY <3>1, ApuFacts DEF ApuInv, Apu!FreqMax
  <2>2. freq' \in 0..Apu!FreqMax
    BY <1>7, <2>1, ApuFacts DEF Apu!WriteFreqLow, Apu!FreqMax
  <2> QED
    BY <1>7, <2>2
       DEF Apu!WriteFreqLow, ApuInv, NoteSound, EnvelopePaced, ChannelStates,
           EnvelopeStates, SweepStates, Apu!FreqMax
<1>8. ASSUME NEW period \in 0..PeriodMax, NEW shift \in Shifts, NEW negate \in BOOLEAN,
             Apu!WriteSweep(period, shift, negate)
      PROVE  ApuInv'
  <2>1. sweep' \in SweepStates
    BY <1>8 DEF Apu!WriteSweep, ApuInv, SweepStates
  <2> QED
    BY <1>8, <2>1
       DEF Apu!WriteSweep, ApuInv, NoteSound, EnvelopePaced, ChannelStates,
           EnvelopeStates, SweepStates, Apu!FreqMax
<1>9. CASE Apu!PowerOff
  BY <1>9, ClearedSound DEF Apu!PowerOff, ApuInv
<1>10. CASE Apu!PowerOn
  BY <1>10
     DEF Apu!PowerOn, ApuInv, NoteSound, EnvelopePaced, ChannelStates, EnvelopeStates,
         SweepStates, Apu!FreqMax
<1>11. CASE Apu!Reset
  BY <1>11, ClearedSound DEF Apu!Reset
<1> QED
  BY <1>1, <1>2, <1>3, <1>4, <1>5, <1>6, <1>7, <1>8, <1>9, <1>10, <1>11
     DEF Apu!PlayOn

LEMMA ApuStart == Apu!Init => ApuInv
<1> SUFFICES ASSUME Apu!Init PROVE ApuInv
  OBVIOUS
<1>1. Apu!NoEnvelope \in EnvelopeStates /\ Apu!NoSweep \in SweepStates
  BY ApuFacts DEF Apu!NoEnvelope, Apu!NoSweep, EnvelopeStates, SweepStates
<1>2. \A c \in Channels : Apu!Silent \in ChannelStates(c) /\ ~Apu!Silent.active
  BY ApuFacts DEF ChannelStates, Apu!Silent
<1>3. 0 \in 0..Apu!FreqMax
  BY ApuFacts DEF Apu!FreqMax
<1> QED
  BY <1>1, <1>2, <1>3 DEF Apu!Init, ApuInv, NoteSound, EnvelopePaced

LEMMA ApuSound == ApuInv => Apu!TypeOK /\ Apu!NotesSound
  BY DEF ApuInv, Apu!TypeOK, Apu!NotesSound, NoteSound, EnvelopePaced, ChannelStates,
         EnvelopeStates, SweepStates, Apu!Periods

(***************************************************************************)
(* The three together.                                                     *)
(***************************************************************************)

IInv == ApuInv /\ MapperInv /\ Joypad!EveryPressAnnounced

LEMMA InitIInv == Init => IInv
<1>1. Joypad!Init => Joypad!EveryPressAnnounced
  BY DEF Joypad!Init, Joypad!EveryPressAnnounced, Joypad!PulledLow
<1> QED
  BY <1>1, ApuStart, MapperInit DEF Init, IInv

LEMMA NextIInv == IInv /\ [Next]_vars => IInv'
<1> SUFFICES ASSUME IInv, [Next]_vars PROVE IInv'
  OBVIOUS
\* A part out of focus keeps its invariant.
<1>1. UNCHANGED apu => ApuInv'
  BY DEF IInv, apu, ApuInv, NoteSound, EnvelopePaced, ChannelStates, EnvelopeStates,
         SweepStates, Apu!FreqMax
<1>2. UNCHANGED mapper => MapperInv'
  BY DEF IInv, mapper, MapperInv, Mapper!TypeOK, Mapper!Kinds, Mapper!Bytes
<1>3. UNCHANGED joypad => Joypad!EveryPressAnnounced'
  BY DEF IInv, joypad, Joypad!EveryPressAnnounced, Joypad!PulledLow
<1>4. CASE (\/ focus = "square" /\ Apu!PlayOn({Swept})
            \/ focus = "wave" /\ Apu!PlayOn({Wave}))
           /\ UNCHANGED <<joypad, mapper>>
  BY <1>2, <1>3, <1>4, ApuFacts, ApuStep DEF IInv
<1>5. CASE Joypad!Next /\ UNCHANGED <<apu, mapper>>
  BY <1>1, <1>2, <1>5, JoypadStep DEF IInv
<1>6. CASE Mapper!Next /\ UNCHANGED <<apu, joypad>>
  BY <1>1, <1>3, <1>6, MapperStep DEF IInv
<1>7. CASE UNCHANGED vars
  BY <1>1, <1>2, <1>3, <1>7 DEF IInv, vars
<1> QED
  BY <1>4, <1>5, <1>6, <1>7 DEF Next

LEMMA InductiveInvariant == Spec => []IInv
  BY InitIInv, NextIInv, PTL DEF Spec

\* Registers of the sound unit and the cartridge keep to their ranges; the
\* sweep never pushes a frequency past 11 bits (apu.c, cart.c).
THEOREM PartsTypeCorrect == Spec => []TypeOK
<1>1. IInv => TypeOK
  BY ApuSound DEF IInv, MapperInv, TypeOK
<1> QED
  BY InductiveInvariant, <1>1, PTL

\* No order of register writes lets a note outlive its power, its DAC or its
\* length, or its envelope run at every clock (chan_trigger_*, chan_len_tick,
\* envelope_tick of apu.c).
THEOREM PartsNotesSound == Spec => []NotesSound
<1>1. IInv => NotesSound
  BY ApuSound DEF IInv, NotesSound
<1> QED
  BY InductiveInvariant, <1>1, PTL

\* Every line of P1 that reads as pressed was announced by an interrupt
\* (gb_joypad_write, gb_joypad_set_buttons).
THEOREM PartsEveryPressAnnounced == Spec => []EveryPressAnnounced
<1>1. IInv => EveryPressAnnounced
  BY DEF IInv, EveryPressAnnounced
<1> QED
  BY InductiveInvariant, <1>1, PTL

\* The two ROM windows show different banks of every image whose size keeps
\* the lower bank bits apart (gb_cart_read).
THEOREM PartsWindowsApart == Spec => []WindowsApart
<1>1. IInv => WindowsApart
  BY MapperWindows DEF IInv, WindowsApart
<1> QED
  BY InductiveInvariant, <1>1, PTL

\* What is stored in cartridge RAM is read back through every later setting of
\* the registers that selects it (gb_cart_read, gb_cart_write).
THEOREM PartsRamReadsBack == Spec => []RamReadsBack
<1>1. IInv => RamReadsBack
  BY MapperReads DEF IInv, RamReadsBack
<1> QED
  BY InductiveInvariant, <1>1, PTL
=============================================================================
