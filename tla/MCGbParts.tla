----------------------------- MODULE MCGbParts -----------------------------
(* The sound unit, the joypad and the cartridge's mapper, which share no   *)
(* state: a behaviour exercises the part in focus and leaves the others as *)
(* they start.  Of the sound unit it plays the swept square channel or the *)
(* wave channel, which has a DAC register of its own and no envelope.      *)
EXTENDS Integers

CONSTANTS
  Foci,   \* the parts to exercise
  Channels, Enveloped, LenMax,
  Swept, Wave, VolMax, PeriodMax, LongTimer, LowMod, Shifts, LenByte,
  Groups, Lines,
  Low, High, Mbc2Mod, ByteMod, Mbc5Rams, ClockRegs, RomSizes, RamSizes,
  Cells, Blank, OpenBus

VARIABLES
  focus,
  power, ch, env, sweep, freq, seq,
  select, buttons, irq, announced,
  present, kind, banks, ramBanks, ramOn, bank1, bank2, mode, romBank, ram, stored

apu    == <<power, ch, env, sweep, freq, seq>>
joypad == <<select, buttons, irq, announced>>
mapper == <<present, kind, banks, ramBanks, ramOn, bank1, bank2, mode, romBank,
            ram, stored>>
vars   == <<focus, apu, joypad, mapper>>

Apu    == INSTANCE GbApu
Joypad == INSTANCE GbJoypad
Mapper == INSTANCE GbMapper

ASSUME SoundAssumption == Apu!ApuAssumption /\ {Swept, Wave} \subseteq Channels
ASSUME KeysAssumption == Joypad!JoypadAssumption
ASSUME CartAssumption == Mapper!MapperAssumption

ShortNotes == [c \in Channels |-> 2]   \* lengths to check with

Init == focus \in Foci /\ Apu!Init /\ Joypad!Init /\ Mapper!Init

Next ==
  /\ UNCHANGED focus
  /\ \/ focus = "square" /\ Apu!PlayOn({Swept}) /\ UNCHANGED <<joypad, mapper>>
     \/ focus = "wave" /\ Apu!PlayOn({Wave}) /\ UNCHANGED <<joypad, mapper>>
     \/ focus = "joypad" /\ Joypad!Next /\ UNCHANGED <<apu, mapper>>
     \/ focus = "mapper" /\ Mapper!Next /\ UNCHANGED <<apu, joypad>>

Spec == Init /\ [][Next]_vars

-----------------------------------------------------------------------------

\* The types of the sound unit and of the mapper.
TypeOK == Apu!TypeOK /\ Mapper!TypeOK

\* A playing note has power, DAC, length and a paced envelope (apu.c).
NotesSound == Apu!NotesSound

\* A save and a load give the channels back (tests/mgbx/state.c:81).
RoundTripExact == Apu!RoundTripExact

\* Every press a program can see was announced (joypad.c).
EveryPressAnnounced == Joypad!EveryPressAnnounced

\* The two ROM windows never show the same bank (gb_cart_read).
WindowsApart == Mapper!WindowsApart

\* Cartridge RAM reads back what was written (gb_cart_read, gb_cart_write).
RamReadsBack == Mapper!RamReadsBack
=============================================================================
