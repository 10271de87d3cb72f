SPECIFICATION Spec
CONSTANTS
  Foci = {"wave"}
  Channels = {sq, wave}
  Enveloped = {sq}
  LenMax <- ShortNotes
  Swept = sq
  Wave = wave
  VolMax = 1
  PeriodMax = 1
  LongTimer = 2
  LowMod = 2
  Shifts = {0, 1}
  LenByte = 2
  Groups = {"directions", "actions"}
  Lines = {0, 1}
  Low = 4
  High = 2
  Mbc2Mod = 4
  ByteMod = 8
  Mbc5Rams = 4
  ClockRegs = {4, 5}
  RomSizes = {2, 4, 6, 8, 16}
  RamSizes = {0, 1, 2}
  Blank = Blank
  OpenBus = OpenBus
  Cells = {Blank, "x"}
INVARIANTS RoundTripExact
