------------------------------ MODULE GbMapper ------------------------------
(***************************************************************************)
(* The bank switching of Game Boy cartridges (src/mgbx/cart.c): the ROM    *)
(* banks the two windows of the bus show and the bank of cartridge RAM     *)
(* behind its gate, for the ROM-only, MBC1, MBC2, MBC3 and MBC5 types,     *)
(* while programs write the mapper's registers and the host loads and      *)
(* resets cartridges.                                                      *)
(*                                                                         *)
(* A bank of RAM is one cell; ROM banks are numbers.  The clock of MBC3 is *)
(* in GbRtc, and its registers hide the RAM.                               *)
(***************************************************************************)
EXTENDS Integers

CONSTANTS
  Low,       \* values of MBC1's lower bank register (32)
  High,      \* of its upper one (4)
  Mbc2Mod,   \* of the MBC2 bank register (16)
  ByteMod,   \* of a byte written to the bus (256)
  Mbc5Rams,  \* RAM banks an MBC5 can name (16)
  ClockRegs, \* values of bank2 that select a clock register of MBC3 (8..12)
  RomSizes,  \* banks of the images that load: powers of two, 72, 80 and 96
  RamSizes,  \* banks of RAM
  Cells      \* contents of a bank of RAM, Blank among them
CONSTANTS Blank, OpenBus

Kinds == {"ROM", "MBC1", "MBC2", "MBC3", "MBC5"}
Bytes == 0..(ByteMod - 1)

MapperAssumption ==
  /\ Low \in Nat \ {0, 1} /\ High \in Nat \ {0} /\ Mbc2Mod \in Nat \ {0, 1}
  /\ ByteMod \in Nat \ {0, 1} /\ Mbc5Rams \in Nat \ {0}
  /\ RomSizes \subseteq Nat \ {0, 1}
  /\ RamSizes \subseteq Nat
  /\ Blank \in Cells /\ OpenBus \notin Cells

VARIABLES
  present,    \* a ROM image is loaded
  kind, banks, ramBanks,
  ramOn, bank1, bank2, mode, romBank,
  ram,        \* RAM bank -> cell
  stored      \* history: RAM bank -> what the program last stored through it

vars == <<present, kind, banks, ramBanks, ramOn, bank1, bank2, mode, romBank,
          ram, stored>>
cart == <<present, kind, banks, ramBanks>>

Empty(n) == [b \in 0..(n - 1) |-> Blank]

Init ==
  /\ present = FALSE
  /\ kind = "ROM" /\ banks = 0 /\ ramBanks = 0
  /\ ramOn = FALSE /\ bank1 = 1 /\ bank2 = 0 /\ mode = 0 /\ romBank = 1
  /\ ram = Empty(0) /\ stored = Empty(0)

-----------------------------------------------------------------------------

NonZeroPlain(b) == b   \* mutant: a lower register of 0 is not read as 1
NonZero(b) == IF b = 0 THEN 1 ELSE b

\* rom_bank_ptr: a mask for powers of two, a remainder for the other sizes;
\* both are the remainder.
InRom(bank) == bank % banks

\* The bank the window at 0x4000 shows.
Switchable ==
  CASE kind = "MBC1" -> InRom(((bank2 % High) * Low) + NonZero(bank1 % Low))
    [] kind = "MBC2" -> InRom(NonZero(bank1 % Mbc2Mod))
    [] kind = "MBC3" -> InRom(NonZero(bank1 % (ByteMod \div 2)))
    [] kind = "MBC5" -> InRom(romBank)
    [] OTHER -> 1

\* The bank the window at 0 shows.
Fixed == IF kind = "MBC1" /\ mode = 1 /\ banks > Low THEN InRom(bank2 * Low) ELSE 0

\* The RAM bank a read and a write of 0xA000-0xBFFF select; each computes it.
ReadBank ==
  CASE kind = "MBC1" -> IF mode = 1 THEN bank2 % High ELSE 0
    [] kind = "MBC3" -> bank2 % High
    [] kind = "MBC5" -> bank2
    [] OTHER -> 0

WriteBankModeless ==   \* mutant: a write does not look at MBC1's mode
  IF kind \in {"MBC1", "MBC3"} THEN bank2 % High
  ELSE IF kind = "MBC5" THEN bank2 ELSE 0

WriteBank ==
  CASE kind = "MBC1" -> IF mode = 1 THEN bank2 % High ELSE 0
    [] kind = "MBC3" -> bank2 % High
    [] kind = "MBC5" -> bank2
    [] OTHER -> 0

ClockSelected == kind = "MBC3" /\ bank2 \in ClockRegs

\* MBC2's own RAM is read whatever its gate says.
ReadRam ==
  IF ~ClockSelected /\ ReadBank < ramBanks /\ (ramOn \/ kind = "MBC2")
    THEN ram[ReadBank]
    ELSE OpenBus

\* gb_cart_reset, which also erases the RAM.
ResetRegisters(n) ==
  /\ ramOn' = FALSE /\ bank1' = 1 /\ bank2' = 0 /\ mode' = 0 /\ romBank' = 1
  /\ ram' = Empty(n) /\ stored' = Empty(n)

\* gb_cart_load.  MBC2 has one bank of RAM of its own.
Load(k, n, r) ==
  /\ k = "MBC2" => r = 1
  /\ present' = TRUE /\ kind' = k /\ banks' = n /\ ramBanks' = r
  /\ ResetRegisters(r)

\* A bad header or a truncated image, after the old one has been freed.
LoadFails ==
  /\ present' = FALSE /\ ramBanks' = 0
  /\ ram' = Empty(0) /\ stored' = Empty(0)
  /\ UNCHANGED <<kind, banks, ramOn, bank1, bank2, mode, romBank>>

Reset ==
  /\ ResetRegisters(ramBanks)
  /\ UNCHANGED cart

\* Bus writes; the frame loop runs only with a ROM.  MBC2 tells the gate and
\* the bank register apart by address bit 8.
WriteGate(enable) ==
  /\ present
  /\ ramOn' = enable
  /\ UNCHANGED <<cart, bank1, bank2, mode, romBank, ram, stored>>

WriteBank1(v) ==
  /\ present /\ kind # "MBC5"
  /\ bank1' = IF kind = "MBC2" THEN v % Mbc2Mod ELSE v
  /\ UNCHANGED <<cart, ramOn, bank2, mode, romBank, ram, stored>>

\* MBC5 keeps nine bits, written eight and one at a time.
WriteRomLow(v) ==
  /\ present /\ kind = "MBC5"
  /\ romBank' = ((romBank \div ByteMod) * ByteMod) + v
  /\ UNCHANGED <<cart, ramOn, bank1, bank2, mode, ram, stored>>

WriteRomHigh(bit) ==
  /\ present /\ kind = "MBC5"
  /\ romBank' = (bit * ByteMod) + (romBank % ByteMod)
  /\ UNCHANGED <<cart, ramOn, bank1, bank2, mode, ram, stored>>

WriteBank2(v) ==
  /\ present
  /\ bank2' = IF kind = "MBC5" THEN v % Mbc5Rams ELSE v
  /\ UNCHANGED <<cart, ramOn, bank1, mode, romBank, ram, stored>>

WriteMode(m) ==
  /\ present /\ kind = "MBC1"
  /\ mode' = m
  /\ UNCHANGED <<cart, ramOn, bank1, bank2, romBank, ram, stored>>

WriteRam(x) ==
  /\ present /\ ramOn /\ ~ClockSelected
  /\ WriteBank < ramBanks
  /\ ram' = [ram EXCEPT ![WriteBank] = x]
  /\ stored' = [stored EXCEPT ![ReadBank] = x]
  /\ UNCHANGED <<cart, ramOn, bank1, bank2, mode, romBank>>

Next ==
  \/ \E k \in Kinds, n \in RomSizes, r \in RamSizes : Load(k, n, r)
  \/ LoadFails
  \/ Reset
  \/ \E enable \in BOOLEAN : WriteGate(enable)
  \/ \E v \in Bytes : WriteBank1(v) \/ WriteBank2(v) \/ WriteRomLow(v)
  \/ \E bit \in {0, 1} : WriteRomHigh(bit) \/ WriteMode(bit)
  \/ \E x \in Cells : WriteRam(x)

Spec == Init /\ [][Next]_vars

-----------------------------------------------------------------------------

TypeOK ==
  /\ present \in BOOLEAN /\ kind \in Kinds
  /\ banks \in RomSizes \cup {0} /\ ramBanks \in RamSizes \cup {0}
  /\ ramOn \in BOOLEAN /\ mode \in {0, 1}
  /\ bank1 \in Bytes /\ bank2 \in Bytes /\ romBank \in 0..(2 * ByteMod - 1)
  /\ ram \in [0..(ramBanks - 1) -> Cells] /\ stored \in [0..(ramBanks - 1) -> Cells]

\* The windows never show the same bank of an MBC1, MBC2 or MBC3 image whose
\* size keeps the lower bank bits apart, however the registers are written:
\* bank 0, 32, 64 and 96 of an MBC1 image are out of the switchable window.
WindowsApart ==
  present /\ kind \in {"MBC1", "MBC2", "MBC3"}
          /\ banks % (CASE kind = "MBC1" -> Low
                        [] kind = "MBC2" -> Mbc2Mod
                        [] OTHER -> ByteMod \div 2) = 0
    => Switchable # Fixed

\* What a program stores through the RAM window is what it reads through it
\* under every later setting of gate, banks and mode that selects it again:
\* the read and the write agree on the bank, and nothing else touches it.
RamReadsBack == ReadRam \in {OpenBus} \cup {stored[b] : b \in {ReadBank} \cap DOMAIN stored}
=============================================================================
