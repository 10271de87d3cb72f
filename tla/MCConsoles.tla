----------------------------- MODULE MCConsoles -----------------------------
(* The processors and devices of the other consoles, and the calls that    *)
(* all eleven cores answer; in these models they share no state, and a     *)
(* behaviour exercises the part in focus.  Their variables would make a    *)
(* state of nearly sixty of which a step changes a few, so the parts take  *)
(* turns in the same nine: an instance says which of v1 to v9 stand for    *)
(* its variables, and its bounds.                                          *)
EXTENDS Integers

CONSTANTS
  Foci,                                          \* the parts to exercise
  NTimers, CounterMod, Div, TimerCycles, TimerReloads,
  DmaMod, MaxCount, CountMod, DmaBlanks, DmaValues,
  Depth, FifoLow, Burst, PosMod, Stores,         \* of the sound FIFO
  ArmModes, ArmPlaces, Odd, ArmWord, ArmWidth,
  Nib, Ten,                                      \* of a byte of two digits
  ShWords, ShPlaces, MaxLevel, ShFrames, ShValues,
  NesPlaces, NesStack,
  SnesBanks, SnesPlaces, PageSize, Pages, RamPages,
  PsxPlaces, PsxDepth,
  Params, Sizes, MaxPoints,                      \* of the PlayStation's GP0
  N64Places, LastLine,
  M68kSpots, Levels, MaxDeep,
  Z80Spots, MaxZ80,
  TableMod, LineMod, Bytes, HdmaUnits, Lines,    \* of an HDMA table
  Bits, Fixed, Groups, LatchMax, EdgeMax,        \* of the NES cartridges
  NButtons, ReadMax,
  Cores, MaxFrames, OutCap, RamSizes

VARIABLES focus, v1, v2, v3, v4, v5, v6, v7, v8, v9

vars == <<focus, v1, v2, v3, v4, v5, v6, v7, v8, v9>>

Timers == INSTANCE GbaTimers WITH
  Cycles <- TimerCycles, Reloads <- TimerReloads,
  counter <- v1, reload <- v2, prescaler <- v3, tmCtrl <- v4, tmIf <- v5, tmRan <- v6
Dma == INSTANCE GbaDma WITH
  Blanks <- DmaBlanks, AddrMod <- DmaMod, Values <- DmaValues,
  sad <- v1, dad <- v2, dadLatch <- v3, count <- v4, countLatch <- v5, dmaCtrl <- v6,
  enabled <- v7, asked <- v8, runs <- v9
Sound == INSTANCE GbaFifo WITH
  Low <- FifoLow, fifo <- v1, source <- v2, fifoDma <- v3, resetBit <- v4, due <- v5
Shared == INSTANCE Arm WITH
  Word <- ArmWord, Places <- ArmPlaces, arm <- v1, line <- v2, framed <- v3
ArmAlu == INSTANCE ArmData WITH W <- ArmWidth, alu <- v1
Digits == INSTANCE ByteData WITH math <- v1
ShAlu == INSTANCE ShData WITH M <- ShWords, calc <- v1
Sh == INSTANCE ShCpu WITH
  NPlaces <- ShPlaces, MaxFrames <- ShFrames, Values <- ShValues,
  sh <- v1, left <- v2, known <- v3
Nes == INSTANCE NesCpu WITH
  Places <- NesPlaces, MaxStack <- NesStack,
  nes <- v1, ppu <- v2, flags <- v3, taken <- v4
Snes == INSTANCE SnesCpu WITH
  Banks <- SnesBanks, Places <- SnesPlaces, snes <- v1, frames <- v2, held <- v3
Psx == INSTANCE PsxCpu WITH
  NPlaces <- PsxPlaces, MaxDepth <- PsxDepth, psx <- v1, stat <- v2, path <- v3
Gpu == INSTANCE PsxGpu WITH gp0 <- v1, packet <- v2
N64 == INSTANCE N64Cpu WITH
  NPlaces <- N64Places, n64 <- v1, rcp <- v2, vi <- v3, left <- v4
M68k == INSTANCE M68kCpu WITH
  Spots <- M68kSpots, m68k <- v1, stacks <- v2, broke <- v3
Bus == INSTANCE MdBus WITH
  Spots <- Z80Spots, z80 <- v1, bus <- v2, ints <- v3, cuts <- v4
Hdma == INSTANCE SnesHdma WITH
  Units <- HdmaUnits, AddrMod <- TableMod, memory <- v1, hdma <- v2, line <- v3, sent <- v4
Cart == INSTANCE NesCart WITH
  mapper <- v1, mmc1 <- v2, told <- v3, mmc3 <- v4, edges <- v5
Pad == INSTANCE NesPad WITH pad <- v1, seen <- v2
Api == INSTANCE CoreApi WITH
  core <- v1, rom <- v2, machine <- v3, frames <- v4, blob <- v5,
  image <- v6, fresh <- v7, loaded <- v8

ASSUME DevicesFit ==
  /\ Timers!TimersAssumption /\ Dma!DmaAssumption /\ Sound!FifoAssumption
  /\ Gpu!GpuAssumption /\ Hdma!HdmaAssumption /\ Cart!CartAssumption
  /\ Pad!PadAssumption /\ Api!ApiAssumption

ASSUME ProcessorsFit ==
  /\ Shared!ArmAssumption /\ ArmAlu!ArmDataAssumption
  /\ Digits!ByteDataAssumption /\ ShAlu!ShDataAssumption /\ Sh!ShAssumption
  /\ Nes!NesCpuAssumption /\ Snes!SnesCpuAssumption /\ Psx!PsxCpuAssumption
  /\ N64!N64Assumption /\ M68k!M68kAssumption /\ Bus!MdBusAssumption

\* The prescaler and the words of the run.
EveryTwo == [s \in {0} |-> 2]
WordOfBoth == [p \in {"a", "b"} |-> "a"]

-----------------------------------------------------------------------------

\* The variables that a part with n of them does not use are 0.
Blank(n) ==
  /\ n < 2 => v2 = 0
  /\ n < 3 => v3 = 0
  /\ n < 4 => v4 = 0
  /\ n < 5 => v5 = 0
  /\ n < 6 => v6 = 0
  /\ n < 7 => v7 = 0
  /\ n < 8 => v8 = 0
  /\ n < 9 => v9 = 0

Init ==
  /\ focus \in Foci
  /\ \/ focus = "timers" /\ Timers!Init /\ Blank(6)
     \/ focus = "dma" /\ Dma!Init
     \/ focus = "sound" /\ Sound!Init /\ Blank(5)
     \/ focus = "arm" /\ Shared!Init /\ Blank(3)
     \/ focus = "arm_alu" /\ ArmAlu!Init /\ Blank(1)
     \/ focus = "bytes" /\ Digits!Init /\ Blank(1)
     \/ focus = "sh_alu" /\ ShAlu!Init /\ Blank(1)
     \/ focus = "sh" /\ Sh!Init /\ Blank(3)
     \/ focus = "nes" /\ Nes!Init /\ Blank(4)
     \/ focus = "snes" /\ Snes!Init /\ Blank(3)
     \/ focus = "psx" /\ Psx!Init /\ Blank(3)
     \/ focus = "gpu" /\ Gpu!Init /\ Blank(2)
     \/ focus = "n64" /\ N64!Init /\ Blank(4)
     \/ focus = "m68k" /\ M68k!Init /\ Blank(3)
     \/ focus = "bus" /\ Bus!Init /\ Blank(4)
     \/ focus = "hdma" /\ Hdma!Init /\ Blank(4)
     \/ focus = "cart" /\ Cart!Init /\ Blank(5)
     \/ focus = "pad" /\ Pad!Init /\ Blank(2)
     \/ focus = "api" /\ Api!Init /\ Blank(8)

Next ==
  /\ UNCHANGED focus
  /\ \/ focus = "timers" /\ Timers!Next /\ UNCHANGED <<v7, v8, v9>>
     \/ focus = "dma" /\ Dma!Next
     \/ focus = "sound" /\ Sound!Next /\ UNCHANGED <<v6, v7, v8, v9>>
     \/ focus = "arm" /\ Shared!Next /\ UNCHANGED <<v4, v5, v6, v7, v8, v9>>
     \/ focus = "arm_alu" /\ ArmAlu!Next /\ UNCHANGED <<v2, v3, v4, v5, v6, v7, v8, v9>>
     \/ focus = "bytes" /\ Digits!Next /\ UNCHANGED <<v2, v3, v4, v5, v6, v7, v8, v9>>
     \/ focus = "sh_alu" /\ ShAlu!Next /\ UNCHANGED <<v2, v3, v4, v5, v6, v7, v8, v9>>
     \/ focus = "sh" /\ Sh!Next /\ UNCHANGED <<v4, v5, v6, v7, v8, v9>>
     \/ focus = "nes" /\ Nes!Next /\ UNCHANGED <<v5, v6, v7, v8, v9>>
     \/ focus = "snes" /\ Snes!Next /\ UNCHANGED <<v4, v5, v6, v7, v8, v9>>
     \/ focus = "psx" /\ Psx!Next /\ UNCHANGED <<v4, v5, v6, v7, v8, v9>>
     \/ focus = "gpu" /\ Gpu!Next /\ UNCHANGED <<v3, v4, v5, v6, v7, v8, v9>>
     \/ focus = "n64" /\ N64!Next /\ UNCHANGED <<v5, v6, v7, v8, v9>>
     \/ focus = "m68k" /\ M68k!Next /\ UNCHANGED <<v4, v5, v6, v7, v8, v9>>
     \/ focus = "bus" /\ Bus!Next /\ UNCHANGED <<v5, v6, v7, v8, v9>>
     \/ focus = "hdma" /\ Hdma!Next /\ UNCHANGED <<v5, v6, v7, v8, v9>>
     \/ focus = "cart" /\ Cart!Next /\ UNCHANGED <<v6, v7, v8, v9>>
     \/ focus = "pad" /\ Pad!Next /\ UNCHANGED <<v3, v4, v5, v6, v7, v8, v9>>
     \/ focus = "api" /\ Api!Next /\ UNCHANGED v9

Spec == Init /\ [][Next]_vars

-----------------------------------------------------------------------------

\* The types of the part in focus.
TypeOK ==
  /\ focus = "timers" => Timers!TypeOK
  /\ focus = "dma" => Dma!TypeOK
  /\ focus = "sound" => Sound!TypeOK
  /\ focus = "arm" => Shared!TypeOK
  /\ focus = "sh" => Sh!TypeOK
  /\ focus = "nes" => Nes!TypeOK
  /\ focus = "snes" => Snes!TypeOK
  /\ focus = "psx" => Psx!TypeOK
  /\ focus = "gpu" => Gpu!TypeOK
  /\ focus = "n64" => N64!TypeOK
  /\ focus = "m68k" => M68k!TypeOK
  /\ focus = "bus" => Bus!TypeOK
  /\ focus = "hdma" => Hdma!TypeOK
  /\ focus = "cart" => Cart!TypeOK
  /\ focus = "pad" => Pad!TypeOK
  /\ focus = "api" => Api!TypeOK

\* Sums, differences, shifts, products, quotients and decimal digits are those
\* of the numbers, flags included (the arithmetic of arm.c, sh2.c, z80.c, ...).
ArithmeticExact ==
  /\ focus = "arm_alu" => ArmAlu!ArithmeticExact /\ ArmAlu!BlocksBalanced
  /\ focus = "bytes" => Digits!ArithmeticExact
  /\ focus = "sh_alu" => ShAlu!ArithmeticExact

\* What is banked or exchanged at a change of mode is where it belongs: saved
\* status and link registers (arm.c), R0-R7 (sh4.c), the two stack pointers of
\* a 68000 (m68k.c).
ContextHeld ==
  /\ focus = "arm" => Shared!ContextHeld
  /\ focus = "sh" => Sh!BanksKept
  /\ focus = "m68k" => M68k!StacksApart

\* Returning from an interrupt or an exception gives the program back: its
\* place and what the processor saved of its status; what trapped in a delay
\* slot runs again after its branch.
ProgramResumes ==
  [][/\ focus = "arm" => Shared!ContextRestored
     /\ focus = "sh" => Sh!SrRestored
     /\ focus = "nes" => Nes!ProgramResumes
     /\ focus = "snes" => Snes!ProgramResumes
     /\ focus = "psx" => Psx!EnableRestored /\ Psx!TrapReplays
     /\ focus = "n64" => N64!Resumes
     /\ focus = "m68k" => M68k!ProgramResumes
     /\ focus = "bus" => Bus!ProgramResumes]_vars

\* The interrupt line a processor polls agrees with what devices assert and the
\* program has acknowledged (update_irq of the NES, recompute_irq of md.c).
LineFresh ==
  /\ focus = "nes" => Nes!LineFresh
  /\ focus = "bus" => Bus!LineFresh

\* Timers that cascade within a long step, and the MMC3's counter, count every
\* tick or edge and announce in time (gba_timers_step, mmc3_chr_clock).
CountersExact ==
  [][/\ focus = "timers" => Timers!CascadeExact
     /\ focus = "cart" => Cart!FirstIrqOnTime']_vars

\* Blocks repeated by a trigger go on where the last ended, and the sound FIFO
\* takes every byte of its bursts in order (dma_transfer, fifo_pop).
TransfersExact ==
  /\ focus = "dma" => Dma!BlocksInOrder
  /\ focus = "sound" => Sound!StreamIntact

\* HDMA sends each line what the table says for it (hdma_channel_line).
TableFollowed == focus = "hdma" => Hdma!TableFollowed

\* A value that goes through a port in pieces arrives whole: GP0's packets, the
\* MMC1's five bits, the controller's buttons (psx_gpu_write_gp0, mmc1_write,
\* nes_bus_read).
PortsWhole ==
  /\ focus = "gpu" => Gpu!PacketsWhole
  /\ focus = "cart" => Cart!SerialWhole
  /\ focus = "pad" => Pad!ButtonsAsStrobed

\* A load that reports success restores what was saved (mgbx_deserialize and
\* its like), and one right after its save changes nothing, as far as the
\* format of the blob has the room.
GoodLoadRestores == focus = "api" => Api!GoodLoadRestores
CycleIsIdentity == [][focus = "api" => Api!CycleIsIdentity]_vars
=============================================================================
