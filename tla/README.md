# A formal model of AArch

AArch is a multi-system emulator in C11: eleven machine cores behind one C API
(`include/emu/emu.h`), a shared library of CPU interpreters and state
serialization (`src/common`), and a command line front end. This directory holds
TLA+ models of its control logic, TLC configurations that check them on small
instances, and TLAPS proofs of the results that hold for every instance.
`PROJECT.json` is the index: components, runs, mutants, the source lines behind
each definition, hazards, findings and theorems. Source paths in it start at the
directory above this one (`src/src/mgbx/timer.c` is the repository's
`src/mgbx/timer.c`).

## 1. The system

Everything is single threaded. A host calls `create`, `load_rom`, `run_frame` and
so on; within `run_frame` a core steps its CPU and hands the cycles it took to the
other chips, one after the other. What makes the code hard is therefore not
threads but *order*: a chip's step comes after the bus writes of an instruction
that may have changed its registers at any point of its own protocol; host calls
come between any two frames; requests, reloads, latches and DMA bytes stand
between the step that caused them and the step that delivers them; and a save
may be taken and loaded at any frame.

| component | state | operations | interacts with | hard part |
|---|---|---|---|---|
| mgbx timer (`timer.c`) | counter, TIMA, TMA, TAC, pending reload | step, 4 register writes, reset | requests interrupt 2; stepped by the frame loop | overflow delivered one step late, writes in between, ticks made by DIV writes |
| mgbx CPU control (`cpu.c`, `mem.c`) | IME and its delay, HALT, STOP, halt bug, IF, IE, OAM DMA | step, dispatch, DMA step | everything writes IF; DMA reads the bus | EI/DI/HALT orders, a dispatch whose push writes IF, DMA taking the CPU's place |
| mgbx PPU (`ppu.c`) | beam, STAT, LYC, LCDC | dot, register writes, reset | interrupts 0 and 1, frame buffer | LCD switched in any dot; stored coincidence and mode bits |
| mgbx APU (`apu.c`) | four channels, sequencer, power, output buffer | step, 20 register writes, reset | host's audio callback | triggers, lengths, DACs and power in any order |
| mgbx joypad (`joypad.c`) | selection, keys | select, set_buttons | interrupt 4, host input | keys and selection change independently |
| mgbx cartridge (`cart.c`) | ROM, RAM, bank registers, clock | load, reset, bus reads and writes, tick | host images | bank registers written one at a time; two-write latch; carries |
| mgbx frame loop (`mgbx.c`) | cycles run, audio position | run_frame, set_audio_callback, load_state, reset | all of the above | where one call ends and the next begins |
| state writer and reader (`common/util.c`) | cursor, size, overflow/bad flag | sw_*, sr_* | every core | short buffers and cut blobs, noticed field by field |
| core API (`emu.h` and eleven implementations) | the machine, the ROM, the host's blob | create, load_rom, reset, run_frame, state_size, save_state, load_state | host | what each operation covers and in which order it checks |
| core registry (`common/registry.c`) | table of cores | lookup, probe | host | order of probes |
| ARM, SH-2, SH-4 interpreters (`common/`) | registers, modes and banks, the next address | step, interrupts, exceptions | mds-a, supercastpro, ms-32, supersaturn | what each entry saves and each return restores, delay slots, banked registers |
| beatle-nes-redux | 6502, PPU, APU, mappers, bus | step functions, register writes | interrupt lines sampled by the frame loop | NMI as an edge of a computed level, two IRQ sources, serial ports of MMC1 and controller, MMC3's counter |
| supersnes | 65816, PPU, DMA/HDMA, APU | same | DMA and HDMA share an address | HDMA's tables a line at a time, emulation and native interrupts, the beam's events |
| mgbax | ARM7, PPU, DMA, timers, SWI in C | same | timers clock the sound FIFO, which asks for DMA | cascades, DMA triggers, handlers entered from C, HALT and the waits |
| finalburn | 68000, Z80, VDP, YM2612, PSG | same | VDP and YM2612 interrupt both processors | stacks and SR of the 68000, bus request, VDP command halves |
| ms-32 | a finalburn machine, two SH-2s, adapter | same | finalburn | handshakes through COMM registers |
| beatle-psx | R3000, GTE, GPU, DMA, counters | same | DMA feeds GP0 | branch delay and exceptions, GP0 words, interrupt masks |
| supersaturn | two SH-2s, SCU, SMPC, VDP1/2 | same | | SCU interrupt order |
| mds-a | ARM9, ARM7, IPC, timers, 2D | same | | two CPUs a line at a time |
| m64-b | VR4300, RCP registers | same | VI and MI interrupt the CPU | interrupts between a branch and its slot, EXL, the VI's latch |
| supercastpro | SH-4, TA, AICA, TMU | same | | TMU underflow, TA queue |
| CLI (`tools/aarch/main.c`) | none between calls | | core API | file I/O only |

## 2. What is modelled

The Game Boy core (mgbx) is modelled completely at the level of control; the
state serialization and the API lifecycle are modelled for all eleven cores. Of the
other cores and the shared interpreters, the processors' control (interrupts,
exceptions, returns, modes, delay slots), the arithmetic in which carries and
overflows are easily wrong, and the devices with a protocol of their own are.
Definitions carry the source's names where TLA+ allows; each is mapped to its lines
in `PROJECT.json`.

**`GbTimer`** (`timer.c`). `Step` is `gb_timer_step`, the `Write...` actions the
four cases of `gb_timer_write`, `Acknowledge` the CPU's dispatch. The counter
width, TIMA's width and the watched bits are constants. `owed` counts overflows
that were neither delivered nor cancelled. `IntervalTimer` is what a program is
promised (a countdown of a period, no counter bits); `RateSpec` says that
`GbTimer` implements it, with `left` mapped to the cycles until the watched bit
falls.

**`GbCpu`** (`cpu.c`, `mem.c`). `Step` is `gb_cpu_step` with its early returns as
alternatives: `DmaStep`, `SleepStep` (STOP and HALT), `ExecStep`. An instruction is
EI, DI, RETI, HALT, STOP or a plain one, with at most one bus write that reaches this state;
so is the push of a dispatch, whose address the program controls. `Request` is
any component's `gb_request_interrupt`. `gate`, `served` and `wroteIf` are history.

**`GbPpu`** (`ppu.c`). `Dot` is one round of `gb_ppu_step`'s loop. Register writes come
between rounds. `drawn` counts the calls of `render_line`; what they draw is left
out. A source of the STAT interrupt is a member of `sources`.

**`GbApu`** (`apu.c`). `Clock` is one step of the frame sequencer, the others are
register writes. Channels, volumes, periods and frequency width are
constants; `Swept` has the sweep, `Wave` has no envelope. Waveforms, the noise
register and mixing are left out.

**`GbJoypad`** (`joypad.c`) compares the bytes of P1 as the code does: the lines and, above
them, two bits that fall with the first group selected (`Upper`). **`GbMapper`** and **`GbRtc`** (`cart.c`): the mapper keeps one cell for a
RAM bank and a number for a ROM bank. The clock's registers are a function from
register to value; `SecondsClock` is what it promises, one number of seconds, and
`ClockSpec` says `GbRtc` implements it: the registers read as digits are its time,
the halt bit a program reads (`stop`) is its halt flag although the code ticks by
the other copy (`halt`), and the history variable `wrote` tells a program's write
from a tick, so that a tick may move the time only as a clock does.

**`GbFrame`** (`mgbx.c`) composes the clocks: one CPU step of t M-cycles moves the beam and
the sample counter by t and the timer by one. Between calls `LoadState` may put
beam, sample counter and buffer position anywhere a save could have had them.

**`StateIo`** (`common/util.c`). A machine is N fields of any sizes. `Write` and `Read` keep
the two ways `sw_u8`/`sr_u8` and `sw_mem`/`sr_mem` have of deciding whether a field
fits, and what each leaves behind when it does not.

**`CoreApi`** (`emu.h` and each core's main file). The fields of a core that the
operations treat alike are one *part*. A profile names the parts `load_rom`
(`boots`), `reset` (`resets`) and serialization (`saves`, in the order in which a blob holds
them) cover, those none of them does (`rest`), the RAM a cartridge may have, the checks `save_state` and `load_state` make, and whether a failed `load_rom`
has already dropped the old ROM. The operations are the same for all cores and read
the profile; the profiles are where the cores differ, and were taken from each
core's `serialize`, `deserialize`, `reset` and `load_rom`. `state_size` changes
nothing and is left out; of the sizes, only that of the cartridge RAM is kept.

Saving and loading are not the identity. A field can be too large for its place in the
blob (`Wide`: a wave length of 256 in mgbx, the attenuation of a silent operator in
finalburn and ms-32) and does not come back as it was (`Cropped`). The position in the sample
buffer is clamped when it is read (`Clamped`). The RAM of the cartridge is as large as
the ROM that is in the machine now, not as the one the blob was saved with: mgbx refuses
the blob, supersnes reads on out of place, and finalburn, which makes its RAM at the
first write, has or has not the place for it (`RamFits`, `RamRead`, `Displaced`). A blob that is cut
loses what lies behind the cut (`Missing`), except what the reader then does not touch
(`LeftAlone`).

The processors of the other consoles:

| module | code | an instruction of the model is | history variables record |
|---|---|---|---|
| `Arm` | `common/arm.c` | MSR, LDM ^, a return, SWI or undefined, BX, a link, or a plain one | `framed`: what each handler has to give back |
| `GbaCpu` | `mgbax/cpu.c`, `swi.c`, `mem.c` | MSR, a return, Halt, IntrWait, SoftReset, the jump that ends a handler, or a plain one | `cut`: the interrupted program |
| `ShCpu` | `common/sh2.c`, `sh4.c` | a delayed branch, TRAPA, RTE, LDC to SR, a write of R, or a plain one | `left`, `known`: interrupted code, and register values by bank |
| `NesCpu` | `beatle-nes-redux/cpu.c`, `nes.c`, `ppu.c`, `apu.c` | SEI/CLI, BRK, JSR, PHP, RTS, PLP, RTI or a plain one | `taken`: the interrupted programs |
| `SnesCpu` | `supersnes/cpu.c` | the same with REP/SEP, XCE, TXS and TCS, pushes and pulls of one to three bytes, a store to the stack, RTL, WAI and STP | `frames`, `held`: one interrupt's frame in memory and the program it interrupted |
| `M68kCpu` | `finalburn/m68k.c` | JSR, RTS, RTE, MOVE to SR, STOP, a trap or a plain one | `broke` |
| `MdBus` | `finalburn/md.c`, `vdp.c`, `z80.c` | CALL, RET, EI/DI, HALT or a plain one of the Z80; of the 68000 its accesses | `cuts` |
| `PsxCpu` | `beatle-psx/cpu.c`, `psx.c`, `hw.c` | a branch, RFE, a write of SR, a trap or a plain one | `path`: the instructions executed and interrupted |
| `N64Cpu` | `m64-b/n64.c` | a branch (likely or not), ERET, a write of SR, a store to a register of the RCP, a trap or a plain one | `left` |

Data and addresses are places of a program of two or three; what an instruction
computes is left out. Each takes the interrupts between the steps where the code
samples them, and each follows the code where the code differs from the chip; the
comment at the head of a module says where that matters, and section 3 lists it. A
program is any sequence of such instructions, except that handlers which do what
their module's head excludes (popping what was not pushed, a branch in a delay
slot) are left out. `SnesCpu` leaves out nothing of the kind: its stack
is memory, the pointer goes where a program or XCE puts it and wraps in page 1 in
emulation mode, and what is popped elsewhere than at the frame followed is anything.
Following one frame, chosen freely among all, is enough for a property of each.

The arithmetic modules evaluate one operation per step on every pair of operands of a
small width: **`ArmData`** (sums and differences with carry and overflow as the two ARM
interpreters compute them, the barrel shifters, the addresses of block
transfers, the square root of the BIOS call), **`ShData`** (T and the overflow of ADDC,
SUBC, NEGC, ADDV and SUBV, MAC and dynamic shifts) and **`ByteData`** (binary and
decimal sums and differences of the 6502, 65816, Z80 and 68000, DAA, division). The
reference is the same operation on integers: `ArithmeticExact` compares value and flags
with it. Operations which the code gets wrong for every operand, or which have no
reader, are not among those compared and are listed in section 3.

The devices: **`GbaTimers`** (`Step` runs all timers for the cycles of one CPU step, `Cascade`
is what `timer_overflow` does to the next), **`GbaDma`** (a block per trigger, from the latched
registers), **`GbaFifo`** (a byte of the stream is the place the channel read it from, so a
lost, doubled or exchanged byte shows), **`PsxGpu`** (`gp0` gathers words; `packet` records
what they were), **`SnesHdma`** (the table is any contents of a small memory; `sent` is what
the last line was sent), **`SnesVideo`** (the beam and what it latches), **`VdpPort`** (`port` is the
code's state, `spoken` the words of the program's command), **`NesCart`** (`told` and `edges`
record what the MMC1 was told and how many edges the MMC3 has seen) and **`NesPad`**.

The `MC...` modules bind constants to small instances. `MCGbParts`, `MCHandhelds` and
`MCConsoles` hold several modules that share no state: the variable `focus` chooses,
once, the one a behaviour exercises, while the others stand still. Nothing
is lost by that, since none of them reads another's variables, and the state
spaces add up instead of multiplying. In `MCConsoles` the variables of nineteen
modules would make a state of nearly sixty, so each instance substitutes some of nine
shared variables, `v1` to `v9`, for its own; those it does not need are 0. History
variables are marked in the modules' declarations; they only record.

## 3. Runs

| run | instance | shows |
|---|---|---|
| timer | 4-bit counter, TIMA of 3 values, 3 of the 4 selections | every interleaving of steps and writes implements the countdown timer (`RateSpec`); no overflow lost or doubled |
| cpu | 2 interrupts, DMA of 2 bytes, 2 pages | interrupts on only after EI or RETI, the halt bug's window, DMA contents, IF bits leave only by dispatch or by a write; HALT and STOP end on an enabled request |
| ppu | 2 + 3 lines of 6 dots | each line drawn once under LCD switching; coincidence; VBlank only over a complete picture; VBlank comes |
| parts | the APU, played on its swept square channel or on its wave channel (length 2, volumes and periods 1); the joypad's two groups of 2 lines; the mapper with 2-bit lower and 1-bit upper banks and images of 2, 4, 6, 8 and 16 banks | a playing note has power, DAC, length and a paced envelope, and its frequency stays in range; every visible press was announced; the two ROM windows never show one bank; RAM reads back what was written |
| clocks | 8 M-cycles a frame, steps of 1 to 3, a sample every 2, a buffer of 7; the clock with 3 registers of 2 values and a second of 4 cycles; the GBA's CPU with 2 interrupts and 2 places | each call meets one VBlank or two and overruns by less than a step; audio taken each frame is complete; the clock implements `SecondsClock`; the latch protocol; a handler gives the interrupted program back (`HandlerReturns`); HALT and the waits end (`HaltEnds`) |
| state_io | byte, 2-byte block, empty block, byte; buffers and blobs 0 to 5 | overflow and truncation are noticed exactly; round trip |
| consoles | nineteen modules; the constants are grouped by module in `MCConsoles` | see below |
| parts_save, clocks_timer, api_gba, snes_joypad, vdp_command | small instances of one component or one core | the five disagreements below, each with its counterexample |

A property of `consoles` is the conjunction of what it means for the parts that have it:

| property | parts | what is at stake |
|---|---|---|
| `ProgramResumes` | arm, sh, nes, snes, psx, n64, m68k, bus | every step that returns gives back the place, and what was saved of the status, of the program that was interrupted, at any nesting the bounds allow (in the 65816: for as long as no byte of its frame is written over, wherever XCE or the program moved the stack in between); what trapped in a branch delay slot runs again after its branch |
| `ContextHeld` | arm, sh, m68k | banked link and status registers, R0-R7 of the SH-4 and the two stacks of the 68000 hold what their mode left in them |
| `LineFresh` | nes, bus | the interrupt line or level a processor polls is the one the devices' flags give, after any read, write, reset or end of line |
| `CountersExact` | timers, cart | a step of any length counts the ticks, and the overflows of a cascade, that as many single ones would; the MMC3's first interrupt comes at the edge the latch says |
| `TransfersExact` | dma, sound | blocks go on where the last one ended, unless the channel was enabled anew; the FIFO's bytes arrive in order, each once |
| `TableFollowed` | hdma | each line is sent what the table in memory says for it, by a definition that reads the table from its start |
| `PortsWhole` | gpu, cart, pad | what is written or read in pieces arrives as one whole, after any interruption by a reset |
| `ArithmeticExact` | arm_alu, bytes, sh_alu | values and flags are those of the integers |
| `GoodLoadRestores`, `CycleIsIdentity` | api | a load that reports success restores every serialized part; with the same RAM, saving and loading the same moment changes nothing; excepted are fields too large for the format, and, with RAM of another size, that RAM and what supersnes reads |

Its properties say what the code does guarantee. Where the code saves less than the
chip would, the property asks for what was saved and the difference is
listed below: the 68000 gives the place back but not the interrupt level (its SR is
pushed as already changed), and `M68k!ProgramResumes` does not ask for it.

The bounds are small because the code distinguishes few cases: a register's
width matters at its wrap, a counter at 0, 1 and its end, a buffer at one less,
as much and one more than it needs. Each instance has at least two values on either
side of each such edge. The bounds that are not the code's own are `LagMax` (the timer's
lag is counted up to 3), the caps on `vblanks` and `made`, the depth of the stacks of the 6502, the Z80
and the 68000 (3, 2 and 2 items) and the frames of the SH processors (1: a handler of theirs is
not interrupted in this run; with 2 the focus `sh` alone has 465696 states and passes too; the proofs
hold for any depth), and `MaxFrames`: in the focus `api` one
frame suffices, because a part is then either as at power-on, as the frame left it,
torn or cropped, and a profile cannot tell more. There, a sample buffer of one pair is
empty or full, and RAM of none, one and two units gives every outcome of
comparing two sizes. In the focus `snes` two pages of four bytes are RAM and a third is not, so that a
frame can lie across the end of page 1, at its other side after XCE, or where nothing is
stored; a program's place is one place in one of two banks.

The audio buffer of `clocks` has room for one frame and less than two, as the code's
has (1024 pairs, about 549 a frame). `DmaFaithful` needs a transfer of two bytes to
have a byte behind and a byte ahead of the index. Stacks of two or three items let an
interrupt come into a handler; addresses that wrap after three places distinguish an
instruction, its successor and a branch target; a word of three or four bits has every
combination of signs, carries and overflows, and shifts by less, as much and more
than it. Digits of base 4, with decimal ones of 3, leave one value that is no digit.
Cascades of two timers overflow several times in a step of four. The largest run,
`consoles`, has about a million states.

All runs check deadlock.

### Disagreements between code and documentation

Five are runs expected to fail, each with one property that says what the quoted
line says.

| run | the code | the text |
|---|---|---|
| parts_save | a wave length of 256 is saved in a byte and comes back as 0: the note never ends | "internal state must match exactly" (`tests/mgbx/state.c:81`) |
| clocks_timer | one timer step per CPU step | "called once per M-cycle" (`timer.c:54`) |
| api_gba | mgbax's background registers are not saved | round trip into a fresh core (`tests/common/state.c:9`) |
| snes_joypad | the dot is advanced before it is compared with 0, so no controller is latched and no NMI raised | "controller auto-read (active-low, latched at the start of VBlank)" (`supersnes/mem.c:3`) |
| vdp_command | a word is passed on as two bytes and every two bytes are a command | "otherwise a two-word data command" (`finalburn/vdp.c:26`) |

The following were met while reading the code for the models. No run is about
them; the models follow the code.

- The Game Boy's TAC is 0 after reset, timer off; `timer.c:47` says "enabled, 4096 Hz".
- P1 reads 0xCF with no group selected and 0x0F with one (`joypad.c:8`, `:10`, `:22`, `:24`), and
  `:39` and `:49` compare whole bytes: selecting a group requests interrupt 4 with no key
  down. The comment at `joypad.c:38` says "interrupt on any selected line newly pressed".
  `GbJoypad` follows the code (`Upper`); `EveryPressAnnounced` claims that no press is missed,
  not that every interrupt is a press.
- STAT reports mode 2 in lines 145 to 153; `ppu.c:5` says "144-153 VBlank". `GbPpu` sets
  the mode as the code does, and `PpuModeAtBeam` claims it of visible lines only.
- A call of `mgbx_run_frame` drops its overrun, so now and then one meets two VBlanks;
  `emu.h:91` says "Run exactly one video frame." `NewPicture` allows one or two.
- An audio callback set late finds the buffer full of the first frames' samples and
  gets those, not "the whole frame's audio" (`emu.h:47`). `AudioComplete` speaks of hosts
  that take the audio of every frame.
- The MBC3's seconds carry at 256 like every register; the test only asks for
  `<= 59u` (`tests/mgbx/cart.c:119`) of a clock that has not run for a minute.
- The YM2612's operators start at an attenuation of 32768, which `md.c:528` writes as 16 bits
  and `md.c:661` reads as -32768: a silent operator comes back with no attack to go through, and
  one that decays passes through full volume, where `tests/common/state.c:12` says "repeated save/load cycles never diverge from a plain run".
  The sample position is clamped against the buffer of the machine that loads
  (`mgbx.c:328`, `nes.c:286`), so a position beyond that buffer comes back as 0.
- finalburn makes its cartridge's RAM at the first write (`finalburn/cart.c:80`): a blob saved
  after it lacks a place in a fresh core, which ignores the RAM and reports success, and one
  saved before it is refused once the machine has RAM, though `emu.h:30` calls
  `EMU_EBADSTATE` "save-state blob corrupt or foreign". supersnes reads a blob saved with larger
  RAM without noticing (`snes.c:249`).
- The NES core does not serialize CHR RAM, and its reset leaves the PPU alone
  (`nes.c:67`); `emu.h:89` says "back to power-on state".
- The DS's palette and OAM survive `load_rom`, which announces to "clear writable
  machine memory" (`ds.c:815`).
- `psx_save_state` fills a short buffer before it answers `EMU_ENOSPACE` (`emu.h:29`:
  "nothing written"), and `psx_load_state` answers `EMU_ENOROM` to a bogus blob when it
  holds no ROM, where `tests/common/api_lifecycle.c:10` expects `EMU_EBADSTATE`.
- ms-32's `state_size` is computed from structure sizes, and the Dreamcast's varies
  with the length of the TA queue (`dc.c:543`), so that it can be stale by the time
  `save_state` is called; `tests/common/state.c:5` asks for a size that is "stable and
  equals the exact byte count".

In the other cores and the shared interpreters:

- `common/arm.c`: LDM ^ with PC does not restore CPSR; SUB in Thumb state computes V with the
  wrong grouping (`arm.c:930`, `:965`), so `ArmData` does not compute it; LSR by more than 32 carries out as one by 32; entering FIQ does not exchange
  R8-R12 (no core raises it). Returns and exceptions round a Thumb place to a word.
- mgbax: a timer's overflow clocks the next one but not the one after, while `timer.c:4` says
  "cascade chains ch0->1->2->3"; an immediate repeated channel runs again at blanks, and
  clearing the enable bit leaves it enabled; an interrupt enabled while no handler is installed
  keeps the CPU from executing at all. `GbaCpu`, `GbaTimers` and `GbaDma` follow the code.
- `common/sh2.c`, `sh4.c`: an interrupt stacks the address after next, so that the instruction in
  between is lost, and is accepted in a delay slot. `ShCpu!SrRestored` speaks of SR only.
  DIV1, MULU.W, XTRCT and the S bit of MAC differ from the manual; so do BT/S and BF/S of the SH-2.
- Z80 (`finalburn/z80.c`): HALT ends only with a reset, where `z80.c:714` says "Halt until INT"; the
  parity flag replaces the overflow; SBC sets carry from the old one; EI has no delay.
  The interrupt of the VDP stays until the 68000 reads the status.
- Mega Drive bus (`md.c:102`): the 68000's writes to the Z80's memory are refused exactly while it
  holds the bus; a word written to the VDP's data port steps the address twice.
- 68000 (`finalburn/m68k.c`): SR is pushed as the exception has already changed it, so RTE neither
  lowers the mask nor leaves supervisor mode; BSR does nothing and BHI acts as BSR
  (`m68k.c:1674`); MOVEM to a predecremented address, the shift's type, the carry of
  shifts, ADDX, SUBX, CMP's X and EOR differ from the manual.
- 65816 (`supersnes/cpu.c`): a native interrupt keeps the bank, RTI and PLP the widths of the code
  they end; JSR pushes a byte more than RTS takes; the decimal carry comes from the binary sum.
  Nothing raises IRQ; reading $4210 clears NMI's enable. A count of 0 makes a DMA transfer nothing.
  HDMA uses general DMA's address and a header of two bytes for units of several.
- 6502 and NES: an OAM DMA stalls 513 cycles always; with rendering off the blank's flag stays
  until it is read; a write of $2000 raises no NMI; reset leaves PPU and controller. The MMC1 starts
  with 32K banks where `cart.c:105` says "MMC1 default: 16K fixed at C000"; the MMC3 switches 16K for 8K,
  and a counter that reloads from 0 interrupts at that edge.
- beatle-psx: an interrupt's EPC is the instruction last executed, which runs twice
  (`psx.c:182`); RFE merges levels; E1 to E6 take a parameter too many; acknowledging I_STAT is by
  writing 1.
- m64-b: a trap's EPC is the instruction after it; a second exception overwrites EPC although EXL is
  set; writing V_CURRENT does not clear the MI's bit, and written past V_INTR it latches the
  interrupt again in the same frame (`n64.c:708`).

The arithmetic left out of `ArithmeticExact` for such differences: V of Thumb SUB, LSR by
more than W, the 65816's carries of a decimal ADC and a word SBC, and the carry of the
Z80's SBC. Results and the other flags of these are compared.

## 4. Fairness

Only steps the host's loop makes are fair, and three runs assume any. `GbCpu` and
`GbPpu` have weak fairness of `Step` and of `Dot`, because `mgbx_run_frame` calls
`gb_cpu_step` and `gb_ppu_step` until the frame is over and the host calls it for
frame after frame. `MCHandhelds` has weak fairness of `Sleep`, the step of `gba_cpu_step` that
finds the CPU halted: `gba_run_frame` calls it over and over too, and while the CPU is
halted it takes no other step. A host that stops asks for nothing. Register writes,
requests, resets and host calls are never fair: `Wakeup`, `VBlankComes` and `HaltEnds` say under
which of them the promise stands.

## 5. Proofs

Every invariant and action property of the passing runs is proved, and both refinements;
the liveness properties are not.

| module | theorems | argument |
|---|---|---|
| `GbTimerProofs` | type correctness, `OverflowAccounted`, what TIMA can be while a reload is pending (`TimerStrayTick`), `RateSpec` | the conjunction of the first three is inductive; for the refinement, a counter that is left alone reaches the next fall of its watched bit after exactly the cycles the mapping says, because a period divides the counter's range |
| `GbCpuProofs` | type correctness, `ImeJustified`, `HaltBugShadow`, `DmaFaithful`, that a transfer ends only with its last byte copied (`CpuDmaComplete`), `RequestKept` | `IInv`, the conjunction of the four invariants, is inductive; the others need the types, for the lines a dispatch may pick and the bytes a write may reach. The dispatch is treated once and used by both steps that make it; the action properties follow step by step |
| `GbPpuProofs` | type correctness, `DrawnBehindBeam`, STAT's mode in the picture (`PpuModeAtBeam`), `CoincidenceSound`, `VBlankAfterPicture` | the beam's position determines what was drawn; the action property follows from the same invariant at the end of the last visible line |
| `StateIoProofs` | type correctness, `OverflowExact`, `BadExact`, `RoundTrip`, and that a save reporting success holds the whole machine (`IoSavedWhole`) | strengthened by `Saving` (while a save runs the machine stands still and what fitted is in the buffer) and `LoadsWhole` (only a whole blob is loaded) |
| `GbPartsProofs` | type correctness, `NotesSound`, `EveryPressAnnounced`, `WindowsApart`, `RamReadsBack` | an invariant for each of the three parts. `WindowsApart` needs how bank registers of a lower and an upper part divide by the image's size; `RamReadsBack` that no two settings select one RAM bank for two histories |
| `HandheldsProofs` | type correctness, `NewPicture`, `AudioComplete`, `ClockSpec`, `LatchProtocol`, `HandlerReturns` | the VBlanks met follow from the distance the beam has come, `acc` (`Met`); the samples made from the M-cycles run, by division; the interrupted program of the GBA from where the bank of interrupt mode is kept (`IrqStatus`, `IrqStack`); the clock is treated below |
| `DeviceProofs` | `PortsWhole`, `TransfersExact`, `TableFollowed`, `CountersExact`, `GoodLoadRestores`, `CycleIsIdentity` | one invariant per device, stated in the device's module: `PortInv` (GP0), `SerialInv` and `CounterInv` (MMC1, MMC3), `PadInv`, `BlocksInv`, `TableInv`, `SavedInv`; `FifoInv`. `SavedInv` adds that the blob is of the machine last saved and the buffer never more than full (`AudioStep`), so that a reader whose RAM fits finds every part as it was written (`ReadBack`) |
| `ProcessorProofs` | `LineFresh`, `ContextHeld`, `ProgramResumes`, `ArithmeticExact`, type correctness of all nineteen parts | one invariant per processor, and the arithmetic case by case, both below |

What the processors' invariants say, beyond the run's properties:

- 65816: the frame followed lies where the stack pointer was when it was pushed and holds
  the interrupted program; every write takes it out unless it misses all four of its
  bytes, so an RTI that finds the stack back there pops them.
- 6502, Z80: each program that was interrupted has its frame at a recorded
  height of the stack, heights descend with nesting, and nothing of a frame is popped
  before its return (`Lies`).
- 68000: the two stack pointers are where the mode says, each exception's frame lies
  where its history entry says, and a stack never shrinks below the marks of those
  that have not returned.
- ARM: for each mode with a bank, link and saved status in the current registers if the
  mode is current, in its bank if not.
- SH-2 and SH-4: banked R0-R7 by the bank bit that was set when they were left, and the SRs
  stacked by the interrupts not yet returned from.
- R3000: the three levels of interrupt enable against the levels that the history
  says were interrupted; the slot bit and EPC against the branch before it.
- VR4300: while EXL is set, EPC is the place the history noted, in a slot its branch.

`GbaTimers` runs a step's cycles at once, and `CascadeExact` compares with as many single
ticks. Both are recursive: the proof gives the state after k ticks in closed form (the
counter's value and how often it has wrapped, by division) and shows that a single
tick and the step over all timers agree with it. `TableInv` of `SnesHdma` says of a channel
that it stands where the definition that reads the table from its start arrives: at the
nth line of a block whose place that definition gives.

**Recursion.** The library's induction theorems take an operator as a parameter and cannot be
used. The proofs here need no such instance: `UpTo` says that a *set* that holds 0, and
with k also k + 1, holds every number up to n (the least number outside it, from
the well-foundedness of `<`, would be a contradiction), and `Iterated` that a chain of
n steps exists as a function. A recursive function of the model is then the
function `Iterated` gives, and what is true of it follows from `UpTo`. In this way `ClockSpec` is
proved for any number of registers of any range: `Spans` gives the number of values
the last k registers can show, `Seconds` reads them as a number, which stays below its
span (`NumberBelow`), is at its end exactly if all registers are (`NumberFull`) and
moves by one when the registers ripple (`NumberRipples`).

**Arithmetic.** Nothing is carried from step to step, so `ArithmeticExact` needs no
strengthening: each operation is shown to leave what the integers say, for registers of
any size, and the step lemmas (`BytesStep`, `ShAluStep`, `ArmAluStep`) put the
operations together, the first two at the end of `DeviceProofs`.

- Sums and differences: a result that wraps has wrapped at most once (`WrapOnce`), and what
  the formulas ask of the top bits is then a linear fact (`SumWraps`, `DifferenceWraps`).
  A 64-bit MAC needs that a signed product is less than half of its range (`ShMac`).
- Decimal digits: a byte is two digits in base `Nib`. A correction moves a digit past those
  that are not decimal (`DigitMoved`, `DigitBack`), and its carry is the one that the
  decimal sum has at this digit (`DecimalDigits`, `DecimalBorrows`). DAA does not see the operands,
  only the binary sum and its half carry (`DaaAfterSum`, `DaaAfterDifference`).
- Division: at most one quotient leaves a remainder smaller than the divisor and with the sign
  of the dividend (`TruncatesIsDivision`). So V says that no quotient of the size exists, not only
  that the one computed does not fit.
- Shifts: a register is cut at bit k into a multiple of 2^k and the bits below. One more shift
  moves the cut by a bit (`CutMoves`), hence n shifts by one leave what the shifter
  computes at once (`ManyShifted`, `ArmShiftIs`), up to the width and past it. Powers of two are the
  function `Two`, of which `UpTo` gives the law of products (`TwosMultiply`).
- The square root: after each step v is what x exceeds the square of the root found by, and r is
  that root times the place p of its last bit; x is less than the square of the root and p
  together (`IsPartialRoot`). In the end p is 1.

The theorems hold for every value of the constants under the named assumptions
of the modules. TLC evaluates each on a passing run. Most ask for non-empty ranges. Those that
say more, and what in the code justifies them:

| assumption | asks | because |
|---|---|---|
| `TimerAssumption` | a period divides the counter's range | the periods are powers of two (`timer.c:15`) |
| `FrameAssumption` | no step is longer than a frame; the audio buffer holds the samples of a frame, a step and one more | 70224 T-cycles; 1024 pairs for about 549 |
| `RtcAssumption` | no step is longer than a second | 4194304 cycles |
| `MapperAssumption` | images of two banks at least, registers that select more than one | what `gb_cart_load` accepts |
| `ApuAssumption` | the timer of an envelope without a period is longer than any period | 8 against 7 |
| `FifoAssumption` | a burst fits a queue that is low enough to ask for one | 16 bytes at 16 of 32 |
| `GpuAssumption` | packets fit the FIFO of 64 words | `gpu.c`'s `fifo` |
| `TimersAssumption`, `DmaAssumption` | counters have two values, prescalers are not 0 | 16 bits; 1, 64, 256, 1024 |
| `ArmAssumption` | modes are among the six of the processor, an address rounded to a word is not odd | `arm.c` |
| `CartAssumption` | the history counts further than the latch | a bound of the model |
| `PsxCpuAssumption` | exceptions nest at most twice | SR has three levels |
| `ByteDataAssumption` | a digit has an even number of values, decimal digits are among them | 16 and 10 |
| `ShDataAssumption`, `ArmDataAssumption` | a register has a top bit, one of `ArmData` a second bit | 32 bits |
| `HdmaAssumption`, `N64Assumption`, `M68kAssumption`, ... | sizes that are not 0, places enough for a branch | |

The results in parentheses are proved only; the others are also checked by a run.

Only model-checked: the liveness properties `HaltEnds`, `Wakeup` and `VBlankComes` (TLAPS proves
nothing under fairness), and the properties of the runs that are expected to fail,
which are false.

## 6. What is left out

Not modelled of the instruction sets: moves, logic, addressing modes, cycle counts and
floating point, which have no control a model would add to. Rasterizers, sound
synthesis, the GTE, the RSP and decompression calls are data computations. Of the
devices: DMA and root counters of beatle-psx, the SCU and SMPC of supersaturn, IPC,
timers and scheduler of mds-a, the adapter of ms-32, TMU, TA and AICA of supercastpro,
the YM2612's timers, the SPC700, the DMC channel (nothing starts its timer).
The Game Boy's serial port is not implemented by the code. Files and the command
line are I/O; the registry is a constant table and a test of signatures.
`common/skeleton.c` is a template without users.

## 7. Plan

Built so far, in order: the Game Boy (timer, CPU control, PPU, frame loop, APU, joypad,
cartridge), state I/O, the core API, the shared interpreters, the processors and
devices of the other consoles; proofs for all of them.

A new module joins a run of modules it shares no state with, and says its hazards in
the properties of that run, so that the number of runs stays small.

Next, in order:

1. mds-a: IPC synchronization and FIFO with an abstract mailbox they implement, and
   the line scheduler.
2. beatle-psx DMA and root counters, the ms-32 adapter, the SCU, the TMU.
