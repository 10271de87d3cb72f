------------------------------ MODULE CoreApi ------------------------------
(***************************************************************************)
(* The lifecycle every core offers behind include/emu/emu.h: create,       *)
(* load_rom, reset, run_frame, save_state and load_state, for each of the  *)
(* eleven cores.  state_size changes nothing and is left out.              *)
(*                                                                         *)
(* A machine is a handful of parts.  The fields of the core's structure    *)
(* that load_rom, reset, serialize and deserialize treat alike are one     *)
(* part, and its content is 0 in the power-on state or the number of the   *)
(* frame that last changed it.  A core's profile says which parts each     *)
(* operation covers and which checks it makes before; what it saves is in  *)
(* the order in which a blob holds the last bytes of each part.            *)
(*                                                                         *)
(* Three parts are not like the others.  The content of `audio' is the     *)
(* position in the host's sample buffer, which the reader clamps.  In      *)
(* `wave' and `levels' a field can be too large for its place in the blob. *)
(* `cartRam' is as large as the ROM in the machine says, or, on the Mega   *)
(* Drive, missing until it is first written.                               *)
(***************************************************************************)
EXTENDS Integers, Sequences

CONSTANTS
  Cores,     \* the cores to consider
  MaxFrames, \* bound: frames emulated
  OutCap,    \* out_cap: where the sample buffer is full
  RamSizes   \* the sizes of RAM that cartridges may have

\* mgbx: power_on is both load_rom's and reset's; the unsaved part is the
\* envelopes' start volumes and the MBC2's own RAM.
Mgbx == [
  boots  |-> {"chips", "wave", "audio", "cartRam", "unsaved"},
  resets |-> {"chips", "wave", "audio", "cartRam", "unsaved"},
  saves  |-> <<"wave", "audio", "cartRam", "chips">>, rest |-> {},
  ram    |-> RamSizes, grows |-> FALSE,
  checks |-> {"null", "rom"}, loadChecks |-> {"id", "rom"},
  drops |-> TRUE]

\* beatle-nes-redux: reset leaves the PPU, the pad and PRG RAM, and what is
\* written to CHR RAM is not serialized.
Nes == [
  boots  |-> {"board", "audio", "ppu", "chrRam"},
  resets |-> {"board", "audio"},
  saves  |-> <<"audio", "board", "ppu">>, rest |-> {},
  ram    |-> {0}, grows |-> FALSE,
  checks |-> {"null", "rom"}, loadChecks |-> {"id", "rom"},
  drops |-> TRUE]

\* supersnes: the write latches and the pads' shift registers are not
\* serialized; battery RAM outlives a reset.
Snes == [
  boots  |-> {"chips", "latches", "cartRam"},
  resets |-> {"chips", "latches"},
  saves  |-> <<"cartRam", "chips">>, rest |-> {},
  ram    |-> RamSizes, grows |-> FALSE,
  checks |-> {"null", "rom"}, loadChecks |-> {"id", "rom"},
  drops |-> TRUE]

\* mgbax: load_rom leaves the memories; nothing resets the PPU, and of its
\* registers only the affine ones are serialized.
Gba == [
  boots  |-> {"chips", "sram"},
  resets |-> {"chips", "memory"},
  saves  |-> <<"memory", "chips", "affine", "sram">>, rest |-> {"bgRegs"},
  ram    |-> {0}, grows |-> FALSE,
  checks |-> {"null", "rom"}, loadChecks |-> {"id", "rom"},
  drops |-> TRUE]

\* finalburn: the chips' cycle accumulators are not serialized.  The levels are
\* the YM2612's attenuations.
Finalburn == [
  boots  |-> {"machine", "levels", "clocks", "cartRam"},
  resets |-> {"machine", "levels", "clocks"},
  saves  |-> <<"levels", "machine", "cartRam">>, rest |-> {},
  ram    |-> {0, 1}, grows |-> TRUE,
  checks |-> {"null"}, loadChecks |-> {"id"},
  drops |-> FALSE]

\* ms-32: a finalburn machine and the 32X adapter behind it.  Only reset
\* clears the adapter; the SH-2s' RAM is neither reset nor serialized.
Ms32 == [
  boots  |-> {"machine", "levels", "clocks", "cartRam"},
  resets |-> {"machine", "levels", "clocks", "adapter"},
  saves  |-> <<"levels", "machine", "cartRam", "adapter">>, rest |-> {"sh2Ram"},
  ram    |-> {0, 1}, grows |-> TRUE,
  checks |-> {"null"}, loadChecks |-> {"id"},
  drops |-> FALSE]

\* beatle-psx: RAM and GTE survive load_rom and reset; a GPU command or
\* transfer under way is not serialized.  load_state wants the ROM first.
Psx == [
  boots  |-> {"chips", "gpuTransfer"},
  resets |-> {"chips", "gpuTransfer"},
  saves  |-> <<"ram", "chips">>, rest |-> {},
  ram    |-> {0}, grows |-> FALSE,
  checks |-> {"rom"}, loadChecks |-> {"romFirst", "id"},
  drops |-> FALSE]

\* supersaturn: load_rom only boots the master SH-2.
Saturn == [
  boots  |-> {"master"},
  resets |-> {"master", "memory"},
  saves  |-> <<"dma", "master", "memory">>, rest |-> {},
  ram    |-> {0}, grows |-> FALSE,
  checks |-> {}, loadChecks |-> {"id"},
  drops |-> FALSE]

\* mds-a: load_rom clears the machine but for palette and OAM, reset only
\* boots; the timers' prescalers are not serialized.
Ds == [
  boots  |-> {"cpus", "memory", "prescalers"},
  resets |-> {"cpus"},
  saves  |-> <<"cpus", "memory", "palette">>, rest |-> {},
  ram    |-> {0}, grows |-> FALSE,
  checks |-> {}, loadChecks |-> {"id"},
  drops |-> FALSE]

\* m64-b: load_rom only boots the CPU; the SP's registers and the latched VI
\* interrupt are not serialized.
N64 == [
  boots  |-> {"cpu"},
  resets |-> {"cpu", "memory", "sp"},
  saves  |-> <<"cpu", "cop0", "memory">>, rest |-> {},
  ram    |-> {0}, grows |-> FALSE,
  checks |-> {}, loadChecks |-> {"id"},
  drops |-> FALSE]

\* supercastpro: reset only boots; the timers' underflow bookkeeping is not
\* serialized, and nothing resets the interrupt controller.
Dc == [
  boots  |-> {"cpu", "chips", "underflow"},
  resets |-> {"cpu"},
  saves  |-> <<"cpu", "intc", "chips">>, rest |-> {},
  ram    |-> {0}, grows |-> FALSE,
  checks |-> {}, loadChecks |-> {"id"},
  drops |-> FALSE]

Profile(c) ==
  CASE c = "mgbx" -> Mgbx
    [] c = "nes" -> Nes
    [] c = "snes" -> Snes
    [] c = "gba" -> Gba
    [] c = "finalburn" -> Finalburn
    [] c = "ms32" -> Ms32
    [] c = "psx" -> Psx
    [] c = "saturn" -> Saturn
    [] c = "ds" -> Ds
    [] c = "n64" -> N64
    [] c = "dc" -> Dc

ApiAssumption ==
  /\ Cores \subseteq {"mgbx", "nes", "snes", "gba", "finalburn", "ms32", "psx",
                  "saturn", "ds", "n64", "dc"}
  /\ MaxFrames \in Nat /\ OutCap \in Nat
  /\ RamSizes \subseteq Nat

VARIABLES
  core,
  rom,         \* the size of the RAM of the cartridge in the machine, or NoRom
  machine, frames,
  blob,        \* what the host holds of the last good save_state
  image, fresh, loaded  \* history: the machine last saved, no frame run
                        \* since create, and loaded with nothing run since

vars == <<core, rom, machine, frames, blob, image, fresh, loaded>>

P == Profile(core)
Elements(s) == {s[i] : i \in DOMAIN s}
Saved == Elements(P.saves)
AllParts == P.boots \cup P.resets \cup Saved \cup P.rest
Parts == DOMAIN machine

NoRom == -1
HasRom == rom # NoRom
Ram == IF HasRom THEN rom ELSE 0
NotThere == IF Ram = 0 THEN {"cartRam"} ELSE {}

Torn == -1     \* content of a part read past the end of a blob
Wide == -2     \* a field of the part is too large for its place in a blob
Cropped == -3  \* a field of the part is not what was saved
Contents == {Torn, Wide, Cropped} \cup 0..MaxFrames \cup 0..OutCap

\* The YM2612's operators start silent, at an attenuation of 32768.
PowerOn(p) == IF p = "levels" THEN Wide ELSE 0
Blank == [p \in AllParts |-> PowerOn(p)]
NoBlob == [ram |-> 0, parts |-> [p \in {} |-> 0]]

Init ==
  /\ core \in Cores
  /\ rom = NoRom /\ machine = Blank /\ frames = 0
  /\ blob = NoBlob
  /\ image = Blank /\ fresh = TRUE /\ loaded = FALSE

-----------------------------------------------------------------------------

\* The host destroys the core, keeps its blob and creates another.
Create ==
  /\ rom' = NoRom /\ machine' = Blank
  /\ fresh' = TRUE /\ loaded' = FALSE
  /\ UNCHANGED <<core, frames, blob, image>>

\* What load_rom puts back.
Booted == [p \in Parts |-> IF p \in P.boots THEN PowerOn(p) ELSE machine[p]]

\* Some cores free the ROM they hold before they look at the new one.
LoadRom(good, ram) ==
  /\ rom' = IF good THEN ram ELSE IF P.drops THEN NoRom ELSE rom
  /\ machine' = IF good THEN Booted ELSE machine
  /\ loaded' = FALSE
  /\ UNCHANGED <<core, frames, blob, image, fresh>>

\* The DS and the Dreamcast reset nothing without a ROM.
ResetParts ==
  machine' = IF HasRom \/ core \notin {"ds", "dc"}
               THEN [p \in Parts |-> IF p \in P.resets THEN PowerOn(p) ELSE machine[p]]
               ELSE machine

Reset ==
  /\ ResetParts
  /\ loaded' = FALSE
  /\ UNCHANGED <<core, rom, frames, blob, image, fresh>>

\* A frame changes any of the parts; without a ROM there is none.  Its samples
\* wait in the buffer, up to where it is full, unless the host takes them.
Changeable == IF P.grows THEN Parts ELSE Parts \ NotThere
Position == {0} \cup {n \in 0..OutCap : n >= machine["audio"]}

Changed(p, full, n) ==
  IF p = "audio" THEN n
  ELSE IF p \in {"wave", "levels"} /\ full THEN Wide
  ELSE frames + 1

RunFrame ==
  /\ \/ /\ HasRom /\ frames < MaxFrames
        /\ frames' = frames + 1
        /\ \E changed \in SUBSET Changeable, full \in BOOLEAN,
              n \in IF "audio" \in Parts THEN Position ELSE {0} :
             /\ machine' = [p \in Parts |->
                              IF p \in changed THEN Changed(p, full, n)
                              ELSE machine[p]]
             /\ rom' = IF "cartRam" \in changed /\ Ram = 0 THEN 1 ELSE rom
        /\ fresh' = FALSE /\ loaded' = FALSE
     \/ /\ ~HasRom
        /\ UNCHANGED <<rom, machine, frames, fresh, loaded>>
  /\ UNCHANGED <<core, blob, image>>

\* What serialize writes.  sw_u8 makes 0 of a wave length of 256; an attenuation
\* of 32768 is written as 16 bits and read as -32768.
SerializedAll == [ram |-> Ram, parts |-> machine]   \* mutant: it lies there whole
Serialized ==
  [ram |-> Ram,
   parts |-> [p \in Saved |-> IF machine[p] = Wide THEN Cropped ELSE machine[p]]]

\* A buffer that is null, too small or large enough; a null one makes the
\* writer count.
SaveResult(room) ==
  IF room = "null" /\ "null" \in P.checks THEN "EINVAL"
  ELSE IF "rom" \in P.checks /\ ~HasRom THEN "ENOROM"
  ELSE IF room = "short" THEN "ENOSPACE"
  ELSE "OK"

SaveState(room) ==
  LET whole == SaveResult(room) = "OK" /\ room = "enough" IN
  /\ blob' = IF whole THEN Serialized ELSE blob
  /\ image' = IF whole THEN machine ELSE image
  /\ loaded' = (loaded /\ ~whole)
  /\ UNCHANGED <<core, rom, machine, frames, fresh>>

\* Only mgbx has the size of the RAM in the blob, and skips no bytes of another
\* size.  The others read as much as the machine has, so that what supersnes
\* reads next is out of place, and so is the adapter's mark in ms-32.
RamFitsAny == TRUE   \* mutant: the sizes are not compared
RamFits ==
  \/ blob.ram = Ram
  \/ core = "mgbx" /\ blob.ram = 0
  \/ core \in {"snes", "finalburn"} /\ Ram < blob.ram

\* The blob of the last save, the beginning of it, or one of another core.
LoadResultTrusting(kind) ==   \* mutant: the reader's verdict is not asked for
  IF kind = "foreign" THEN "EBADSTATE" ELSE "OK"
LoadResult(kind) ==
  IF ~HasRom /\ "romFirst" \in P.loadChecks THEN "ENOROM"
  ELSE IF kind = "foreign" THEN "EBADSTATE"
  ELSE IF ~HasRom /\ "rom" \in P.loadChecks THEN "ENOROM"
  ELSE IF kind = "cut" \/ ~RamFits THEN "EBADSTATE"
  ELSE "OK"

RamRead ==
  IF blob.ram = Ram THEN blob.parts["cartRam"]
  ELSE IF Ram = 0 \/ core = "mgbx" THEN machine["cartRam"]
  ELSE IF Ram < blob.ram THEN Cropped
  ELSE Torn

\* "defensive: never trust state blindly"
ClampedEarly(n) == IF n >= OutCap THEN 0 ELSE n   \* mutant: a full buffer too
Clamped(n) == IF n > OutCap THEN 0 ELSE n

\* The cycle count behind the RAM is not where it was.
Displaced == blob.ram # Ram /\ (core = "snes" \/ (core = "mgbx" /\ blob.ram # 0))

Read(p) ==
  IF p = "cartRam" THEN RamRead
  ELSE IF p = "audio" THEN Clamped(blob.parts[p])
  ELSE IF p = "chips" /\ Displaced THEN Cropped
  ELSE IF p = "adapter" /\ ~RamFits THEN machine[p]
  ELSE blob.parts[p]

\* Reading does not stop at the end of a blob that is cut: all that lies behind
\* is missing.  (A cut in bytes that this machine does not read is none.)
Behind(i) == Elements(SubSeq(P.saves, i, Len(P.saves))) \ NotThere
Missing(kind) ==
  IF kind = "own" THEN {{}} ELSE {Behind(i) : i \in DOMAIN P.saves} \ {{}}

\* What is missing is torn, but mgbx does not read RAM whose size is missing, and
\* ms-32 not the adapter behind a machine that was refused or without its mark.
LeftAlone(missing) ==
  IF core = "mgbx" THEN IF "audio" \in missing THEN {{"cartRam"}} ELSE {{}, {"cartRam"}}
  ELSE IF core = "ms32" THEN IF missing = {"adapter"} THEN {{}, {"adapter"}}
                             ELSE {{"adapter"}}
  ELSE {{}}

DeserializeFromBlank(kind) ==   \* mutant: begins with a power-on
  machine' = [p \in Parts |-> IF p \in Saved THEN Read(p) ELSE PowerOn(p)]
Deserialize(kind) ==
  LET saved == Saved IN
  \E missing \in Missing(kind) : \E left \in LeftAlone(missing) :
    machine' = [p \in Parts |->
                  IF p \in missing THEN IF p \in left THEN machine[p] ELSE Torn
                  ELSE IF p \in saved THEN Read(p)
                  ELSE machine[p]]

LoadState(kind) ==
  LET result == LoadResult(kind) IN
  /\ kind = "foreign" \/ blob # NoBlob
  /\ loaded' = (result = "OK" \/ (loaded /\ kind = "foreign"))
  /\ IF result = "OK" \/ (result = "EBADSTATE" /\ kind # "foreign")
       THEN Deserialize(kind)
       ELSE UNCHANGED machine
  /\ UNCHANGED <<core, rom, frames, blob, image, fresh>>

Next ==
  \/ Create
  \/ \E good \in BOOLEAN, ram \in P.ram : LoadRom(good, ram)
  \/ Reset
  \/ RunFrame
  \/ \E room \in {"null", "short", "enough"} : SaveState(room)
  \/ \E kind \in {"own", "cut", "foreign"} : LoadState(kind)

Spec == Init /\ [][Next]_vars

-----------------------------------------------------------------------------

\* Among the types: a blob holds the parts the format names and no other, and
\* none with a field too large for it.
TypeOK ==
  /\ core \in Cores /\ rom \in {NoRom} \cup P.ram
  /\ machine \in [AllParts -> Contents] /\ frames \in 0..MaxFrames
  /\ image \in [AllParts -> Contents]
  /\ \/ blob = NoBlob
     \/ blob \in [ram : P.ram \cup {0}, parts : [Saved -> Contents \ {Wide}]]
  /\ fresh \in BOOLEAN /\ loaded \in BOOLEAN

\* As long as nothing runs after a load_state that reported success, every
\* part the format holds is what it was when the blob was saved, whatever
\* frames, ROMs, resets, refused and truncated loads lay between.  Excepted are
\* a part with a field too large for the format and, when the blob is of a
\* cartridge with RAM of another size, that RAM, and whatever supersnes read.
GoodLoadRestores ==
  loaded =>
    \A p \in Saved :
      \/ machine[p] = image[p]
      \/ image[p] = Wide /\ machine[p] = Cropped
      \/ blob.ram # Ram /\ (p = "cartRam" \/ core = "snes")

\* Saving and loading the same moment changes no part, those that the format
\* leaves out included, but the ones with a field too large for it: for these
\* a cycle is not what tests/common/state.c says of it, "repeated save/load
\* cycles never diverge from a plain run".
CycleIsIdentity ==
  loaded' /\ image = machine /\ blob.ram = Ram =>
    \A p \in Parts : machine[p] # Wide => machine'[p] = machine[p]

\* A blob loaded into a core that has run nothing gives the machine that was
\* saved (the round trip of tests/common/state.c).
FreshRoundTrip == loaded /\ fresh /\ HasRom => machine = image

\* What the host holds is of the machine last saved, and the sample buffer is
\* never more than full: GoodLoadRestores with what the next load will find.
SavedInv ==
  /\ \/ blob = NoBlob
     \/ blob.parts = [p \in Saved |-> IF image[p] = Wide THEN Cropped ELSE image[p]]
  /\ "audio" \in Saved => machine["audio"] <= OutCap /\ image["audio"] <= OutCap
  /\ GoodLoadRestores
=============================================================================
