------------------------------ MODULE SnesHdma ------------------------------
(***************************************************************************)
(* A DMA channel of the SNES core (src/supersnes/dma.c): at the end of     *)
(* every line HDMA reads the next part of the channel's table through the  *)
(* address a general DMA moves too, and a program may write it at any      *)
(* time.  A byte of the model holds a flag and a number of lines, as a     *)
(* header's does; the memory the table lies in does not change.            *)
(***************************************************************************)
EXTENDS Naturals

CONSTANTS AddrMod,   \* addresses of the bus (65536)
          LineMod,   \* numbers of lines a byte's low bits hold (128)
          Bytes,     \* the values memory may have
          Units,     \* bytes of a transfer: 1, 2 or 4
          Lines      \* of a frame (262)

HdmaAssumption ==
  /\ AddrMod \in Nat \ {0} /\ LineMod \in Nat \ {0} /\ Lines \in Nat \ {0}
  /\ Bytes \subseteq 0..(2 * LineMod - 1) /\ Units \subseteq {1, 2, 4}

VARIABLES
  memory,   \* what the A-bus reads
  hdma,     \* [on, unit, indirect, abus, reload, left, repeat, finished,
            \*  loaded, pointer]
  line,     \* of the frame
  sent      \* [from, quiet]: where the last line's transfer began, or AddrMod if
            \* none; history: the program left the channel alone in this frame

hdmavars == <<memory, hdma, line, sent>>

Addresses == 0..(AddrMod - 1)
Nowhere == AddrMod

\* snes_dma_reset
Init ==
  /\ memory \in [Addresses -> Bytes]
  /\ hdma = [on |-> FALSE, unit |-> 1, indirect |-> FALSE, abus |-> 0, reload |-> 0,
             left |-> 0, repeat |-> FALSE, finished |-> FALSE,
             loaded |-> FALSE, pointer |-> 0]
  /\ line = 0
  /\ sent = [from |-> Nowhere, quiet |-> FALSE]

-----------------------------------------------------------------------------

At(a) == memory[a % AddrMod]
Low(a) == At(a) + 2 * LineMod * At(a + 1)   \* a little-endian word

\* A block's header: one byte when a unit is one byte, two otherwise.
HeaderSize(u) == IF u = 1 THEN 1 ELSE 2
LinesAt(a, u) ==
  IF u = 1 THEN At(a) % LineMod ELSE At(a) + 2 * LineMod * (At(a + 1) % LineMod)
RepeatAt(a, u) == At(a + HeaderSize(u) - 1) >= LineMod
PointerSize(u) == IF u = 4 THEN 3 ELSE 2

\* The header of the next block, whose first line always transfers.
HeaderUncounted(c) ==   \* mutant: the first line of a block is not counted
  [c EXCEPT !.abus = (@ + HeaderSize(c.unit)) % AddrMod,
            !.repeat = RepeatAt(c.abus, c.unit),
            !.finished = LinesAt(c.abus, c.unit) = 0,
            !.left = LinesAt(c.abus, c.unit),
            !.loaded = @ /\ LinesAt(c.abus, c.unit) = 0]

Header(c) ==
  LET n == LinesAt(c.abus, c.unit) IN
  [c EXCEPT !.abus = (@ + HeaderSize(c.unit)) % AddrMod,
            !.repeat = RepeatAt(c.abus, c.unit),
            !.finished = n = 0,
            !.left = IF n = 0 THEN 0 ELSE n - 1,
            !.loaded = @ /\ n = 0]

\* The address of an indirect block, read at its first transfer.
Loaded(c) ==
  IF c.loaded THEN c
  ELSE [c EXCEPT !.pointer = Low(c.abus) % AddrMod,
                 !.abus = (@ + PointerSize(c.unit)) % AddrMod,
                 !.loaded = TRUE]

Transferred(c) ==
  IF c.indirect THEN [Loaded(c) EXCEPT !.pointer = (@ + c.unit) % AddrMod]
  ELSE [c EXCEPT !.abus = (@ + c.unit) % AddrMod]

\* hdma_channel_line
ChannelLine ==
  LET first == hdma.left = 0
      c == IF first THEN Header(hdma) ELSE [hdma EXCEPT !.left = @ - 1]
      moves == ~c.finished /\ (first \/ hdma.repeat)
  IN IF ~hdma.on \/ hdma.finished THEN [channel |-> hdma, from |-> Nowhere]
     ELSE IF ~moves THEN [channel |-> c, from |-> Nowhere]
     ELSE [channel |-> Transferred(c),
           from |-> IF c.indirect THEN Loaded(c).pointer ELSE c.abus]

\* snes_hdma_init_frame
FrameInit(c) ==
  [c EXCEPT !.abus = c.reload, !.finished = FALSE, !.left = 0, !.repeat = FALSE,
            !.loaded = FALSE, !.pointer = 0]

\* snes_ppu_run at the end of a line
LineEnds ==
  LET last == line + 1 >= Lines
      step == ChannelLine
  IN
  /\ line' = IF last THEN 0 ELSE line + 1
  /\ hdma' = IF last THEN FrameInit(step.channel) ELSE step.channel
  /\ sent' = [from |-> step.from, quiet |-> last \/ sent.quiet]
  /\ UNCHANGED memory

-----------------------------------------------------------------------------

Disturb(c) ==
  /\ hdma' = c
  /\ sent' = [from |-> Nowhere, quiet |-> FALSE]
  /\ UNCHANGED <<memory, line>>

\* Writes of $43x2 and $43x3, of $420C, and of $43x0.
WriteAddress(a) == Disturb([hdma EXCEPT !.abus = a, !.reload = a])
WriteEnable(e) == Disturb([hdma EXCEPT !.on = e])
WriteParams(u, i) == Disturb([hdma EXCEPT !.unit = u, !.indirect = i])

\* A write of $420B with the channel's bit: the general DMA leaves its address
\* where it stopped, after or before where it was.  (A count of 0, meant as
\* 65536, does not fit the variable it is put in and transfers nothing.)
GeneralDma(a) == Disturb([hdma EXCEPT !.abus = a])

Next ==
  \/ LineEnds
  \/ \E a \in Addresses : WriteAddress(a) \/ GeneralDma(a)
  \/ \E e \in BOOLEAN : WriteEnable(e)
  \/ \E u \in Units, i \in BOOLEAN : WriteParams(u, i)

Spec == Init /\ [][Next]_hdmavars

-----------------------------------------------------------------------------

Channels ==
  [on : BOOLEAN, unit : Units \cup {1}, indirect : BOOLEAN, abus : Addresses,
   reload : Addresses, left : Nat, repeat : BOOLEAN, finished : BOOLEAN,
   loaded : BOOLEAN, pointer : Addresses]

\* The types.
TypeOK ==
  /\ memory \in [Addresses -> Bytes] /\ hdma \in Channels
  /\ line \in 0..(Lines - 1) /\ sent \in [from : 0..AddrMod, quiet : BOOLEAN]

\* The table as a list of blocks: the bytes of one, and for a line of the frame
\* the block it falls in and which of its lines it is.
BlockSize(a) ==
  HeaderSize(hdma.unit)
  + (IF hdma.indirect THEN PointerSize(hdma.unit)
     ELSE IF RepeatAt(a, hdma.unit) THEN hdma.unit * LinesAt(a, hdma.unit)
     ELSE hdma.unit)

Place[k \in 0..(Lines - 1)] ==
  IF k = 0 THEN [block |-> hdma.reload, nth |-> 0]
  ELSE LET p == Place[k - 1]
           n == LinesAt(p.block, hdma.unit)
       IN CASE n = 0 -> p
            [] p.nth + 1 < n -> [p EXCEPT !.nth = @ + 1]
            [] OTHER -> [block |-> p.block + BlockSize(p.block), nth |-> 0]

\* Where the transfer of line nth of the block at b comes from, and where the
\* table says that line k's does.
From(b, nth) ==
  LET data == b + HeaderSize(hdma.unit)
      base == IF hdma.indirect THEN Low(data) ELSE data
      silent == LinesAt(b, hdma.unit) = 0 \/ (nth > 0 /\ ~RepeatAt(b, hdma.unit))
  IN IF silent THEN Nowhere ELSE (base + nth * hdma.unit) % AddrMod

Source(k) == From(Place[k].block, Place[k].nth)

\* In a frame in which the program leaves the channel alone every line transfers
\* what the table says, whatever happened to the channel, to its address by a
\* general DMA or in the middle of a block, in the frames before.
TableFollowed ==
  (sent.quiet /\ hdma.on /\ line > 0) => sent.from = Source(line - 1)

\* The channel after line nth of the block at b: its block is the table's end,
\* or it counts what is left of it and holds the address of what comes next.
Within(c, b, nth) ==
  LET n == LinesAt(b, c.unit)
      data == b + HeaderSize(c.unit)
      moved == IF RepeatAt(b, c.unit) THEN nth + 1 ELSE 1
  IN /\ c.finished <=> n = 0
     /\ n > 0 =>
          /\ c.left + nth + 1 = n /\ (c.repeat <=> RepeatAt(b, c.unit))
          /\ c.indirect =>
               /\ c.loaded /\ c.abus = (data + PointerSize(c.unit)) % AddrMod
               /\ c.pointer = (Low(data) + moved * c.unit) % AddrMod
          /\ ~c.indirect => c.abus = (data + moved * c.unit) % AddrMod

\* What makes it so, line after line of a quiet frame.
TableInv ==
  (sent.quiet /\ hdma.on) =>
    /\ line = 0 =>
         hdma.abus = hdma.reload /\ hdma.left = 0 /\ ~hdma.finished
    /\ line > 0 =>
         /\ sent.from = Source(line - 1)
         /\ Within(hdma, Place[line - 1].block, Place[line - 1].nth)
=============================================================================
