------------------------------ MODULE GbaFifo ------------------------------
(***************************************************************************)
(* A sound FIFO of the Game Boy Advance core and the DMA channel behind    *)
(* it (src/mgbax/apu.c, dma.c): the selected timer's overflows take a byte *)
(* each, the program appends bytes, halfwords or words, and whenever few   *)
(* are left the channel appends a burst.  FIFO A tries channels 1 and 2,   *)
(* FIFO B 2 and 3; one FIFO with one channel stands for both.              *)
(*                                                                         *)
(* A byte is the place the channel read it from, or a label saying that it *)
(* is not part of the channel's present stream.                            *)
(***************************************************************************)
EXTENDS Integers, Sequences

CONSTANTS
  Depth,   \* bytes the FIFO holds (32)
  Low,     \* at or below this many it asks for more (16)
  Burst,   \* bytes of a request (16)
  PosMod,  \* places of the memory read (2^32)
  Stores   \* bytes the program appends at once (1, 2, 4)

FifoAssumption ==
  /\ Depth \in Nat /\ Low \in Nat /\ Burst \in Nat \ {0} /\ Low + Burst <= Depth
  /\ PosMod \in Nat /\ PosMod > Depth /\ Stores \subseteq Nat

VARIABLES
  fifo,      \* queued bytes, the next to play first
  source,    \* the channel's source address
  fifoDma,   \* [on, fixed]: the channel is enabled for sound, source fixed
  resetBit,  \* SOUNDCNT_H's reset bit as last written
  due        \* history: the next byte of the stream to leave the FIFO

vars == <<fifo, source, fifoDma, resetBit, due>>

Places == 0..(PosMod - 1)
Program == -1
Old == -2
Labels == {Program, Old}

Init ==
  /\ fifo = <<>> /\ source = 0 /\ due = 0
  /\ fifoDma = [on |-> FALSE, fixed |-> FALSE]
  /\ resetBit = FALSE

-----------------------------------------------------------------------------

\* fifo_append: bytes beyond the depth are discarded.
Appended(q, bytes) ==
  q \o SubSeq(bytes, 1, IF Len(bytes) < Depth - Len(q) THEN Len(bytes)
                        ELSE Depth - Len(q))

\* What the channel reads; the bytes of a fixed source are no stream.
Read == [i \in 1..Burst |->
           IF fifoDma.fixed THEN Old ELSE (source + i - 1) % PosMod]

\* fifo_cpu_appended and the end of fifo_pop, with gba_dma_fifo_request: the
\* FIFO holds q and asks if no more than Low are left.
Refill(q) ==
  IF Len(q) <= Low /\ fifoDma.on
    THEN /\ fifo' = Appended(q, Read)
         /\ source' = IF fifoDma.fixed THEN source ELSE (source + Burst) % PosMod
    ELSE fifo' = q /\ UNCHANGED source

\* fifo_pop: an empty FIFO asks for nothing.
PopEager ==   \* mutant: asks before the byte has left
  IF fifo = <<>> THEN UNCHANGED vars
  ELSE /\ IF Len(fifo) <= Low + 1 /\ fifoDma.on
            THEN /\ fifo' = Tail(Appended(fifo, Read))
                 /\ source' = IF fifoDma.fixed THEN source
                              ELSE (source + Burst) % PosMod
            ELSE fifo' = Tail(fifo) /\ UNCHANGED source
       /\ due' = IF Head(fifo) \in Labels THEN due ELSE (due + 1) % PosMod
       /\ UNCHANGED <<fifoDma, resetBit>>

Pop ==
  IF fifo = <<>> THEN UNCHANGED vars
  ELSE /\ Refill(Tail(fifo))
       /\ due' = IF Head(fifo) \in Labels THEN due ELSE (due + 1) % PosMod
       /\ UNCHANGED <<fifoDma, resetBit>>

\* A store of n bytes by the program: appended whole, then the request.
Store(n) ==
  /\ Refill(Appended(fifo, [i \in 1..n |-> Program]))
  /\ UNCHANGED <<fifoDma, resetBit, due>>

\* A write of SOUNDCNT_H: the reset bit empties the FIFO, and asks for bytes
\* only if it was clear before.
WriteSoundControl(reset) ==
  /\ resetBit' = reset
  /\ IF reset /\ ~resetBit THEN Refill(<<>>)
     ELSE fifo' = (IF reset THEN <<>> ELSE fifo) /\ UNCHANGED source
  /\ due' = IF reset THEN source ELSE due
  /\ UNCHANGED fifoDma

\* What is queued is no part of a stream that begins elsewhere.
Aged == [i \in DOMAIN fifo |-> IF fifo[i] = Program THEN Program ELSE Old]

\* gba_dma_write: a new source address, or a new control word.
WriteSource(v) ==
  /\ source' = v /\ due' = v /\ fifo' = Aged
  /\ UNCHANGED <<fifoDma, resetBit>>

WriteDmaControl(c) ==
  /\ fifoDma' = c
  /\ IF c.fixed # fifoDma.fixed
       THEN fifo' = Aged /\ due' = source
       ELSE UNCHANGED <<fifo, due>>
  /\ UNCHANGED <<source, resetBit>>

Next ==
  \/ Pop
  \/ \E n \in Stores : Store(n)
  \/ \E reset \in BOOLEAN : WriteSoundControl(reset)
  \/ WriteSource(0)
  \/ \E c \in [on : BOOLEAN, fixed : BOOLEAN] : WriteDmaControl(c)

Spec == Init /\ [][Next]_vars

-----------------------------------------------------------------------------

TypeOK ==
  /\ fifo \in Seq(Places \cup Labels) /\ Len(fifo) <= Depth
  /\ {source, due} \subseteq Places
  /\ fifoDma \in [on : BOOLEAN, fixed : BOOLEAN] /\ resetBit \in BOOLEAN

\* The bytes of the stream in a queue, where the next to play is d and the next
\* to be read s: each is followed by the next place's, whatever lies between.
Streamed(q) == {i \in 1..Len(q) : q[i] \notin Labels}

Intact(q, s, d) ==
  /\ Streamed(q) = {} => s = d
  /\ \A j \in Streamed(q) :
       /\ (\A k \in Streamed(q) : j <= k) => q[j] = d
       /\ (\A k \in Streamed(q) : k <= j) => s = (q[j] + 1) % PosMod
  /\ \A i, j \in Streamed(q) :
       i < j /\ (\A k \in Streamed(q) : k <= i \/ j <= k) => q[j] = (q[i] + 1) % PosMod

\* What the channel has read is queued or was played, in order and each byte
\* once: no burst meets a FIFO without room for all of it, whatever stores of
\* the program come between.
StreamIntact == Intact(fifo, source, due)
=============================================================================
