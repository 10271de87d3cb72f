------------------------------ MODULE VdpPort ------------------------------
(***************************************************************************)
(* The control port of the Mega Drive's VDP (src/finalburn/vdp.c), as the  *)
(* 68000 reaches it: fb_md_68k_write16 writes a word as two bytes, and     *)
(* every two bytes are taken for a whole command, so that the two words of *)
(* a data command are two commands.                                        *)
(*                                                                         *)
(* A word is its high and its low byte; a byte keeps the bits the decoding *)
(* looks at: for the high one the tag of a register write, CD0 and A8; for *)
(* the low one A0, the DMA flag and A14, which are bits of the second word.*)
(***************************************************************************)
EXTENDS Integers, Sequences

VARIABLES
  port,    \* [pending, w1, write, addr, dma]: cmd_pending, the latched high byte, ...
  spoken   \* history: the words of the command the program is writing

portvars == <<port, spoken>>

Highs == [tag : BOOLEAN, cd0 : BOOLEAN, a8 : BOOLEAN]
Lows == [a0 : BOOLEAN, dma : BOOLEAN, a14 : BOOLEAN]
Zero == [tag |-> FALSE, cd0 |-> FALSE, a8 |-> FALSE]
Words == {w \in [high : Highs, low : Lows] : w.high.tag => ~w.high.cd0}

\* fb_vdp_reset
Init ==
  /\ port = [pending |-> FALSE, w1 |-> Zero, write |-> FALSE, dma |-> FALSE,
             addr |-> [a14 |-> FALSE, a8 |-> FALSE, a0 |-> FALSE]]
  /\ spoken = << >>

-----------------------------------------------------------------------------

\* fb_vdp_write8: the first byte is kept; the second completes a register
\* write, or a command whose address has no low byte.
High(p, b) == [p EXCEPT !.pending = TRUE, !.w1 = b]

Low(p, b) ==
  IF p.w1.tag THEN [p EXCEPT !.pending = FALSE]
  ELSE [p EXCEPT !.pending = FALSE, !.write = p.w1.cd0, !.dma = @ \/ b.dma,
                 !.addr = [a14 |-> b.a14, a8 |-> p.w1.a8, a0 |-> FALSE]]

\* fb_md_68k_write16
WriteWord(w) ==
  /\ port' = Low(High(port, w.high), w.low)
  /\ spoken' = IF w.high.tag THEN << >> ELSE IF Len(spoken) = 2 THEN <<w>> ELSE Append(spoken, w)

\* fb_vdp_read16, status.
ReadStatus ==
  /\ port' = [port EXCEPT !.pending = FALSE]
  /\ spoken' = << >>

\* The DMA ends.
DmaEnds ==
  /\ port.dma
  /\ port' = [port EXCEPT !.dma = FALSE]
  /\ UNCHANGED spoken

Next == ReadStatus \/ DmaEnds \/ \E w \in Words : WriteWord(w)

Spec == Init /\ [][Next]_portvars

-----------------------------------------------------------------------------

\* Once both words of a data command are written, the VDP is at the address
\* and in the direction they name (vdp.c:26-28).
CommandTaken ==
  Len(spoken) = 2 =>
    /\ port.write = spoken[1].high.cd0
    /\ port.addr = [a14 |-> spoken[2].low.a14, a8 |-> spoken[1].high.a8,
                    a0 |-> spoken[1].low.a0]
=============================================================================
