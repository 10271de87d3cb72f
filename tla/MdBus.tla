------------------------------- MODULE MdBus -------------------------------
(***************************************************************************)
(* The Mega Drive core's turns (src/finalburn/md.c, vdp.c, z80.c): the     *)
(* 68000 runs a chunk, then the Z80 does, unless the 68000 holds its bus   *)
(* or its reset; the VDP's and the YM2612's interrupts are made into the   *)
(* 68000's level and the Z80's line.                                       *)
(*                                                                         *)
(* Of the 68000 only what it reads and writes is here.  Whether the        *)
(* H-interrupt's counter expires is left open.  Programs of the Z80 that   *)
(* reach the ports through their window, or pop what they did not push,    *)
(* are left out.                                                           *)
(***************************************************************************)
EXTENDS Integers, Sequences

CONSTANTS Spots,    \* of the Z80's program
          MaxZ80    \* bound: addresses on the Z80's stack

MdBusAssumption == Spots # {} /\ MaxZ80 \in Nat \ {0}

VARIABLES
  z80,    \* [pc, iff1, iff2, halted, pend, stack]
  bus,    \* [turn, held, reset]: z80_busreq, z80_reset
  ints,   \* [v, h, z, ym, venab, henab, line]: vint_68k, hint_68k, vint_z80, ym.irq,
          \* VDP enables, int_line
  cuts    \* history: [pc, deep] of the Z80 interrupts not yet returned from

busvars == <<z80, bus, ints, cuts>>

Z80Reset(p) ==
  [pc |-> p, iff1 |-> FALSE, iff2 |-> FALSE, halted |-> FALSE, pend |-> FALSE,
   stack |-> << >>]
First == CHOOSE p \in Spots : TRUE   \* address 0

\* fb_power_on
Init ==
  /\ z80 = Z80Reset(First)
  /\ bus = [turn |-> "68k", held |-> FALSE, reset |-> TRUE]
  /\ ints = [v |-> FALSE, h |-> FALSE, z |-> FALSE, ym |-> FALSE,
             venab |-> FALSE, henab |-> FALSE, line |-> 0]
  /\ cuts = << >>

\* recompute_irq
Level(n) == IF n.v THEN 6 ELSE IF n.h THEN 4 ELSE IF n.ym THEN 2 ELSE 0

-----------------------------------------------------------------------------

\* fb_md_68k_write8 at $A11100 and $A11200; VDP registers 0 and 1.
Hold(v) ==
  /\ bus.turn = "68k"
  /\ bus' = [bus EXCEPT !.held = v]
  /\ UNCHANGED <<z80, ints, cuts>>

WriteReset(v) ==
  /\ bus.turn = "68k"
  /\ bus' = [bus EXCEPT !.reset = v]
  /\ IF v THEN z80' = Z80Reset(First) /\ cuts' = << >> ELSE UNCHANGED <<z80, cuts>>
  /\ UNCHANGED ints

Enable(v, h) ==
  /\ bus.turn = "68k"
  /\ ints' = [ints EXCEPT !.venab = v, !.henab = h]
  /\ UNCHANGED <<z80, bus, cuts>>

\* fb_vdp_read16, status: the level falls to 0, the YM2612's too.
StatusReadStale ==   \* mutant: the level is left to the end of the chunk
  /\ bus.turn = "68k"
  /\ ints' = [ints EXCEPT !.v = FALSE, !.h = FALSE, !.z = FALSE]
  /\ UNCHANGED <<z80, bus, cuts>>

StatusRead ==
  /\ bus.turn = "68k"
  /\ ints' = [ints EXCEPT !.v = FALSE, !.h = FALSE, !.z = FALSE, !.line = 0]
  /\ UNCHANGED <<z80, bus, cuts>>

Pass ==
  /\ bus.turn = "68k"
  /\ bus' = [bus EXCEPT !.turn = "z80"]
  /\ UNCHANGED <<z80, ints, cuts>>

\* periph_chunk, after the Z80: the YM2612's timers make its
\* interrupt and the level is recomputed.
EndChunk ==
  /\ bus.turn = "z80"
  /\ \E ym \in BOOLEAN :
       LET n == [ints EXCEPT !.ym = ym] IN ints' = [n EXCEPT !.line = Level(n)]
  /\ bus' = [bus EXCEPT !.turn = "68k"]
  /\ UNCHANGED <<z80, cuts>>

\* fb_vdp_end_of_line, between chunks.
EndOfLine(blank, expires) ==
  /\ bus.turn = "68k"
  /\ LET n == [ints EXCEPT !.v = @ \/ (blank /\ ints.venab),
                           !.z = @ \/ (blank /\ ints.venab),
                           !.h = @ \/ (expires /\ ints.henab)]
     IN /\ ints' = [n EXCEPT !.line = Level(n)]
        /\ z80' = [z80 EXCEPT !.pend = n.z]
  /\ UNCHANGED <<bus, cuts>>

-----------------------------------------------------------------------------

Feeds == bus.turn = "z80" /\ ~bus.held /\ ~bus.reset
Takes == z80.pend /\ z80.iff1
Runs == Feeds /\ ~z80.halted /\ ~Takes

\* fb_z80_run.  A halted Z80 is not woken by an interrupt.
Halted == Feeds /\ z80.halted /\ UNCHANGED busvars

Interrupt(v) ==
  /\ Feeds /\ ~z80.halted /\ Takes /\ Len(z80.stack) < MaxZ80
  /\ z80' = [z80 EXCEPT !.pend = FALSE, !.iff1 = FALSE, !.iff2 = FALSE, !.pc = v,
                        !.stack = <<z80.pc>> \o @]
  /\ cuts' = <<[pc |-> z80.pc, deep |-> Len(z80.stack)]>> \o cuts
  /\ UNCHANGED <<bus, ints>>

\* Loads, arithmetic, JP, JR, DJNZ, EX and the rest.
Plain(p) ==
  /\ Runs
  /\ z80' = [z80 EXCEPT !.pc = p]
  /\ UNCHANGED <<bus, ints, cuts>>

\* CALL and RST; PUSH pushes any address.
Z80Call(p) ==
  /\ Runs /\ Len(z80.stack) < MaxZ80
  /\ z80' = [z80 EXCEPT !.pc = p, !.stack = <<z80.pc>> \o @]
  /\ UNCHANGED <<bus, ints, cuts>>

Served == cuts # << >> /\ Len(z80.stack) = Head(cuts).deep + 1

\* RET, and RETI and RETN, which copy IFF2.
RetLate(reti) ==   \* mutant: pops the address below
  /\ Runs /\ Len(z80.stack) > 1
  /\ z80' = [z80 EXCEPT !.pc = z80.stack[2], !.stack = Tail(@),
                        !.iff1 = IF reti THEN z80.iff2 ELSE @]
  /\ cuts' = IF Served THEN Tail(cuts) ELSE cuts
  /\ UNCHANGED <<bus, ints>>

Ret(reti) ==
  /\ Runs /\ z80.stack # << >>
  /\ z80' = [z80 EXCEPT !.pc = Head(z80.stack), !.stack = Tail(@),
                        !.iff1 = IF reti THEN z80.iff2 ELSE @]
  /\ cuts' = IF Served THEN Tail(cuts) ELSE cuts
  /\ UNCHANGED <<bus, ints>>

\* EI, which takes effect at once, and DI.
Gate(v) ==
  /\ Runs
  /\ z80' = [z80 EXCEPT !.iff1 = v, !.iff2 = v]
  /\ UNCHANGED <<bus, ints, cuts>>

Halt ==
  /\ Runs
  /\ z80' = [z80 EXCEPT !.halted = TRUE]
  /\ UNCHANGED <<bus, ints, cuts>>

Next ==
  \/ StatusRead \/ Pass \/ EndChunk \/ Halted \/ Halt
  \/ \E a, b \in BOOLEAN : Enable(a, b) \/ EndOfLine(a, b)
  \/ \E v \in BOOLEAN : Hold(v) \/ WriteReset(v) \/ Ret(v) \/ Gate(v)
  \/ \E p \in Spots : Interrupt(p) \/ Plain(p) \/ Z80Call(p)

Spec == Init /\ [][Next]_busvars

-----------------------------------------------------------------------------

TypeOK ==
  /\ z80 \in [pc : Spots, iff1 : BOOLEAN, iff2 : BOOLEAN, halted : BOOLEAN,
              pend : BOOLEAN, stack : Seq(Spots)]
  /\ Len(z80.stack) <= MaxZ80
  /\ bus \in [turn : {"68k", "z80"}, held : BOOLEAN, reset : BOOLEAN]
  /\ ints \in [v : BOOLEAN, h : BOOLEAN, z : BOOLEAN, ym : BOOLEAN,
               venab : BOOLEAN, henab : BOOLEAN, line : {0, 2, 4, 6}]

\* The 68000 is never asked to serve an interrupt of the VDP that its program
\* has acknowledged, or one that a higher one hides.
LineFresh == ints.line \in {4, 6} => ints.line = Level(ints)

\* The Z80's handler goes back to where it was taken, held or not in between.
ProgramResumes ==
  Served /\ (\E v \in BOOLEAN : Ret(v)) => z80'.pc = Head(cuts).pc
=============================================================================
