------------------------------- MODULE NesCpu -------------------------------
(***************************************************************************)
(* Interrupts of the NES core (src/beatle-nes-redux): the 6502's stack,    *)
(* NMI edges from the PPU, and the IRQ line, which nes_run_frame samples   *)
(* after every step from the APU's frame flag and the MMC3's.  (The DMC's  *)
(* flag never rises: nothing starts its timer.)                            *)
(*                                                                         *)
(* An address is a place of the program or, pushed by JSR, the byte before *)
(* one.  Of P the I flag is kept.  Programs whose pops do not match their  *)
(* pushes are left out.                                                    *)
(***************************************************************************)
EXTENDS Integers, Sequences

CONSTANTS Places,    \* of the program
          MaxStack   \* bound: items on the stack

NesCpuAssumption == Places # {} /\ MaxStack \in Nat

VARIABLES
  nes,     \* [pc, i, stack, nmi, line, stalled]
  ppu,     \* [vblank, on, out, drawing]: flag, NMI enable, last level, rendering
  flags,   \* [frame, inhibit, mapper, enabled]: frame IRQ and MMC3 IRQ
  taken    \* history: [pc, i, height] of the interrupts not yet returned from

nesvars == <<nes, ppu, flags, taken>>

Pc(p, short) == [kind |-> "pc", at |-> p, short |-> short]
P(i) == [kind |-> "p", i |-> i]
Items == {Pc(p, s) : p \in Places, s \in BOOLEAN} \cup {P(i) : i \in BOOLEAN}

\* nes_cpu_power_on, then the reset vector
Init ==
  /\ nes \in [pc : Places, i : {TRUE}, stack : {<< >>}, nmi : {FALSE},
              line : {FALSE}, stalled : {FALSE}]
  /\ ppu = [vblank |-> FALSE, on |-> FALSE, out |-> FALSE, drawing |-> FALSE]
  /\ flags = [frame |-> FALSE, inhibit |-> FALSE, mapper |-> FALSE, enabled |-> FALSE]
  /\ taken = << >>

-----------------------------------------------------------------------------

\* update_nmi, which the $2002 read and the PPU call but a write of $2000 does
\* not: a rising level makes an NMI pending.
Level(p) == p.vblank /\ p.on
Updated(p) == [p EXCEPT !.out = Level(p)]

\* nes_run_frame after nes_cpu_step: dots of the PPU and cycles of the APU may
\* begin or end the vertical blank, clock the MMC3 or end the frame sequence;
\* then the line is sampled.  The pre-render line ends the blank only if the
\* program has rendering on.
Begun(p) == Updated([p EXCEPT !.vblank = TRUE])
Ended(p) == Updated([p EXCEPT !.vblank = FALSE])
Blanks(p) == {p, Begun(p)} \cup (IF p.drawing THEN {Ended(p)} ELSE {})

FrameEnds(f) == [f EXCEPT !.frame = @ \/ ~f.inhibit]
MapperClocked(f) == [f EXCEPT !.mapper = @ \/ f.enabled]
Clocked(f) == {f, FrameEnds(f), MapperClocked(f)}

Line(f) == f.frame \/ f.mapper

\* The CPU's part of the step has left c, p and f.
Ends(c, p, f) ==
  \E q \in Blanks(p), g \in Clocked(f) :
    /\ ppu' = q
    /\ flags' = g
    /\ nes' = [c EXCEPT !.nmi = @ \/ (q.out /\ ~p.out), !.line = Line(g)]

-----------------------------------------------------------------------------

\* service_interrupt: PC and P are pushed, NMI first.
InterruptedLate(c) ==   \* mutant: P is pushed with I already set
  [c EXCEPT !.stack = <<P(TRUE), Pc(c.pc, FALSE)>> \o @, !.i = TRUE]

Interrupted(c) ==
  [c EXCEPT !.stack = <<P(c.i), Pc(c.pc, FALSE)>> \o @, !.i = TRUE]

Interrupts == nes.nmi \/ (nes.line /\ ~nes.i)
Runs == ~nes.stalled /\ ~Interrupts

Service ==
  /\ ~nes.stalled /\ Interrupts /\ Len(nes.stack) + 2 <= MaxStack
  /\ \E handler \in Places :
       Ends([Interrupted(nes) EXCEPT !.nmi = FALSE, !.pc = handler], ppu, flags)
  /\ taken' = <<[pc |-> nes.pc, i |-> nes.i, height |-> Len(nes.stack)]>> \o taken

\* OAM DMA: 513 cycles pass in two steps.
Stall ==
  /\ nes.stalled
  /\ \E more \in BOOLEAN : Ends([nes EXCEPT !.stalled = more], ppu, flags)
  /\ UNCHANGED taken

\* Loads, stores, arithmetic, jumps and branches.
Plain(p) ==
  /\ Runs
  /\ Ends([nes EXCEPT !.pc = p], ppu, flags)
  /\ UNCHANGED taken

SetI(v) ==
  /\ Runs
  /\ Ends([nes EXCEPT !.i = v], ppu, flags)
  /\ UNCHANGED taken

Brk(p) ==
  /\ Runs /\ Len(nes.stack) + 2 <= MaxStack
  /\ Ends([Interrupted(nes) EXCEPT !.pc = p], ppu, flags)
  /\ UNCHANGED taken

Jsr(p) ==
  /\ Runs /\ Len(nes.stack) < MaxStack
  /\ Ends([nes EXCEPT !.stack = <<Pc(nes.pc, TRUE)>> \o @, !.pc = p], ppu, flags)
  /\ UNCHANGED taken

Php ==
  /\ Runs /\ Len(nes.stack) < MaxStack
  /\ Ends([nes EXCEPT !.stack = <<P(nes.i)>> \o @], ppu, flags)
  /\ UNCHANGED taken

Top(k) == nes.stack # << >> /\ Head(nes.stack).kind = k

\* Items the interrupts pushed are left to RTI.
Kept == taken # << >> /\ Len(nes.stack) <= Head(taken).height + 2

Rts ==
  /\ Runs /\ Top("pc") /\ Head(nes.stack).short /\ ~Kept
  /\ Ends([nes EXCEPT !.stack = Tail(@), !.pc = Head(nes.stack).at], ppu, flags)
  /\ UNCHANGED taken

Plp ==
  /\ Runs /\ Top("p") /\ ~Kept
  /\ Ends([nes EXCEPT !.stack = Tail(@), !.i = Head(nes.stack).i], ppu, flags)
  /\ UNCHANGED taken

Rti ==
  /\ Runs /\ Top("p") /\ Len(nes.stack) > 1
  /\ nes.stack[2].kind = "pc" /\ ~nes.stack[2].short
  /\ Ends([nes EXCEPT !.stack = Tail(Tail(@)), !.i = Head(nes.stack).i,
                      !.pc = nes.stack[2].at], ppu, flags)
  /\ taken' = IF Kept THEN Tail(taken) ELSE taken

\* Writes of $2000, $2001, $4014, $4017, $E000 and $E001; reads of $2002, $4015.
\* One that changes nothing is a plain instruction.
PpuAccessed(p) == {[p EXCEPT !.on = ~@], [p EXCEPT !.drawing = ~@], Ended(p)}

FlagsAccessed(f) ==
  {[f EXCEPT !.frame = FALSE], [f EXCEPT !.inhibit = FALSE],
   [f EXCEPT !.inhibit = TRUE, !.frame = FALSE],
   [f EXCEPT !.enabled = TRUE], [f EXCEPT !.enabled = FALSE, !.mapper = FALSE]}

Access ==
  /\ Runs
  /\ \/ \E p \in PpuAccessed(ppu) \ {ppu} : Ends(nes, p, flags)
     \/ \E f \in FlagsAccessed(flags) \ {flags} : Ends(nes, ppu, f)
     \/ Ends([nes EXCEPT !.stalled = TRUE], ppu, flags)
  /\ UNCHANGED taken

NesResetPart ==   \* mutant: the mapper's interrupt survives
  /\ \E p \in Places :
       nes' = [pc |-> p, i |-> TRUE, stack |-> << >>, nmi |-> FALSE,
               line |-> FALSE, stalled |-> FALSE]
  /\ flags' = [flags EXCEPT !.frame = FALSE, !.inhibit = FALSE]
  /\ taken' = << >>
  /\ UNCHANGED ppu

\* nes_reset, which leaves the PPU as it is.
NesReset ==
  /\ \E p \in Places :
       nes' = [pc |-> p, i |-> TRUE, stack |-> << >>, nmi |-> FALSE,
               line |-> FALSE, stalled |-> FALSE]
  /\ flags' = [frame |-> FALSE, inhibit |-> FALSE, mapper |-> FALSE, enabled |-> FALSE]
  /\ taken' = << >>
  /\ UNCHANGED ppu

Execute ==
  \/ \E p \in Places : Plain(p) \/ Brk(p) \/ Jsr(p)
  \/ \E v \in BOOLEAN : SetI(v)
  \/ Php \/ Rts \/ Plp \/ Rti \/ Access

Next == Stall \/ Service \/ Execute \/ NesReset

Spec == Init /\ [][Next]_nesvars

-----------------------------------------------------------------------------

TypeOK ==
  /\ nes \in [pc : Places, i : BOOLEAN, stack : Seq(Items), nmi : BOOLEAN,
              line : BOOLEAN, stalled : BOOLEAN]
  /\ Len(nes.stack) <= MaxStack
  /\ ppu \in [vblank : BOOLEAN, on : BOOLEAN, out : BOOLEAN, drawing : BOOLEAN]
  /\ flags \in [frame : BOOLEAN, inhibit : BOOLEAN, mapper : BOOLEAN, enabled : BOOLEAN]

\* Whatever a handler pushes, pops, calls or is itself interrupted by, its RTI
\* gives the interrupted program back its place and its flags.
ProgramResumes ==
  Kept /\ Rti => nes'.pc = Head(taken).pc /\ nes'.i = Head(taken).i

\* The line the CPU polls is never stale: an acknowledged interrupt is not
\* taken once more, and a raised one is not missed.
LineFresh == nes.line = Line(flags)
=============================================================================
