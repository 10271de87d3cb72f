------------------------------ MODULE SnesCpu ------------------------------
(***************************************************************************)
(* The 65816 of the SNES core (src/supersnes/cpu.c): banks, the emulation  *)
(* mode, register widths, the stack, interrupts, calls and WAI.  Entering  *)
(* emulation mode forces the stack pointer into page 1, where pushes and   *)
(* pops then wrap.  An interrupt pushes the bank in both modes and, in     *)
(* native mode, leaves it as it is; RTI and PLP keep the widths of the     *)
(* code they end.                                                          *)
(*                                                                         *)
(* Of the stack's memory one interrupt's four bytes are followed, whichever *)
(* interrupt and for as long as no write touches them; every other byte    *)
(* holds anything.  Of P, I, C and X are kept.  Nothing in the core raises *)
(* the IRQ line.                                                           *)
(***************************************************************************)
EXTENDS Integers

CONSTANTS Banks,     \* 0 among them
          Places,    \* offsets within a bank
          PageSize,  \* bytes of a page (256 in the code)
          Pages,     \* pages of the stack's bank (256 in the code)
          RamPages   \* the first of them, which are RAM (32 in the code)

SnesCpuAssumption ==
  /\ 0 \in Banks /\ Places # {}
  /\ PageSize \in Nat /\ PageSize >= 4
  /\ RamPages \in Nat /\ RamPages >= 2
  /\ Pages \in Nat /\ Pages >= RamPages

VARIABLES snes,    \* [k, pc, p, e, sp, nmi, wai, stp]
          frames,  \* the frame followed in the stack's memory, if any
          held     \* history: the program it interrupted

snescpuvars == <<snes, frames, held>>

Flags == [i : BOOLEAN, c : BOOLEAN, x : BOOLEAN]
Cells == 0..(PageSize * Pages - 1)
Ram == 0..(PageSize * RamPages - 1)

\* sp_ptr, sp_dec and sp_inc: where the stack pointer a points.
At(e, a) == IF e THEN PageSize + (a % PageSize) ELSE a % (PageSize * Pages)

\* snes_cpu_power_on; the reset vector is in bank 0
Init ==
  /\ snes \in [k : {0}, pc : Places,
               p : {[i |-> TRUE, c |-> FALSE, x |-> TRUE]}, e : {TRUE},
               sp : {2 * PageSize - 1}, nmi : {FALSE}, wai : {FALSE}, stp : {FALSE}]
  /\ frames = {} /\ held = {}

-----------------------------------------------------------------------------

\* A frame some of whose bytes are written over is not followed any further.
Whole(written) == {f \in frames : \A i \in 1..4 : f.cells[i] \notin written}
Write(written) ==
  /\ frames' = Whole(written)
  /\ held' = IF frames' = {} THEN {} ELSE held

\* The cells that n pushes write.
Pushed(n) == {At(snes.e, snes.sp - i) : i \in 0..(n - 1)}

\* do_interrupt: bank, place and P, each at the cell RTI is to find it in.
FrameLate(c) ==   \* mutant: the bank is pushed after it is cleared
  [cells |-> [i \in 1..4 |-> At(c.e, c.sp - (4 - i))],
   k |-> IF c.e THEN 0 ELSE c.k, pc |-> c.pc, p |-> c.p]
Frame(c) ==
  [cells |-> [i \in 1..4 |-> At(c.e, c.sp - (4 - i))],
   k |-> c.k, pc |-> c.pc, p |-> c.p]

Handler(c, a) ==
  [c EXCEPT !.sp = At(c.e, @ - 4), !.pc = a,
            !.p.i = TRUE, !.p.x = @ \/ c.e,
            !.k = IF c.e THEN 0 ELSE @]

\* The program at c is interrupted; any interrupt whose stack is RAM may be
\* the one followed.
Interrupt(c) ==
  /\ \E a \in Places : snes' = Handler(c, a)
  /\ \/ Write(Pushed(4))
     \/ /\ Whole(Pushed(4)) = {} /\ Pushed(4) \subseteq Ram
        /\ frames' = {Frame(c)}
        /\ held' = {[k |-> c.k, pc |-> c.pc, p |-> c.p, e |-> c.e,
                     sp |-> At(c.e, c.sp - 4)]}

Runs == ~snes.stp /\ ~snes.wai /\ ~snes.nmi

\* A CPU that waits wakes to serve the NMI.
Service ==
  /\ ~snes.stp /\ snes.nmi
  /\ Interrupt([snes EXCEPT !.nmi = FALSE, !.wai = FALSE])

Sleep ==
  /\ snes.stp \/ (snes.wai /\ ~snes.nmi)
  /\ UNCHANGED snescpuvars

\* BRK and COP: the place pushed is the one behind them.
Break(a) == Runs /\ Interrupt([snes EXCEPT !.pc = a])

\* Loads, arithmetic, branches, JMP; JML and JMP [abs] change the bank.
Plain(k, a) ==
  /\ Runs
  /\ snes' = [snes EXCEPT !.k = k, !.pc = a]
  /\ UNCHANGED <<frames, held>>

\* A store, or one byte of a block move, to the stack's bank.
Store(cell) ==
  /\ Runs /\ Write({cell})
  /\ UNCHANGED snes

\* SEC, CLC, SEI and CLI.
SetFlags(i, c) ==
  /\ Runs
  /\ snes' = [snes EXCEPT !.p.i = i, !.p.c = c]
  /\ UNCHANGED <<frames, held>>

\* REP and SEP; in emulation mode X stays set.
Width(x) ==
  /\ Runs
  /\ snes' = [snes EXCEPT !.p.x = x \/ snes.e]
  /\ UNCHANGED <<frames, held>>

Xce ==
  /\ Runs
  /\ snes' = [snes EXCEPT !.e = snes.p.c, !.p.c = snes.e,
                          !.p.x = @ \/ snes.p.c,
                          !.sp = IF snes.p.c THEN At(TRUE, @) ELSE @]
  /\ UNCHANGED <<frames, held>>

\* TXS and TCS.
SetStack(a) ==
  /\ Runs
  /\ snes' = [snes EXCEPT !.sp = At(snes.e, a)]
  /\ UNCHANGED <<frames, held>>

\* The push instructions: one byte, two, or PER's three.
Push(n) ==
  /\ Runs /\ Write(Pushed(n))
  /\ snes' = [snes EXCEPT !.sp = At(snes.e, @ - n)]

\* JSR and JSL push the bank and the address.
Call(k, a) ==
  /\ Runs /\ Write(Pushed(3))
  /\ snes' = [snes EXCEPT !.sp = At(snes.e, @ - 3), !.k = k, !.pc = a]

\* The pull instructions, and RTS and RTL, take what they find: RTL its bank
\* before the address, RTS the address alone.
Pull(n) ==
  /\ Runs
  /\ snes' = [snes EXCEPT !.sp = At(snes.e, @ + n)]
  /\ UNCHANGED <<frames, held>>

Return(n, k, a) ==
  /\ Runs
  /\ snes' = [snes EXCEPT !.sp = At(snes.e, @ + n), !.k = k, !.pc = a]
  /\ UNCHANGED <<frames, held>>

\* PLP and RTI take a byte for P, except the widths.
Pulled(p) == [p EXCEPT !.x = snes.p.x \/ snes.e]

Plp(p) ==
  /\ Runs
  /\ snes' = [snes EXCEPT !.sp = At(snes.e, @ + 1), !.p = Pulled(p)]
  /\ UNCHANGED <<frames, held>>

\* What RTI pops: the frame followed, if its bytes lie there, or anything.
Found == {f \in frames : \A i \in 1..4 : f.cells[i] = At(snes.e, snes.sp + i)}
Popped == IF Found # {} THEN Found ELSE [k : Banks, pc : Places, p : Flags]

Rti ==
  /\ Runs
  /\ \E f \in Popped :
       snes' = [snes EXCEPT !.sp = At(snes.e, @ + 4), !.k = f.k, !.pc = f.pc,
                            !.p = Pulled(f.p)]
  /\ frames' = frames \ Found
  /\ held' = IF frames' = {} THEN {} ELSE held

Wait ==
  /\ Runs
  /\ snes' = [snes EXCEPT !.wai = TRUE]
  /\ UNCHANGED <<frames, held>>

Stop ==
  /\ Runs
  /\ snes' = [snes EXCEPT !.stp = TRUE]
  /\ UNCHANGED <<frames, held>>

\* snes_reset clears the memory.  Page 1 is forced on a CPU that was in
\* emulation mode, on any other at its next push or pull.
SnesReset ==
  /\ \E a \in Places :
       snes' = [snes EXCEPT !.k = 0, !.pc = a, !.e = TRUE, !.sp = At(snes.e, @ - 3),
                            !.p = [@ EXCEPT !.i = TRUE, !.x = TRUE],
                            !.nmi = FALSE, !.wai = FALSE, !.stp = FALSE]
  /\ frames' = {} /\ held' = {}

\* snes_ppu_run
Raise ==
  /\ snes' = [snes EXCEPT !.nmi = TRUE]
  /\ UNCHANGED <<frames, held>>

Execute ==
  \/ \E k \in Banks, a \in Places : Plain(k, a) \/ Call(k, a)
  \/ \E a \in Places : Break(a) \/ Return(2, snes.k, a)
  \/ \E k \in Banks, a \in Places : Return(3, k, a)
  \/ \E b, c \in BOOLEAN : SetFlags(b, c) \/ Width(b)
  \/ \E cell \in Cells : Store(cell) \/ SetStack(cell)
  \/ \E n \in 1..3 : Push(n)
  \/ \E n \in 1..2 : Pull(n)
  \/ \E p \in Flags : Plp(p)
  \/ Xce \/ Rti \/ Wait \/ Stop

Next == Service \/ Sleep \/ Execute \/ SnesReset \/ Raise

Spec == Init /\ [][Next]_snescpuvars

-----------------------------------------------------------------------------

TypeOK ==
  /\ snes \in [k : Banks, pc : Places, p : Flags, e : BOOLEAN, sp : Cells,
               nmi : BOOLEAN, wai : BOOLEAN, stp : BOOLEAN]
  /\ frames \subseteq [cells : [1..4 -> Cells], k : Banks, pc : Places, p : Flags]
  /\ held \subseteq [k : Banks, pc : Places, p : Flags, e : BOOLEAN, sp : Cells]
  /\ snes.e => snes.p.x

\* The stack of the CPU's mode ends in the four bytes the interrupt pushed in
\* the mode of its time.
BackAt(h) ==
  \A i \in 1..4 : At(snes.e, snes.sp + i) = At(h.e, h.sp + i)

\* Whatever ran since, other interrupts, changes of mode that move the stack
\* and a stack moved by the program included: as long as no byte of an
\* interrupt's frame is written over, an RTI with the stack back at it gives
\* the interrupted program its bank, its place and its flags; the widths alone
\* are the handler's.
ProgramResumes ==
  Rti => \A h \in held :
    BackAt(h) => /\ snes'.k = h.k /\ snes'.pc = h.pc
                 /\ snes'.p.i = h.p.i /\ snes'.p.c = h.p.c
=============================================================================
