------------------------------- MODULE PsxCpu -------------------------------
(***************************************************************************)
(* Control of the R3000A of the PlayStation core (src/beatle-psx/cpu.c,    *)
(* psx.c, hw.c): branch delays, exceptions and interrupts.  Of SR the      *)
(* three levels of the interrupt enable are kept; the levels of the mode   *)
(* move with them.  Programs with a branch in a delay slot are left out,   *)
(* and handlers that write SR.  An interrupt's EPC is the instruction      *)
(* before the one it keeps from running.                                   *)
(***************************************************************************)
EXTENDS Integers, Sequences

CONSTANTS NPlaces,   \* addresses, which wrap; the vector is 0
          MaxDepth   \* bound: exceptions within exceptions (SR has two levels)

PsxCpuAssumption == NPlaces \in Nat \ {0, 1} /\ MaxDepth \in 1..2

VARIABLES
  psx,    \* [pc, next, sr, epc, bd, exc, slot]: exc, the last instruction
          \* fetched; slot, was it in a delay slot
  stat,   \* I_STAT & I_MASK # 0
  path    \* history: [branch, enables]: the branch whose slot is next; the
          \* enables the exceptions found

psxvars == <<psx, stat, path>>

Place == 0..(NPlaces - 1)
After(p) == (p + 1) % NPlaces
Before(p) == (p + NPlaces - 1) % NPlaces
None == NPlaces

\* psx_cpu_reset, psx_load_exe
Init ==
  /\ \E p \in Place :
       psx = [pc |-> p, next |-> After(p), epc |-> 0, bd |-> FALSE, exc |-> 0, slot |-> FALSE,
              sr |-> [cur |-> FALSE, prev |-> FALSE, old |-> FALSE]]
  /\ stat = FALSE
  /\ path = [branch |-> None, enables |-> << >>]

-----------------------------------------------------------------------------

\* psx_cpu_exception
Pushed(sr) == [cur |-> FALSE, prev |-> sr.cur, old |-> sr.prev]

ExceptedInSlot(c) ==   \* mutant: EPC is the instruction, in a slot or not
  [c EXCEPT !.sr = Pushed(c.sr), !.epc = c.exc, !.bd = c.slot,
            !.pc = 0, !.next = After(0)]

Excepted(c) ==
  [c EXCEPT !.sr = Pushed(c.sr), !.epc = IF c.slot THEN Before(c.exc) ELSE c.exc,
            !.bd = c.slot, !.pc = 0, !.next = After(0)]

\* The fetch notes where the instruction is before pc and next move on.
Fetched == [psx EXCEPT !.exc = psx.pc, !.slot = psx.next # After(psx.pc),
                       !.pc = psx.next, !.next = After(psx.next)]

Takes == psx.sr.cur /\ stat
Deeper == [branch |-> None, enables |-> <<psx.sr.cur>> \o path.enables]

Interrupt ==
  /\ Takes /\ Len(path.enables) < MaxDepth
  /\ psx' = Excepted(psx) /\ path' = Deeper
  /\ UNCHANGED stat

\* SYSCALL, BREAK, an overflow, an address error or a reserved instruction.
Trap ==
  /\ ~Takes /\ Len(path.enables) < MaxDepth
  /\ psx' = Excepted(Fetched) /\ path' = Deeper
  /\ UNCHANGED stat

Plain ==
  /\ ~Takes
  /\ psx' = Fetched /\ path' = [path EXCEPT !.branch = None]
  /\ UNCHANGED stat

\* JR, J, BEQ and their like, taken.
Branch(p) ==
  /\ ~Takes /\ path.branch = None
  /\ psx' = [Fetched EXCEPT !.next = p] /\ path' = [path EXCEPT !.branch = psx.pc]
  /\ UNCHANGED stat

\* cop0_rfe: the lower levels come down, and are or-ed into the upper ones.
RfeUp ==   \* mutant: the current level stays
  [cur |-> psx.sr.cur, prev |-> psx.sr.old \/ psx.sr.cur, old |-> psx.sr.prev]

RfeDown == [cur |-> psx.sr.prev, prev |-> psx.sr.old \/ psx.sr.cur, old |-> psx.sr.prev]

Rfe ==
  /\ ~Takes /\ path.enables # << >>
  /\ psx' = [Fetched EXCEPT !.sr = RfeDown]
  /\ path' = [branch |-> None, enables |-> Tail(path.enables)]
  /\ UNCHANGED stat

\* MTC0 to SR, outside handlers.
WriteSr(e) ==
  /\ ~Takes /\ path.enables = << >>
  /\ psx' = [Fetched EXCEPT !.sr = [cur |-> e, prev |-> FALSE, old |-> FALSE]]
  /\ path' = [path EXCEPT !.branch = None]
  /\ UNCHANGED stat

\* psx_irq_raise; writes of I_STAT and I_MASK.
Pend(v) ==
  /\ stat' = v
  /\ UNCHANGED <<psx, path>>

Next ==
  \/ Interrupt \/ Plain \/ Trap \/ Rfe
  \/ \E p \in Place : Branch(p)
  \/ \E v \in BOOLEAN : WriteSr(v) \/ Pend(v)

Spec == Init /\ [][Next]_psxvars

-----------------------------------------------------------------------------

TypeOK ==
  /\ psx.pc \in Place /\ psx.next \in Place /\ psx.epc \in Place /\ psx.exc \in Place
  /\ psx.sr \in [cur : BOOLEAN, prev : BOOLEAN, old : BOOLEAN]
  /\ stat \in BOOLEAN
  /\ path.branch \in Place \cup {None} /\ path.enables \in Seq(BOOLEAN)

\* The RFE of an exception brings back the interrupt enable the exception
\* found, one exception inside another.
EnableRestored == Rfe => psx'.sr.cur = Head(path.enables)

\* A handler that returns to EPC runs the instruction that trapped again, and
\* in its slot, if it trapped there: EPC is then the branch, unless the branch
\* goes on where it would without being taken.
TrapReplays ==
  Trap => \/ psx'.epc = path.branch
          \/ psx'.epc = psx.pc /\ psx.next = After(psx.pc)
=============================================================================
