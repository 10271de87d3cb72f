------------------------------- MODULE ShCpu -------------------------------
(***************************************************************************)
(* Control flow of the SH-2 and SH-4 interpreters (src/common/sh2.c,       *)
(* sh4.c): delayed branches kept as the address after next, interrupts and *)
(* traps that stack SR and an address, RTE, and the SH-4's two banks of    *)
(* R0-R7, whose active one is a copy.  An address is one of NPlaces; of SR *)
(* the interrupt mask, BL and RB are kept.  Memory accesses are the plain  *)
(* instructions.                                                           *)
(***************************************************************************)
EXTENDS Integers, Sequences

CONSTANTS NPlaces,    \* addresses, which wrap
          MaxLevel,   \* the highest interrupt level (15)
          MaxFrames,  \* bound: frames on the stack
          Values      \* what a register of R0-R7 may hold

ShAssumption == NPlaces \in Nat \ {0} /\ MaxLevel \in Nat \ {0} /\ MaxFrames \in Nat

VARIABLES sh,     \* the registers
          left,   \* history: what each bank held when it was last the active one
          known   \* history: are the frames those the processor stacked itself

shvars == <<sh, left, known>>

Place == 0..(NPlaces - 1)
After(p) == (p + 1) % NPlaces
Vector == 0
Sr == [mask : 0..MaxLevel, bl : BOOLEAN, rb : {0, 1}]

\* sh2_reset and sh4_reset: interrupts masked, blocked on an SH-4.
AfterReset(four, v) ==
  [four |-> four, pc |-> Vector, next |-> After(Vector), pr |-> Vector,
   sr |-> [mask |-> MaxLevel, bl |-> four, rb |-> 0],
   r |-> v, bank |-> [b \in {0, 1} |-> v], stack |-> << >>]

Init == \E four \in BOOLEAN, v \in Values :
  /\ sh = AfterReset(four, v)
  /\ left = [b \in {0, 1} |-> v]
  /\ known = << >>

-----------------------------------------------------------------------------

\* The instruction at pc has been fetched: pc and next have moved on.
Fetched == [sh EXCEPT !.pc = sh.next, !.next = After(sh.next)]

\* sr_write: the active bank is stored, and that of the new SR loaded.
SrWriteLate(c, s) ==   \* mutant: SR is changed before the bank is stored
  LET out == [c.bank EXCEPT ![s.rb] = c.r] IN
  [c EXCEPT !.sr = s, !.bank = out, !.r = out[s.rb]]

SrWrite(c, s) ==
  IF ~c.four THEN [c EXCEPT !.sr.mask = s.mask]
  ELSE LET out == [c.bank EXCEPT ![c.sr.rb] = c.r] IN
       [c EXCEPT !.sr = s, !.bank = out, !.r = out[s.rb]]

\* SR and next_pc go to the stack.
Stacked(c) == [c EXCEPT !.stack = <<[sr |-> c.sr, pc |-> c.next]>> \o @]

At(c, p) == [c EXCEPT !.pc = p, !.next = After(p)]

\* sh2_irq_vector and sh4_irq, which the machine calls between instructions.
Interrupt(level) ==
  /\ ~(sh.four /\ sh.sr.bl)
  /\ sh.sr.mask < level
  /\ Len(sh.stack) < MaxFrames
  /\ sh' = At([Stacked(sh) EXCEPT !.sr.mask = level, !.sr.bl = sh.four], Vector)
  /\ known' = <<sh.sr>> \o known
  /\ UNCHANGED left

\* TRAPA and the illegal instruction.
Trap ==
  /\ Len(sh.stack) < MaxFrames
  /\ LET c == Stacked(Fetched)
         blocked == IF sh.four THEN SrWrite(c, [c.sr EXCEPT !.bl = TRUE]) ELSE c
     IN sh' = At(blocked, Vector)
  /\ known' = <<sh.sr>> \o known
  /\ UNCHANGED left

\* RTE, a delayed branch.
Rte ==
  /\ sh.stack # << >>
  /\ LET frame == Head(sh.stack) IN
     sh' = [SrWrite(Fetched, frame.sr) EXCEPT !.next = frame.pc, !.stack = Tail(@)]
  /\ known' = Tail(known)
  /\ UNCHANGED left

\* BRA, JMP and the taken conditional branches; BSR and JSR keep PR.
Branch(p, link) ==
  /\ sh' = [Fetched EXCEPT !.next = p,
                           !.pr = IF link THEN After(After(sh.pc)) ELSE @]
  /\ UNCHANGED <<left, known>>

Rts ==
  /\ sh' = [Fetched EXCEPT !.next = sh.pr]
  /\ UNCHANGED <<left, known>>

\* LDC Rn,SR and its like.
LoadSr(s) ==
  /\ sh' = SrWrite(Fetched, s)
  /\ UNCHANGED <<left, known>>

\* An instruction that writes one of R0-R7.
SetR(v) ==
  /\ sh' = [Fetched EXCEPT !.r = v]
  /\ left' = [left EXCEPT ![sh.sr.rb] = v]
  /\ UNCHANGED known

Plain ==
  /\ sh' = Fetched
  /\ UNCHANGED <<left, known>>

Execute ==
  \/ Trap \/ Rte \/ Rts \/ Plain
  \/ \E p \in Place, link \in BOOLEAN : Branch(p, link)
  \/ \E s \in Sr : LoadSr(s)
  \/ \E v \in Values : SetR(v)

Next == Execute \/ \E level \in 1..MaxLevel : Interrupt(level)

Spec == Init /\ [][Next]_shvars

-----------------------------------------------------------------------------

TypeOK ==
  /\ sh \in [four : BOOLEAN, pc : Place, next : Place, pr : Place, sr : Sr,
             r : Values, bank : [{0, 1} -> Values],
             stack : Seq([sr : Sr, pc : Place])]
  /\ Len(sh.stack) <= MaxFrames

\* Each bank of R0-R7 is what the program left in it, through every write of
\* SR, exception and return that switches banks.
BanksKept ==
  /\ sh.r = left[sh.sr.rb]
  /\ sh.four => sh.bank[1 - sh.sr.rb] = left[1 - sh.sr.rb]

\* A return from an exception brings back the SR the exception found, with its
\* mask, its block bit and its bank.
SrRestored == Rte => sh'.sr = Head(known)
=============================================================================
