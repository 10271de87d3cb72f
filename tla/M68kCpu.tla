------------------------------ MODULE M68kCpu ------------------------------
(***************************************************************************)
(* Control of the 68000 of the Mega Drive core                             *)
(* (src/finalburn/m68k.c): the two stack pointers, exceptions, interrupt   *)
(* levels, trace and STOP.  Of SR the S and T bits and the level are kept. *)
(*                                                                         *)
(* An exception pushes SR as it has already changed it, so RTE neither     *)
(* goes back to user mode nor lowers the level.  A stack pointer is the    *)
(* stack it points into and how far; programs that load A7 by other ways,  *)
(* or pop what was not pushed, are left out.                               *)
(***************************************************************************)
EXTENDS Integers, Sequences

CONSTANTS Spots,     \* of the program
          Levels,    \* of the interrupts (1 to 7)
          MaxDeep    \* bound: items on either stack

M68kAssumption ==
  /\ Spots # {} /\ Levels \subseteq 1..7 /\ Levels # {}
  /\ MaxDeep \in Nat \ {0}

VARIABLES
  m68k,    \* [pc, s, t, ipl, a7, usp, ssp, line, stopped]
  stacks,  \* [s, u]: what lies on the supervisor's stack and the user's
  broke    \* history: places of the exceptions not yet returned from

m68kvars == <<m68k, stacks, broke>>

Frame(pc, s, t, ipl) == [kind |-> "frame", pc |-> pc, s |-> s, t |-> t, ipl |-> ipl]
Call(pc) == [kind |-> "call", pc |-> pc]
Pointers == [of : {"s", "u"}, deep : 0..MaxDeep]

\* fb_m68k_reset_machine
Reset(p) == [pc |-> p, s |-> TRUE, t |-> FALSE, ipl |-> 7, line |-> 0,
             a7 |-> [of |-> "s", deep |-> 0], usp |-> [of |-> "u", deep |-> 0],
             ssp |-> [of |-> "s", deep |-> 0], stopped |-> FALSE]

Init ==
  /\ m68k \in {Reset(p) : p \in Spots}
  /\ stacks = [s |-> << >>, u |-> << >>]
  /\ broke = << >>

-----------------------------------------------------------------------------

\* write_sr: A7 is exchanged where S changes.
WrittenSr(c, s, t, ipl) ==
  [c EXCEPT !.s = s, !.t = t, !.ipl = ipl,
            !.ssp = IF c.s /\ ~s THEN c.a7 ELSE @,
            !.usp = IF ~c.s /\ s THEN c.a7 ELSE @,
            !.a7 = CASE c.s /\ ~s -> c.usp
                     [] ~c.s /\ s -> c.ssp
                     [] OTHER -> @]

\* take_exception, up to the push.
EnteredUnsaved(c, level) ==   \* mutant: the user's pointer is not kept
  [c EXCEPT !.a7 = IF c.s THEN @ ELSE c.ssp,
            !.s = TRUE, !.t = FALSE, !.ipl = IF level = 0 THEN @ ELSE level]

Entered(c, level) ==
  [c EXCEPT !.usp = IF c.s THEN @ ELSE c.a7, !.a7 = IF c.s THEN @ ELSE c.ssp,
            !.s = TRUE, !.t = FALSE, !.ipl = IF level = 0 THEN @ ELSE level]

\* A push through A7 writes over what lies beyond it.
Pushed(at, item) ==
  [stacks EXCEPT ![at.of] = <<item>> \o SubSeq(@, Len(@) - at.deep + 1, Len(@))]
Popped == [stacks EXCEPT ![m68k.a7.of] = Tail(@)]

Exception(level, back, vector) ==
  LET c == Entered(m68k, level) IN
  /\ c.a7.deep < MaxDeep
  /\ m68k' = [c EXCEPT !.a7.deep = @ + 1, !.pc = vector, !.stopped = FALSE]
  /\ stacks' = Pushed(c.a7, Frame(back, c.s, c.t, c.ipl))
  /\ broke' = <<back>> \o broke

Wins == m68k.line # 0 /\ (m68k.line = 7 \/ m68k.line > m68k.ipl)
Runs == ~m68k.stopped /\ ~Wins /\ ~m68k.t

\* fb_m68k_run: at an instruction boundary an interrupt wins over trace.
Interrupt(v) == Wins /\ Exception(m68k.line, m68k.pc, v)

Trace(v) == ~m68k.stopped /\ ~Wins /\ m68k.t /\ Exception(0, m68k.pc, v)

Idle ==
  /\ m68k.stopped /\ ~Wins
  /\ UNCHANGED m68kvars

\* TRAP, TRAPV, CHK, a division by zero, an illegal or privileged instruction:
\* the place pushed is ppc + 2.
Trap(p, v) == Runs /\ Exception(0, p, v)

Plain(p) ==
  /\ Runs
  /\ m68k' = [m68k EXCEPT !.pc = p]
  /\ UNCHANGED <<stacks, broke>>

\* JSR, BSR, PEA; MOVE to -(A7) and LINK push as one.
Jsr(p) ==
  /\ Runs /\ m68k.a7.deep < MaxDeep
  /\ m68k' = [m68k EXCEPT !.a7.deep = @ + 1, !.pc = p]
  /\ stacks' = Pushed(m68k.a7, Call(m68k.pc))
  /\ UNCHANGED broke

Top == Head(stacks[m68k.a7.of])
Holds(kind) == stacks[m68k.a7.of] # << >> /\ Top.kind = kind

Rts ==
  /\ Runs /\ Holds("call")
  /\ m68k' = [m68k EXCEPT !.a7.deep = @ - 1, !.pc = Top.pc]
  /\ stacks' = Popped
  /\ UNCHANGED broke

\* RTE pops through A7 before write_sr may exchange it.
Rte ==
  /\ Runs /\ m68k.s /\ Holds("frame")
  /\ m68k' = [WrittenSr([m68k EXCEPT !.a7.deep = @ - 1], Top.s, Top.t, Top.ipl)
                EXCEPT !.pc = Top.pc]
  /\ broke' = IF broke # << >> THEN Tail(broke) ELSE broke
  /\ stacks' = Popped

\* MOVE to SR and ANDI, ORI and EORI to SR, in supervisor mode.
WriteSr(s, t, ipl) ==
  /\ Runs /\ m68k.s
  /\ m68k' = WrittenSr(m68k, s, t, ipl)
  /\ UNCHANGED <<stacks, broke>>

Stop(s, ipl) ==
  /\ Runs /\ m68k.s
  /\ m68k' = [WrittenSr(m68k, s, FALSE, ipl) EXCEPT !.stopped = TRUE]
  /\ UNCHANGED <<stacks, broke>>

\* fb_m68k_set_irq
SetIrq(level) ==
  /\ m68k' = [m68k EXCEPT !.line = level]
  /\ UNCHANGED <<stacks, broke>>

M68kReset ==
  /\ \E p \in Spots : m68k' = Reset(p)
  /\ stacks' = [s |-> << >>, u |-> << >>]
  /\ broke' = << >>

Ipls == {0, 7} \cup Levels

Next ==
  \/ Idle \/ Rts \/ Rte \/ M68kReset
  \/ \E p \in Spots : Interrupt(p) \/ Trace(p) \/ Plain(p) \/ Jsr(p)
  \/ \E p, v \in Spots : Trap(p, v)
  \/ \E s, t \in BOOLEAN, i \in Ipls : WriteSr(s, t, i)
  \/ \E s \in BOOLEAN, i \in Ipls : Stop(s, i)
  \/ \E level \in {0} \cup Levels : SetIrq(level)

Spec == Init /\ [][Next]_m68kvars

-----------------------------------------------------------------------------

TypeOK ==
  /\ m68k.pc \in Spots /\ m68k.ipl \in 0..7 /\ m68k.line \in 0..7
  /\ \A p \in {m68k.a7, m68k.usp, m68k.ssp} : p \in Pointers
  /\ \A f \in {m68k.s, m68k.t, m68k.stopped} : f \in BOOLEAN
  /\ Len(stacks.s) <= MaxDeep /\ Len(stacks.u) <= MaxDeep

\* The exchange is done in two places, and neither forgets half of it: A7 is
\* the pointer of the mode, and it and the saved one point at what was last
\* pushed on their stacks, whatever has run in the other mode since.
StacksApart ==
  /\ m68k.a7 = [of |-> IF m68k.s THEN "s" ELSE "u", deep |-> Len(stacks[m68k.a7.of])]
  /\ m68k.s => m68k.usp = [of |-> "u", deep |-> Len(stacks.u)]
  /\ ~m68k.s => m68k.ssp = [of |-> "s", deep |-> Len(stacks.s)]

\* An RTE goes back to where its exception was taken, through the exceptions
\* and interrupts taken within the handler.
ProgramResumes == broke # << >> /\ Rte => m68k'.pc = Head(broke)
=============================================================================
