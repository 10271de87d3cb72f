------------------------------- MODULE N64Cpu -------------------------------
(***************************************************************************)
(* Control of the VR4300 and the interrupts of the Nintendo 64 core        *)
(* (src/m64-b/n64.c): branch delays, ERET, the interrupt lines and the VI. *)
(* An interrupt is taken at the head of n64_step, which goes on to run the *)
(* handler's first instruction.  A trap's EPC is the instruction after it, *)
(* and within a handler it overwrites the handler's own.                   *)
(*                                                                         *)
(* Programs with a branch or ERET in a delay slot are left out, and        *)
(* writes of EPC, of ErrorEPC and of SR's EXL and ERL.                     *)
(***************************************************************************)
EXTENDS Integers

CONSTANTS NPlaces,   \* addresses, which wrap; the vector is 0
          LastLine   \* of the VI (261)

N64Assumption == NPlaces \in Nat \ {0, 1, 2} /\ LastLine \in Nat \ {0}

VARIABLES
  n64,    \* [pc, next, slot, ie, exl, erl, epc]: slot, is pc in a delay slot
  rcp,    \* [intr, mask]: MI's, with the compare interrupt (IP7) as "timer"
  vi,     \* [line, at, latched]: vi_cur, VI_V_INTR, vi_intr_pending
  left    \* history: where the handler's program was, in a slot the branch

n64vars == <<n64, rcp, vi, left>>

Place == 0..(NPlaces - 1)
After(p) == (p + 1) % NPlaces
Before(p) == (p + NPlaces - 1) % NPlaces
None == NPlaces
Sources == {"vi", "dma", "timer"}

\* n64_boot; ErrorEPC is 0
Boot(p) == [pc |-> p, next |-> After(p), slot |-> FALSE, ie |-> FALSE,
            exl |-> FALSE, erl |-> TRUE, epc |-> 0]

Init ==
  /\ n64 \in {Boot(p) : p \in Place}
  /\ rcp = [intr |-> {}, mask |-> {}]
  /\ vi = [line |-> 0, at |-> 0, latched |-> FALSE]
  /\ left = None

-----------------------------------------------------------------------------

\* exception
ExceptedInSlot(c) ==   \* mutant: EPC is the instruction, in a slot or not
  [c EXCEPT !.epc = c.pc, !.erl = FALSE, !.exl = TRUE,
            !.pc = 0, !.next = After(0), !.slot = FALSE]

Excepted(c) ==
  [c EXCEPT !.epc = IF c.slot THEN Before(c.pc) ELSE c.pc, !.erl = FALSE, !.exl = TRUE,
            !.pc = 0, !.next = After(0), !.slot = FALSE]

Takes == rcp.intr \cap rcp.mask # {} /\ n64.ie /\ ~n64.exl /\ ~n64.erl

\* The head of n64_step: the CPU about to fetch, and the program it has left.
Sampled == IF Takes THEN Excepted(n64) ELSE n64
Leaves ==
  IF ~Takes THEN left
  ELSE IF n64.slot THEN CHOOSE b \in Place : After(b) = n64.pc
  ELSE n64.pc

Fetched == [Sampled EXCEPT !.pc = Sampled.next, !.next = After(Sampled.next),
                           !.slot = FALSE]

\* n64_run_frame, after the instruction: the line moves on or a frame begins,
\* and reaching VI_V_INTR latches the interrupt.  The CPU is c, the MI m, the
\* VI v.
Reached(v) == ~v.latched /\ v.at # 0 /\ v.line >= v.at

Ends(c, m, v) ==
  \E line \in {v.line, v.line + 1, 0}, intr \in {m.intr, m.intr \cup {"timer"}} :
    LET now == [v EXCEPT !.line = line] IN
    /\ line <= LastLine
    /\ n64' = c
    /\ vi' = [now EXCEPT !.latched = @ \/ Reached(now)]
    /\ rcp' = [m EXCEPT !.intr = intr \cup (IF Reached(now) THEN {"vi"} ELSE {})]

\* Loads, stores to memory, arithmetic; LL, SC and their bit.
Plain ==
  /\ Ends(Fetched, rcp, vi)
  /\ left' = Leaves

Branch(p) ==
  /\ ~Sampled.slot
  /\ Ends([Fetched EXCEPT !.next = p, !.slot = TRUE], rcp, vi)
  /\ left' = Leaves

\* BEQL and BNEL, not taken.
Skip ==
  /\ ~Sampled.slot
  /\ Ends([Fetched EXCEPT !.pc = Fetched.next, !.next = After(Fetched.next)], rcp, vi)
  /\ left' = Leaves

\* SYSCALL, BREAK, a reserved or misaligned access, any use of the FPU.
Trap ==
  /\ Ends(Excepted(Fetched), rcp, vi)
  /\ left' = None

Eret ==
  /\ ~Sampled.slot
  /\ LET to == IF Sampled.erl THEN 0 ELSE Sampled.epc IN
     Ends([Fetched EXCEPT !.pc = to, !.next = After(to), !.erl = FALSE,
                          !.exl = @ /\ Sampled.erl], rcp, vi)
  /\ left' = None

WriteSr(ie) ==
  /\ Ends([Fetched EXCEPT !.ie = ie], rcp, vi)
  /\ left' = Leaves

\* Stores to MI_INTR, MI_INTR_MASK or COMPARE; a DMA of the PI or SI, which is
\* over at once; stores to VI_V_INTR and VI_V_CURRENT, which leaves MI_INTR.
Store ==
  /\ \/ \E s \in Sources : Ends(Fetched, [rcp EXCEPT !.intr = @ \ {s}], vi)
     \/ \E mask \in {{}, {"vi"}, Sources} :
          Ends(Fetched, [rcp EXCEPT !.mask = mask], vi)
     \/ Ends(Fetched, [rcp EXCEPT !.intr = @ \cup {"dma"}], vi)
     \/ \E at \in 0..LastLine : Ends(Fetched, rcp, [vi EXCEPT !.at = at])
     \/ Ends(Fetched, rcp, [vi EXCEPT !.latched = FALSE])
  /\ left' = Leaves

\* n64_reset, which leaves the line.
N64Reset ==
  /\ \E p \in Place : n64' = Boot(p)
  /\ rcp' = [intr |-> {}, mask |-> {}]
  /\ vi' = [line |-> vi.line, at |-> 0, latched |-> FALSE]
  /\ left' = None

Next ==
  \/ Plain \/ Skip \/ Trap \/ Eret \/ Store \/ N64Reset
  \/ \E p \in Place : Branch(p)
  \/ \E b \in BOOLEAN : WriteSr(b)

Spec == Init /\ [][Next]_n64vars

-----------------------------------------------------------------------------

TypeOK ==
  /\ n64.pc \in Place /\ n64.next \in Place /\ n64.epc \in Place
  /\ \A f \in {n64.slot, n64.ie, n64.exl, n64.erl} : f \in BOOLEAN
  /\ rcp \in [intr : SUBSET Sources, mask : SUBSET Sources]
  /\ vi \in [line : 0..LastLine, at : 0..LastLine, latched : BOOLEAN]
  /\ left \in Place \cup {None}

\* The ERET of an interrupt handler that takes no trap comes back to the
\* instruction that was about to run; in a delay slot, to its branch, so that
\* the branch is taken after all.
Resumes == Leaves # None /\ Eret => n64'.pc = Leaves
=============================================================================
