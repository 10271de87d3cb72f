--------------------------------- MODULE Arm ---------------------------------
(***************************************************************************)
(* Modes, exceptions and interrupts of the shared ARM interpreter          *)
(* (src/common/arm.c), which runs the DS's two CPUs and the Dreamcast's    *)
(* sound CPU.  Of the registers it keeps the link register and its banks,  *)
(* of an instruction what it does to these, to the status registers and to *)
(* the place of the next instruction.                                      *)
(*                                                                         *)
(* A place in the program is a label; `Odd' places are reached only in     *)
(* Thumb state and are not aligned to a word.  A link register holds a     *)
(* place and the offset it was stored with.                                *)
(***************************************************************************)
EXTENDS Integers

CONSTANTS
  ArmModes,   \* "usr" and the modes exercised, of "sys" "fiq" "irq" "svc" "und"
  Places,     \* places of the program
  Odd,        \* those that are halfword aligned only
  Word        \* place -> itself, or the word an odd place lies in

ArmAssumption ==
  /\ {"usr", "svc"} \subseteq ArmModes
  /\ ArmModes \subseteq {"usr", "sys", "fiq", "irq", "svc", "und"}
  /\ Places # {} /\ Odd \subseteq Places
  /\ Word \in [Places -> Places \ Odd]

VARIABLES
  arm,     \* [cpsr, lr, lrs, spsr, at]: lrs and spsr by bank, at the pc
  line,    \* interrupt inputs latched: "irq", "fiq"
  framed   \* history: bank -> what its exception interrupted, while neither
           \* the program nor a later exception has overwritten any of it

armvars == <<arm, line, framed>>

Bank(m) == IF m = "sys" THEN "usr" ELSE m
Banks == {Bank(m) : m \in ArmModes}
Psrs == [mode : ArmModes, masks : SUBSET {"I", "F"}, thumb : BOOLEAN]
Links == [at : Places, plus : {0, 4}]
NoLink == [at |-> CHOOSE p \in Places \ Odd : TRUE, plus |-> 0]
Unframed == [psr |-> "none"]
ResetPsr == [mode |-> "svc", masks |-> {"I", "F"}, thumb |-> FALSE]

\* arm_reset
AfterReset ==
  [cpsr |-> ResetPsr, lr |-> NoLink, lrs |-> [b \in Banks |-> NoLink],
   spsr |-> [b \in Banks \ {"usr"} |-> ResetPsr], at |-> NoLink.at]

Init ==
  /\ arm = AfterReset
  /\ line = {} /\ framed = [b \in Banks |-> Unframed]

-----------------------------------------------------------------------------

\* set_mode, with bank_save and bank_load
SetModeUnsaved(s, m) ==   \* mutant: the bank left behind is not saved
  IF s.cpsr.mode = m THEN s
  ELSE [s EXCEPT !.lr = s.lrs[Bank(m)], !.cpsr.mode = m]

SetMode(s, m) ==
  IF s.cpsr.mode = m THEN s
  ELSE LET lrs == [s.lrs EXCEPT ![Bank(s.cpsr.mode)] = s.lr] IN
       [s EXCEPT !.lrs = lrs, !.lr = lrs[Bank(m)], !.cpsr.mode = m]

\* The link register of a bank, live or saved.
LinkOf(s, b) == IF Bank(s.cpsr.mode) = b THEN s.lr ELSE s.lrs[b]

\* take_exception: the F mask too is cleared and set anew.
Exception(m, link, masks) ==
  /\ arm' = [SetMode(arm, m) EXCEPT
               !.spsr[m] = arm.cpsr, !.lr = link, !.at = NoLink.at,
               !.cpsr = [mode |-> m, masks |-> masks, thumb |-> FALSE]]
  /\ framed' = [b \in Banks |->
       IF b = m
         THEN IF Bank(arm.cpsr.mode) = m THEN Unframed
              ELSE [psr |-> arm.cpsr, link |-> link, mine |-> arm.lr]
       ELSE IF framed[b] # Unframed /\ Bank(framed[b].psr.mode) = m THEN Unframed
       ELSE framed[b]]

\* arm_step samples the lines before an instruction.
TakeFiq ==
  /\ "fiq" \in line /\ "F" \notin arm.cpsr.masks /\ "fiq" \in ArmModes
  /\ line' = line \ {"fiq"}
  /\ Exception("fiq", [at |-> arm.at, plus |-> 4], {"I", "F"})

TakeIrq ==
  /\ ~("fiq" \in line /\ "F" \notin arm.cpsr.masks)
  /\ "irq" \in line /\ "I" \notin arm.cpsr.masks
  /\ line' = line \ {"irq"}
  /\ Exception("irq", [at |-> arm.at, plus |-> 4], {"I"})

Executes == \A l \in line : (IF l = "fiq" THEN "F" ELSE "I") \in arm.cpsr.masks
\* Thumb state has no instruction for the status registers and user banks.
InArm == Executes /\ ~arm.cpsr.thumb
Aligned(p) == arm.cpsr.thumb \/ p \notin Odd

\* What the current mode writes to its own link register spoils.
Spoilt(b) ==
  [c \in Banks |->
     IF c = b \/ (framed[c] # Unframed /\ Bank(framed[c].psr.mode) = b)
       THEN Unframed ELSE framed[c]]

\* An instruction that goes on at p and leaves modes and links alone.
Plain(p) ==
  /\ Executes /\ Aligned(p)
  /\ arm' = [arm EXCEPT !.at = p]
  /\ UNCHANGED <<line, framed>>

\* A call (BL) or a load of the link register.
WriteLink ==
  /\ Executes
  /\ arm' = [arm EXCEPT !.lr = NoLink]
  /\ framed' = Spoilt(Bank(arm.cpsr.mode))
  /\ UNCHANGED line

\* BX switches between the two states.
BranchExchange(p) ==
  /\ Executes
  /\ arm' = [arm EXCEPT !.cpsr.thumb = ~@, !.at = p]
  /\ p \in Odd => ~arm.cpsr.thumb
  /\ UNCHANGED <<line, framed>>

\* SWI, or an undefined or coprocessor instruction: the link is to the
\* instruction after it.
Trap(m, next) ==
  /\ Executes /\ Aligned(next)
  /\ Exception(m, [at |-> next, plus |-> 0], {"I"})
  /\ UNCHANGED line

\* msr_write of the control field: ignored in user mode.
WriteCpsr(m, masks) ==
  /\ InArm
  /\ arm' = IF arm.cpsr.mode = "usr" THEN arm
            ELSE [SetMode(arm, m) EXCEPT !.cpsr.masks = masks]
  /\ UNCHANGED <<line, framed>>

\* msr_write of the saved status: ignored where there is none.
WriteSpsr(psr) ==
  /\ InArm
  /\ Bank(arm.cpsr.mode) # "usr"
  /\ arm' = [arm EXCEPT !.spsr[arm.cpsr.mode] = psr]
  /\ framed' = [framed EXCEPT ![arm.cpsr.mode] = Unframed]
  /\ UNCHANGED line

\* ldm_stm with the user bank: switches to user mode and back.
LoadUserLink ==
  /\ InArm /\ arm.cpsr.mode # "usr"
  /\ arm' = SetMode([SetMode(arm, "usr") EXCEPT !.lr = NoLink], arm.cpsr.mode)
  /\ framed' = Spoilt("usr")
  /\ UNCHANGED line

\* dp_exec into r15 with S: MOVS pc, lr and SUBS pc, lr, #4.  The place is
\* rounded to a word whatever state is returned to.  With the other offset the
\* program goes on where it likes.
Return(plus, p) ==
  LET m == arm.cpsr.mode
      t == IF Bank(m) = "usr" THEN arm
           ELSE [SetMode(arm, arm.spsr[m].mode) EXCEPT !.cpsr = arm.spsr[m]]
  IN
  /\ InArm
  /\ p = Word[IF plus = arm.lr.plus THEN arm.lr.at ELSE p]
  /\ arm' = [t EXCEPT !.at = p]
  /\ framed' = [framed EXCEPT ![Bank(m)] = Unframed]
  /\ UNCHANGED line

\* arm_irq, arm_fiq
Raise(l) ==
  /\ line' = line \cup {l}
  /\ UNCHANGED <<arm, framed>>

ArmReset == arm' = AfterReset /\ line' = {} /\ framed' = [b \in Banks |-> Unframed]

Next ==
  \/ ArmReset \/ TakeFiq \/ TakeIrq \/ WriteLink \/ LoadUserLink
  \/ \E p \in Places : Plain(p) \/ BranchExchange(p)
  \/ \E m \in ArmModes \cap {"svc", "und"}, p \in Places : Trap(m, p)
  \/ \E m \in ArmModes, masks \in SUBSET {"I"} : WriteCpsr(m, masks)
  \/ WriteSpsr(ResetPsr)
  \/ \E plus \in {0, 4}, p \in Places : Return(plus, p)
  \/ \E l \in {"irq", "fiq"} : (l \in ArmModes /\ Raise(l))

Spec == Init /\ [][Next]_armvars

-----------------------------------------------------------------------------

TypeOK ==
  /\ arm \in [cpsr : Psrs, lr : Links, lrs : [Banks -> Links],
              spsr : [Banks \ {"usr"} -> Psrs], at : Places]
  /\ line \subseteq {"irq", "fiq"}

\* However exceptions nest and modes are switched in between, each mode still
\* holds what its exception interrupted: its saved status, the place to return
\* to, and the link register of the interrupted mode.
ContextHeld ==
  \A b \in Banks : framed[b] # Unframed =>
    /\ arm.spsr[b] = framed[b].psr
    /\ LinkOf(arm, b) = framed[b].link
    /\ LinkOf(arm, Bank(framed[b].psr.mode)) = framed[b].mine

\* A return with the offset its exception was entered with goes back to the
\* interrupted mode, masks, state and link register, at the interrupted place
\* or the word it lies in.
ContextRestored ==
  \A plus \in {0, 4}, p \in Places :
    LET f == framed[Bank(arm.cpsr.mode)] IN
    f # Unframed /\ f.link.plus = plus /\ Return(plus, p)
      => arm'.cpsr = f.psr /\ arm'.lr = f.mine /\ arm'.at = Word[f.link.at]
=============================================================================
