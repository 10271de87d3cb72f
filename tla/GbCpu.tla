------------------------------- MODULE GbCpu -------------------------------
(***************************************************************************)
(* The control state of the Game Boy CPU (src/mgbx/cpu.c): interrupt       *)
(* master enable and its one-instruction delay, HALT with its bug, STOP,   *)
(* interrupt dispatch, and the OAM DMA that takes the CPU's place.         *)
(*                                                                         *)
(* An instruction is what it does to this state: one of the control        *)
(* instructions, or a plain one with at most one bus write that matters    *)
(* here.  The push of a dispatch is such a write too: the stack pointer    *)
(* may point anywhere.                                                     *)
(***************************************************************************)
EXTENDS Integers

CONSTANTS
  NInts,     \* number of interrupt lines (5 in the code), 0 the most urgent
  OamSize,   \* bytes of an OAM DMA transfer (160 in the code)
  Pages,     \* source pages of a transfer
  Nothing    \* neither an interrupt line nor a page

Ints == 0..(NInts - 1)

ASSUME CpuAssumption ==
  /\ NInts \in Nat \ {0}
  /\ OamSize \in Nat \ {0}
  /\ Nothing \notin Ints /\ Nothing \notin Pages

VARIABLES
  ime, imePending,
  halted, stopped, haltBug,
  ifReg, ie,     \* the requested and the enabled interrupts
  dma,           \* [active, page, index, value]: dma_active ... dma_value
  oam,           \* where each byte of OAM comes from
  gate,          \* history: the last event that opened or closed interrupts
  served,        \* history: the interrupt dispatched by the last CPU step
  wroteIf        \* history: the last CPU step wrote IF

cpuVars == <<ime, imePending, halted, stopped, haltBug, gate>>
vars == <<ime, imePending, halted, stopped, haltBug, ifReg, ie, dma, oam,
          gate, served, wroteIf>>

Bytes == Pages \X (0..(OamSize - 1))   \* byte i of page p
Program == <<Nothing, 0>>              \* a byte stored by the program

Ops == {"plain", "EI", "DI", "RETI", "HALT", "STOP"}

NoWrite == [reg |-> "none", val |-> Nothing]

\* The bus writes that reach this state; "line" is a write to LYC or P1 that
\* requests interrupts.
Writes ==
  {NoWrite}
    \cup [reg : {"IF", "IE", "line"}, val : SUBSET Ints]
    \cup [reg : {"DMA"}, val : Pages]
    \cup [reg : {"OAM"}, val : 0..(OamSize - 1)]

IfAfter(w, f) ==
  CASE w.reg = "IF"   -> w.val
    [] w.reg = "line" -> f \cup w.val
    [] OTHER          -> f

IeAfter(w, e) == IF w.reg = "IE" THEN w.val ELSE e

OamAfter(w, o) == IF w.reg = "OAM" THEN [o EXCEPT ![w.val] = Program] ELSE o

\* A write to 0xFF46 starts the transfer over and fetches its first byte.
DmaAfterNoFetch(w, d) ==   \* mutant: the first byte is not fetched
  IF w.reg = "DMA"
    THEN [d EXCEPT !.active = TRUE, !.page = w.val, !.index = 0]
    ELSE d

DmaAfter(w, d) ==
  IF w.reg = "DMA"
    THEN [active |-> TRUE, page |-> w.val, index |-> 0,
          value |-> <<w.val, 0>>]
    ELSE d

Urgent(pending) == CHOOSE b \in pending : \A c \in pending : b <= c

Init ==
  /\ ime = FALSE /\ imePending = FALSE
  /\ halted = FALSE /\ stopped = FALSE /\ haltBug = FALSE
  /\ ifReg = {0} /\ ie = {}      \* mgbx_power_on: if_reg = 0xE1
  /\ dma = [active |-> FALSE, page |-> Nothing, index |-> 0,
            value |-> Program]
  /\ oam = [i \in 0..(OamSize - 1) |-> Program]
  /\ gate = "reset" /\ served = Nothing /\ wroteIf = FALSE

-----------------------------------------------------------------------------

\* dispatch_interrupt, with f and e the values IF and IE have by then.
DispatchKeepsEi(f, e, push) ==   \* mutant: EI survives the dispatch
  /\ ime' = FALSE /\ UNCHANGED imePending
  /\ served' = Urgent(f \cap e) /\ gate' = "irq"
  /\ ifReg' = IfAfter(push, f \ {Urgent(f \cap e)})
  /\ ie' = IeAfter(push, e)

DispatchClearsAll(f, e, push) ==   \* mutant: every pending request is cleared
  /\ ime' = FALSE /\ imePending' = FALSE
  /\ served' = Urgent(f \cap e) /\ gate' = "irq"
  /\ ifReg' = IfAfter(push, f \ e)
  /\ ie' = IeAfter(push, e)

Dispatch(f, e, push) ==
  LET b == Urgent(f \cap e) IN
  /\ ime' = FALSE /\ imePending' = FALSE
  /\ served' = b /\ gate' = "irq"
  /\ ifReg' = IfAfter(push, f \ {b})
  /\ ie' = IeAfter(push, e)

DmaStepLong ==   \* mutant: one byte too many
  /\ dma.active
  /\ oam' = [oam EXCEPT ![dma.index % OamSize] = dma.value]
  /\ dma' = IF dma.index >= OamSize
              THEN [dma EXCEPT !.active = FALSE]
              ELSE [dma EXCEPT !.index = @ + 1,
                               !.value = <<dma.page, dma.index + 1>>]
  /\ served' = Nothing /\ wroteIf' = FALSE
  /\ UNCHANGED <<cpuVars, ifReg, ie>>

\* A transfer takes the place of instructions: one byte a step, the next one
\* fetched ahead.
DmaStep ==
  /\ dma.active
  /\ oam' = [oam EXCEPT ![dma.index] = dma.value]
  /\ dma' = IF dma.index + 1 >= OamSize
              THEN [dma EXCEPT !.active = FALSE, !.index = @ + 1]
              ELSE [dma EXCEPT !.index = @ + 1,
                               !.value = <<dma.page, dma.index + 1>>]
  /\ served' = Nothing /\ wroteIf' = FALSE
  /\ UNCHANGED <<cpuVars, ifReg, ie>>

\* A stopped or halted CPU wakes for any enabled request, and serves it only
\* when interrupts are enabled.
WakesMasked == ime /\ ifReg \cap ie # {}   \* mutant: IME gates the wake-up
Wakes == ifReg \cap ie # {}

SleepStep(push) ==
  /\ ~dma.active
  /\ stopped \/ halted
  /\ stopped' = (stopped /\ ~Wakes)
  /\ halted' = (halted /\ ~Wakes)
  /\ \/ /\ Wakes /\ ime
        /\ Dispatch(ifReg, ie, push)
        /\ dma' = DmaAfter(push, dma) /\ oam' = OamAfter(push, oam)
        /\ wroteIf' = (push.reg = "IF")
     \/ /\ ~(Wakes /\ ime)
        /\ push = NoWrite
        /\ served' = Nothing /\ wroteIf' = FALSE
        /\ UNCHANGED <<ime, imePending, ifReg, ie, dma, oam, gate>>
  /\ UNCHANGED haltBug

\* HALT sleeps unless interrupts are off and one is already pending.
HaltsIgnoringIme(on, f, e) == f \cap e = {}   \* mutant
Halts(on, f, e) == on \/ f \cap e = {}

\* IME after the instruction, `on' being its value as the instruction starts.
ImeAfter(op, on) == (on /\ op # "DI") \/ op = "RETI"

ExecStep(op, w, push) ==
  LET on == ime \/ imePending
      enabled == ImeAfter(op, on)
      f == IfAfter(w, ifReg)
      e == IeAfter(w, ie)
      sleeps == op = "HALT" /\ Halts(on, f, e)
      serves == enabled /\ ~sleeps /\ op # "STOP" /\ f \cap e # {}
  IN
  /\ ~dma.active /\ ~stopped /\ ~halted
  /\ op # "plain" => w = NoWrite
  /\ halted' = sleeps
  /\ stopped' = (op = "STOP")
  /\ haltBug' = (op = "HALT" /\ ~sleeps)
  /\ \/ serves /\ Dispatch(f, e, push)
     \/ /\ ~serves /\ push = NoWrite
        /\ ime' = enabled /\ imePending' = (op = "EI")
        /\ ifReg' = f /\ ie' = e
        /\ gate' = IF op \in {"EI", "DI", "RETI"} THEN op ELSE gate
        /\ served' = Nothing
  /\ dma' = DmaAfter(push, DmaAfter(w, dma))
  /\ oam' = OamAfter(push, OamAfter(w, oam))
  /\ wroteIf' = ("IF" \in {w.reg, push.reg})

\* gb_cpu_step
Step ==
  \/ DmaStep
  \/ \E push \in Writes : SleepStep(push)
  \/ \E op \in Ops, w, push \in Writes : ExecStep(op, w, push)

\* The PPU, the timer or the joypad requests an interrupt between two steps.
Request(b) ==
  /\ ifReg' = ifReg \cup {b}
  /\ served' = Nothing /\ wroteIf' = FALSE
  /\ UNCHANGED <<cpuVars, ie, dma, oam>>

\* mgbx_power_on, from reset and load_rom.
PowerOn ==
  /\ ime' = FALSE /\ imePending' = FALSE
  /\ halted' = FALSE /\ stopped' = FALSE /\ haltBug' = FALSE
  /\ ifReg' = {0} /\ ie' = {}
  /\ dma' = [active |-> FALSE, page |-> Nothing, index |-> 0,
             value |-> Program]
  /\ oam' = [i \in 0..(OamSize - 1) |-> Program]
  /\ gate' = "reset" /\ served' = Nothing /\ wroteIf' = TRUE

Next ==
  \/ Step
  \/ \E b \in Ints : Request(b)
  \/ PowerOn

Spec == Init /\ [][Next]_vars

\* mgbx_run_frame calls gb_cpu_step until the frame is over, for every frame.
FairSpec == Spec /\ WF_vars(Step)

-----------------------------------------------------------------------------

TypeOK ==
  /\ ime \in BOOLEAN /\ imePending \in BOOLEAN
  /\ halted \in BOOLEAN /\ stopped \in BOOLEAN /\ haltBug \in BOOLEAN
  /\ ifReg \in SUBSET Ints /\ ie \in SUBSET Ints
  /\ dma \in [active : BOOLEAN, page : Pages \cup {Nothing},
              index : 0..OamSize, value : Bytes \cup {Program}]
  /\ oam \in [0..(OamSize - 1) -> Bytes \cup {Program}]
  /\ gate \in {"reset", "EI", "DI", "RETI", "irq"}
  /\ served \in Ints \cup {Nothing} /\ wroteIf \in BOOLEAN

\* Interrupts are on, or about to be, only because EI or RETI was the last to
\* speak: no dispatch after a DI, and none inside a handler that did not ask.
ImeJustified == ime \/ imePending => gate \in {"EI", "RETI"}

\* The halt bug is left only by a HALT with interrupts off, and the very next
\* CPU step consumes it: nothing can be dispatched or put to sleep in between.
HaltBugShadow ==
  haltBug => ~ime /\ ~imePending /\ ~halted /\ ~stopped /\ ~dma.active

\* During a transfer the fetched byte is the one its index names, and every
\* byte below the index has arrived.
DmaFaithful ==
  dma.active =>
    /\ dma.page \in Pages /\ dma.index < OamSize
    /\ dma.value = <<dma.page, dma.index>>
    /\ \A i \in 0..(dma.index - 1) : oam[i] = <<dma.page, i>>

\* A transfer that ends has copied the whole page, or a power-on cut it off.
DmaComplete ==
  [][dma.active /\ ~dma'.active =>
       \/ \A i \in 0..(OamSize - 1) : oam'[i] = <<dma.page, i>>
       \/ PowerOn]_vars

\* A request leaves IF only because it is the one dispatched, or because the
\* program (or a power-on) wrote IF.
RequestKept == [][\A b \in ifReg \ ifReg' : served' = b \/ wroteIf']_vars

\* An enabled request ends HALT and STOP, whatever IME says.
Wakeup == ((halted \/ stopped) /\ ifReg \cap ie # {}) ~> (~halted /\ ~stopped)
=============================================================================
