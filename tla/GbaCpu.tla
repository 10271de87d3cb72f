------------------------------- MODULE GbaCpu -------------------------------
(***************************************************************************)
(* Modes, interrupts and waits of the Game Boy Advance core               *)
(* (src/mgbax/cpu.c, swi.c, mem.c).  The BIOS is written in C: an          *)
(* interrupt pushes a frame for the program's handler, which comes back by *)
(* jumping to address 0 (Home); Halt and IntrWait stop the CPU.            *)
(*                                                                         *)
(* The mode is kept twice, in `mode' and in the low bits of CPSR, which a  *)
(* dispatch only adds to: interrupted in sys or svc mode, CPSR goes on     *)
(* naming that mode.  Of the registers r13 is kept, as the bank it came    *)
(* from and the frames pushed there.                                       *)
(***************************************************************************)
EXTENDS Integers

CONSTANTS
  GbaModes,  \* "irq" and others of "usr" "sys" "svc" "und"
  GbaInts,   \* interrupts, VBlank among them
  Places,    \* places of the program; Home is address 0
  Home

GbaCpuAssumption ==
  /\ {"irq", "usr"} \subseteq GbaModes
  /\ Home \in Places /\ \E p \in Places : p # Home
  /\ "vblank" \in GbaInts

VARIABLES
  gba,     \* [mode, cpsr, spsrs, cache, sp, sps, at]: cache is the current SPSR
  asleep,  \* [halted, wait, flags]
  inside,  \* bios_dispatch
  irq,     \* [if, ie]
  pushed,  \* the place in the frame on the interrupt stack
  cut      \* history: [cpsr, at] interrupted, or Spoilt once the program has
           \* changed what the return needs

gbavars == <<gba, asleep, inside, irq, pushed, cut>>

Bank(m) == IF m = "sys" THEN "usr" ELSE m
Banks == {Bank(m) : m \in GbaModes}
Psrs == [mode : GbaModes, i : BOOLEAN]
Stacks == [bank : Banks, frames : {0, 1}]
Sleeps == [halted : BOOLEAN, wait : BOOLEAN, flags : SUBSET GbaInts]
Spoilt == [at |-> "spoilt"]

First == CHOOSE m \in GbaModes : m # "irq" /\ (m = "svc" \/ "svc" \notin GbaModes)
PowerOnCpu ==
  [mode |-> First, cpsr |-> [mode |-> First, i |-> TRUE],
   spsrs |-> [b \in Banks |-> [mode |-> "usr", i |-> FALSE]],
   cache |-> [mode |-> "usr", i |-> FALSE],
   sp |-> [bank |-> Bank(First), frames |-> 0],
   sps |-> [b \in Banks |-> [bank |-> b, frames |-> 0]],
   at |-> CHOOSE p \in Places : p # Home]
Awake == [halted |-> FALSE, wait |-> FALSE, flags |-> {}]

\* gba_cpu_power_on
Init ==
  /\ gba = PowerOnCpu /\ asleep = Awake /\ inside = FALSE
  /\ irq = [if |-> {}, ie |-> {}]
  /\ pushed = Home /\ cut = Spoilt

-----------------------------------------------------------------------------

\* gba_cpu_set_mode
SetModeUnsaved(s, m) ==   \* mutant: the SPSR left behind is not stored
  LET t == [s EXCEPT !.mode = m, !.cpsr.mode = m] IN
  IF Bank(s.mode) = Bank(m) THEN t
  ELSE LET sps == [s.sps EXCEPT ![Bank(s.mode)] = s.sp]
       IN [t EXCEPT !.sps = sps, !.sp = sps[Bank(m)], !.cache = s.spsrs[Bank(m)]]

SetMode(s, m) ==
  LET t == [s EXCEPT !.mode = m, !.cpsr.mode = m] IN
  IF Bank(s.mode) = Bank(m) THEN t
  ELSE LET sps == [s.sps EXCEPT ![Bank(s.mode)] = s.sp]
           spsrs == [s.spsrs EXCEPT ![Bank(s.mode)] = s.cache]
       IN [t EXCEPT !.sps = sps, !.sp = sps[Bank(m)],
                    !.spsrs = spsrs, !.cache = spsrs[Bank(m)]]

Pending == irq.if \cap irq.ie
Returns == inside /\ gba.at = Home
Dispatches == Pending # {} /\ ~gba.cpsr.i /\ ~inside
Runs == ~Returns /\ ~asleep.halted /\ ~Dispatches

\* gba_irq_dispatch_return: the frame is popped from whatever stack is
\* current, here the interrupt stack's or garbage.
ReturnHome ==
  /\ Returns
  /\ \E p \in Places :
       /\ gba.sp = [bank |-> "irq", frames |-> 1] => p = pushed
       /\ gba' = SetMode([gba EXCEPT !.at = p, !.cpsr = gba.cache,
                            !.sp.frames = 0],
                         gba.cache.mode)
  /\ inside' = FALSE /\ cut' = Spoilt
  /\ UNCHANGED <<asleep, irq, pushed>>

\* IntrWait wakes for its flags, Halt for any enabled interrupt.
WakesForFlags ==   \* mutant: Halt too wakes for an IntrWait's flags only
  Pending \cap asleep.flags # {}

Wakes == IF asleep.wait THEN Pending \cap asleep.flags # {} ELSE Pending # {}

Sleep ==
  /\ ~Returns /\ asleep.halted
  /\ asleep' = [asleep EXCEPT !.halted = ~Wakes]
  /\ UNCHANGED <<gba, inside, irq, pushed, cut>>

\* gba_irq_dispatch with a handler installed at 03007FFC.
Dispatch ==
  /\ ~Returns /\ ~asleep.halted /\ Dispatches
  /\ \E p \in Places :
       gba' = [SetMode(gba, "irq") EXCEPT
                 !.cache = gba.cpsr, !.at = p, !.sp.frames = 1,
                 !.cpsr = [mode |-> IF gba.cpsr.mode \in {"sys", "svc", "und"}
                                      THEN gba.cpsr.mode ELSE "irq",
                           i |-> TRUE]]
  /\ inside' = TRUE /\ pushed' = gba.at
  /\ cut' = [cpsr |-> gba.cpsr, at |-> gba.at]
  /\ UNCHANGED <<asleep, irq>>

\* Without a handler the dispatch leaves everything as it is; the step is over.
DispatchNowhere ==
  /\ ~Returns /\ ~asleep.halted /\ Dispatches
  /\ UNCHANGED gbavars

\* An instruction that leaves modes alone, or jumps.
Plain(p) ==
  /\ Runs
  /\ gba' = [gba EXCEPT !.at = p]
  /\ UNCHANGED <<asleep, inside, irq, pushed, cut>>

\* do_msr on CPSR: a user mode program writes the flags only, and that too
\* goes through set_mode, with the mode CPSR names.
WriteControl(m, i) ==
  /\ Runs
  /\ gba' = IF gba.mode = "usr" THEN SetMode(gba, gba.cpsr.mode)
            ELSE [SetMode(gba, m) EXCEPT !.cpsr.i = i]
  /\ UNCHANGED <<asleep, inside, irq, pushed, cut>>

WriteFlags ==
  /\ Runs
  /\ gba' = SetMode(gba, gba.cpsr.mode)
  /\ UNCHANGED <<asleep, inside, irq, pushed, cut>>

\* do_msr on SPSR
WriteSpsr(v) ==
  /\ Runs
  /\ gba' = [gba EXCEPT !.cache = v]
  /\ cut' = IF Bank(gba.mode) = "irq" THEN Spoilt ELSE cut
  /\ UNCHANGED <<asleep, inside, irq, pushed>>

\* A data processing instruction with S into r15.
ExceptionReturn(p) ==
  /\ Runs
  /\ gba' = [SetMode([gba EXCEPT !.cpsr = gba.cache], gba.cache.mode) EXCEPT !.at = p]
  /\ UNCHANGED <<asleep, inside, irq, pushed, cut>>

\* gba_cpu_exception, for coprocessor instructions.
Undefined ==
  /\ Runs /\ "und" \in GbaModes
  /\ gba' = [SetMode(gba, "und") EXCEPT !.cache = gba.cpsr, !.cpsr.i = TRUE]
  /\ UNCHANGED <<asleep, inside, irq, pushed, cut>>

\* gba_swi_hle: Halt, SoftReset, IntrWait and VBlankIntrWait.
Halt ==
  /\ Runs
  /\ asleep' = [asleep EXCEPT !.wait = FALSE, !.halted = TRUE]
  /\ UNCHANGED <<gba, inside, irq, pushed, cut>>

SoftReset ==
  /\ Runs
  /\ gba' = PowerOnCpu /\ asleep' = Awake /\ inside' = FALSE /\ cut' = Spoilt
  /\ UNCHANGED <<irq, pushed>>

IntrWait(discard, flags) ==
  LET if == IF discard THEN irq.if \ flags ELSE irq.if IN
  /\ Runs
  /\ irq' = [irq EXCEPT !.if = if \ flags]
  /\ asleep' = IF if \cap flags = {}
                 THEN [halted |-> TRUE, wait |-> TRUE, flags |-> flags]
                 ELSE asleep
  /\ UNCHANGED <<gba, inside, pushed, cut>>

\* gba_io_write16: IE, and IF acknowledged by ones.
WriteIe(s) ==
  /\ Runs
  /\ irq' = [irq EXCEPT !.ie = s]
  /\ UNCHANGED <<gba, asleep, inside, pushed, cut>>

Acknowledge(i) ==
  /\ Runs
  /\ irq' = [irq EXCEPT !.if = @ \ {i}]
  /\ UNCHANGED <<gba, asleep, inside, pushed, cut>>

\* gba_request_irq: timers, and the frame loop if VBlank is enabled.
Request(i) ==
  /\ i = "vblank" => i \in irq.ie
  /\ irq' = [irq EXCEPT !.if = @ \cup {i}]
  /\ UNCHANGED <<gba, asleep, inside, pushed, cut>>

Execute ==
  \/ \E p \in Places : Plain(p) \/ ExceptionReturn(p)
  \/ WriteFlags \/ Undefined \/ Halt \/ SoftReset
  \/ \E m \in GbaModes, i \in BOOLEAN : WriteControl(m, i)
  \/ WriteSpsr([mode |-> "irq", i |-> TRUE])
  \/ \E d \in BOOLEAN, i \in GbaInts : IntrWait(d, {i})
  \/ \E s \in SUBSET GbaInts : WriteIe(s)
  \/ \E i \in GbaInts : Acknowledge(i)

\* gba_cpu_step
Step == ReturnHome \/ Sleep \/ Dispatch \/ DispatchNowhere \/ Execute

Next == Step \/ \E i \in GbaInts : Request(i)

\* The frame loop steps the CPU without end.
Spec == Init /\ [][Next]_gbavars /\ WF_gbavars(Sleep)

-----------------------------------------------------------------------------

TypeOK ==
  /\ gba \in [mode : GbaModes, cpsr : Psrs, spsrs : [Banks -> Psrs],
              cache : Psrs, sp : Stacks, sps : [Banks -> Stacks], at : Places]
  /\ asleep \in Sleeps /\ inside \in BOOLEAN
  /\ irq \in [if : SUBSET GbaInts, ie : SUBSET GbaInts]
  /\ pushed \in Places

\* A handler that comes home in interrupt mode, having left SPSR and the
\* stack's frame alone, gives the interrupted program back: its place, its
\* mode and mask, whatever modes the handler has been through.
HandlerReturns ==
  inside /\ gba.at = Home /\ cut # Spoilt /\ Bank(gba.mode) = "irq" /\ ReturnHome
    => gba'.at = cut.at /\ gba'.cpsr = cut.cpsr /\ gba'.mode = cut.cpsr.mode

\* An interrupt that a sleeping CPU sleeps for is pending.
Halted == asleep.halted
Called == Halted /\ \E i \in Pending : asleep.wait => i \in asleep.flags

\* A sleeping CPU wakes once an interrupt it sleeps for is pending.
HaltEnds == Called ~> ~Halted
=============================================================================
