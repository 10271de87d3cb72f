------------------------------ MODULE GbTimer ------------------------------
(***************************************************************************)
(* The Game Boy timer (src/mgbx/timer.c): a free-running counter whose     *)
(* falling bit, selected by TAC, increments TIMA; an overflow of TIMA is   *)
(* turned one step later into a reload from TMA and interrupt request 2.   *)
(*                                                                         *)
(* Step is one call of gb_timer_step; the Write actions are the bus writes *)
(* a CPU instruction makes between two steps, any number of them.          *)
(***************************************************************************)
EXTENDS Integers

CONSTANTS
  CounterMod,    \* values of the internal counter (2^16 in the code)
  TimaMod,       \* values of TIMA (2^8 in the code)
  Half,          \* TAC selection -> weight of the counter bit it watches
  ResetCounter   \* the counter after power-on

Select == DOMAIN Half

ASSUME TimerAssumption ==
  /\ CounterMod \in Nat \ {0}
  /\ TimaMod \in Nat /\ TimaMod >= 2
  /\ 0 \in Select
  /\ \A s \in Select : /\ Half[s] \in Nat \ {0}
                        /\ CounterMod % (2 * Half[s]) = 0
  /\ ResetCounter \in 0..(CounterMod - 1)

VARIABLES
  counter, tima, tma,
  on, sel,       \* TAC bit 2 and bits 1..0
  reload,        \* tima_reload
  irq,           \* bit 2 of IF
  owed           \* history: overflows not yet delivered and not cancelled

vars == <<counter, tima, tma, on, sel, reload, irq, owed>>

Values == 0..(TimaMod - 1)

BitSet(c) == (c \div Half[sel]) % 2 = 1

RisingEdge(old, now) == on /\ ~BitSet(old) /\ BitSet(now)   \* mutant
FallingEdge(old, now) == on /\ BitSet(old) /\ ~BitSet(now)

TimaAfterWide(old, now, t) ==   \* mutant: TIMA does not wrap
  IF FallingEdge(old, now) THEN t + 1 ELSE t

\* timer_tick_edge: TIMA, holding t, after the counter moved from old to now.
TimaAfter(old, now, t) ==
  IF FallingEdge(old, now) THEN (t + 1) % TimaMod ELSE t

Overflows(old, now, t) == FallingEdge(old, now) /\ (t + 1) % TimaMod = 0

Init ==
  /\ counter = ResetCounter
  /\ tima = 0 /\ tma = 0
  /\ on = FALSE /\ sel = 0
  /\ reload = FALSE /\ irq = FALSE
  /\ owed = 0

-----------------------------------------------------------------------------

\* The overflow of the previous step is delivered before the edge is looked at.
Step ==
  LET now == (counter + 1) % CounterMod
      t   == IF reload THEN tma ELSE tima
  IN
  /\ counter' = now
  /\ tima' = TimaAfter(counter, now, t)
  /\ reload' = Overflows(counter, now, t)
  /\ irq' = (irq \/ reload)
  /\ owed' = owed - (IF reload THEN 1 ELSE 0)
                  + (IF Overflows(counter, now, t) THEN 1 ELSE 0)
  /\ UNCHANGED <<tma, on, sel>>

WriteDivForgetsReload ==   \* mutant: a reload under way is lost
  /\ counter' = 0
  /\ tima' = TimaAfter(counter, 0, tima)
  /\ reload' = Overflows(counter, 0, tima)
  /\ owed' = owed + (IF Overflows(counter, 0, tima) THEN 1 ELSE 0)
  /\ UNCHANGED <<tma, on, sel, irq>>

WriteDiv ==
  /\ counter' = 0
  /\ tima' = TimaAfter(counter, 0, tima)
  /\ reload' = (reload \/ Overflows(counter, 0, tima))
  /\ owed' = owed + (IF Overflows(counter, 0, tima) THEN 1 ELSE 0)
  /\ UNCHANGED <<tma, on, sel, irq>>

\* A TIMA write cancels the pending reload, and its interrupt with it.
WriteTima(v) ==
  /\ tima' = v
  /\ reload' = FALSE
  /\ owed' = 0
  /\ UNCHANGED <<counter, tma, on, sel, irq>>

WriteTma(v) ==
  /\ tma' = v
  /\ UNCHANGED <<counter, tima, on, sel, reload, irq, owed>>

WriteTac(enable, s) ==
  /\ on' = enable
  /\ sel' = s
  /\ UNCHANGED <<counter, tima, tma, reload, irq, owed>>

\* The CPU dispatches interrupt 2, or the program clears the bit in IF.
Acknowledge ==
  /\ irq' = FALSE
  /\ UNCHANGED <<counter, tima, tma, on, sel, reload, owed>>

\* gb_timer_reset, from mgbx_power_on (which also clears IF bit 2).
Reset ==
  /\ counter' = ResetCounter
  /\ tima' = 0 /\ tma' = 0
  /\ on' = FALSE /\ sel' = 0
  /\ reload' = FALSE /\ irq' = FALSE
  /\ owed' = 0

Next ==
  \/ Step
  \/ WriteDiv
  \/ \E v \in Values : WriteTima(v) \/ WriteTma(v)
  \/ \E enable \in BOOLEAN, s \in Select : WriteTac(enable, s)
  \/ Acknowledge
  \/ Reset

Spec == Init /\ [][Next]_vars

-----------------------------------------------------------------------------

\* The registers keep to their widths.
TypeOK ==
  /\ counter \in 0..(CounterMod - 1)
  /\ tima \in Values /\ tma \in Values
  /\ on \in BOOLEAN /\ sel \in Select
  /\ reload \in BOOLEAN /\ irq \in BOOLEAN
  /\ owed \in Nat

\* While an overflow waits for its reload TIMA holds 0; only a DIV write that
\* follows a change of the TAC selection can slip one tick in, and then the
\* counter is still at the 0 that write left.
StrayTick == reload => tima = 0 \/ (tima = 1 /\ counter = 0)

\* No overflow is lost and none is delivered twice: tima_reload stands for
\* exactly one, whatever DIV, TAC and TMA writes come in between.
OverflowAccounted == owed = IF reload THEN 1 ELSE 0

\* gb_timer_step and gb_timer_write implement a countdown timer of period
\* 2^(N+1) M-cycles for the watched bit N (the comment at timer.c:4-6).
Rate == INSTANCE IntervalTimer WITH
          Periods <- {2 * Half[s] : s \in Select},
          left    <- (2 * Half[sel]) - (counter % (2 * Half[sel])),
          period  <- 2 * Half[sel]

RateSpec == Rate!Spec

\* GbTimer.cfg: a 4-bit counter, a 2-bit TIMA, three of the four selections.
ThreeHalves == [s \in 0..2 |-> <<4, 1, 2>>[s + 1]]
=============================================================================
