--------------------------- MODULE IntervalTimer ---------------------------
(***************************************************************************)
(* What the Game Boy timer promises to a program, without the counter bit  *)
(* it is built on: a countdown of `period' M-cycles that ticks TIMA each   *)
(* time it ends, an overflow that takes one more M-cycle to reload TIMA    *)
(* and raise the interrupt, a DIV write that restarts the countdown.       *)
(* GbTimer implements it (see Rate there).                                 *)
(***************************************************************************)
EXTENDS Integers

CONSTANTS
  Periods,  \* the M-cycles between two ticks, one for each TAC selection
  TimaMod   \* number of values TIMA takes

VARIABLES
  left,     \* M-cycles until the next tick
  period,   \* the selected period
  on,       \* TAC enable bit
  tima, tma,
  reload,   \* TIMA overflowed one M-cycle ago
  irq       \* the timer interrupt is requested

vars == <<left, period, on, tima, tma, reload, irq>>

Init ==
  /\ period \in Periods
  /\ left \in 1..period
  /\ on \in BOOLEAN
  /\ tima = 0 /\ tma = 0
  /\ ~reload /\ ~irq

\* TIMA, read as `t', is incremented when `ticks' holds.
Count(t, ticks) ==
  /\ tima' = IF ticks THEN (t + 1) % TimaMod ELSE t
  /\ reload' = (ticks /\ t + 1 = TimaMod)

Elapse ==
  /\ left' = IF left = 1 THEN period ELSE left - 1
  /\ Count(IF reload THEN tma ELSE tima, on /\ left = 1)
  /\ irq' = (irq \/ reload)
  /\ UNCHANGED <<period, on, tma>>

\* Restarting in the second half of a period counts as its tick.
Restart ==
  LET ticks == on /\ 2 * left <= period IN
  /\ left' = period
  /\ tima' = IF ticks THEN (tima + 1) % TimaMod ELSE tima
  /\ reload' = (reload \/ (ticks /\ tima + 1 = TimaMod))
  /\ UNCHANGED <<period, on, tma, irq>>

Configure ==
  /\ on' \in BOOLEAN
  /\ period' \in Periods
  /\ left' \in 1..period'
  /\ UNCHANGED <<tima, tma, reload, irq>>

SetTima ==
  /\ tima' \in 0..(TimaMod - 1)
  /\ reload' = FALSE
  /\ UNCHANGED <<left, period, on, tma, irq>>

SetTma ==
  /\ tma' \in 0..(TimaMod - 1)
  /\ UNCHANGED <<left, period, on, tima, reload, irq>>

Acknowledge ==
  /\ irq' = FALSE
  /\ UNCHANGED <<left, period, on, tima, tma, reload>>

PowerOn ==
  /\ period' \in Periods
  /\ left' \in 1..period'
  /\ on' \in BOOLEAN
  /\ tima' = 0 /\ tma' = 0
  /\ reload' = FALSE /\ irq' = FALSE

Next ==
  \/ Elapse \/ Restart \/ Configure \/ SetTima \/ SetTma \/ Acknowledge
  \/ PowerOn

Spec == Init /\ [][Next]_vars
=============================================================================
