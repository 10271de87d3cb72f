------------------------------ MODULE GbaTimers ------------------------------
(***************************************************************************)
(* The four timers of the Game Boy Advance core (src/mgbax/timer.c): a     *)
(* prescaler or the overflow of the timer before (cascade) clocks each,    *)
(* an overflow reloads it and may raise an interrupt.  A step takes the    *)
(* cycles of one CPU step at once.  What the sound unit is told of         *)
(* overflows is in GbaFifo.                                                *)
(***************************************************************************)
EXTENDS Integers

CONSTANTS
  NTimers,     \* 4 in the code
  CounterMod,  \* 2^16
  Div,         \* prescaler selection -> cycles of a tick (1, 64, 256, 1024)
  Cycles,      \* cycles a CPU step may take
  Reloads      \* reload values a program writes

Timers == 0..(NTimers - 1)

TimersAssumption ==
  /\ NTimers \in Nat \ {0} /\ CounterMod \in Nat \ {0, 1}
  /\ DOMAIN Div # {} /\ \A s \in DOMAIN Div : Div[s] \in Nat \ {0}
  /\ Cycles \subseteq Nat /\ Reloads \subseteq 0..(CounterMod - 1)

VARIABLES
  counter, reload, prescaler,
  tmCtrl,    \* timer -> [on, cascade, irq, sel]
  tmIf,      \* the timers' bits of IF
  tmRan      \* history: cycles of the last step, 0 after a register write

vars == <<counter, reload, prescaler, tmCtrl, tmIf, tmRan>>

Controls == [on : BOOLEAN, cascade : BOOLEAN, irq : BOOLEAN, sel : DOMAIN Div]
Stopped == [on |-> FALSE, cascade |-> FALSE, irq |-> FALSE,
            sel |-> CHOOSE s \in DOMAIN Div : TRUE]

Init ==
  /\ counter = [t \in Timers |-> 0] /\ reload = [t \in Timers |-> 0]
  /\ prescaler = [t \in Timers |-> 0]
  /\ tmCtrl = [t \in Timers |-> Stopped]
  /\ tmIf = {} /\ tmRan = 0

-----------------------------------------------------------------------------

\* The state a step goes through: [counter, irqs].
Raise(s, t) == IF tmCtrl[t].irq THEN [s EXCEPT !.irqs = @ \cup {t}] ELSE s

\* The tick a cascaded timer gets from the one before, enabled or not.  If it
\* overflows in turn, its successor hears nothing of it.
CascadeLate(s, t) ==   \* mutant: reloads before the last count
  IF s.counter[t] + 2 < CounterMod
    THEN [s EXCEPT !.counter[t] = @ + 1]
    ELSE Raise([s EXCEPT !.counter[t] = reload[t]], t)

Cascade(s, t) ==
  IF s.counter[t] + 1 < CounterMod
    THEN [s EXCEPT !.counter[t] = @ + 1]
    ELSE Raise([s EXCEPT !.counter[t] = reload[t]], t)

\* timer_overflow
Overflow(s, t) ==
  LET r == [s EXCEPT !.counter[t] = reload[t]] IN
  Raise(IF t + 1 \in Timers /\ tmCtrl[t + 1].cascade THEN Cascade(r, t + 1) ELSE r,
        t)

Tick(s, t) ==
  IF s.counter[t] + 1 < CounterMod
    THEN [s EXCEPT !.counter[t] = @ + 1]
    ELSE Overflow(s, t)

\* A timer that counts cycles, not overflows.
Prescaled(t) == tmCtrl[t].on /\ (t = 0 \/ ~tmCtrl[t].cascade)

Ticks(t, cycles) ==
  IF Prescaled(t) THEN (prescaler[t] + cycles) \div Div[tmCtrl[t].sel] ELSE 0

\* The loops of gba_timers_step: timer after timer, tick after tick.
Ticked(s, t, n) ==
  LET after[k \in 0..n] == IF k = 0 THEN s ELSE Tick(after[k - 1], t)
  IN after[n]

AllTicked(cycles) ==
  LET after[t \in 0..NTimers] ==
        IF t = 0 THEN [counter |-> counter, irqs |-> tmIf]
        ELSE Ticked(after[t - 1], t - 1, Ticks(t - 1, cycles))
  IN after[NTimers]

\* gba_timers_step
Step(cycles) ==
  /\ counter' = AllTicked(cycles).counter
  /\ tmIf' = AllTicked(cycles).irqs
  /\ prescaler' = [t \in Timers |->
       IF Prescaled(t) THEN (prescaler[t] + cycles) % Div[tmCtrl[t].sel]
       ELSE prescaler[t]]
  /\ tmRan' = cycles
  /\ UNCHANGED <<reload, tmCtrl>>

\* gba_timers_write
WriteControl(t, c) ==
  /\ tmCtrl' = [tmCtrl EXCEPT ![t] = c]
  /\ IF ~tmCtrl[t].on /\ c.on
       THEN /\ counter' = [counter EXCEPT ![t] = reload[t]]
            /\ prescaler' = [prescaler EXCEPT ![t] = 0]
       ELSE UNCHANGED <<counter, prescaler>>
  /\ tmRan' = 0
  /\ UNCHANGED <<reload, tmIf>>

WriteReload(t, v) ==
  /\ reload' = [reload EXCEPT ![t] = v]
  /\ counter' = [counter EXCEPT ![t] = v]
  /\ tmRan' = 0
  /\ UNCHANGED <<prescaler, tmCtrl, tmIf>>

\* The program acknowledges by writing ones to IF.
Acknowledge(t) ==
  /\ tmIf' = tmIf \ {t}
  /\ tmRan' = 0
  /\ UNCHANGED <<counter, reload, prescaler, tmCtrl>>

\* gba_timers_reset, from load_rom and from reset, which clears IF too.
Reset(all) ==
  /\ counter' = [t \in Timers |-> 0] /\ reload' = [t \in Timers |-> 0]
  /\ prescaler' = [t \in Timers |-> 0]
  /\ tmCtrl' = [t \in Timers |-> Stopped]
  /\ tmIf' = (IF all THEN {} ELSE tmIf)
  /\ tmRan' = 0

Next ==
  \/ \E cycles \in Cycles : Step(cycles)
  \/ \E t \in Timers, c \in Controls : WriteControl(t, c)
  \/ \E t \in Timers, v \in Reloads : WriteReload(t, v)
  \/ \E t \in Timers : Acknowledge(t)
  \/ \E all \in BOOLEAN : Reset(all)

Spec == Init /\ [][Next]_vars

-----------------------------------------------------------------------------

TypeOK ==
  /\ counter \in [Timers -> 0..(CounterMod - 1)]
  /\ reload \in [Timers -> Reloads \cup {0}]
  /\ prescaler \in [Timers -> Nat]
  /\ tmCtrl \in [Timers -> Controls]
  /\ tmIf \subseteq Timers /\ tmRan \in Cycles \cup {0}

\* n ticks at once, in closed form: where the counter is after them, and how
\* often it overflowed.
Advanced(t, n) ==
  LET c == counter[t] + n IN
  IF c < CounterMod THEN c
  ELSE reload[t] + ((c - CounterMod) % (CounterMod - reload[t]))

Wraps(t, n) ==
  LET c == counter[t] + n IN
  IF c < CounterMod THEN 0
  ELSE 1 + ((c - CounterMod) \div (CounterMod - reload[t]))

\* However long a step is and however often timers wrap within it, a timer
\* gains exactly its ticks, and one cascaded behind a timer that counts
\* cycles exactly that timer's wraps; a wrap with its interrupt enabled is
\* never silent.
CascadeExact ==
  tmRan' > 0 =>
    \A t \in Timers :
      LET n == Ticks(t, tmRan') IN
      /\ Prescaled(t) =>
           /\ counter'[t] = Advanced(t, n)
           /\ tmCtrl[t].irq /\ Wraps(t, n) > 0 => t \in tmIf'
      /\ t > 0 /\ tmCtrl[t].cascade /\ Prescaled(t - 1) =>
           LET w == Wraps(t - 1, Ticks(t - 1, tmRan')) IN
           /\ counter'[t] = Advanced(t, w)
           /\ tmCtrl[t].irq /\ Wraps(t, w) > 0 => t \in tmIf'
=============================================================================
