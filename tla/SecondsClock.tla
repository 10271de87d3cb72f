---------------------------- MODULE SecondsClock ----------------------------
(***************************************************************************)
(* What the clock of an MBC3 cartridge promises, without its registers:    *)
(* one number that goes up by one each second it is not halted, a carry    *)
(* that stays once it has run over, and a display that shows the running   *)
(* clock until the first snapshot and the last snapshot from then on.      *)
(* GbRtc implements it (see Clock there).                                  *)
(***************************************************************************)
EXTENDS Integers

CONSTANT Span   \* number of times the clock can show

VARIABLES
  time, carry,  \* the running clock
  halted,
  shown,        \* [time, carry]: what a program reads
  frozen,       \* a snapshot has been taken
  wrote         \* the program has just set the clock

vars == <<time, carry, halted, shown, frozen, wrote>>

Times == 0..(Span - 1)

Init ==
  /\ time = 0 /\ carry = FALSE /\ halted = FALSE
  /\ shown = [time |-> 0, carry |-> FALSE] /\ frozen = FALSE
  /\ wrote = FALSE

Live == shown' = IF frozen THEN shown ELSE [time |-> time', carry |-> carry']

Second ==
  /\ ~halted
  /\ time' = (time + 1) % Span
  /\ carry' = (carry \/ time = Span - 1)
  /\ Live /\ wrote' = FALSE
  /\ UNCHANGED <<halted, frozen>>

Set ==
  /\ time' \in Times /\ carry' \in BOOLEAN /\ halted' \in BOOLEAN
  /\ Live /\ wrote' = TRUE
  /\ UNCHANGED frozen

Snapshot ==
  /\ shown' = [time |-> time, carry |-> carry] /\ frozen' = TRUE
  /\ wrote' = FALSE
  /\ UNCHANGED <<time, carry, halted>>

PowerOn ==
  /\ time' = 0 /\ carry' = FALSE /\ halted' = FALSE
  /\ shown' = [time |-> 0, carry |-> FALSE] /\ frozen' = FALSE
  /\ wrote' = FALSE

\* Time passes, but not a second.
Pass ==
  /\ wrote' = FALSE
  /\ UNCHANGED <<time, carry, halted, shown, frozen>>

Next == Second \/ Set \/ Snapshot \/ PowerOn \/ Pass

Spec == Init /\ [][Next]_vars
=============================================================================
