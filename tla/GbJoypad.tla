------------------------------ MODULE GbJoypad ------------------------------
(***************************************************************************)
(* The Game Boy joypad (src/mgbx/joypad.c): two groups of keys share the   *)
(* lines of P1, the program selects which groups drive them, and a bit of  *)
(* P1 that falls requests interrupt 4.  A selected group masks the upper   *)
(* bits of P1 along with its lines, so these fall with the first group     *)
(* selected.                                                               *)
(***************************************************************************)
EXTENDS Integers

CONSTANTS
  Groups,   \* direction keys and action keys
  Lines     \* the lines of P1 (bits 0 to 3 in the code)

Upper == {6, 7}   \* the bits of P1 above the selection

JoypadAssumption == Lines \cap Upper = {}

VARIABLES
  select,    \* the groups selected (a 0 in bits 4 and 5 of P1)
  buttons,   \* the keys the host holds down: <<group, line>>
  irq,       \* IF bit 4
  announced  \* history: the lines low when the interrupt was last requested,
             \* less those that have gone up since

vars == <<select, buttons, irq, announced>>

Keys == Groups \X Lines

\* compose_p1: the lines pulled low.
PulledLow(sel, down) == {n \in Lines : \E g \in sel : <<g, n>> \in down}

Init ==
  /\ select = {} /\ buttons = {}
  /\ irq = FALSE /\ announced = {}

\* compose_p1: the bits of P1 that read 0.
Zeros(sel, down) == PulledLow(sel, down) \cup (IF sel = {} THEN {} ELSE Upper)

\* A change of the selection or of the keys, from P1 value to P1 value.
FallsOnlyFromIdle(old, now) == old = {} /\ now # {}   \* mutant
Falls(old, now) == now \ old # {}

Change(sel, down) ==
  LET falls == Falls(Zeros(select, buttons), Zeros(sel, down))
      now == PulledLow(sel, down)
  IN
  /\ select' = sel /\ buttons' = down
  /\ irq' = (irq \/ falls)
  /\ announced' = IF falls THEN now ELSE announced \cap now

\* gb_joypad_write
Select(sel) == Change(sel, buttons)

\* gb_joypad_set_buttons, from mgbx_set_input, between two frames
SetButtons(down) == Change(select, down)

\* The CPU dispatches the interrupt.
Acknowledge ==
  /\ irq' = FALSE
  /\ UNCHANGED <<select, buttons, announced>>

\* mgbx_power_on forgets the keys without looking at the lines.
PowerOn ==
  /\ select' = {} /\ buttons' = {}
  /\ irq' = FALSE /\ announced' = {}

Next ==
  \/ \E sel \in SUBSET Groups : Select(sel)
  \/ \E down \in SUBSET Keys : SetButtons(down)
  \/ Acknowledge
  \/ PowerOn

Spec == Init /\ [][Next]_vars

-----------------------------------------------------------------------------

\* No press goes unannounced: every line a program could read as low was low
\* at an interrupt request since it was last up, whether the key went down
\* before or after its group was selected, alone or under another key.
EveryPressAnnounced == PulledLow(select, buttons) = announced
=============================================================================
