------------------------------- MODULE NesPad -------------------------------
(***************************************************************************)
(* The controller port of the NES core (src/beatle-nes-redux/bus.c, nes.c):*)
(* a program strobes $4016 and reads the buttons one by one, while the     *)
(* host may change them between frames.                                    *)
(***************************************************************************)
EXTENDS Naturals, Sequences

CONSTANTS NButtons,   \* of a controller (8)
          ReadMax     \* bound: reads counted since a strobe

PadAssumption == NButtons \in Nat \ {0} /\ ReadMax \in Nat

VARIABLES
  pad,     \* [strobe, shift, buttons]
  seen     \* history: [held, reads]: the buttons when the strobe was last high,
           \* and the reads since it fell

padvars == <<pad, seen>>

Buttons == [1..NButtons -> BOOLEAN]
None == [i \in 1..NButtons |-> FALSE]

Init ==
  /\ pad = [strobe |-> FALSE, shift |-> None, buttons |-> None]
  /\ seen = [held |-> None, reads |-> 0]

-----------------------------------------------------------------------------

\* nes_set_input
SetInput(b) ==
  /\ pad' = [pad EXCEPT !.buttons = b, !.shift = IF pad.strobe THEN b ELSE @]
  /\ seen' = IF pad.strobe THEN [held |-> b, reads |-> 0] ELSE seen

\* A write of $4016
Strobe(high) ==
  /\ pad' = [pad EXCEPT !.strobe = high, !.shift = IF high THEN pad.buttons ELSE @]
  /\ seen' = IF high THEN [held |-> pad.buttons, reads |-> 0] ELSE seen

\* A read of $4016: ones follow the last button.
Read ==
  /\ seen.reads < ReadMax
  /\ pad' = IF pad.strobe THEN pad ELSE [pad EXCEPT !.shift = Append(Tail(@), TRUE)]
  /\ seen' = IF pad.strobe THEN seen ELSE [seen EXCEPT !.reads = @ + 1]

Next ==
  \/ Read
  \/ \E b \in Buttons : SetInput(b)
  \/ \E high \in BOOLEAN : Strobe(high)

Spec == Init /\ [][Next]_padvars

-----------------------------------------------------------------------------

\* The types.
TypeOK == pad \in [strobe : BOOLEAN, shift : Buttons, buttons : Buttons]

\* A program reads the buttons in their order and as they were when it strobed,
\* though the host changes them meanwhile, and then ones.
ButtonsAsStrobed ==
  Head(pad.shift) = IF seen.reads < NButtons THEN seen.held[seen.reads + 1] ELSE TRUE

\* ButtonsAsStrobed for all the buttons still to come.
PadInv ==
  /\ pad \in [strobe : BOOLEAN, shift : Buttons, buttons : Buttons]
  /\ seen \in [held : Buttons, reads : Nat]
  /\ pad.strobe => seen = [held |-> pad.buttons, reads |-> 0]
  /\ \A i \in 1..NButtons : pad.shift[i] =
       IF seen.reads + i <= NButtons THEN seen.held[seen.reads + i] ELSE TRUE
=============================================================================
