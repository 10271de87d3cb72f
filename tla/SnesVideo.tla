----------------------------- MODULE SnesVideo -----------------------------
(***************************************************************************)
(* Lines and dots of the SNES core (src/supersnes/ppu.c, mem.c, snes.c):   *)
(* when the controllers are latched and when NMI is raised.  The dot is    *)
(* advanced before it is compared.  A dot of the model is one iteration of *)
(* the loop in snes_ppu_run; lines and dots are few.                       *)
(***************************************************************************)
EXTENDS Naturals

CONSTANTS Dots,    \* in a line (1364)
          Lines,   \* in a frame (262)
          Blank,   \* the line where the vertical blank begins (225)
          Over,    \* dots the last CPU step may run past the frame, under a line
          Inputs   \* what the host may hold pressed; {} is nothing

VARIABLES
  beam,   \* [line, dot, done]: done, the dots of the frame run so far
  nmi,    \* [enabled, line, pending]: NMITIMEN bit 7, nmi_line, nmi_pending
  pads    \* [buttons, auto, blank]: the host's, $4218's; history: the host's
          \* when the blank began

video == <<beam, nmi, pads>>

\* snes_load_rom
Init ==
  /\ beam = [line |-> 0, dot |-> 0, done |-> 0]
  /\ nmi = [enabled |-> FALSE, line |-> FALSE, pending |-> FALSE]
  /\ pads \in [buttons : Inputs, auto : {{}}, blank : {{}}]

-----------------------------------------------------------------------------

Frame == Dots * Lines

\* What the comparisons of snes_ppu_run see for the dot just reached.
BlankBegins(dot) == beam.line = Blank /\ dot = 0
FrameBegins(dot) == beam.line = 0 /\ dot = 0

Dot ==
  LET dot == beam.dot + 1
      ends == dot >= Dots
      line == IF ends THEN (beam.line + 1) % Lines ELSE beam.line
  IN
  /\ beam.done < Frame + Over
  /\ beam' = [line |-> line, dot |-> IF ends THEN 0 ELSE dot, done |-> beam.done + 1]
  /\ nmi' = [nmi EXCEPT
               !.pending = @ \/ (BlankBegins(dot) /\ nmi.enabled /\ ~nmi.line),
               !.line = (@ \/ (BlankBegins(dot) /\ nmi.enabled)) /\ ~FrameBegins(dot)]
  /\ pads' = [pads EXCEPT !.auto = IF BlankBegins(dot) THEN pads.buttons ELSE @,
                          !.blank = IF ends /\ line = Blank THEN pads.buttons ELSE @]

\* snes_run_frame starts over at line 0.
RunFrame ==
  /\ beam.done >= Frame
  /\ beam' = [line |-> 0, dot |-> 0, done |-> 0]
  /\ UNCHANGED <<nmi, pads>>

\* Between frames.
SetInput(b) ==
  /\ beam.done >= Frame
  /\ pads' = [pads EXCEPT !.buttons = b]
  /\ UNCHANGED <<beam, nmi>>

\* A write of $4200; reading $4210 clears the enable too.
WriteNmitimen(e) ==
  /\ nmi' = [nmi EXCEPT !.enabled = e]
  /\ UNCHANGED <<beam, pads>>

\* The CPU takes the interrupt.
Taken ==
  /\ nmi.pending
  /\ nmi' = [nmi EXCEPT !.pending = FALSE]
  /\ UNCHANGED <<beam, pads>>

Next ==
  \/ Dot \/ RunFrame \/ Taken
  \/ \E b \in Inputs : SetInput(b)
  \/ \E e \in BOOLEAN : WriteNmitimen(e)

Spec == Init /\ [][Next]_video

-----------------------------------------------------------------------------

\* During the vertical blank a program finds in $4218 the buttons as they were
\* when the blank began (mem.c:3, snes.h:170).
AutoRead == beam.line > Blank => pads.auto = pads.blank
=============================================================================
