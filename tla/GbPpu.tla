------------------------------- MODULE GbPpu -------------------------------
(***************************************************************************)
(* The timing of the Game Boy picture unit (src/mgbx/ppu.c): the position  *)
(* of the beam, the mode and coincidence bits of STAT, the two interrupts, *)
(* and which lines of the picture have been rasterized.                    *)
(*                                                                         *)
(* Dot is one round of the loop of gb_ppu_step.  The register writes a CPU *)
(* instruction makes come between two rounds.                              *)
(***************************************************************************)
EXTENDS Integers

CONSTANTS
  OamDots,    \* dot at which a line is drawn (80 in the code)
  DrawEnd,    \* dot at which the line enters HBlank (252)
  LineDots,   \* dots of a line (456)
  Visible,    \* lines of the picture (144)
  Lines       \* lines of a frame (154)

ASSUME PpuAssumption ==
  /\ OamDots \in Nat /\ DrawEnd \in Nat /\ LineDots \in Nat
  /\ 0 < OamDots /\ OamDots < DrawEnd /\ DrawEnd < LineDots
  /\ Visible \in Nat /\ Lines \in Nat
  /\ 0 < Visible /\ Visible < Lines

VARIABLES
  on,              \* LCDC bit 7
  ly, dot, lyc,
  mode, coincident,  \* STAT bits 1..0 and bit 2
  sources,         \* STAT bits 6..3: what raises the STAT interrupt
  vblankIrq, statIrq,  \* IF bits 0 and 1
  drawn,           \* history: lines drawn since the picture was begun
  settled,         \* history: a line has ended since power-on or LCD off
  compared         \* history: LYC was compared since the LCD was last off

vars == <<on, ly, dot, lyc, mode, coincident, sources, vblankIrq, statIrq,
          drawn, settled, compared>>

Modes == {"HBLANK", "VBLANK", "OAM", "DRAW"}
Sources == {"HBLANK", "VBLANK", "OAM", "LYC"}

\* gb_ppu_reset: LCDC = 0x91 and STAT = 0x85.
Init ==
  /\ on = TRUE /\ ly = 0 /\ dot = 0 /\ lyc = 0
  /\ mode = "VBLANK" /\ coincident = TRUE /\ sources = {}
  /\ vblankIrq = TRUE /\ statIrq = FALSE    \* mgbx_power_on: IF = 0xE1
  /\ drawn = 0 /\ settled = FALSE /\ compared = TRUE

-----------------------------------------------------------------------------

\* set_mode requests the STAT interrupt of the mode entered; mode DRAW has none.
ModeRequests(m) == m \in sources

\* check_lyc
Compare(y, c) ==
  /\ coincident' = (y = c)
  /\ compared' = TRUE
CompareRequests(y, c) == y = c /\ "LYC" \in sources /\ on

\* The mode entered with line y.
LineMode(y) == IF y = Visible THEN "VBLANK" ELSE "OAM"

\* VBlank's own interrupt request.
VBlankIfAsked(y) == y = Visible /\ "VBLANK" \in sources   \* mutant
VBlankOnEveryLine(y) == y >= Visible   \* mutant
VBlankBegins(y) == y = Visible

NextLineLate(y) == IF y = Lines THEN 0 ELSE y + 1   \* mutant: off by one
NextLine(y) == IF y = Lines - 1 THEN 0 ELSE y + 1

EndOfLine ==
  LET y == NextLine(ly) IN
  /\ dot = LineDots - 1
  /\ dot' = 0 /\ ly' = y
  /\ Compare(y, lyc)
  /\ mode' = LineMode(y)
  /\ statIrq' = (statIrq \/ CompareRequests(y, lyc) \/ ModeRequests(LineMode(y)))
  /\ vblankIrq' = (vblankIrq \/ VBlankBegins(y))
  /\ drawn' = IF y = 0 THEN 0 ELSE drawn
  /\ settled' = TRUE

EnterMode(m) ==
  /\ mode' = m
  /\ statIrq' = (statIrq \/ ModeRequests(m))

WithinLine ==
  /\ dot < LineDots - 1
  /\ dot' = dot + 1
  /\ \/ /\ ly < Visible /\ dot + 1 = OamDots
        /\ EnterMode("DRAW")
        /\ drawn' = drawn + 1     \* render_line
     \/ /\ ly < Visible /\ dot + 1 = DrawEnd
        /\ EnterMode("HBLANK")
        /\ UNCHANGED drawn
     \/ /\ ~(ly < Visible /\ dot + 1 \in {OamDots, DrawEnd})
        /\ UNCHANGED <<mode, statIrq, drawn>>
  /\ UNCHANGED <<ly, coincident, vblankIrq, settled, compared>>

\* With the LCD off the loop is never entered.
Dot ==
  /\ on
  /\ EndOfLine \/ WithinLine
  /\ UNCHANGED <<on, lyc, sources>>

\* A write to LCDC with bit 7 clear parks the beam; setting the bit again
\* goes on from there.
LcdOffKeepsDot ==   \* mutant: the beam is left inside its line
  /\ on' = FALSE
  /\ ly' = 0 /\ UNCHANGED dot
  /\ mode' = "HBLANK" /\ coincident' = FALSE
  /\ drawn' = 0 /\ settled' = FALSE /\ compared' = FALSE
  /\ UNCHANGED <<lyc, sources, vblankIrq, statIrq>>

LcdOffKeepsCoincidence ==   \* mutant: only the mode bits of STAT are cleared
  /\ on' = FALSE
  /\ ly' = 0 /\ dot' = 0
  /\ mode' = "HBLANK" /\ UNCHANGED coincident
  /\ drawn' = 0 /\ settled' = FALSE /\ compared' = FALSE
  /\ UNCHANGED <<lyc, sources, vblankIrq, statIrq>>

LcdOff ==
  /\ on' = FALSE
  /\ ly' = 0 /\ dot' = 0
  /\ mode' = "HBLANK" /\ coincident' = FALSE
  /\ drawn' = 0 /\ settled' = FALSE /\ compared' = FALSE
  /\ UNCHANGED <<lyc, sources, vblankIrq, statIrq>>

LcdOn ==
  /\ on' = TRUE
  /\ UNCHANGED <<ly, dot, lyc, mode, coincident, sources, vblankIrq, statIrq,
                 drawn, settled, compared>>

WriteStat(s) ==
  /\ sources' = s
  /\ UNCHANGED <<on, ly, dot, lyc, mode, coincident, vblankIrq, statIrq,
                 drawn, settled, compared>>

WriteLyc(c) ==
  /\ lyc' = c
  /\ Compare(ly, c)
  /\ statIrq' = (statIrq \/ CompareRequests(ly, c))
  /\ UNCHANGED <<on, ly, dot, mode, sources, vblankIrq, drawn, settled>>

\* The CPU dispatches the interrupt, or the program clears its bit.
AckVBlank ==
  /\ vblankIrq' = FALSE
  /\ UNCHANGED <<on, ly, dot, lyc, mode, coincident, sources, statIrq, drawn,
                 settled, compared>>

AckStat ==
  /\ statIrq' = FALSE
  /\ UNCHANGED <<on, ly, dot, lyc, mode, coincident, sources, vblankIrq,
                 drawn, settled, compared>>

\* gb_ppu_reset, from mgbx_power_on
Reset ==
  /\ on' = TRUE /\ ly' = 0 /\ dot' = 0 /\ lyc' = 0
  /\ mode' = "VBLANK" /\ coincident' = TRUE /\ sources' = {}
  /\ vblankIrq' = TRUE /\ statIrq' = FALSE
  /\ drawn' = 0 /\ settled' = FALSE /\ compared' = TRUE

Next ==
  \/ Dot
  \/ LcdOff
  \/ LcdOn
  \/ \E s \in SUBSET Sources : WriteStat(s)
  \/ \E c \in 0..Lines : WriteLyc(c)    \* Lines stands for any LY never has
  \/ AckVBlank
  \/ AckStat
  \/ Reset

Spec == Init /\ [][Next]_vars

\* mgbx_run_frame passes every CPU step's cycles on to gb_ppu_step.
FairSpec == Spec /\ WF_vars(Dot)

-----------------------------------------------------------------------------

TypeOK ==
  /\ on \in BOOLEAN /\ ly \in 0..(Lines - 1) /\ dot \in 0..(LineDots - 1)
  /\ lyc \in 0..Lines
  /\ mode \in Modes /\ coincident \in BOOLEAN /\ sources \in SUBSET Sources
  /\ vblankIrq \in BOOLEAN /\ statIrq \in BOOLEAN
  /\ drawn \in 0..Visible
  /\ settled \in BOOLEAN /\ compared \in BOOLEAN

\* Each line of the picture is rasterized exactly once, in order, however
\* often the LCD is switched: the lines drawn are those the beam has passed.
DrawnBehindBeam ==
  drawn = IF ly < Visible THEN (IF dot >= OamDots THEN ly + 1 ELSE ly)
          ELSE Visible

\* Inside the picture STAT's mode is the one the beam's position calls for.
\* Before the first line after power-on (mode 1) or LCD on (mode 0) is drawn
\* it is not, whatever was written since.
ModeAtBeam ==
  ly < Visible =>
    /\ dot >= DrawEnd => mode = "HBLANK"
    /\ dot >= OamDots /\ dot < DrawEnd => mode = "DRAW"
    /\ dot < OamDots /\ settled => mode = "OAM"

\* The coincidence bit is never a false alarm, and never late once LY and LYC
\* have been compared since the LCD was last switched off.
CoincidenceSound ==
  /\ coincident => ly = lyc
  /\ compared /\ ly = lyc => coincident

\* VBlank is announced only over a complete picture, and once a frame: the
\* beam has just left the last visible line.
VBlankAfterPicture ==
  [][~vblankIrq /\ vblankIrq' /\ settled'
       => drawn' = Visible /\ ly' = Visible /\ dot' = 0]_vars

\* While the LCD stays on the next VBlank comes.
VBlankComes == (on /\ ~vblankIrq) ~> (vblankIrq \/ ~on)
=============================================================================
