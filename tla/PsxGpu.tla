------------------------------- MODULE PsxGpu -------------------------------
(***************************************************************************)
(* The command port of the PlayStation's GPU (src/beatle-psx/gpu.c): GP0   *)
(* gathers the words of a command over several writes, by the CPU or by    *)
(* DMA, then runs it; an image takes its pixels two in a word.  What a     *)
(* command draws is left out.  E1 to E6 count one parameter.               *)
(***************************************************************************)
EXTENDS Integers

CONSTANTS Params,    \* numbers of parameters of the fixed commands (0 to 11)
          Sizes,     \* pixels of an image; 0 is an empty one
          MaxPoints  \* words after which a poly-line ends (62)

GpuAssumption ==
  /\ Params \subseteq 0..63 /\ Sizes \subseteq Nat   \* the FIFO has 64 words
  /\ MaxPoints \in 2..63

VARIABLES
  gp0,     \* [kind, len, need, pixels]: "idle", or what the FIFO gathers;
           \* pixels: xfer_left
  packet   \* history: words of the current packet still to come, 0 between
           \* packets; Open while a poly-line waits for its end

gpuvars == <<gp0, packet>>

Open == -1
Idle == [kind |-> "idle", len |-> 0, need |-> 0, pixels |-> 0]
Kinds == {"idle", "fixed", "line", "image"}
ImageWords(n) == (n + 1) \div 2

\* psx_gpu_reset
Init == gp0 = Idle /\ packet = 0

-----------------------------------------------------------------------------

\* psx_gpu_write_gp0, a command word.
Command(n) ==
  /\ gp0.kind = "idle" /\ gp0.pixels = 0
  /\ gp0' = IF n = 0 THEN Idle ELSE [Idle EXCEPT !.kind = "fixed", !.len = 1, !.need = n]
  /\ packet' = n

PolyLine ==
  /\ gp0.kind = "idle" /\ gp0.pixels = 0
  /\ gp0' = [Idle EXCEPT !.kind = "line", !.len = 1]
  /\ packet' = Open

Image ==
  /\ gp0.kind = "idle" /\ gp0.pixels = 0
  /\ gp0' = [Idle EXCEPT !.kind = "image", !.len = 1, !.need = 2]
  /\ packet' = 2

\* A parameter of a fixed command, which runs it when it is the last.
Parameter ==
  /\ gp0.kind = "fixed"
  /\ gp0' = IF gp0.len + 1 >= gp0.need + 1 THEN Idle ELSE [gp0 EXCEPT !.len = @ + 1]
  /\ packet' = packet - 1

\* A point, or the terminator 5xxx5xxxh.
Point(ends) ==
  /\ gp0.kind = "line"
  /\ LET len == gp0.len + 1
         over == ends \/ len >= MaxPoints + 1
     IN /\ gp0' = IF over THEN Idle ELSE [gp0 EXCEPT !.len = len]
        /\ packet' = IF over THEN 0 ELSE Open

\* Coordinates and size of an image, which start its stream.
ImageWord(size) ==
  /\ gp0.kind = "image"
  /\ IF gp0.len + 1 = 3
       THEN gp0' = [Idle EXCEPT !.pixels = size] /\ packet' = ImageWords(size)
       ELSE gp0' = [gp0 EXCEPT !.len = 2] /\ packet' = packet - 1

\* Two pixels, or the last one of an odd image.
StreamTwo ==   \* mutant: the second half of the last word counts as a pixel
  /\ gp0.pixels > 0
  /\ gp0' = [gp0 EXCEPT !.pixels = IF @ = 1 THEN 2 ELSE @ - 2]
  /\ packet' = packet - 1

Stream ==
  /\ gp0.pixels > 0
  /\ gp0' = [gp0 EXCEPT !.pixels = IF @ = 1 THEN 0 ELSE @ - 2]
  /\ packet' = packet - 1

\* psx_gpu_write_gp1: both resets; the others leave the port alone.
Reset == gp0' = Idle /\ packet' = 0

Next ==
  \/ \E n \in Params : Command(n)
  \/ \E size \in Sizes : ImageWord(size)
  \/ \E ends \in BOOLEAN : Point(ends)
  \/ Parameter \/ PolyLine \/ Image \/ Stream \/ Reset

Spec == Init /\ [][Next]_gpuvars

-----------------------------------------------------------------------------

TypeOK ==
  /\ gp0.kind \in Kinds /\ gp0.len \in 0..64 /\ gp0.pixels \in Nat
  /\ packet \in {Open} \cup Nat

\* The port never loses the boundary between commands: the next word is taken
\* as a command exactly when the packet before it is complete, images of an
\* odd number of pixels included.
PacketsWhole ==
  /\ packet = 0 <=> gp0.kind = "idle" /\ gp0.pixels = 0
  /\ packet = Open <=> gp0.kind = "line"

\* What is in the FIFO says how many words are still to come: PacketsWhole with
\* what makes it inductive.
PortInv ==
  /\ gp0 \in [kind : Kinds, len : 0..64, need : 0..63, pixels : Nat]
  /\ gp0.kind = "idle" => packet = ImageWords(gp0.pixels)
  /\ gp0.kind # "idle" => gp0.pixels = 0
  /\ gp0.kind = "fixed" => /\ gp0.len \in 1..gp0.need
                           /\ packet = gp0.need - gp0.len + 1
  /\ gp0.kind = "line" => gp0.len \in 1..MaxPoints /\ packet = Open
  /\ gp0.kind = "image" => gp0.len \in {1, 2} /\ packet = 3 - gp0.len
=============================================================================
