------------------------------ MODULE NesCart ------------------------------
(***************************************************************************)
(* The mappers of the NES core that take time to command                   *)
(* (src/beatle-nes-redux/cart.c): MMC1's registers, filled one bit per     *)
(* write, and MMC3's interrupt counter, clocked by rising edges of the     *)
(* pattern address.  A cartridge has one mapper; the banks are not         *)
(* modelled.                                                               *)
(***************************************************************************)
EXTENDS Naturals, Sequences

CONSTANTS Bits,      \* of an MMC1 register (5)
          Fixed,     \* the bits of register 0 that a reset sets (2 and 3)
          Groups,    \* of addresses, one for each register
          LatchMax,  \* MMC3's largest latch (255)
          EdgeMax    \* bound: edges counted since a reload

CartAssumption ==
  /\ Bits \in Nat \ {0} /\ Fixed \subseteq 0..(Bits - 1)
  /\ 0 \in Groups /\ LatchMax \in Nat
  /\ EdgeMax \in Nat /\ EdgeMax > LatchMax + 1

VARIABLES
  mapper,   \* "mmc1" or "mmc3"
  mmc1,     \* [shift, count, regs]: bits 0 to Bits - 1 as functions
  told,     \* history: [bits, regs], the bits of the value being written and
            \* the values the program has written whole
  mmc3,     \* [latch, counter, reload, enable, asserted, a12]
  edges     \* history: rising edges since a reload was asked for with the
            \* counter's setting not changed since; EdgeMax if it was

cartvars == <<mapper, mmc1, told, mmc3, edges>>

Word == 0..(Bits - 1)
Zero == [i \in Word |-> FALSE]

EmptyMmc1 == [shift |-> Zero, count |-> 0, regs |-> [g \in Groups |-> Zero]]
EmptyMmc3 == [latch |-> 0, counter |-> 0, reload |-> FALSE, enable |-> FALSE,
              asserted |-> FALSE, a12 |-> FALSE]

\* nes_cart_load, which ends in nes_cart_reset.  (Of the registers modelled: the
\* bank register, number 3, starts at 12 and no program has told it.)
Init ==
  /\ mapper \in {"mmc1", "mmc3"}
  /\ mmc1 = EmptyMmc1 /\ told = [bits |-> << >>, regs |-> EmptyMmc1.regs]
  /\ mmc3 = EmptyMmc3 /\ edges = EdgeMax

CartReset ==
  /\ mmc1' = EmptyMmc1 /\ told' = [bits |-> << >>, regs |-> EmptyMmc1.regs]
  /\ mmc3' = EmptyMmc3 /\ edges' = EdgeMax
  /\ UNCHANGED mapper

-----------------------------------------------------------------------------

\* mmc1_write: a value comes low bit first, and the address of its last bit
\* names the register.
Shifted(s, b) == [i \in Word |-> IF i = Bits - 1 THEN b ELSE s[i + 1]]
SetFixed(r) == [i \in Word |-> r[i] \/ i \in Fixed]

Mmc1ResetOpen ==   \* mutant: the bits already written stay
  /\ mapper = "mmc1"
  /\ mmc1' = [mmc1 EXCEPT !.regs[0] = SetFixed(@)]
  /\ told' = [bits |-> << >>, regs |-> [told.regs EXCEPT ![0] = SetFixed(@)]]
  /\ UNCHANGED <<mapper, mmc3, edges>>

\* A write with bit 7
Mmc1Reset ==
  /\ mapper = "mmc1"
  /\ mmc1' = [mmc1 EXCEPT !.shift = Zero, !.count = 0, !.regs[0] = SetFixed(@)]
  /\ told' = [bits |-> << >>, regs |-> [told.regs EXCEPT ![0] = SetFixed(@)]]
  /\ UNCHANGED <<mapper, mmc3, edges>>

Mmc1Write(g, b) ==
  LET s == Shifted(mmc1.shift, b)
      bits == Append(told.bits, b)
      whole == Len(bits) = Bits
  IN
  /\ mapper = "mmc1"
  /\ mmc1' = IF mmc1.count + 1 >= Bits
               THEN [mmc1 EXCEPT !.regs[g] = s, !.shift = Zero, !.count = 0]
               ELSE [mmc1 EXCEPT !.shift = s, !.count = @ + 1]
  /\ told' = IF whole
               THEN [bits |-> << >>,
                     regs |-> [told.regs EXCEPT ![g] = [i \in Word |-> bits[i + 1]]]]
               ELSE [told EXCEPT !.bits = bits]
  /\ UNCHANGED <<mapper, mmc3, edges>>

-----------------------------------------------------------------------------

\* mmc3_write: $C000, $C001, $E000 and $E001
WriteLatch(v) ==
  /\ mapper = "mmc3"
  /\ mmc3' = [mmc3 EXCEPT !.latch = v] /\ edges' = EdgeMax
  /\ UNCHANGED <<mapper, mmc1, told>>

WriteReload ==
  /\ mapper = "mmc3"
  /\ mmc3' = [mmc3 EXCEPT !.reload = TRUE]
  /\ edges' = IF mmc3.enable /\ ~mmc3.asserted THEN 0 ELSE EdgeMax
  /\ UNCHANGED <<mapper, mmc1, told>>

WriteDisable ==
  /\ mapper = "mmc3"
  /\ mmc3' = [mmc3 EXCEPT !.enable = FALSE, !.asserted = FALSE] /\ edges' = EdgeMax
  /\ UNCHANGED <<mapper, mmc1, told>>

WriteEnable ==
  /\ mapper = "mmc3"
  /\ mmc3' = [mmc3 EXCEPT !.enable = TRUE]
  /\ UNCHANGED <<mapper, mmc1, told, edges>>

\* mmc3_chr_clock, at every read of a pattern
Edge(c) ==
  IF c.reload THEN [c EXCEPT !.reload = FALSE, !.counter = c.latch]
  ELSE IF c.counter = 0 THEN [c EXCEPT !.counter = c.latch, !.asserted = @ \/ c.enable]
  ELSE [c EXCEPT !.counter = @ - 1, !.asserted = @ \/ (c.enable /\ c.counter = 1)]

Pattern(high) ==
  LET rising == high /\ ~mmc3.a12 IN
  /\ mapper = "mmc3"
  /\ mmc3' = [(IF rising THEN Edge(mmc3) ELSE mmc3) EXCEPT !.a12 = high]
  /\ edges' = IF rising /\ edges < EdgeMax THEN edges + 1 ELSE edges
  /\ UNCHANGED <<mapper, mmc1, told>>

Next ==
  \/ CartReset \/ Mmc1Reset
  \/ \E g \in Groups, b \in BOOLEAN : Mmc1Write(g, b)
  \/ \E v \in 0..LatchMax : WriteLatch(v)
  \/ WriteReload \/ WriteDisable \/ WriteEnable
  \/ \E high \in BOOLEAN : Pattern(high)

Spec == Init /\ [][Next]_cartvars

-----------------------------------------------------------------------------

\* The types.
TypeOK ==
  /\ mmc1 \in [shift : [Word -> BOOLEAN], count : Word,
               regs : [Groups -> [Word -> BOOLEAN]]]
  /\ mmc3 \in [latch : 0..LatchMax, counter : 0..LatchMax, reload : BOOLEAN,
               enable : BOOLEAN, asserted : BOOLEAN, a12 : BOOLEAN]
  /\ edges \in 0..EdgeMax

\* An MMC1 register holds the last value the program wrote to it whole: no bit
\* of an abandoned value, or of one written to another register, gets in.
SerialWhole == mapper = "mmc1" => mmc1.regs = told.regs

\* After a reload the first interrupt of an enabled counter comes with the
\* latch's edge, the one that reloads not counted, and not before.  (With a latch
\* of zero, with the edge after the one that reloads.)
FirstIrqOnTime ==
  (mapper = "mmc3" /\ edges < EdgeMax) =>
    (mmc3.asserted <=> edges >= (IF mmc3.latch = 0 THEN 2 ELSE mmc3.latch + 1))

\* SerialWhole with the bits on their way: the last `count' of the shift register
\* are those told since the last whole value.
SerialInv ==
  /\ mmc1 \in [shift : [Word -> BOOLEAN], count : Word,
               regs : [Groups -> [Word -> BOOLEAN]]]
  /\ told.bits \in Seq(BOOLEAN) /\ Len(told.bits) = mmc1.count
  /\ \A i \in 1..mmc1.count : mmc1.shift[Bits - mmc1.count + i - 1] = told.bits[i]
  /\ told = [bits |-> told.bits, regs |-> mmc1.regs]

\* FirstIrqOnTime with where the counter is after so many edges.
CounterInv ==
  /\ mmc3 \in [latch : 0..LatchMax, counter : 0..LatchMax, reload : BOOLEAN,
               enable : BOOLEAN, asserted : BOOLEAN, a12 : BOOLEAN]
  /\ edges \in 0..EdgeMax
  /\ edges < EdgeMax => mmc3.enable
  /\ edges < EdgeMax => (mmc3.reload <=> edges = 0)
  /\ (edges < EdgeMax /\ edges \in 1..(mmc3.latch + 1)) =>
       mmc3.counter = mmc3.latch - (edges - 1)
  /\ edges < EdgeMax =>
       (mmc3.asserted <=> edges >= (IF mmc3.latch = 0 THEN 2 ELSE mmc3.latch + 1))
=============================================================================
