------------------------------- MODULE GbaDma -------------------------------
(***************************************************************************)
(* The DMA channels of the Game Boy Advance core (src/mgbax/dma.c) in      *)
(* their immediate, VBlank and HBlank modes: what the program writes to    *)
(* the registers while a channel waits for its trigger, and where each     *)
(* block goes.  The sound channels' mode is in GbaFifo.                    *)
(*                                                                         *)
(* An address is a number of units in a memory that wraps.  Each channel's *)
(* registers are its own, so one channel stands for all.                   *)
(***************************************************************************)
EXTENDS Integers

CONSTANTS
  AddrMod,   \* addresses (2^32)
  MaxCount,  \* units a count of 0 stands for (0x4000 or 0x10000)
  CountMod,  \* values of the count register (2^16)
  Blanks,    \* the blanks a channel can wait for
  Values     \* addresses and counts a program writes

DmaAssumption ==
  /\ AddrMod \in Nat \ {0, 1} /\ MaxCount \in 1..CountMod
  /\ CountMod \in Nat \ {0, 1}
  /\ Values \subseteq 0..(AddrMod - 1) /\ Values \subseteq 0..(CountMod - 1)

VARIABLES
  sad, dad, dadLatch, count, countLatch,
  dmaCtrl,   \* [on, when, repeat, srcFixed, dst]
  enabled,   \* the channel is served at its trigger
  asked,     \* history: [src, dst, count] as the channel was switched on,
             \* or Rewritten once a register was written since
  runs       \* history: transfers since, modulo AddrMod

vars == <<sad, dad, dadLatch, count, countLatch, dmaCtrl, enabled, asked, runs>>

Triggers == {"immediate"} \cup Blanks
Controls == [on : BOOLEAN, when : Triggers, repeat : BOOLEAN,
             srcFixed : BOOLEAN, dst : {"increment", "fixed", "reload"}]
Off == [on |-> FALSE, when |-> "immediate", repeat |-> FALSE,
        srcFixed |-> FALSE, dst |-> "increment"]
Rewritten == [src |-> 0, dst |-> 0, count |-> -1]

Init ==
  /\ sad = 0 /\ dad = 0 /\ dadLatch = 0 /\ count = 0 /\ countLatch = 0
  /\ dmaCtrl = Off /\ enabled = FALSE
  /\ asked = Rewritten /\ runs = 0

-----------------------------------------------------------------------------

Units(c) == IF c = 0 THEN MaxCount ELSE c

\* dma_transfer with the control c, destination latch l and count n: units one
\* after the other, then reload or go on, repeat or switch off.
TransferNoReload(c, l, n) ==   \* mutant: a reloading channel goes on
  /\ sad' = IF c.srcFixed THEN sad ELSE (sad + Units(n)) % AddrMod
  /\ dad' = IF c.dst = "fixed" THEN dad ELSE (dad + Units(n)) % AddrMod
  /\ count' = IF c.repeat THEN countLatch ELSE Units(n) % CountMod
  /\ dmaCtrl' = [c EXCEPT !.on = c.repeat /\ c.on]
  /\ enabled' = c.repeat

Transfer(c, l, n) ==
  /\ sad' = IF c.srcFixed THEN sad ELSE (sad + Units(n)) % AddrMod
  /\ dad' = CASE c.dst = "fixed"  -> dad
              [] c.dst = "reload" -> l
              [] OTHER            -> (dad + Units(n)) % AddrMod
  /\ count' = IF c.repeat THEN countLatch ELSE Units(n) % CountMod
  /\ dmaCtrl' = [c EXCEPT !.on = c.repeat /\ c.on]
  /\ enabled' = c.repeat

\* gba_dma_run, after a visible line and after the last one.  An immediate
\* channel that repeats is served at both, and so is a channel the program
\* has switched off: only dma_transfer clears `enabled'.
Trigger(blank) ==
  /\ enabled
  /\ dmaCtrl.when \in {"immediate", blank}
  /\ Transfer(dmaCtrl, dadLatch, count)
  /\ runs' = (runs + 1) % AddrMod
  /\ UNCHANGED <<dadLatch, countLatch, asked>>

\* gba_dma_write: the address and count registers are the live ones.
WriteSource(v) ==
  /\ sad' = v
  /\ asked' = Rewritten /\ runs' = 0
  /\ UNCHANGED <<dad, dadLatch, count, countLatch, dmaCtrl, enabled>>

WriteDest(v) ==
  /\ dad' = v
  /\ asked' = Rewritten /\ runs' = 0
  /\ UNCHANGED <<sad, dadLatch, count, countLatch, dmaCtrl, enabled>>

WriteCount(v) ==
  /\ countLatch' = v /\ count' = v
  /\ asked' = Rewritten /\ runs' = 0
  /\ UNCHANGED <<sad, dad, dadLatch, dmaCtrl, enabled>>

WriteControl(c) ==
  LET rises == ~dmaCtrl.on /\ c.on IN
  /\ dadLatch' = IF rises THEN dad ELSE dadLatch
  /\ IF rises /\ c.when = "immediate"
       THEN Transfer(c, dad, countLatch)
       ELSE /\ dmaCtrl' = c
            /\ enabled' = (enabled \/ rises)
            /\ count' = IF rises THEN countLatch ELSE count
            /\ UNCHANGED <<sad, dad>>
  /\ asked' = IF rises THEN [src |-> sad, dst |-> dad, count |-> countLatch]
              ELSE Rewritten
  /\ runs' = IF rises /\ c.when = "immediate" THEN 1 ELSE 0
  /\ UNCHANGED countLatch

\* gba_dma_reset
Reset ==
  /\ sad' = 0 /\ dad' = 0 /\ dadLatch' = 0 /\ count' = 0 /\ countLatch' = 0
  /\ dmaCtrl' = Off /\ enabled' = FALSE
  /\ asked' = Rewritten /\ runs' = 0

Next ==
  \/ \E blank \in Blanks : Trigger(blank)
  \/ \E v \in Values : WriteSource(v) \/ WriteDest(v) \/ WriteCount(v)
  \/ \E c \in Controls : WriteControl(c)
  \/ Reset

Spec == Init /\ [][Next]_vars

-----------------------------------------------------------------------------

TypeOK ==
  /\ {sad, dad, dadLatch} \subseteq 0..(AddrMod - 1)
  /\ {count, countLatch} \subseteq 0..(CountMod - 1)
  /\ dmaCtrl \in Controls /\ enabled \in BOOLEAN
  /\ runs \in 0..(AddrMod - 1)

\* A channel left alone since it was switched on copies what it was asked to,
\* block after block: after k blocks its source is k blocks on, and its
\* destination too unless it is fixed or reloaded, with the same number of
\* units to come.  A channel that shows itself switched on is served.
BlocksInOrder ==
  /\ dmaCtrl.on => enabled
  /\ asked # Rewritten =>
       LET moved == (runs * Units(asked.count)) % AddrMod IN
       /\ sad = IF dmaCtrl.srcFixed THEN asked.src
                ELSE (asked.src + moved) % AddrMod
       /\ dad = IF dmaCtrl.dst = "increment" THEN (asked.dst + moved) % AddrMod
                ELSE asked.dst
       /\ enabled => count = asked.count

\* BlocksInOrder, with what a reload and a repeat take up again.
BlocksInv ==
  /\ asked \in {Rewritten} \cup [src : 0..(AddrMod - 1), dst : 0..(AddrMod - 1),
                                count : 0..(CountMod - 1)]
  /\ asked # Rewritten => asked.count = countLatch /\ asked.dst = dadLatch
  /\ BlocksInOrder
=============================================================================
