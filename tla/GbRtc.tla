------------------------------- MODULE GbRtc -------------------------------
(***************************************************************************)
(* The clock of an MBC3 cartridge (src/mgbx/cart.c): registers that carry  *)
(* into one another, driven by the cycles the CPU steps take and never by  *)
(* the host's clock, a halt flag kept twice, and the two-write protocol    *)
(* that latches the registers.                                             *)
(***************************************************************************)
EXTENDS Integers

CONSTANTS
  NRegs,      \* registers that count (4: seconds, minutes, hours, days)
  RegMod,     \* values of one (2^8 in the code)
  SecondLen,  \* cycles of a second (4194304)
  Costs       \* cycles of a CPU step

Regs == 0..(NRegs - 1)

RtcAssumption ==
  /\ NRegs \in Nat \ {0} /\ RegMod \in Nat \ {0}
  /\ SecondLen \in Nat \ {0} /\ Costs \subseteq 1..SecondLen

VARIABLES
  reg, high, stop, carry,  \* rtc[0..3]; bits 0, 6 and 7 of rtc[4]
  halt,                    \* rtc_halt
  divider,                 \* rtc_divider
  latched,                 \* rtc_latched: the registers and rtc[4]
  latchedValid, armed,     \* rtc_latched_valid, rtc_latch_state
  wrote                    \* history: the last step wrote a register

vars == <<reg, high, stop, carry, halt, divider, latched, latchedValid, armed,
          wrote>>

Zero == [r \in Regs |-> 0]
Live == [reg |-> reg, high |-> high, stop |-> stop, carry |-> carry]

Init ==
  /\ reg = Zero /\ high = FALSE /\ stop = FALSE /\ carry = FALSE
  /\ halt = FALSE /\ divider = 0
  /\ latched = [reg |-> Zero, high |-> FALSE, stop |-> FALSE, carry |-> FALSE]
  /\ latchedValid = FALSE /\ armed = FALSE /\ wrote = FALSE

-----------------------------------------------------------------------------

\* One more second: a register moves when all below it wrap.
WrapsBelow(d, r) == \A q \in 0..(r - 1) : d[q] = RegMod - 1

RippledNoChain(d) ==   \* mutant: a register moves when the one below it is at its end
  [r \in Regs |-> IF r = 0 \/ d[r - 1] = RegMod - 1 THEN (d[r] + 1) % RegMod ELSE d[r]]

Rippled(d) ==
  [r \in Regs |-> IF WrapsBelow(d, r) THEN (d[r] + 1) % RegMod ELSE d[r]]

\* gb_cart_tick_rtc, after each CPU step; no step is longer than a second.
Tick(t) ==
  LET second == divider + t >= SecondLen IN
  /\ ~halt
  /\ divider' = (divider + t) % SecondLen
  /\ reg' = IF second THEN Rippled(reg) ELSE reg
  /\ carry' = (carry \/ (second /\ WrapsBelow(reg, NRegs)))
  /\ wrote' = FALSE
  /\ UNCHANGED <<high, stop, halt, latched, latchedValid, armed>>

\* Writes to 0xA000-0xBFFF with a clock register selected, RAM enabled or not.
WriteReg(r, v) ==
  /\ reg' = [reg EXCEPT ![r] = v]
  /\ wrote' = TRUE
  /\ UNCHANGED <<high, stop, carry, halt, divider, latched, latchedValid, armed>>

WriteFlags(h, s, c) ==
  /\ high' = h /\ stop' = s /\ carry' = c
  /\ halt' = s
  /\ wrote' = TRUE
  /\ UNCHANGED <<reg, divider, latched, latchedValid, armed>>

\* Writes of 0 and then 1 to 0x6000-0x7FFF; other values change nothing.
LatchArm ==
  /\ armed' = TRUE
  /\ wrote' = FALSE
  /\ UNCHANGED <<reg, high, stop, carry, halt, divider, latched, latchedValid>>

LatchOnEveryOne ==   \* mutant: the write of 0 is not waited for
  /\ latched' = Live /\ latchedValid' = TRUE /\ armed' = FALSE
  /\ wrote' = FALSE
  /\ UNCHANGED <<reg, high, stop, carry, halt, divider>>

Latch ==
  /\ armed
  /\ latched' = Live /\ latchedValid' = TRUE /\ armed' = FALSE
  /\ wrote' = FALSE
  /\ UNCHANGED <<reg, high, stop, carry, halt, divider>>

\* gb_cart_reset
Reset ==
  /\ reg' = Zero /\ high' = FALSE /\ stop' = FALSE /\ carry' = FALSE
  /\ halt' = FALSE /\ divider' = 0
  /\ latched' = [reg |-> Zero, high |-> FALSE, stop |-> FALSE, carry |-> FALSE]
  /\ latchedValid' = FALSE /\ armed' = FALSE /\ wrote' = FALSE

Next ==
  \/ \E t \in Costs : Tick(t)
  \/ \E r \in Regs, v \in 0..(RegMod - 1) : WriteReg(r, v)
  \/ \E h, s, c \in BOOLEAN : WriteFlags(h, s, c)
  \/ LatchArm
  \/ Latch
  \/ Reset

Spec == Init /\ [][Next]_vars

\* What a read of the selected register returns.
Shown == IF latchedValid THEN latched ELSE Live

-----------------------------------------------------------------------------

Registers == [reg : [Regs -> 0..(RegMod - 1)], high : BOOLEAN, stop : BOOLEAN,
              carry : BOOLEAN]

TypeOK ==
  /\ Live \in Registers /\ latched \in Registers
  /\ halt \in BOOLEAN /\ divider \in 0..(SecondLen - 1)
  /\ latchedValid \in BOOLEAN /\ armed \in BOOLEAN /\ wrote \in BOOLEAN

\* The registers read together as one number of seconds, of so many in all.
Spans[n \in 0..NRegs] == IF n = 0 THEN 1 ELSE RegMod * Spans[n - 1]

Seconds(d) ==
  LET value[r \in 0..NRegs] ==
        IF r = NRegs THEN 0 ELSE d[r] + RegMod * value[r + 1]
  IN value[0]

\* The registers, their carries and the latch implement a clock that counts
\* seconds: no second is lost or counted twice across carries, halts and
\* latches, what a program reads is the clock at one instant, and it stands
\* still as long as the halt bit a program reads in rtc[4] is set.
Clock == INSTANCE SecondsClock WITH
           Span   <- Spans[NRegs],
           time   <- Seconds(reg),
           carry  <- carry,
           halted <- stop,
           shown  <- [time |-> Seconds(Shown.reg), carry |-> Shown.carry],
           frozen <- latchedValid,
           wrote  <- wrote

ClockSpec == Clock!Spec

\* Only a write of 1 that follows a write of 0 takes a new snapshot, and once
\* one is taken a program reads nothing else until the next.
LatchProtocol ==
  [][latchedValid /\ latchedValid' /\ Shown' # Shown => armed /\ ~armed']_vars
=============================================================================
