------------------------------ MODULE DelayLine ------------------------------
(***************************************************************************)
(* flasher_SET_PULSE_WIDTH: the width goes bit by bit, most significant    *)
(* first, into the shift register of the DS1023 delay line, which takes a  *)
(* bit at each rising edge of its clock while its latch is open, and       *)
(* changes the delay when the latch closes.                                *)
(***************************************************************************)
EXTENDS Integers

CONSTANT NumBits   \* 8 in the code

ASSUME NumBitsAssumption == NumBits \in Nat \ {0}

Bits == 0..(NumBits - 1)
Widths == [Bits -> {0, 1}]   \* width[i] is (width >> i) & 0x01

VARIABLES
  LE, CLK, D,      \* the pins DS1023_LE, DS1023_CLK and DS1023_D
  shift, delay,    \* of the DS1023
  delay_pc, width, i     \* the next step of the firmware, its argument and loop variable

delayVars == <<LE, CLK, D, shift, delay, delay_pc, width, i>>

DelayInit ==
  /\ LE = 0 /\ CLK = 0 /\ D = 0
  /\ shift \in Widths /\ delay \in Widths
  /\ delay_pc = "idle" /\ i = 0
  /\ width = delay

SetPulseWidth(w) ==
  /\ delay_pc = "idle"
  /\ width' = w
  /\ LE' = 0 /\ CLK' = 0
  /\ delay_pc' = "open"
  /\ UNCHANGED <<D, shift, delay, i>>

OpenLatch ==
  /\ delay_pc = "open"
  /\ LE' = 1
  /\ i' = NumBits - 1
  /\ delay_pc' = "data"
  /\ UNCHANGED <<CLK, D, shift, delay, width>>

SetData ==
  /\ delay_pc = "data"
  /\ D' = width[i]
  /\ delay_pc' = "rise"
  /\ UNCHANGED <<LE, CLK, shift, delay, width, i>>

RaiseClock ==
  /\ delay_pc = "rise"
  /\ CLK' = 1
  /\ shift' = IF LE = 1 /\ CLK = 0
              THEN [j \in Bits |-> IF j = 0 THEN D ELSE shift[j - 1]] ELSE shift
  /\ delay_pc' = "fall"
  /\ UNCHANGED <<LE, D, delay, width, i>>

\* Faulty: the loop ends before bit 0.
LowerClockEarly ==
  /\ delay_pc = "fall"
  /\ CLK' = 0
  /\ i' = i - 1
  /\ delay_pc' = IF i > 1 THEN "data" ELSE "close"
  /\ UNCHANGED <<LE, D, shift, delay, width>>

LowerClock ==
  /\ delay_pc = "fall"
  /\ CLK' = 0
  /\ i' = i - 1
  /\ delay_pc' = IF i > 0 THEN "data" ELSE "close"
  /\ UNCHANGED <<LE, D, shift, delay, width>>

CloseLatch ==
  /\ delay_pc = "close"
  /\ LE' = 0
  /\ delay' = shift
  /\ delay_pc' = "idle"
  /\ UNCHANGED <<CLK, D, shift, width, i>>

DelayNext ==
  \/ \E w \in Widths : SetPulseWidth(w)
  \/ OpenLatch \/ SetData \/ RaiseClock \/ LowerClock \/ CloseLatch

DelaySpec == DelayInit /\ [][DelayNext]_delayVars
-----------------------------------------------------------------------------
DelayTypeOK ==
  /\ LE \in {0, 1} /\ CLK \in {0, 1} /\ D \in {0, 1}
  /\ {shift, delay, width} \subseteq Widths
  /\ delay_pc \in {"idle", "open", "data", "rise", "fall", "close"}
  /\ i \in -1..(NumBits - 1)

\* The bits that went in while bits i and below, or below i, are still to come
\* are the upper ones of width, whatever the register held before.
ShiftedIn(from) == \A j \in Bits : j + from \in Bits => shift[j] = width[j + from]

DelayInv ==
  /\ DelayTypeOK
  /\ delay_pc = "open" => CLK = 0
  /\ delay_pc \in {"data", "rise"} => LE = 1 /\ CLK = 0 /\ i \in Bits /\ ShiftedIn(i + 1)
  /\ delay_pc = "rise" => D = width[i]
  /\ delay_pc = "fall" => LE = 1 /\ CLK = 1 /\ i \in Bits /\ ShiftedIn(i)
  /\ delay_pc = "close" => ShiftedIn(0)

\* The delay changes from one width to the next, without a value in between, and
\* a call that returns has set its own.
DelayIsWidth == [][delay' # delay \/ delay_pc = "close" => delay' = width]_delayVars
=============================================================================
