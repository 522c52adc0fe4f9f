------------------------------- MODULE Read16 -------------------------------
(***************************************************************************)
(* w55_read16: reading a 16 bit register of the W5500 that the chip may    *)
(* change while it is read.  The SPI bus moves one byte at a time, the     *)
(* high byte first, and the driver reads until two consecutive reads       *)
(* agree.  The registers read this way while the chip works on them (the   *)
(* received size, the free transmit size) only grow until the driver       *)
(* itself gives the chip its next command.                                 *)
(***************************************************************************)
EXTENDS Integers

CONSTANTS
  MaxHigh,    \* largest high byte the register reaches
  MaxByte     \* largest low byte, 255 in the chip

ASSUME ByteAssumption == MaxHigh \in Nat /\ MaxByte \in Nat

\* A 16 bit value as its two bytes, and the order of such values.
Values == (0..MaxHigh) \X (0..MaxByte)
v \prec w == v[1] < w[1] \/ (v[1] = w[1] /\ v[2] < w[2])

\* What value holds before the first read of a call: no pair of bytes.
NoValue == <<-1, -1>>

VARIABLES
  read_pc,    \* the byte about to be exchanged
  register,   \* the register in the chip
  high,       \* the high byte of the read in progress
  value,      \* the previous read, and what the call returns
  seen        \* history: what the register held during the call

readVars == <<read_pc, register, high, value, seen>>

ReadInit ==
  /\ read_pc = "idle"
  /\ register \in Values
  /\ high = 0
  /\ value = NoValue
  /\ seen = {}

Call ==
  /\ read_pc = "idle"
  /\ read_pc' = "high"
  /\ value' = NoValue
  /\ seen' = {register}
  /\ UNCHANGED <<register, high>>

ReadHigh ==
  /\ read_pc = "high"
  /\ high' = register[1]
  /\ read_pc' = "low"
  /\ UNCHANGED <<register, value, seen>>

new_value == <<high, register[2]>>

\* Faulty: one read is enough; a read is compared with the first one only.
ReadLowOnce ==
  /\ read_pc = "low"
  /\ value' = new_value
  /\ read_pc' = "done"
  /\ UNCHANGED <<register, high, seen>>

ReadLowAgainstFirst ==
  /\ read_pc = "low"
  /\ value' = IF value = NoValue THEN new_value ELSE value
  /\ read_pc' = IF new_value = value THEN "done" ELSE "high"
  /\ UNCHANGED <<register, high, seen>>

\* The second byte completes a read; the call returns when it confirms the
\* previous one.
ReadLow ==
  /\ read_pc = "low"
  /\ value' = new_value
  /\ read_pc' = IF new_value = value THEN "done" ELSE "high"
  /\ UNCHANGED <<register, high, seen>>

Return ==
  /\ read_pc = "done"
  /\ read_pc' = "idle"
  /\ seen' = {}
  /\ UNCHANGED <<register, high, value>>

\* The chip takes in a datagram, or frees a part of the transmit buffer.
Grow(new) ==
  /\ register \prec new
  /\ register' = new
  /\ seen' = IF read_pc = "idle" THEN seen ELSE seen \cup {new}
  /\ UNCHANGED <<read_pc, high, value>>

\* RECV or SEND, which the driver gives between calls.
Command(new) ==
  /\ read_pc = "idle"
  /\ new \prec register
  /\ register' = new
  /\ UNCHANGED <<read_pc, high, value, seen>>

w55_read16 == Call \/ ReadHigh \/ ReadLow \/ Return
Chip == \E new \in Values : Grow(new) \/ Command(new)

ReadNext == w55_read16 \/ Chip

ReadSpec == ReadInit /\ [][ReadNext]_readVars

\* The driver keeps exchanging bytes; the chip owes nothing.
ReadFairSpec == ReadSpec /\ WF_readVars(w55_read16)
-----------------------------------------------------------------------------
ReadTypeOK ==
  /\ read_pc \in {"idle", "high", "low", "done"}
  /\ register \in Values
  /\ high \in 0..MaxHigh
  /\ value \in Values \cup {NoValue}
  /\ seen \subseteq Values

\* A call returns a value the register held while it ran, never the high byte
\* of one value joined to the low byte of another.
NotTorn == read_pc = "done" => value \in seen

\* Every call returns although it has no timeout: the chip cannot go on
\* changing a register that only grows.
CallReturns == read_pc = "high" ~> read_pc = "done"
-----------------------------------------------------------------------------
(* Why two equal reads suffice.  A read joins its high byte to a low byte  *)
(* taken later; as long as the high byte of the register is still the one  *)
(* read, the pair was in the register when the low byte was taken.         *)

Confirmed(h, v) == v[1] <= h /\ (v[1] = h => v \in seen)

ReadInv ==
  /\ ReadTypeOK
  /\ read_pc # "idle" => register \in seen
  /\ read_pc = "low" => high <= register[1]
  /\ read_pc \in {"high", "low"} /\ value # NoValue => Confirmed(register[1], value)
  /\ read_pc = "low" /\ value # NoValue => Confirmed(high, value)
  /\ NotTorn
=============================================================================
