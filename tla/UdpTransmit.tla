----------------------------- MODULE UdpTransmit -----------------------------
(***************************************************************************)
(* w55_udp_begin, w55_udp_write and w55_udp_end of the W5500 driver, called *)
(* in any order by the firmware, against the chip's transmit ring and its  *)
(* interrupt flags.  Sizes are in cells.                                   *)
(***************************************************************************)
EXTENDS Integers, SequencesExt

CONSTANTS
  TxRingSize,    \* of the socket's transmit buffer, 2048 in the chip
  TxPtrMod,      \* range of the pointers, 65536
  Parts,         \* what callers write, sequences of cells
  MaxWrites      \* bound: writes between begin and end

ASSUME TxAssumption ==
  /\ TxRingSize \in Nat \ {0}
  /\ TxPtrMod \in Nat /\ TxPtrMod > TxRingSize /\ TxPtrMod % TxRingSize = 0
  /\ Parts \subseteq Seq(Nat) /\ MaxWrites \in Nat

VARIABLES
  tx_ring, TX_RD, TX_WR, \* of the chip: the buffer, its two pointers
  IR,                   \* its interrupt flags
  sending,              \* the chip works on a SEND command
  get_free_size, txwr,  \* static variables of the driver
  transmit_pc,          \* "ready" for a call, or in w55_udp_end: "SEND", "wait"
  rc,                   \* what the last w55_udp_end returned
  opened, written,      \* history: begin was called since the last end, and
                        \* the parts written since
  outcome               \* history: what the chip did last, and with which data

txChip == <<tx_ring, TX_RD, TX_WR, IR, sending>>
driverVars == <<get_free_size, txwr, transmit_pc, rc>>
history == <<opened, written, outcome>>
transmitVars == <<txChip, driverVars, history>>

NoOutcome == [event |-> "none", data |-> <<>>]

TransmitInit ==
  /\ tx_ring = [i \in 0..(TxRingSize - 1) |-> 0]
  /\ TX_RD = 0 /\ TX_WR = 0 /\ IR = {} /\ sending = FALSE
  /\ get_free_size = 0 /\ txwr = 0 /\ transmit_pc = "ready" /\ rc = 0
  /\ opened = FALSE /\ written = <<>> /\ outcome = NoOutcome
-----------------------------------------------------------------------------
(* The chip.                                                               *)

TxPlus(ptr, n) == (ptr + n) % TxPtrMod
TxMinus(ptr, base) == (ptr - base) % TxPtrMod

TxCells(ptr, n) == [i \in 1..n |-> tx_ring[(ptr + i - 1) % TxRingSize]]

TX_FSR == TxRingSize - TxMinus(TX_WR, TX_RD)

\* The chip sends what lies between its pointers, or finds no such destination.
Transmit(event) ==
  /\ sending
  /\ outcome' = [event |-> event, data |-> TxCells(TX_RD, TxMinus(TX_WR, TX_RD))]
  /\ TX_RD' = TX_WR
  /\ IR' = IR \cup {event}
  /\ sending' = FALSE
  /\ UNCHANGED <<tx_ring, TX_WR, driverVars, opened, written>>
-----------------------------------------------------------------------------
(* The driver.                                                             *)

\* (The destination register, which nothing else touches, is left out.)
w55_udp_begin ==
  /\ transmit_pc = "ready"
  /\ get_free_size' = TX_FSR
  /\ txwr' = TX_WR
  /\ opened' = TRUE /\ written' = <<>>
  /\ UNCHANGED <<tx_ring, TX_RD, TX_WR, IR, sending, transmit_pc, rc, outcome>>

Accepted(part) ==
  /\ tx_ring' = [i \in DOMAIN tx_ring |->
                   LET offset == (i - txwr) % TxRingSize IN
                   IF offset < Len(part) THEN part[offset + 1] ELSE tx_ring[i]]
  /\ txwr' = TxPlus(txwr, Len(part))
  /\ get_free_size' = get_free_size - Len(part)

\* Faulty: a part that fits may follow one that did not.
RefusedOnce == UNCHANGED <<tx_ring, txwr, get_free_size>>

\* Nothing more is written once one part did not fit.
Refused ==
  /\ get_free_size' = 0
  /\ UNCHANGED <<tx_ring, txwr>>

\* Faulty: no test.
FitsUnchecked(part) == TRUE

Fits(part) == get_free_size >= Len(part)

w55_udp_write(part) ==
  /\ transmit_pc = "ready" /\ Len(written) < MaxWrites
  /\ IF part = <<>> THEN UNCHANGED <<tx_ring, txwr, get_free_size>>
     ELSE IF Fits(part) THEN Accepted(part) ELSE Refused
  /\ written' = Append(written, part)
  /\ UNCHANGED <<TX_RD, TX_WR, IR, sending, transmit_pc, rc, opened, outcome>>

w55_udp_end ==
  /\ transmit_pc = "ready"
  /\ TX_WR' = txwr
  /\ transmit_pc' = "SEND"
  /\ UNCHANGED <<tx_ring, TX_RD, IR, sending, get_free_size, txwr, rc, history>>

\* Faulty: what was free before stays on record.
SendCommandKeepsSize ==
  /\ transmit_pc = "SEND"
  /\ sending' = TRUE
  /\ transmit_pc' = "wait"
  /\ UNCHANGED <<tx_ring, TX_RD, TX_WR, IR, get_free_size, txwr, rc, history>>

SendCommand ==
  /\ transmit_pc = "SEND"
  /\ sending' = TRUE
  /\ get_free_size' = 0
  /\ transmit_pc' = "wait"
  /\ UNCHANGED <<tx_ring, TX_RD, TX_WR, IR, txwr, rc, history>>

\* Faulty: only the flag that was seen first, and only after a success.
ClearedOnSuccess == IF "SEND_OK" \in IR THEN {} ELSE IR

Cleared == {}

\* w55_udp_end sees a flag, clears both, and returns.
EndReturns ==
  /\ transmit_pc = "wait" /\ IR # {}
  /\ rc' = IF "SEND_OK" \in IR THEN 0 ELSE 1
  /\ IR' = Cleared
  /\ transmit_pc' = "ready"
  /\ opened' = FALSE /\ written' = <<>>
  /\ UNCHANGED <<tx_ring, TX_RD, TX_WR, sending, get_free_size, txwr, outcome>>

Sends == SendCommand \/ EndReturns

TransmitNext ==
  \/ w55_udp_begin
  \/ \E part \in Parts : w55_udp_write(part)
  \/ w55_udp_end
  \/ Sends
  \/ \E event \in {"SEND_OK", "TIMEOUT"} : Transmit(event)

TransmitSpec == TransmitInit /\ [][TransmitNext]_transmitVars
-----------------------------------------------------------------------------
\* The parts before the first that did not fit into what the others left.
Room(n) == Len(FlattenSeq(SubSeq(written, 1, n))) <= TxRingSize
Fitting ==
  IF ~opened THEN <<>>
  ELSE SubSeq(written, 1, CHOOSE n \in 0..Len(written) :
                            Room(n) /\ (n = Len(written) \/ ~Room(n + 1)))

TransmitTypeOK ==
  /\ {TX_RD, TX_WR, txwr} \subseteq 0..(TxPtrMod - 1)
  /\ get_free_size \in 0..TxRingSize
  /\ IR \subseteq {"SEND_OK", "TIMEOUT"}
  /\ transmit_pc \in {"ready", "SEND", "wait"} /\ rc \in {0, 1}
  /\ tx_ring \in [0..(TxRingSize - 1) -> Nat]
  /\ sending \in BOOLEAN /\ opened \in BOOLEAN /\ written \in Seq(Parts)

\* The chip's pointers and flags at each call of the driver.
FlagsInv ==
  /\ transmit_pc = "ready" => TX_WR = TX_RD
  /\ transmit_pc # "ready" => TX_WR = txwr
  /\ sending => transmit_pc = "wait" /\ IR = {}
  /\ IR # {} => transmit_pc = "wait" /\ ~sending /\ TX_RD = TX_WR /\ IR = {outcome.event}

\* Between the chip's read pointer and the driver's write pointer lie the parts
\* that fitted; the free size on record is what they left, or zero after a part
\* that did not fit, without a begin, and after a SEND.
PartsInv ==
  /\ transmit_pc \in {"ready", "SEND"} \/ sending =>
       TxCells(TX_RD, TxMinus(txwr, TX_RD)) = FlattenSeq(Fitting)
  /\ transmit_pc = "ready" =>
       get_free_size = IF opened /\ Room(Len(written))
                       THEN TxRingSize - TxMinus(txwr, TX_RD) ELSE 0
  /\ transmit_pc = "wait" => get_free_size = 0

\* The inductive invariant.
TransmitInv == TransmitTypeOK /\ FlagsInv /\ PartsInv

\* What goes on the wire is what was written since begin, in order and unharmed
\* by the wrap of ring and pointers, up to the first part that did not fit; a
\* later, smaller part does not slip in behind the gap, and nothing written
\* without a begin is sent.
SentAsWritten ==
  [][ sending /\ ~sending' => outcome'.data = FlattenSeq(Fitting) ]_transmitVars

\* w55_udp_end reports what became of its own datagram: no flag of an earlier
\* one is left that it could take for an answer.
EndReportsOwn ==
  [][ transmit_pc = "wait" /\ transmit_pc' = "ready" =>
        ~sending /\ (rc' = 0 <=> outcome.event = "SEND_OK") ]_transmitVars
=============================================================================
