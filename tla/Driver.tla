-------------------------------- MODULE Driver --------------------------------
(***************************************************************************)
(* The W5500 driver: reading a 16 bit register, receiving a datagram,      *)
(* sending one.  The firmware has one thread and is in one of them at a    *)
(* time, and they work on registers and buffers of their own, so a         *)
(* behaviour exercises one part against the chip, chosen at the beginning. *)
(***************************************************************************)
EXTENDS Read16, UdpReceive, UdpTransmit

VARIABLE part

driverPartsVars == <<part, readVars, receiveVars, transmitVars>>

\* The register of a part that is not exercised is not varied.
Init ==
  /\ part \in {"read16", "receive", "transmit"}
  /\ ReadInit /\ (part # "read16" => register = <<0, 0>>)
  /\ ReceiveInit
  /\ TransmitInit

In(p, others) == part = p /\ UNCHANGED part /\ UNCHANGED others

Reading == w55_read16 /\ In("read16", <<receiveVars, transmitVars>>)
Receiving == w55_udp_read /\ In("receive", <<readVars, transmitVars>>)
Transmitting == TransmitNext /\ In("transmit", <<readVars, receiveVars>>)

Next ==
  \/ Reading
  \/ Chip /\ In("read16", <<receiveVars, transmitVars>>)
  \/ Receiving
  \/ (\E d \in Datagrams : Arrive(d)) /\ In("receive", <<readVars, transmitVars>>)
  \/ Transmitting

Spec == Init /\ [][Next]_driverPartsVars

\* The fairness of the parts: the firmware goes on, the chip owes nothing.
FairSpec == Spec /\ WF_driverPartsVars(Reading) /\ WF_driverPartsVars(Receiving)
-----------------------------------------------------------------------------
\* Pointers and sizes stay in their ranges; in particular the caller's buffer is
\* not overrun and the free size is never exceeded.
TypeOK == ReadTypeOK /\ ReceiveTypeOK /\ TransmitTypeOK

\* The inductive invariant, made of those of the parts.
IInv == ReadInv /\ ReceiveInv /\ TransmitInv
=============================================================================
