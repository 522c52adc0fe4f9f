----------------------------- MODULE UdpReceive ------------------------------
(***************************************************************************)
(* w55_udp_read of the W5500 driver against the chip's receive ring: the   *)
(* chip puts a header and the data of each datagram into a ring buffer,    *)
(* the driver takes them out with a 16 bit pointer that it advances and    *)
(* hands back with the RECV command, while more datagrams arrive.          *)
(* Sizes are in cells; 16 bit registers are read at once (module Read16).  *)
(***************************************************************************)
EXTENDS Integers, SequencesExt

CONSTANTS
  RxRingSize,   \* of the socket's receive buffer, 2048 in the chip
  RxPtrMod,     \* range of the pointers, 65536
  header_size,  \* cells of the chip's header, 8 bytes
  Size,         \* size of the caller's buffer
  Datagrams     \* what may arrive: a sender and cells each

ASSUME RxAssumption ==
  /\ RxRingSize \in Nat \ {0} /\ header_size \in Nat \ {0, 1} /\ Size \in Nat
  /\ RxPtrMod \in Nat /\ RxPtrMod > RxRingSize /\ RxPtrMod % RxRingSize = 0
  /\ Datagrams \subseteq [from : Nat, data : Seq(Nat)]

VARIABLES
  rx_ring, RX_WR,      \* of the chip: the buffer, its write pointer
  RX_RD, taken_up_to,  \* the read pointer register; its value at the last RECV
  receive_pc,          \* the driver's next access
  rxrd, header, dst,   \* locals of w55_udp_read, the caller's buffer
  queue,               \* history: datagrams in the ring
  got                  \* history: what the last call returned

rxChip == <<rx_ring, RX_WR, taken_up_to>>
receiveVars == <<rxChip, RX_RD, receive_pc, rxrd, header, dst, queue, got>>

Port == INSTANCE UdpPort

NoHeader == [from |-> 0, size |-> 0]

ReceiveInit ==
  /\ rx_ring = [i \in 0..(RxRingSize - 1) |-> 0]
  /\ RX_WR = 0 /\ RX_RD = 0 /\ taken_up_to = 0
  /\ receive_pc = "size" /\ rxrd = 0 /\ header = NoHeader /\ dst = <<>>
  /\ Port!Init
-----------------------------------------------------------------------------
(* The chip.                                                               *)

RxPlus(ptr, n) == (ptr + n) % RxPtrMod

\* The cells from a pointer on; the chip takes the pointer modulo the ring.
RxCells(ptr, n) == [i \in 1..n |-> rx_ring[(ptr + i - 1) % RxRingSize]]

RX_RSR == (RX_WR - taken_up_to) % RxPtrMod

\* A datagram in the ring: sender first and size last in the header.
Framed(d) ==
  [i \in 1..header_size |-> IF i = 1 THEN d.from
                            ELSE IF i = header_size THEN Len(d.data) ELSE 0] \o d.data

\* A datagram is taken as a whole, if there is room.
Arrive(d) ==
  /\ RX_RSR + Len(Framed(d)) <= RxRingSize
  /\ rx_ring' = [i \in DOMAIN rx_ring |->
                   LET offset == (i - RX_WR) % RxRingSize IN
                   IF offset < Len(Framed(d)) THEN Framed(d)[offset + 1] ELSE rx_ring[i]]
  /\ RX_WR' = RxPlus(RX_WR, Len(Framed(d)))
  /\ queue' = Append(queue, d)
  /\ UNCHANGED <<taken_up_to, RX_RD, receive_pc, rxrd, header, dst, got>>
-----------------------------------------------------------------------------
(* w55_udp_read.                                                           *)

\* Faulty: a full ring looks like an empty one, and another datagram is awaited.
ReadSizeWaits ==
  /\ receive_pc = "size"
  /\ IF RX_RSR = RxRingSize THEN UNCHANGED <<receive_pc, got>>
     ELSE IF RX_RSR < header_size THEN got' = Port!Nothing /\ UNCHANGED receive_pc
     ELSE receive_pc' = "pointer" /\ UNCHANGED got
  /\ UNCHANGED <<rxChip, RX_RD, rxrd, header, dst, queue>>

\* Nothing there, or not even a header.
ReadSize ==
  /\ receive_pc = "size"
  /\ IF RX_RSR < header_size
     THEN got' = Port!Nothing /\ UNCHANGED receive_pc
     ELSE receive_pc' = "pointer" /\ UNCHANGED got
  /\ UNCHANGED <<rxChip, RX_RD, rxrd, header, dst, queue>>

ReadPointer ==
  /\ receive_pc = "pointer"
  /\ rxrd' = RX_RD
  /\ receive_pc' = "header"
  /\ UNCHANGED <<rxChip, RX_RD, header, dst, queue, got>>

ReadHeader ==
  /\ receive_pc = "header"
  /\ LET h == RxCells(rxrd, header_size) IN
       header' = [from |-> h[1], size |-> h[header_size]]
  /\ rxrd' = RxPlus(rxrd, header_size)
  /\ receive_pc' = "data"
  /\ UNCHANGED <<rxChip, RX_RD, dst, queue, got>>

Copied(size) == IF size < Size THEN size ELSE Size

\* Faulty: past what was copied only.
AdvanceCopied(size) == Copied(size)

Advance(size) == size

\* As much as the buffer holds is copied; the rest is passed over.
ReadData ==
  /\ receive_pc = "data"
  /\ dst' = RxCells(rxrd, Copied(header.size))
  /\ rxrd' = RxPlus(rxrd, Advance(header.size))
  /\ receive_pc' = "write back"
  /\ UNCHANGED <<rxChip, RX_RD, header, queue, got>>

WriteBack ==
  /\ receive_pc = "write back"
  /\ RX_RD' = rxrd
  /\ receive_pc' = "RECV"
  /\ UNCHANGED <<rxChip, rxrd, header, dst, queue, got>>

\* Faulty: the chip is not told.
RecvForgotten ==
  /\ receive_pc = "RECV"
  /\ got' = [from |-> header.from, size |-> header.size, copied |-> dst]
  /\ receive_pc' = "size"
  /\ UNCHANGED <<rxChip, RX_RD, rxrd, header, dst, queue>>

\* The chip frees what was read; the call returns.
Recv ==
  /\ receive_pc = "RECV"
  /\ taken_up_to' = RX_RD
  /\ got' = [from |-> header.from, size |-> header.size, copied |-> dst]
  /\ queue' = Tail(queue)
  /\ receive_pc' = "size"
  /\ UNCHANGED <<rx_ring, RX_WR, RX_RD, rxrd, header, dst>>

w55_udp_read ==
  ReadSize \/ ReadPointer \/ ReadHeader \/ ReadData \/ WriteBack \/ Recv

ReceiveNext == (\E d \in Datagrams : Arrive(d)) \/ w55_udp_read

ReceiveSpec == ReceiveInit /\ [][ReceiveNext]_receiveVars

\* The firmware polls the socket for ever.
ReceiveFairSpec == ReceiveSpec /\ WF_receiveVars(w55_udp_read)
-----------------------------------------------------------------------------
ReceiveTypeOK ==
  /\ RX_RSR \in 0..RxRingSize
  /\ receive_pc \in {"size", "pointer", "header", "data", "write back", "RECV"}
  /\ dst \in Seq(Nat) /\ Len(dst) <= Size
  /\ {RX_WR, RX_RD, taken_up_to, rxrd} \subseteq 0..(RxPtrMod - 1)
  /\ rx_ring \in [0..(RxRingSize - 1) -> Nat] /\ queue \in Seq(Datagrams)

\* The unread part of the ring is exactly the accepted datagrams, framed, one
\* after the other: no remainder of one is left that could be taken for the
\* header of the next or block the socket, also when pointers and ring wrap.
RingHoldsQueue ==
  RxCells(taken_up_to, RX_RSR) = FlattenSeq([i \in DOMAIN queue |-> Framed(queue[i])])

\* What the driver knows of the datagram it takes out, the first in the queue.
TakingInv ==
  /\ receive_pc # "RECV" => RX_RD = taken_up_to
  /\ receive_pc = "header" => rxrd = taken_up_to
  /\ receive_pc = "data" => rxrd = RxPlus(taken_up_to, header_size)
  /\ receive_pc # "size" => queue # <<>>
  /\ receive_pc \in {"data", "write back", "RECV"} =>
       header = [from |-> Head(queue).from, size |-> Len(Head(queue).data)]
  /\ receive_pc \in {"write back", "RECV"} =>
       /\ dst = Port!Taken(Head(queue)).copied
       /\ rxrd = RxPlus(taken_up_to, Len(Framed(Head(queue))))
  /\ receive_pc = "RECV" => RX_RD = rxrd

\* The inductive invariant.
ReceiveInv == ReceiveTypeOK /\ RingHoldsQueue /\ TakingInv

\* The driver, access by access and with datagrams arriving in between,
\* implements the port: nothing is lost, reordered, torn or delivered twice.
ImplementsPort == Port!Spec

\* A ring without room for another datagram is relieved.
Full == RX_RSR + header_size > RxRingSize
FullRelieved == Full ~> ~Full
=============================================================================
