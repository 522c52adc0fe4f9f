------------------------------- MODULE SerialNo -------------------------------
(***************************************************************************)
(* flasher_READ_SERIAL_NO and FlasherCtl._READ_SERIAL_NO: the registers of *)
(* the DS28CM00 (family code, serial number with its least significant     *)
(* byte first, CRC) go through the buffer of the Wire library into the     *)
(* reply.  Setting the chip's register pointer can fail without notice     *)
(* (endTransmission's result is not used), a transfer can be short or      *)
(* bytes of it garbled, and the CRC is not checked.                        *)
(***************************************************************************)
EXTENDS Integers, Sequences

CONSTANTS
  NumBytes,     \* of the serial number: 6
  Family,       \* the family code, 0x70
  OtherBytes    \* some other values of a byte

ASSUME SerialAssumption == NumBytes \in Nat \ {0} /\ Family \notin OtherBytes

Byte == OtherBytes \cup {Family}
Registers == 0..(NumBytes + 1)
Length == NumBytes + 2

VARIABLES
  rom,          \* the chip's registers
  pointer,      \* the register it sends next
  buffer,       \* of the Wire library
  serial_no,    \* what was stored so far
  serial_pc, error,
  garbled       \* history: bytes of the transfer that are not the register's

chip == <<rom, pointer>>
serialVars == <<rom, pointer, buffer, serial_no, serial_pc, error, garbled>>

SerialInit ==
  /\ rom \in {r \in [Registers -> Byte] : r[0] = Family}
  /\ pointer \in Registers
  /\ buffer = <<>> /\ serial_no = <<>>
  /\ serial_pc = "idle" /\ error = FALSE /\ garbled = {}

Point ==
  /\ serial_pc = "idle"
  /\ pointer' \in {0, pointer}   \* not acknowledged: it stays
  /\ serial_no' = <<>> /\ error' = FALSE
  /\ serial_pc' = "request"
  /\ UNCHANGED <<rom, buffer, garbled>>

\* Any number of bytes can arrive, and each with any value: a bit can be in error,
\* the chip can stop driving the bus, and behind its last register it sends anything.
RequestFrom ==
  /\ serial_pc = "request"
  /\ \E n \in 0..Length :
       /\ buffer' \in [1..n -> Byte]
       /\ garbled' = {k \in 1..n : /\ pointer + k - 1 \in Registers
                                   /\ buffer'[k] # rom[pointer + k - 1]}
  /\ pointer' \in Registers
  /\ serial_pc' = "check"
  /\ UNCHANGED <<rom, serial_no, error>>

Stop(e) == serial_pc' = "returned" /\ error' = e

TooShort ==
  /\ serial_pc = "check" /\ Len(buffer) < Length
  /\ Stop(TRUE)
  /\ UNCHANGED <<chip, buffer, serial_no, garbled>>

\* Faulty: any first byte will do.
AnyFamily ==
  /\ serial_pc = "check" /\ Len(buffer) >= Length
  /\ buffer' = Tail(buffer)
  /\ serial_pc' = "copy" /\ UNCHANGED error
  /\ UNCHANGED <<chip, serial_no, garbled>>

FamilyCode ==
  /\ serial_pc = "check" /\ Len(buffer) >= Length
  /\ buffer' = Tail(buffer)
  /\ IF Head(buffer) # Family THEN Stop(TRUE) ELSE serial_pc' = "copy" /\ UNCHANGED error
  /\ UNCHANGED <<chip, serial_no, garbled>>

CopyByte ==
  /\ serial_pc = "copy" /\ Len(serial_no) < NumBytes
  /\ serial_no' = Append(serial_no, Head(buffer))
  /\ buffer' = Tail(buffer)
  /\ UNCHANGED <<chip, serial_pc, error, garbled>>

ReadCrc ==
  /\ serial_pc = "copy" /\ Len(serial_no) = NumBytes
  /\ buffer' = Tail(buffer)
  /\ Stop(FALSE)
  /\ UNCHANGED <<chip, serial_no, garbled>>

\* Wire.requestFrom starts from an empty buffer.
SerialReply ==
  /\ serial_pc = "returned"
  /\ serial_pc' = "idle" /\ buffer' = <<>> /\ garbled' = {}
  /\ UNCHANGED <<chip, serial_no, error>>

SerialNext ==
  Point \/ RequestFrom \/ TooShort \/ FamilyCode \/ CopyByte \/ ReadCrc \/ SerialReply

SerialSpec == SerialInit /\ [][SerialNext]_serialVars
-----------------------------------------------------------------------------
\* What READ_SERIAL_NO yields to its caller: the bytes in the order of the reply.
Yields == serial_pc = "returned" /\ ~error

\* No register but the first holds the value of the family code.
OnlyFamilyFirst == \A r \in Registers \ {0} : rom[r] # Family

\* The stored number and the buffer stay within their sizes.
SerialTypeOK ==
  /\ rom \in [Registers -> Byte] /\ pointer \in Registers
  /\ buffer \in Seq(Byte) /\ Len(buffer) <= Length
  /\ serial_no \in Seq(Byte) /\ Len(serial_no) <= NumBytes
  /\ serial_pc \in {"idle", "request", "check", "copy", "returned"} /\ error \in BOOLEAN
  /\ garbled \subseteq 1..Length

\* Byte k of what is copied is register k of the chip, or was garbled.
IsChips(b, k) == k + 1 \in garbled \/ b = rom[k]

\* The family code is all that tells a transfer from another register from a good
\* one, and nothing tells a garbled byte.  So a number that is yielded, although the
\* register pointer may be anywhere and the bus did anything, differs from the
\* chip's (least significant byte first) in garbled bytes at most, if no later
\* register holds the family code and that one itself was not garbled into one.
NumberIsChips ==
  Yields /\ OnlyFamilyFirst /\ 1 \notin garbled =>
    Len(serial_no) = NumBytes /\ \A k \in 1..NumBytes : IsChips(serial_no[k], k)

\* The inductive invariant: a transfer that starts with the family code came from
\* register 0 (or that byte was garbled), and what is in the buffer is what is still
\* to be copied.
SerialInv ==
  /\ SerialTypeOK
  /\ serial_pc \in {"request", "check"} => serial_no = <<>>
  /\ serial_pc = "check" /\ OnlyFamilyFirst /\ 1 \notin garbled
        /\ Len(buffer) >= Length /\ buffer[1] = Family
       => \A k \in 1..Length : IsChips(buffer[k], k - 1)
  /\ serial_pc = "copy" =>
       /\ Len(serial_no) + Len(buffer) = NumBytes + 1
       /\ OnlyFamilyFirst /\ 1 \notin garbled =>
            /\ \A k \in 1..Len(serial_no) : IsChips(serial_no[k], k)
            /\ \A k \in 1..Len(buffer) : IsChips(buffer[k], Len(serial_no) + k)
  /\ NumberIsChips
=============================================================================
