------------------------------ MODULE MacEntry ------------------------------
(***************************************************************************)
(* iostack_query_mac_address: the operator types the MAC address of a new  *)
(* device, digit by digit, with backspace and return, into the six bytes   *)
(* of iostack_default_config.                                              *)
(*                                                                         *)
(* A hexadecimal digit is the set of its bits, so that the |= of the code  *)
(* is a union; a byte is its high and its low digit.                       *)
(***************************************************************************)
EXTENDS Integers, Sequences

CONSTANTS
  MacBytes,   \* bytes of the address, 6 in the code
  DigitBits        \* bits of a digit, 0..3 in the code

ASSUME MacBytesAssumption == MacBytes \in Nat

Digits == SUBSET DigitBits
NumDigits == 2 * MacBytes

VARIABLES
  mac,        \* mac[6]
  nchars,     \* digits shown in the prompt
  accepted,   \* the loop has been left
  typed,      \* history: the digits the operator typed and did not take back
  stale       \* history: bytes whose low digit was taken back, not yet restarted

macVars == <<mac, nchars, accepted, typed, stale>>

MacInit ==
  /\ mac = [b \in 0..(MacBytes - 1) |-> [high |-> {}, low |-> {}]]
  /\ nchars = 0
  /\ accepted = FALSE
  /\ typed = <<>>
  /\ stale = {}

\* Faulty: the bits of a high digit that was taken back stay.
PutDigitOrs(m, n, c) ==
  IF n % 2 = 0 THEN [m EXCEPT ![n \div 2].high = @ \cup c]
               ELSE [m EXCEPT ![n \div 2].low = @ \cup c]

\* An even position starts a byte and clears its low digit; an odd one is
\* or-ed into the byte.  Further digits are ignored.
PutDigit(m, n, c) ==
  LET b == n \div 2 IN
  IF n % 2 = 0
  THEN [m EXCEPT ![b] = [high |-> c, low |-> {}]]
  ELSE [m EXCEPT ![b].low = @ \cup c]

Digit(c) ==
  /\ ~accepted
  /\ nchars < NumDigits
  /\ mac' = PutDigit(mac, nchars, c)
  /\ nchars' = nchars + 1
  /\ typed' = Append(typed, c)
  /\ stale' = IF nchars % 2 = 0 THEN stale \ {nchars \div 2} ELSE stale
  /\ UNCHANGED accepted

\* Faulty: no test for an empty line.
BackspaceUnchecked ==
  /\ ~accepted
  /\ nchars' = nchars - 1
  /\ typed' = SubSeq(typed, 1, Len(typed) - 1)
  /\ UNCHANGED <<mac, accepted, stale>>

Backspace ==
  /\ ~accepted
  /\ nchars > 0
  /\ nchars' = nchars - 1
  /\ typed' = SubSeq(typed, 1, Len(typed) - 1)
  /\ stale' = IF nchars % 2 = 0 THEN stale \cup {(nchars - 1) \div 2} ELSE stale
  /\ UNCHANGED <<mac, accepted>>

Enter ==
  /\ ~accepted
  /\ nchars = NumDigits
  /\ accepted' = TRUE
  /\ UNCHANGED <<mac, nchars, typed, stale>>

\* After Enter the address is stored and used; the prompt does not come back.
MacNext == (\E c \in Digits : Digit(c)) \/ Backspace \/ Enter

MacSpec == MacInit /\ [][MacNext]_macVars
-----------------------------------------------------------------------------
MacTypeOK ==
  /\ mac \in [0..(MacBytes - 1) -> [high : Digits, low : Digits]]
  /\ nchars \in 0..NumDigits
  /\ accepted \in BOOLEAN
  /\ typed \in Seq(Digits) /\ Len(typed) = nchars
  /\ stale \subseteq 0..(MacBytes - 1)

\* The digit in mac at position n, and the one the operator typed there.
DigitAt(n) == IF n % 2 = 0 THEN mac[n \div 2].high ELSE mac[n \div 2].low
TypedAt(n) == typed[n + 1]

\* After any mixture of digits and backspaces, every digit the prompt shows (it is
\* printed from mac) is the one that was typed there, unless it is the low one of a
\* byte whose low digit was taken back and that was not started again since; that
\* one has the bits that were typed and perhaps more.
NoDigitLost ==
  \A n \in 0..(nchars - 1) :
    /\ TypedAt(n) \subseteq DigitAt(n)
    /\ n % 2 = 0 \/ n \div 2 \notin stale => DigitAt(n) = TypedAt(n)

\* The inductive invariant: the low digit that the next one is or-ed into is
\* empty, unless its byte is stale.
MacInv ==
  /\ MacTypeOK /\ NoDigitLost
  /\ nchars % 2 = 1 /\ nchars \div 2 \notin stale => mac[nchars \div 2].low = {}

\* What the comment on backspace promises: a digit taken back is gone, so that the
\* address accepted (and shown) is the one the operator typed, corrections included.
AcceptedAsTyped ==
  accepted => \A n \in 0..(NumDigits - 1) : DigitAt(n) = TypedAt(n)
=============================================================================
