-------------------------- MODULE PeripheralsProofs --------------------------
(***************************************************************************)
(* Proofs about the operator's prompt and the chips of the flasher board,  *)
(* part by part and then of the module that composes them.                 *)
(***************************************************************************)
EXTENDS Peripherals, TLAPS

(* The MAC address: addresses of any length, digits of any width.          *)

\* The position of a digit and of the next one.
LEMMA Halves ==
  ASSUME NEW n \in Nat
  PROVE  /\ n \div 2 \in Nat /\ n % 2 \in {0, 1}
         /\ n = 2 * (n \div 2) + (n % 2)
         /\ (n + 1) % 2 = 1 - (n % 2)
         /\ (n + 1) \div 2 = (n \div 2) + (n % 2)
<1>1. \A m \in Nat : m \div 2 \in Nat /\ m % 2 \in {0, 1} /\ m = 2 * (m \div 2) + (m % 2)
  <2>1. \A m \in Nat : m \div 2 \in Nat
    OBVIOUS
  <2>2. \A m \in Nat : m % 2 \in {0, 1}
    OBVIOUS
  <2>3. \A m \in Nat : m = 2 * (m \div 2) + (m % 2)
    OBVIOUS
  <2>. QED
    BY <2>1, <2>2, <2>3, Zenon
<1>2. \A p, q \in Nat, r, s \in {0, 1} :
         2 * p + s = (2 * q + r) + 1 => s = 1 - r /\ p = q + r
  OBVIOUS
<1>3. n + 1 \in Nat /\ 0 \in Nat /\ 1 \in Nat
  OBVIOUS
<1>4. /\ n % 2 \in {0, 1} /\ (n + 1) % 2 \in {0, 1} /\ n \div 2 \in Nat /\ (n + 1) \div 2 \in Nat
      /\ n = 2 * (n \div 2) + (n % 2)
      /\ n + 1 = 2 * ((n + 1) \div 2) + ((n + 1) % 2)
  BY <1>1, <1>3, Zenon
<1>5. 2 * ((n + 1) \div 2) + ((n + 1) % 2) = (2 * (n \div 2) + (n % 2)) + 1
  BY <1>4, Zenon
<1>6. (n + 1) % 2 = 1 - (n % 2) /\ (n + 1) \div 2 = (n \div 2) + (n % 2)
  <2>. DEFINE q == n \div 2
              p == (n + 1) \div 2
              r == n % 2
              s == (n + 1) % 2
  <2>1. p \in Nat /\ q \in Nat /\ r \in {0, 1} /\ s \in {0, 1} /\ 2 * p + s = (2 * q + r) + 1
    BY <1>4, <1>5, Zenon
  <2>. HIDE DEF p, q, r, s
  <2>2. s = 1 - r /\ p = q + r
    BY <1>2, <2>1
  <2>. QED
    BY <2>2, Zenon DEF p, q, r, s
<1>. QED
  BY <1>4, <1>6, Zenon

\* A digit shares its byte with the one before it or the one after it.
LEMMA Positions ==
  ASSUME NEW n \in Nat, n < NumDigits
  PROVE  /\ n \div 2 \in 0..(MacBytes - 1) /\ n % 2 \in {0, 1}
         /\ n % 2 = 0 <=> (n + 1) % 2 = 1
         /\ n % 2 = 0 => (n + 1) \div 2 = n \div 2
         /\ \A k \in 0..(n - 1) : /\ k \div 2 \in 0..(MacBytes - 1)
                                  /\ k % 2 \in {0, 1}
                                  /\ k \div 2 = n \div 2 => n % 2 = 1 /\ k % 2 = 0
<1>1. \A q, r \in Nat : 2 * q + r < NumDigits => q \in 0..(MacBytes - 1)
  BY MacBytesAssumption DEF NumDigits
<1>2. \A p, q, r, s \in Nat : 2 * p + r < 2 * q + s /\ r \in {0, 1} /\ s \in {0, 1} /\ p = q
                              => s = 1 /\ r = 0
  OBVIOUS
<1>3. n \div 2 \in 0..(MacBytes - 1) /\ n % 2 \in {0, 1}
  <2>1. 2 * (n \div 2) + (n % 2) < NumDigits
    BY Halves
  <2>. QED
    BY <1>1, <2>1, Halves
<1>4. (n % 2 = 0 <=> (n + 1) % 2 = 1) /\ (n % 2 = 0 => (n + 1) \div 2 = n \div 2)
  BY Halves
<1>5. ASSUME NEW k \in 0..(n - 1)
      PROVE  /\ k \div 2 \in 0..(MacBytes - 1) /\ k % 2 \in {0, 1}
             /\ k \div 2 = n \div 2 => n % 2 = 1 /\ k % 2 = 0
  <2>1. k \in Nat /\ k < n /\ k < NumDigits
    BY MacBytesAssumption DEF NumDigits
  <2>2. /\ k \div 2 \in Nat /\ k % 2 \in {0, 1} /\ k = 2 * (k \div 2) + (k % 2)
        /\ n \div 2 \in Nat /\ n % 2 \in {0, 1} /\ n = 2 * (n \div 2) + (n % 2)
    BY <2>1, Halves
  <2>3. k \div 2 \in 0..(MacBytes - 1)
    <3>1. 2 * (k \div 2) + (k % 2) < NumDigits /\ k % 2 \in Nat
      BY <2>1, <2>2
    <3>. QED
      BY <1>1, <2>2, <3>1, Zenon
  <2>4. 2 * (k \div 2) + (k % 2) < 2 * (n \div 2) + (n % 2) /\ n % 2 \in Nat /\ k % 2 \in Nat
    BY <2>1, <2>2
  <2>. QED
    BY <1>2, <2>2, <2>3, <2>4, Zenon
<1>. QED
  BY <1>3, <1>4, <1>5

\* The invariant of the prompt, of each action and of the whole.
LEMMA MacInvInit == MacInit => MacInv
<1> SUFFICES ASSUME MacInit PROVE MacInv
  OBVIOUS
<1>1. MacTypeOK
  <2>1. {} \in Digits /\ 0 \in 0..NumDigits
    BY MacBytesAssumption DEF Digits, NumDigits
  <2>2. <<>> \in Seq(Digits) /\ Len(<<>>) = 0
    OBVIOUS
  <2>. QED
    BY <2>1, <2>2 DEF MacInit, MacTypeOK
<1>2. nchars = 0 /\ nchars % 2 # 1
  BY DEF MacInit
<1>3. \A n \in 0..(nchars - 1) : FALSE
  BY <1>2
<1>4. NoDigitLost
  BY <1>3, Zenon DEF NoDigitLost
<1>. QED
  BY <1>1, <1>2, <1>4, Zenon DEF MacInv

\* A digit goes where the prompt shows it and changes no digit before it.
LEMMA DigitKeeps ==
  ASSUME MacInv, NEW c \in Digits, Digit(c)
  PROVE  MacInv'
<1> DEFINE n == nchars
           b == nchars \div 2
<1>1. /\ mac \in [0..(MacBytes - 1) -> [high : Digits, low : Digits]]
      /\ n \in Nat /\ n < NumDigits /\ NumDigits \in Nat /\ accepted \in BOOLEAN
      /\ typed \in Seq(Digits) /\ Len(typed) = n
      /\ stale \subseteq 0..(MacBytes - 1)
  BY MacBytesAssumption DEF MacInv, MacTypeOK, Digit, NumDigits
<1>2. /\ nchars' = n + 1 /\ accepted' = accepted /\ typed' = Append(typed, c)
      /\ mac' = PutDigit(mac, n, c)
      /\ stale' = IF n % 2 = 0 THEN stale \ {b} ELSE stale
  BY DEF Digit
<1>3. /\ b \in 0..(MacBytes - 1) /\ n % 2 \in {0, 1}
      /\ n % 2 = 0 <=> (n + 1) % 2 = 1
      /\ n % 2 = 0 => (n + 1) \div 2 = b
      /\ \A k \in 0..(n - 1) : /\ k \div 2 \in 0..(MacBytes - 1) /\ k % 2 \in {0, 1}
                               /\ k \div 2 = b => n % 2 = 1 /\ k % 2 = 0
  BY <1>1, Positions
<1>4. /\ typed' \in Seq(Digits) /\ Len(typed') = n + 1
      /\ typed'[n + 1] = c /\ \A k \in 0..(n - 1) : typed'[k + 1] = typed[k + 1]
  BY <1>1, <1>2
<1>. HIDE DEF b, n
<1>5. /\ mac' \in [0..(MacBytes - 1) -> [high : Digits, low : Digits]]
      /\ \A a \in 0..(MacBytes - 1) : a # b => mac'[a] = mac[a]
      /\ n % 2 = 0 => mac'[b].high = c /\ mac'[b].low = {}
      /\ n % 2 # 0 => mac'[b].high = mac[b].high /\ mac'[b].low = mac[b].low \cup c
  <2>1. CASE n % 2 = 0
    <3>1. mac' = [mac EXCEPT ![b] = [high |-> c, low |-> {}]]
      BY <1>2, <2>1 DEF PutDigit, b, n
    <3>2. {} \in Digits
      BY DEF Digits
    <3>. QED
      BY <1>1, <1>3, <2>1, <3>1, <3>2
  <2>2. CASE n % 2 # 0
    <3>1. mac' = [mac EXCEPT ![b].low = @ \cup c]
      BY <1>2, <2>2 DEF PutDigit, b, n
    <3>2. mac[b].low \cup c \in Digits
      BY <1>1, <1>3 DEF Digits
    <3>. QED
      BY <1>1, <1>3, <2>2, <3>1, <3>2
  <2>. QED
    BY <2>1, <2>2
<1>6. MacTypeOK'
  <2>1. nchars' \in 0..NumDigits
    BY <1>1, <1>2
  <2>2. stale' \subseteq 0..(MacBytes - 1)
    BY <1>1, <1>2, <1>3
  <2>. QED
    BY <1>1, <1>2, <1>4, <1>5, <2>1, <2>2 DEF MacTypeOK
<1>7. nchars' % 2 = 1 /\ nchars' \div 2 \notin stale' => mac'[nchars' \div 2].low = {}
  BY <1>2, <1>3, <1>5
<1>8. ASSUME NEW k \in 0..n
      PROVE  /\ TypedAt(k)' \subseteq DigitAt(k)'
             /\ k % 2 = 0 \/ k \div 2 \notin stale' => DigitAt(k)' = TypedAt(k)'
  <2>1. CASE k \in 0..(n - 1)
    <3>1. /\ TypedAt(k) \subseteq DigitAt(k)
          /\ k % 2 = 0 \/ k \div 2 \notin stale => DigitAt(k) = TypedAt(k)
      BY <2>1 DEF MacInv, NoDigitLost, n
    <3>2. TypedAt(k)' = TypedAt(k)
      BY <1>4, <2>1 DEF TypedAt
    <3>3. /\ k \div 2 \in 0..(MacBytes - 1) /\ k % 2 \in {0, 1}
          /\ k \div 2 = b => n % 2 = 1 /\ k % 2 = 0
      BY <1>3, <2>1
    <3>4. DigitAt(k)' = DigitAt(k)
      BY <1>3, <1>5, <3>3 DEF DigitAt
    <3>5. k \div 2 \notin stale' => k \div 2 \notin stale \/ k % 2 = 0
      BY <1>2, <3>3
    <3>. QED
      BY <3>1, <3>2, <3>4, <3>5, Zenon
  <2>2. CASE k = n
    <3>1. TypedAt(k)' = c
      BY <1>4, <2>2 DEF TypedAt
    <3>2. DigitAt(k)' = IF n % 2 = 0 THEN c ELSE mac[b].low \cup c
      BY <1>5, <2>2 DEF DigitAt, b, n
    <3>3. n % 2 # 0 /\ b \notin stale' => mac[b].low = {}
      BY <1>2, <1>3 DEF MacInv, b, n
    <3>4. k \div 2 = b
      BY <2>2 DEF b, n
    <3>. QED
      BY <2>2, <3>1, <3>2, <3>3, <3>4
  <2>3. k \in 0..(n - 1) \/ k = n
    BY <1>1
  <2>. QED
    BY <2>1, <2>2, <2>3
<1>9. NoDigitLost'
  <2>1. nchars' - 1 = n
    BY <1>1, <1>2
  <2>. QED
    BY <1>8, <2>1, Zenon DEF NoDigitLost
<1>. QED
  BY <1>6, <1>7, <1>9 DEF MacInv

\* A digit is taken back: only a low digit is left behind, and its byte is stale.
LEMMA BackspaceKeeps ==
  ASSUME MacInv, Backspace
  PROVE  MacInv'
<1> DEFINE n == nchars - 1
           b == n \div 2
<1>1. /\ mac \in [0..(MacBytes - 1) -> [high : Digits, low : Digits]]
      /\ n \in Nat /\ n + 1 = nchars /\ n < NumDigits /\ NumDigits \in Nat /\ accepted \in BOOLEAN
      /\ typed \in Seq(Digits) /\ Len(typed) = n + 1
      /\ stale \subseteq 0..(MacBytes - 1)
  BY MacBytesAssumption DEF MacInv, MacTypeOK, Backspace, NumDigits
<1>2. /\ nchars' = n /\ accepted' = accepted /\ typed' = SubSeq(typed, 1, n)
      /\ mac' = mac
      /\ stale' = IF nchars % 2 = 0 THEN stale \cup {b} ELSE stale
  BY <1>1 DEF Backspace
<1>3. /\ b \in 0..(MacBytes - 1) /\ n % 2 \in {0, 1}
      /\ n % 2 = 0 <=> nchars % 2 = 1
      /\ n % 2 = 0 => nchars \div 2 = b
  BY <1>1, Positions
<1>4. nchars % 2 = 0 <=> n % 2 = 1
  <2>1. (n + 1) % 2 = 1 - (n % 2)
    BY <1>1, Halves
  <2>. QED
    BY <1>1, <1>3, <2>1, SMTT(40)
<1>5. /\ typed' \in Seq(Digits) /\ Len(typed') = n
      /\ \A k \in 0..(n - 1) : typed'[k + 1] = typed[k + 1]
  <2>1. n <= Len(typed)
    BY <1>1
  <2>2. /\ SubSeq(typed, 1, n) \in Seq(Digits) /\ Len(SubSeq(typed, 1, n)) = n
        /\ \A k \in 1..n : SubSeq(typed, 1, n)[k] = typed[k]
    BY <1>1, <2>1
  <2>3. \A k \in 0..(n - 1) : k + 1 \in 1..n
    BY <1>1
  <2>. QED
    BY <1>2, <2>2, <2>3, Zenon
<1>. HIDE DEF b, n
<1>6. MacTypeOK'
  <2>1. nchars' \in 0..NumDigits
    BY <1>1, <1>2
  <2>2. stale' \subseteq 0..(MacBytes - 1)
    BY <1>1, <1>2, <1>3
  <2>. QED
    BY <1>1, <1>2, <1>5, <2>1, <2>2, Zenon DEF MacTypeOK
<1>7. nchars' % 2 = 1 /\ nchars' \div 2 \notin stale' => FALSE
  BY <1>2, <1>4 DEF b
<1>8. NoDigitLost'
  <2>1. ASSUME NEW k \in 0..(nchars' - 1)
        PROVE  /\ TypedAt(k)' \subseteq DigitAt(k)'
               /\ k % 2 = 0 \/ k \div 2 \notin stale' => DigitAt(k)' = TypedAt(k)'
    <3>1. k \in 0..(n - 1) /\ k \in 0..(nchars - 1)
      BY <1>1, <1>2, <2>1
    <3>2. /\ TypedAt(k) \subseteq DigitAt(k)
          /\ k % 2 = 0 \/ k \div 2 \notin stale => DigitAt(k) = TypedAt(k)
      BY <3>1 DEF MacInv, NoDigitLost
    <3>3. TypedAt(k)' = TypedAt(k)
      BY <1>5, <3>1 DEF TypedAt
    <3>4. DigitAt(k)' = DigitAt(k)
      BY <1>2 DEF DigitAt
    <3>5. k \div 2 \notin stale' => k \div 2 \notin stale
      BY <1>2
    <3>. QED
      BY <3>2, <3>3, <3>4, <3>5, Zenon
  <2>. QED
    BY <2>1, Zenon DEF NoDigitLost
<1>. QED
  BY <1>6, <1>7, <1>8 DEF MacInv

\* Every key keeps the invariant of the MAC entry.
LEMMA MacInvNext == MacInv /\ [MacNext]_macVars => MacInv'
<1> SUFFICES ASSUME MacInv, [MacNext]_macVars PROVE MacInv'
  OBVIOUS
<1>1. CASE \E c \in Digits : Digit(c)
  BY <1>1, DigitKeeps
<1>2. CASE Backspace
  BY <1>2, BackspaceKeeps
<1>3. ASSUME UNCHANGED <<mac, nchars, typed, stale>>, accepted' \in BOOLEAN
      PROVE  MacInv'
  <2>1. \A k : TypedAt(k)' = TypedAt(k) /\ DigitAt(k)' = DigitAt(k)
    BY <1>3 DEF TypedAt, DigitAt
  <2>2. NoDigitLost'
    BY <1>3, <2>1, Zenon DEF MacInv, NoDigitLost
  <2>. QED
    BY <1>3, <2>2, Zenon DEF MacInv, MacTypeOK
<1>4. CASE Enter
  BY <1>3, <1>4 DEF Enter
<1>5. CASE UNCHANGED macVars
  BY <1>3, <1>5 DEF macVars, MacInv, MacTypeOK
<1>. QED
  BY <1>1, <1>2, <1>4, <1>5, Zenon DEF MacNext

\* The inductive invariant of the prompt.
LEMMA MacInvariance == MacSpec => []MacInv
  BY MacInvInit, MacInvNext, PTL DEF MacSpec
-----------------------------------------------------------------------------
(* The delay line: of any length, with any previous contents.              *)

\* The initial states satisfy the invariant of the transfer ...
LEMMA DelayInvInit == DelayInit => DelayInv
  BY NumBitsAssumption, SMT DEF DelayInit, DelayInv, DelayTypeOK, Bits, Widths, ShiftedIn

\* What has gone in stays in its place behind the next bit.
LEMMA ShiftStep ==
  ASSUME DelayTypeOK, i \in Bits, ShiftedIn(i + 1), D = width[i], LE = 1, CLK = 0, RaiseClock
  PROVE  ShiftedIn(i)'
<1>1. shift' = [j \in Bits |-> IF j = 0 THEN D ELSE shift[j - 1]] /\ width' = width /\ i' = i
  BY DEF RaiseClock
<1>2. SUFFICES ASSUME NEW j \in Bits, j + i \in Bits
               PROVE  shift'[j] = width[j + i]
  BY <1>1, Zenon DEF ShiftedIn
<1>3. CASE j = 0
  BY <1>1, <1>3, NumBitsAssumption, SMT DEF Bits
<1>4. CASE j # 0
  <2>1. j - 1 \in Bits /\ (j - 1) + (i + 1) \in Bits /\ (j - 1) + (i + 1) = j + i
    BY <1>2, <1>4, NumBitsAssumption, SMT DEF Bits
  <2>2. shift'[j] = shift[j - 1]
    BY <1>1, <1>4
  <2> QED BY <2>1, <2>2 DEF ShiftedIn
<1> QED BY <1>3, <1>4

\* ... and every change of a pin keeps it.
LEMMA DelayInvNext == DelayInv /\ [DelayNext]_delayVars => DelayInv'
<1> SUFFICES ASSUME DelayInv, [DelayNext]_delayVars PROVE DelayInv'
  OBVIOUS
<1> USE NumBitsAssumption
<1>1. ASSUME NEW w \in Widths, SetPulseWidth(w) PROVE DelayInv'
  BY <1>1 DEF SetPulseWidth, DelayInv, DelayTypeOK
<1>2. CASE OpenLatch
  <2>1. i' \in Bits /\ i' + 1 = NumBits
    BY <1>2, SMT DEF OpenLatch, Bits
  <2>2. \A j \in Bits : j + (i' + 1) \notin Bits
    <3> TAKE j \in Bits
    <3>1. i' + 1 = NumBits /\ j \in 0..(NumBits - 1) /\ NumBits \in Nat
      BY <2>1 DEF Bits
    <3>2. j + NumBits \notin 0..(NumBits - 1)
      BY <3>1, SMT
    <3> QED BY <3>1, <3>2, Zenon DEF Bits
  <2>3. ShiftedIn(i + 1)'
    BY <2>2, Zenon DEF ShiftedIn
  <2> QED BY <1>2, <2>1, <2>3 DEF OpenLatch, DelayInv, DelayTypeOK, Bits
<1>3. CASE SetData
  <2>1. D' \in {0, 1} /\ D' = width[i]
    BY <1>3 DEF SetData, DelayInv, DelayTypeOK, Widths
  <2>2. ShiftedIn(i + 1)'
    BY <1>3 DEF SetData, DelayInv, ShiftedIn
  <2> QED BY <1>3, <2>1, <2>2 DEF SetData, DelayInv, DelayTypeOK
<1>4. CASE RaiseClock
  <2>1. ShiftedIn(i)'
    BY <1>4, ShiftStep DEF RaiseClock, DelayInv
  <2>2. shift' \in Widths
    BY <1>4, SMT DEF RaiseClock, DelayInv, DelayTypeOK, Widths, Bits
  <2> QED BY <1>4, <2>1, <2>2 DEF RaiseClock, DelayInv, DelayTypeOK
<1>5. CASE LowerClock
  <2>1. i' = i - 1 /\ i \in Bits /\ ShiftedIn(i) /\ UNCHANGED <<shift, width>>
    BY <1>5 DEF LowerClock, DelayInv
  <2>2. i' + 1 = i /\ i' \in -1..(NumBits - 1) /\ (i > 0 => i' \in Bits) /\ (~(i > 0) => i = 0)
    BY <2>1, SMT DEF Bits
  <2>3. ShiftedIn(i + 1)'
    BY <2>1, <2>2 DEF ShiftedIn
  <2>4. i = 0 => ShiftedIn(0)'
    BY <2>1 DEF ShiftedIn
  <2> QED BY <1>5, <2>1, <2>2, <2>3, <2>4 DEF LowerClock, DelayInv, DelayTypeOK
<1>6. CASE CloseLatch
  BY <1>6 DEF CloseLatch, DelayInv, DelayTypeOK
<1>7. CASE UNCHANGED delayVars
  BY <1>7 DEF delayVars, DelayInv, DelayTypeOK, ShiftedIn
<1> QED BY <1>1, <1>2, <1>3, <1>4, <1>5, <1>6, <1>7 DEF DelayNext

\* A register that has taken in all bits of the width is the width.
LEMMA Full == ASSUME DelayTypeOK, ShiftedIn(0) PROVE shift = width
<1>1. shift \in Widths /\ width \in Widths
  BY DEF DelayTypeOK
<1>2. \A j \in Bits : shift[j] = width[j]
  <2> TAKE j \in Bits
  <2>1. j + 0 = j
    BY NumBitsAssumption, SMT DEF Bits
  <2> QED BY <2>1, Zenon DEF ShiftedIn
<1> QED BY <1>1, <1>2 DEF Widths

\* The inductive invariant of the bit by bit transfer.
LEMMA DelayInvariance == DelaySpec => []DelayInv
  BY DelayInvInit, DelayInvNext, PTL DEF DelaySpec

\* A call sets the delay to its argument, and at no other moment than when the
\* latch closes.
LEMMA DelaySet == DelaySpec => DelayIsWidth
<1>1. ASSUME DelayInv, [DelayNext]_delayVars PROVE [delay' # delay \/ delay_pc = "close" => delay' = width]_delayVars
  <2>1. CASE CloseLatch
    BY <1>1, <2>1, Full DEF CloseLatch, DelayInv
  <2>2. CASE UNCHANGED delayVars
    BY <2>2
  <2>3. CASE (\E w \in Widths : SetPulseWidth(w)) \/ OpenLatch \/ SetData \/ RaiseClock \/ LowerClock
    BY <2>3 DEF SetPulseWidth, OpenLatch, SetData, RaiseClock, LowerClock
  <2> QED BY <1>1, <2>1, <2>2, <2>3 DEF DelayNext
<1> QED BY <1>1, DelayInvariance, PTL DEF DelaySpec, DelayIsWidth
-----------------------------------------------------------------------------
(* The serial number: of any length, in a transfer from any register.      *)

\* Taking a byte out of Wire's buffer.
LEMMA WireRead ==
  ASSUME NEW s \in Seq(Byte), s # <<>>
  PROVE  /\ Head(s) = s[1] /\ Head(s) \in Byte
         /\ Tail(s) \in Seq(Byte) /\ Len(s) \in Nat /\ Len(Tail(s)) = Len(s) - 1
         /\ \A k \in 1..Len(Tail(s)) : k + 1 \in 1..Len(s) /\ Tail(s)[k] = s[k + 1]
  BY SMT

\* Storing it.
LEMMA Store ==
  ASSUME NEW s \in Seq(Byte), NEW c \in Byte
  PROVE  /\ Append(s, c) \in Seq(Byte) /\ Len(s) \in Nat /\ Len(Append(s, c)) = Len(s) + 1
         /\ Append(s, c)[Len(s) + 1] = c
         /\ \A k \in 1..Len(s) : Append(s, c)[k] = s[k]
  BY SMT

\* The empty sequence.
LEMMA Empty == <<>> \in Seq(Byte) /\ Len(<<>>) = 0 /\ 0 <= NumBytes /\ 0 <= Length
  BY SerialAssumption, SMT DEF Length

\* Lengths before the last byte, and after one has moved.
LEMMA Lengths ==
  /\ \A b \in Nat : NumBytes + b = NumBytes + 1 => b = 1
  /\ \A a, b \in Nat : a + b = NumBytes + 1 => (a + 1) + (b - 1) = NumBytes + 1
  BY SerialAssumption, SMT

\* The initial states satisfy the invariant of the copying ...
LEMMA SerialInvInit == SerialInit => SerialInv
<1> SUFFICES ASSUME SerialInit PROVE SerialInv
  OBVIOUS
<1>1. SerialTypeOK
  BY Empty, Zenon DEF SerialInit, SerialTypeOK
<1> QED BY <1>1 DEF SerialInit, SerialInv, NumberIsChips, Yields

\* ... and every step of it, good or bad, keeps it.
LEMMA SerialInvNext == SerialInv /\ [SerialNext]_serialVars => SerialInv'
<1> SUFFICES ASSUME SerialInv, [SerialNext]_serialVars PROVE SerialInv'
  OBVIOUS
<1> USE SerialAssumption
<1>0. SerialTypeOK
  BY DEF SerialInv
<1>1. CASE Point
  <2>1. SerialTypeOK'
    <3>1. 0 \in Registers
      BY SMT DEF Registers
    <3> QED BY <1>0, <1>1, <3>1, Empty DEF Point, SerialTypeOK
  <2> QED BY <1>1, <2>1 DEF Point, SerialInv, NumberIsChips, Yields
<1>2. CASE RequestFrom
  <2>1. PICK n \in 0..Length :
          /\ buffer' \in [1..n -> Byte]
          /\ garbled' = {k \in 1..n : /\ pointer + k - 1 \in Registers
                                      /\ buffer'[k] # rom[pointer + k - 1]}
    BY <1>2, Zenon DEF RequestFrom
  <2>2. buffer' \in Seq(Byte) /\ Len(buffer') = n
    BY <2>1, SMT DEF Length
  <2>3. SerialTypeOK'
    <3>1. garbled' \subseteq 1..Length /\ Len(buffer') <= Length
      BY <2>1, <2>2, SMT DEF Length
    <3>2. pointer' \in Registers /\ serial_pc' = "check" /\ UNCHANGED <<rom, serial_no, error>>
      BY <1>2 DEF RequestFrom
    <3> QED BY <1>0, <2>2, <3>1, <3>2 DEF SerialTypeOK
  <2>4. ASSUME OnlyFamilyFirst, 1 \notin garbled', Len(buffer') >= Length, buffer'[1] = Family,
               NEW k \in 1..Length
        PROVE  k \in garbled' \/ buffer'[k] = rom[k - 1]
    <3>1. n = Length /\ 1 \in 1..n /\ k \in 1..n
      BY <2>2, <2>4, SMT DEF Length
    <3>2. pointer \in Registers /\ pointer + 1 - 1 = pointer
      BY <1>0, SMT DEF SerialTypeOK, Registers
    <3>3. rom[pointer] = Family
      BY <2>1, <2>4, <3>1, <3>2
    <3>4. pointer = 0
      BY <2>4, <3>2, <3>3 DEF OnlyFamilyFirst
    <3>5. pointer + k - 1 = k - 1 /\ k - 1 \in Registers
      BY <3>4, SMT DEF Registers, Length
    <3> QED BY <2>1, <3>1, <3>5
  <2>5. \A k \in 1..Length : (k - 1) + 1 = k
    BY SMT DEF Length
  <2> QED BY <1>2, <2>3, <2>4, <2>5
        DEF RequestFrom, SerialInv, OnlyFamilyFirst, IsChips, NumberIsChips, Yields
<1>3. CASE TooShort
  <2>1. SerialTypeOK'
    BY <1>0, <1>3 DEF TooShort, Stop, chip, SerialTypeOK
  <2> QED BY <1>3, <2>1 DEF TooShort, Stop, SerialInv, NumberIsChips, Yields
<1>4. CASE FamilyCode
  <2>1. buffer \in Seq(Byte) /\ buffer # <<>> /\ Len(buffer) = Length /\ serial_pc = "check"
    BY <1>0, <1>4, SMT DEF FamilyCode, SerialTypeOK, Length
  <2>2. /\ buffer' \in Seq(Byte) /\ Len(buffer') = NumBytes + 1 /\ Head(buffer) = buffer[1]
        /\ \A k \in 1..Len(buffer') : k + 1 \in 1..Length /\ buffer'[k] = buffer[k + 1]
    BY <1>4, <2>1, WireRead, SMT DEF FamilyCode, Length
  <2>3. SerialTypeOK'
    <3>1. Len(buffer') <= Length
      BY <2>2, SMT DEF Length
    <3> QED BY <1>0, <1>4, <2>2, <3>1, Zenon DEF FamilyCode, Stop, chip, SerialTypeOK
  <2>4. CASE Head(buffer) # Family
    BY <1>4, <2>3, <2>4 DEF FamilyCode, Stop, SerialInv, NumberIsChips, Yields
  <2>5. CASE Head(buffer) = Family
    <3>1. /\ serial_pc' = "copy" /\ serial_no' = serial_no /\ serial_no = <<>> /\ rom' = rom
          /\ Len(serial_no) = 0 /\ garbled' = garbled
      BY <1>4, <2>1, <2>5 DEF FamilyCode, SerialInv, chip
    <3>2. ASSUME OnlyFamilyFirst, 1 \notin garbled, NEW k \in 1..Len(buffer')
          PROVE  IsChips(buffer'[k], Len(serial_no) + k)
      <4>1. k + 1 \in 1..Length /\ (k + 1) - 1 = Len(serial_no) + k
        <5>1. k + 1 \in 1..Length /\ k \in Nat
          BY <2>2, SMTT(40)
        <5> QED BY <3>1, <5>1, SMT
      <4>2. IsChips(buffer[k + 1], (k + 1) - 1)
        BY <2>1, <2>2, <2>5, <3>2, <4>1 DEF SerialInv
      <4> QED BY <2>2, <4>1, <4>2
    <3>3. Len(serial_no') + Len(buffer') = NumBytes + 1
      BY <2>2, <3>1, SMT
    <3>4. \A k \in 1..Len(serial_no') : FALSE
      BY <3>1, SMT
    <3> QED BY <2>3, <3>1, <3>2, <3>3, <3>4
          DEF SerialInv, OnlyFamilyFirst, IsChips, NumberIsChips, Yields
  <2> QED BY <2>4, <2>5
<1>5. CASE CopyByte
  <2>1. /\ serial_pc = "copy" /\ Len(serial_no) < NumBytes /\ serial_no \in Seq(Byte)
        /\ buffer \in Seq(Byte) /\ Len(serial_no) + Len(buffer) = NumBytes + 1
    BY <1>0, <1>5 DEF CopyByte, SerialInv, SerialTypeOK
  <2>2. buffer # <<>>
    <3>1. Len(buffer) # 0
      BY <2>1, SMT
    <3> QED BY <3>1, Empty
  <2>3. /\ serial_no' = Append(serial_no, buffer[1]) /\ buffer' = Tail(buffer)
        /\ rom' = rom /\ serial_pc' = "copy" /\ buffer[1] \in Byte /\ error' = error
        /\ garbled' = garbled
    BY <1>5, <2>1, <2>2, WireRead DEF CopyByte, chip
  <2>4. /\ serial_no' \in Seq(Byte) /\ Len(serial_no') = Len(serial_no) + 1
        /\ serial_no'[Len(serial_no) + 1] = buffer[1]
        /\ \A k \in 1..Len(serial_no) : serial_no'[k] = serial_no[k]
    BY <2>1, <2>3, Store
  <2>5. /\ buffer' \in Seq(Byte) /\ Len(buffer') = Len(buffer) - 1
        /\ \A k \in 1..Len(buffer') : k + 1 \in 1..Len(buffer) /\ buffer'[k] = buffer[k + 1]
    BY <2>1, <2>2, <2>3, WireRead
  <2>6. Len(serial_no) \in Nat /\ Len(buffer) \in Nat
    BY <2>1, SMT
  <2>7. SerialTypeOK'
    BY <1>0, <1>5, <2>1, <2>3, <2>4, <2>5, <2>6, SMT DEF CopyByte, chip, SerialTypeOK, Length
  <2>8. Len(serial_no') + Len(buffer') = NumBytes + 1
    <3>1. (Len(serial_no) + 1) + (Len(buffer) - 1) = NumBytes + 1
      BY <2>1, <2>6, Lengths
    <3>2. Len(serial_no') = Len(serial_no) + 1 /\ Len(buffer') = Len(buffer) - 1
      BY <2>4, <2>5
    <3> QED BY <3>1, <3>2, Zenon
  <2>9. ASSUME OnlyFamilyFirst, 1 \notin garbled, NEW k \in 1..Len(serial_no')
        PROVE  IsChips(serial_no'[k], k)
    <3>1. CASE k \in 1..Len(serial_no)
      BY <2>1, <2>4, <2>9, <3>1 DEF SerialInv
    <3>2. CASE k \notin 1..Len(serial_no)
      <4>1. k = Len(serial_no) + 1 /\ 1 \in 1..Len(buffer)
        BY <2>1, <2>4, <2>6, <3>2, SMT
      <4> QED BY <2>1, <2>4, <2>9, <4>1 DEF SerialInv
    <3> QED BY <3>1, <3>2
  <2>10. ASSUME OnlyFamilyFirst, 1 \notin garbled, NEW k \in 1..Len(buffer')
         PROVE  IsChips(buffer'[k], Len(serial_no') + k)
    <3>1. Len(serial_no') + k = Len(serial_no) + (k + 1)
      BY <2>4, <2>5, <2>6, SMT
    <3>2. IsChips(buffer[k + 1], Len(serial_no) + (k + 1))
      BY <2>1, <2>5, <2>10 DEF SerialInv
    <3> QED BY <2>5, <3>1, <3>2
  <2> QED BY <2>3, <2>7, <2>8, <2>9, <2>10
        DEF SerialInv, OnlyFamilyFirst, IsChips, NumberIsChips, Yields
<1>6. CASE ReadCrc
  <2>1. /\ serial_pc = "copy" /\ Len(serial_no) = NumBytes /\ serial_no \in Seq(Byte)
        /\ buffer \in Seq(Byte) /\ Len(buffer) = 1
    <3>1. /\ serial_pc = "copy" /\ Len(serial_no) = NumBytes /\ serial_no \in Seq(Byte)
          /\ buffer \in Seq(Byte) /\ Len(serial_no) + Len(buffer) = NumBytes + 1
      BY <1>0, <1>6 DEF ReadCrc, SerialInv, SerialTypeOK
    <3>2. Len(buffer) \in Nat
      BY <3>1, SMT
    <3> QED BY <3>1, <3>2, Lengths
  <2>2. buffer' \in Seq(Byte) /\ Len(buffer') = 0
    <3>1. buffer # <<>>
      <4>1. Len(buffer) # 0
        BY <2>1, SMT
      <4> QED BY <4>1, Empty, Zenon
    <3>2. buffer' \in Seq(Byte) /\ Len(buffer') = Len(buffer) - 1
      BY <1>6, <2>1, <3>1, WireRead DEF ReadCrc
    <3> QED BY <2>1, <3>2, SMT
  <2>3. SerialTypeOK'
    <3>1. Len(buffer') <= Length
      BY <2>2, Empty
    <3> QED BY <1>0, <1>6, <2>2, <3>1, Zenon DEF ReadCrc, Stop, chip, SerialTypeOK
  <2>4. OnlyFamilyFirst /\ 1 \notin garbled => \A k \in 1..NumBytes : IsChips(serial_no[k], k)
    BY <2>1 DEF SerialInv
  <2> QED BY <1>6, <2>1, <2>3, <2>4
        DEF ReadCrc, Stop, chip, SerialInv, OnlyFamilyFirst, IsChips, NumberIsChips, Yields
<1>7. CASE SerialReply
  <2>1. SerialTypeOK'
    BY <1>0, <1>7, SMT DEF SerialReply, chip, SerialTypeOK, Length
  <2> QED BY <1>7, <2>1 DEF SerialReply, SerialInv, NumberIsChips, Yields
<1>8. CASE UNCHANGED serialVars
  BY <1>8 DEF serialVars, chip, SerialInv, SerialTypeOK, OnlyFamilyFirst, IsChips,
              NumberIsChips, Yields
<1> QED BY <1>1, <1>2, <1>3, <1>4, <1>5, <1>6, <1>7, <1>8 DEF SerialNext

\* The inductive invariant of the copying.
LEMMA SerialInvariance == SerialSpec => []SerialInv
  BY SerialInvInit, SerialInvNext, PTL DEF SerialSpec
-----------------------------------------------------------------------------
(* The thermometer: for all delays and times the assumptions allow.        *)

\* What the proofs use of the constants.
LEMMA Times ==
  /\ {RecvTimeout, Sleep, Conversion, MaxDelay, max_retries} \subseteq Nat
  /\ MaxDelay < RecvTimeout /\ 0 < Conversion
  /\ Conversion + MaxDelay < Sleep /\ 2 * MaxDelay < Sleep
  /\ RecvTimeout \in 0..Sleep /\ Pause = Sleep /\ Sleep \in 0..Sleep /\ 0 \in Ages
  BY TimesAssumption, PauseAssumption DEF Pause, Ages

\* The ids go round.
LEMMA NextId == ASSUME NEW n \in Ids PROVE (n + 1) % IdMod \in Ids /\ (n + 1) % IdMod # n
  BY TimesAssumption, SMT DEF Ids

\* The packets in the socket, and what taking one out and putting one in leaves.
Packets == [id : Ids, fresh : BOOLEAN]

LEMMA SocketRead ==
  ASSUME NEW s \in Seq(Packets), s # <<>>
  PROVE  /\ Head(s) = s[1] /\ Head(s) \in Packets /\ Tail(s) \in Seq(Packets)
         /\ 1 \in DOMAIN s
         /\ \A m \in DOMAIN Tail(s) : m \in Nat /\ m + 1 \in DOMAIN s /\ Tail(s)[m] = s[m + 1]
         /\ \A m \in DOMAIN Tail(s) : 1 < m + 1
         /\ \A m, j \in DOMAIN Tail(s) : m < j => m + 1 < j + 1
  BY SMT

LEMMA SocketAppend ==
  ASSUME NEW s \in Seq(Packets), NEW a \in Packets
  PROVE  /\ Append(s, a) \in Seq(Packets)
         /\ \A m \in DOMAIN Append(s, a) : \/ m \in DOMAIN s /\ Append(s, a)[m] = s[m]
                                           \/ m = Len(s) + 1 /\ Append(s, a)[m] = a
         /\ \A m, j \in DOMAIN Append(s, a) : m < j => m \in DOMAIN s
<1>1. /\ Append(s, a) \in Seq(Packets) /\ Len(s) \in Nat
      /\ DOMAIN s = 1..Len(s) /\ DOMAIN Append(s, a) = 1..(Len(s) + 1)
  OBVIOUS
<1>2. ASSUME NEW m \in DOMAIN Append(s, a)
      PROVE  \/ m \in DOMAIN s /\ Append(s, a)[m] = s[m]
             \/ m = Len(s) + 1 /\ Append(s, a)[m] = a
  BY <1>1
<1>3. \A n \in Nat : \A m, j \in 1..(n + 1) : m < j => m \in 1..n
  OBVIOUS
<1>4. \A m, j \in DOMAIN Append(s, a) : m < j => m \in DOMAIN s
  BY <1>1, <1>3
<1>. QED
  BY <1>1, <1>2, <1>4, Zenon

\* One timeout is used up by a retry, all of them are left at the beginning.
LEMMA Timeouts ==
  /\ \A t, r \in Nat : t > 0 => 0 + r + (t - 1) * r = 0 + t * r
  /\ \A m, r \in Nat : 0 + r + m * r = (1 + m) * r
  /\ \A m, r \in Nat : 0 <= (1 + m) * r /\ (1 + m) * r \in Nat
  /\ \A t, r \in Nat : t * r \in Nat
  BY SMT

\* The initial states satisfy the invariant of the measurements ...
LEMMA ThermoInvInit == ThermoInit => ThermoInv
<1> SUFFICES ASSUME ThermoInit PROVE ThermoInv
  OBVIOUS
<1>1. 0 \in Ids
  BY TimesAssumption DEF Ids
<1>2. 0 <= (1 + max_retries) * RecvTimeout
  BY Times, Timeouts
<1>3. ThermoTypeOK
  <2>1. 0 \in 0..max_retries /\ 0 \in 0..Sleep /\ 0 \in 0..Conversion /\ 0 \in Nat
    BY Times
  <2>2. <<>> \in Seq([id : Ids, fresh : BOOLEAN])
    OBVIOUS
  <2>. QED
    BY <1>1, <2>1, <2>2, Zenon DEF ThermoInit, ThermoTypeOK
<1>4. DOMAIN <<>> = {}
  OBVIOUS
<1>. QED
  BY <1>2, <1>3, <1>4 DEF ThermoInit, ThermoInv, FreshReading, CallsAreShort, QuietInv,
                          SocketInv, CallInv, MeasureInv, InCall

\* A call finds nothing under way, and no reply to itself in the socket.
LEMMA CallsBegin ==
  ASSUME ThermoInv, START_TEMPERATURE \/ READ_TEMPERATURE
  PROVE  ThermoInv'
<1> DEFINE cmd == IF script_pc = "start" THEN "START" ELSE "READ"
<1>1. /\ script_pc' = (IF script_pc = "start" THEN "starting" ELSE "reading")
      /\ script_pc \in {"start", "read"}
      /\ request_id' = (request_id + 1) % IdMod
      /\ requests' = {[id |-> request_id', cmd |-> cmd, age |-> 0]} /\ replies' = {}
      /\ trials_left' = max_retries /\ timer' = RecvTimeout /\ elapsed' = 0
      /\ busy' = busy /\ socket' = socket
      /\ script_pc = "start" => current' = FALSE /\ fresh' = FALSE /\ reading' = "none"
      /\ script_pc = "read" => current' = current /\ fresh' = fresh /\ reading' = reading
  BY DEF START_TEMPERATURE, READ_TEMPERATURE, Begin, Send, ThermoInv, QuietInv
<1>2. request_id' \in Ids /\ request_id' # request_id
  BY <1>1, NextId DEF ThermoInv, ThermoTypeOK
<1>3. max_retries \in 0..max_retries
  BY Times
<1>4. ThermoTypeOK'
  <2>1. [id |-> request_id', cmd |-> cmd, age |-> 0] \in [id : Ids, cmd : {"START", "READ"}, age : Ages]
    BY <1>2, Times
  <2>. QED
    BY <1>1, <1>2, <1>3, <2>1, Times DEF ThermoInv, ThermoTypeOK
<1>5. QuietInv'
  BY <1>1 DEF QuietInv, InCall
<1>6. CallInv' /\ CallsAreShort'
  BY <1>1, Times, Timeouts DEF CallInv, CallsAreShort
<1>7. \A m \in DOMAIN socket' : socket'[m].id # request_id'
  BY <1>1, <1>2 DEF ThermoInv, SocketInv, InCall
<1>8. SocketInv'
  BY <1>1, <1>7 DEF SocketInv, InCall
<1>9. MeasureInv' /\ FreshReading'
  BY <1>1, <1>7 DEF ThermoInv, MeasureInv, FreshReading
<1>. QED
  BY <1>4, <1>5, <1>6, <1>8, <1>9 DEF ThermoInv

\* A retry uses up a timeout.
LEMMA TimeoutKeeps ==
  ASSUME ThermoInv, Timeout
  PROVE  ThermoInv'
<1> DEFINE r == [id |-> request_id,
                 cmd |-> IF script_pc \in {"start", "starting"} THEN "START" ELSE "READ",
                 age |-> 0]
<1>1. /\ InCall /\ timer = 0 /\ socket = <<>>
      /\ UNCHANGED <<request_id, elapsed, replies, socket, busy, current, fresh, reading>>
  BY DEF Timeout, sensorVars
<1>4. DOMAIN socket' = {}
  BY <1>1
<1>5. SocketInv'
  BY <1>4 DEF SocketInv
<1>2. CASE trials_left > 0
  <2>1. /\ requests' = requests \cup {r} /\ trials_left' = trials_left - 1
        /\ timer' = RecvTimeout /\ script_pc' = script_pc
    BY <1>2 DEF Timeout, Send
  <2>2. r \in [id : Ids, cmd : {"START", "READ"}, age : Ages]
    BY Times DEF ThermoInv, ThermoTypeOK
  <2>3. trials_left' \in 0..max_retries
    BY <1>2, <2>1, Times DEF ThermoInv, ThermoTypeOK
  <2>4. ThermoTypeOK'
    BY <1>1, <2>1, <2>2, <2>3, Times DEF ThermoInv, ThermoTypeOK
  <2>5. QuietInv'
    BY <1>1, <2>1 DEF ThermoInv, QuietInv, InCall
  <2>6. CallInv'
    <3>1. /\ elapsed \in Nat /\ trials_left \in Nat /\ RecvTimeout \in Nat
          /\ elapsed + timer + trials_left * RecvTimeout = (1 + max_retries) * RecvTimeout
      BY <1>1, Times DEF ThermoInv, ThermoTypeOK, CallInv
    <3>2. 0 + RecvTimeout + (trials_left - 1) * RecvTimeout = 0 + trials_left * RecvTimeout
      BY <1>2, <3>1, Timeouts
    <3>3. elapsed + RecvTimeout + (trials_left - 1) * RecvTimeout
             = elapsed + 0 + trials_left * RecvTimeout
      BY <3>1, <3>2
    <3>. QED
      BY <1>1, <2>1, <3>1, <3>3 DEF CallInv
  <2>7. MeasureInv' /\ FreshReading' /\ CallsAreShort'
    BY <1>1, <2>1 DEF ThermoInv, MeasureInv, InCall, FreshReading, CallsAreShort
  <2>. QED
    BY <1>5, <2>4, <2>5, <2>6, <2>7 DEF ThermoInv
<1>3. CASE ~(trials_left > 0)
  <2>1. script_pc' = "ended" /\ UNCHANGED <<requests, trials_left, timer>>
    BY <1>3 DEF Timeout
  <2>. QED
    BY <1>1, <1>5, <2>1 DEF ThermoInv, ThermoTypeOK, QuietInv, CallInv, MeasureInv, InCall,
                            FreshReading, CallsAreShort
<1>. QED
  BY <1>2, <1>3

\* When a pause is over, nothing is under way and the result is there.
LEMMA AwakeKeeps ==
  ASSUME ThermoInv, Awake
  PROVE  ThermoInv'
<1>1. /\ script_pc \in {"sleep", "rest"} /\ timer = 0
      /\ script_pc' = (IF script_pc = "sleep" THEN "read" ELSE "start")
      /\ UNCHANGED <<request_id, trials_left, timer, elapsed, requests, replies, socket, busy,
                     current, fresh, reading>>
  BY DEF Awake, sensorVars
<1>2. requests = {} /\ replies = {}
  <2>1. \A a \in Ages : ~(2 * MaxDelay < 0 + a) /\ ~(MaxDelay < 0 + a)
    BY Times DEF Ages
  <2>2. \A p \in requests \cup replies : p.age \in Ages
    BY DEF ThermoInv, ThermoTypeOK
  <2>. QED
    BY <1>1, <2>1, <2>2 DEF ThermoInv, QuietInv
<1>3. script_pc = "sleep" => fresh /\ current
  BY <1>1 DEF ThermoInv, MeasureInv, ThermoTypeOK
<1>. QED
  BY <1>1, <1>2, <1>3 DEF ThermoInv, ThermoTypeOK, QuietInv, SocketInv, CallInv, MeasureInv,
                          InCall, FreshReading, CallsAreShort

\* A reply joins those in the socket: it is the last call's.
LEMMA ReplyKeeps ==
  ASSUME ThermoInv, NEW r \in replies, ReplyArrives(r)
  PROVE  ThermoInv'
<1> DEFINE a == [id |-> r.id, fresh |-> r.fresh]
<1>1. /\ replies' = replies \ {r} /\ socket' = Append(socket, a)
      /\ UNCHANGED <<script_pc, request_id, trials_left, timer, elapsed, requests, busy, current,
                     fresh, reading>>
  BY DEF ReplyArrives, clientVars, sensorVars
<1>2. /\ r \in [id : Ids, age : Ages, fresh : BOOLEAN] /\ socket \in Seq(Packets)
      /\ a.id = request_id /\ (script_pc = "reading" => a.fresh)
      /\ replies # {} /\ script_pc \notin {"start", "read"}
  BY DEF ThermoInv, ThermoTypeOK, QuietInv, MeasureInv, Packets
<1>3. a \in Packets
  BY <1>2 DEF Packets
<1>. HIDE DEF a
<1>4. /\ socket' \in Seq(Packets)
      /\ \A m \in DOMAIN socket' : \/ m \in DOMAIN socket /\ socket'[m] = socket[m]
                                   \/ m = Len(socket) + 1 /\ socket'[m] = a
      /\ \A m, j \in DOMAIN socket' : m < j => m \in DOMAIN socket
  BY <1>1, <1>2, <1>3, SocketAppend
<1>5. ThermoTypeOK'
  BY <1>1, <1>4 DEF ThermoInv, ThermoTypeOK, Packets
<1>6. QuietInv' /\ CallInv' /\ FreshReading' /\ CallsAreShort'
  BY <1>1 DEF ThermoInv, QuietInv, CallInv, InCall, FreshReading, CallsAreShort
<1>7. SocketInv'
  <2>1. ASSUME NEW m \in DOMAIN socket', socket'[m].id # request_id'
        PROVE  m \in DOMAIN socket /\ socket[m].id # request_id
    BY <1>1, <1>2, <1>4, <2>1
  <2>2. ~InCall' /\ script_pc' # "ended"
           => \A m \in DOMAIN socket' : socket'[m].id = request_id'
    BY <1>1, <2>1 DEF ThermoInv, SocketInv, InCall
  <2>3. ASSUME NEW m \in DOMAIN socket', NEW j \in DOMAIN socket', m < j,
               socket'[m].id = request_id'
        PROVE  socket'[j].id = request_id'
    <3>1. m \in DOMAIN socket
      BY <1>4, <2>3
    <3>2. CASE socket'[j] = a
      BY <1>1, <1>2, <3>2
    <3>3. CASE j \in DOMAIN socket /\ socket'[j] = socket[j]
      <4>1. CASE socket'[m] = socket[m]
        BY <1>1, <2>3, <3>1, <3>3, <4>1 DEF ThermoInv, SocketInv
      <4>2. CASE m = Len(socket) + 1
        BY <1>2, <3>1, <4>2
      <4>. QED
        BY <1>4, <4>1, <4>2
    <3>. QED
      BY <1>4, <3>2, <3>3
  <2>4. InCall' /\ (\E m \in DOMAIN socket' : socket'[m].id # request_id')
           => timer' = RecvTimeout /\ trials_left' = max_retries
    BY <1>1, <2>1 DEF ThermoInv, SocketInv, InCall
  <2>. QED
    BY <2>2, <2>3, <2>4, Zenon DEF SocketInv
<1>8. MeasureInv'
  <2>1. \A m \in DOMAIN socket' : script_pc = "reading" /\ socket'[m].id = request_id
                                  => socket'[m].fresh
    BY <1>2, <1>4 DEF ThermoInv, MeasureInv
  <2>2. script_pc = "starting" => current
    BY <1>2 DEF ThermoInv, MeasureInv
  <2>. QED
    BY <1>1, <1>2, <2>1, <2>2 DEF ThermoInv, MeasureInv
<1>. QED
  BY <1>5, <1>6, <1>7, <1>8 DEF ThermoInv

\* A reply to the call before is skipped at no time cost; the one to a read has the
\* temperature asked for.
LEMMA RecvKeeps ==
  ASSUME ThermoInv, Recv
  PROVE  ThermoInv'
<1>1. /\ InCall /\ socket # <<>> /\ socket' = Tail(socket)
      /\ UNCHANGED <<request_id, trials_left, elapsed, requests, replies, busy, current, fresh>>
  BY DEF Recv, sensorVars
<1>2. /\ Head(socket) = socket[1] /\ Head(socket) \in Packets /\ socket' \in Seq(Packets)
      /\ 1 \in DOMAIN socket
      /\ \A m \in DOMAIN socket' : /\ m + 1 \in DOMAIN socket /\ socket'[m] = socket[m + 1]
                                  /\ 1 < m + 1
      /\ \A m, j \in DOMAIN socket' : m < j => m + 1 < j + 1
  BY <1>1, SocketRead DEF ThermoInv, ThermoTypeOK, Packets
<1>3. \A m, j \in DOMAIN socket' :
         m < j /\ socket'[m].id = request_id => socket'[j].id = request_id
  BY <1>2 DEF ThermoInv, SocketInv
<1>4. CASE Head(socket).id # request_id
  <2>1. /\ timer' = timer \/ timer' = RecvTimeout
        /\ (script_pc' = script_pc /\ timer' = RecvTimeout) \/ script_pc' = "ended"
        /\ reading' = reading
    BY <1>4 DEF Recv, Skipped
  <2>2. timer = RecvTimeout /\ trials_left = max_retries
    BY <1>1, <1>2, <1>4 DEF ThermoInv, SocketInv
  <2>3. ThermoTypeOK'
    BY <1>1, <1>2, <2>1, Times DEF ThermoInv, ThermoTypeOK, Packets
  <2>4. QuietInv' /\ CallInv' /\ FreshReading' /\ CallsAreShort'
    BY <1>1, <2>1, <2>2 DEF ThermoInv, QuietInv, CallInv, InCall, FreshReading, CallsAreShort
  <2>5. SocketInv'
    BY <1>1, <1>3, <2>1, <2>2 DEF SocketInv, InCall
  <2>6. MeasureInv'
    BY <1>1, <1>2, <2>1 DEF ThermoInv, MeasureInv, InCall
  <2>. QED
    BY <2>3, <2>4, <2>5, <2>6 DEF ThermoInv
<1>5. CASE Head(socket).id = request_id
  <2>1. Returned(Head(socket))
    BY <1>5 DEF Recv
  <2>2. \A m \in DOMAIN socket' : socket'[m].id = request_id
    BY <1>2, <1>5 DEF ThermoInv, SocketInv
  <2>3. CASE script_pc = "starting"
    <3>1. script_pc' = "sleep" /\ timer' = Sleep /\ reading' = reading
      BY <2>1, <2>3, Times DEF Returned
    <3>2. current /\ (fresh \/ busy > 0)
      BY <1>2, <1>5, <2>3 DEF ThermoInv, MeasureInv
    <3>3. ThermoTypeOK'
      BY <1>1, <1>2, <3>1, Times DEF ThermoInv, ThermoTypeOK, Packets
    <3>4. \A b \in Ages : /\ 2 * MaxDelay < Sleep + b /\ MaxDelay < Sleep + b
                          /\ MaxDelay + Conversion <= Sleep + b
      BY Times DEF Ages
    <3>5. busy <= Sleep
      BY Times DEF ThermoInv, ThermoTypeOK
    <3>6. QuietInv'
      BY <1>1, <3>1, <3>4 DEF ThermoInv, ThermoTypeOK, QuietInv
    <3>7. MeasureInv'
      BY <1>1, <3>1, <3>2, <3>4, <3>5 DEF ThermoInv, ThermoTypeOK, MeasureInv
    <3>8. SocketInv' /\ CallInv' /\ FreshReading' /\ CallsAreShort'
      BY <1>1, <2>2, <3>1, Zenon DEF ThermoInv, SocketInv, CallInv, InCall, FreshReading,
                                     CallsAreShort
    <3>. QED
      BY <3>3, <3>6, <3>7, <3>8 DEF ThermoInv
  <2>4. CASE script_pc # "starting"
    <3>1. script_pc = "reading" /\ current /\ fresh /\ Head(socket).fresh
      <4>1. script_pc = "reading"
        BY <1>1, <2>4 DEF InCall
      <4>2. \A m \in DOMAIN socket : socket[m].id = request_id => socket[m].fresh
        BY <4>1, Zenon DEF ThermoInv, MeasureInv
      <4>3. current /\ fresh
        BY <4>1 DEF ThermoInv, MeasureInv
      <4>. QED
        BY <1>2, <1>5, <4>1, <4>2, <4>3
    <3>2. /\ reading' = "fresh"
          /\ \/ script_pc' = "rest" /\ timer' = Sleep
             \/ script_pc' = "ended" /\ timer' = timer
      BY <2>1, <3>1 DEF Returned
    <3>3. ThermoTypeOK'
      BY <1>1, <1>2, <3>2, Times DEF ThermoInv, ThermoTypeOK, Packets
    <3>4. \A b \in Ages : /\ 2 * MaxDelay < Sleep + b /\ MaxDelay < Sleep + b
                          /\ MaxDelay + Conversion <= Sleep + b
      BY Times DEF Ages
    <3>5. busy <= Sleep
      BY Times DEF ThermoInv, ThermoTypeOK
    <3>6. QuietInv'
      BY <1>1, <3>2, <3>4 DEF ThermoInv, ThermoTypeOK, QuietInv
    <3>7. MeasureInv'
      BY <1>1, <3>1, <3>2, <3>4, <3>5 DEF ThermoInv, ThermoTypeOK, MeasureInv
    <3>8. SocketInv' /\ CallInv' /\ FreshReading' /\ CallsAreShort'
      BY <1>1, <2>2, <3>2, Zenon DEF ThermoInv, SocketInv, CallInv, InCall, FreshReading,
                                     CallsAreShort
    <3>. QED
      BY <3>3, <3>6, <3>7, <3>8 DEF ThermoInv
  <2>. QED
    BY <2>3, <2>4
<1>. QED
  BY <1>4, <1>5

\* A start begins a conversion that ends before the pause; a read gets its result.
LEMMA RequestKeeps ==
  ASSUME ThermoInv, NEW r \in requests, RequestArrives(r)
  PROVE  ThermoInv'
<1> DEFINE a == [id |-> r.id, age |-> 0, fresh |-> r.cmd = "READ" /\ fresh]
<1>1. /\ requests' = requests \ {r} /\ replies' = replies \cup {a}
      /\ UNCHANGED <<script_pc, request_id, trials_left, timer, elapsed, socket, fresh, reading>>
      /\ \/ r.cmd = "START" /\ busy' = Conversion /\ current' = TRUE
         \/ (r.cmd = "READ" \/ busy > 0) /\ busy' = busy /\ current' = current
  BY DEF RequestArrives, clientVars
<1>2. r \in [id : Ids, cmd : {"START", "READ"}, age : Ages] /\ fresh \in BOOLEAN
  BY DEF ThermoInv, ThermoTypeOK
<1>3. a \in [id : Ids, age : Ages, fresh : BOOLEAN]
  BY <1>2, Times
<1>4. ThermoTypeOK'
  <2>1. busy' \in 0..Conversion
    BY <1>1, Times DEF ThermoInv, ThermoTypeOK
  <2>. QED
    BY <1>1, <1>2, <1>3, <2>1 DEF ThermoInv, ThermoTypeOK
<1>5. QuietInv'
  <2>1. script_pc \in {"sleep", "rest"} => MaxDelay < timer + 0
    BY <1>2, Times DEF ThermoInv, ThermoTypeOK, QuietInv, Ages
  <2>2. script_pc \notin {"start", "read"}
    BY DEF ThermoInv, QuietInv
  <2>3. a.age = 0 /\ a.id = r.id
    OBVIOUS
  <2>. HIDE DEF a
  <2>. QED
    BY <1>1, <2>1, <2>2, <2>3 DEF ThermoInv, QuietInv, InCall
<1>6. MeasureInv'
  <2>1. CASE script_pc = "starting"
    <3>1. r.cmd = "START" /\ (busy > 0 => current) /\ (current => fresh \/ busy > 0)
      BY <2>1 DEF ThermoInv, MeasureInv
    <3>2. current' /\ (current' => fresh' \/ busy' > 0)
      BY <1>1, <3>1, Times
    <3>. QED
      BY <1>1, <2>1, <3>2 DEF ThermoInv, MeasureInv
  <2>2. CASE script_pc \in {"sleep", "rest"}
    <3>1. Conversion <= timer
      BY <1>2, <2>2, Times DEF ThermoInv, ThermoTypeOK, MeasureInv, Ages
    <3>2. busy' <= timer /\ (busy > 0 => busy' > 0) /\ (current => current')
      BY <1>1, <2>2, <3>1, Times DEF ThermoInv, MeasureInv
    <3>. QED
      BY <1>1, <2>2, <3>2 DEF ThermoInv, MeasureInv
  <2>3. script_pc \notin {"start", "read"}
    BY DEF ThermoInv, QuietInv
  <2>4. CASE script_pc = "reading"
    <3>1. current /\ fresh /\ current'
      BY <1>1, <2>4 DEF ThermoInv, MeasureInv
    <3>2. r.cmd = "READ" /\ a.fresh
      BY <2>4, <3>1 DEF ThermoInv, MeasureInv
    <3>. HIDE DEF a
    <3>3. (\A p \in requests' : p.cmd = "READ") /\ \A p \in replies' : p.fresh
      BY <1>1, <2>4, <3>2 DEF ThermoInv, MeasureInv
    <3>4. \A m \in DOMAIN socket' : socket'[m].id = request_id' => socket'[m].fresh
      BY <1>1, <2>4, Zenon DEF ThermoInv, MeasureInv
    <3>5. script_pc' = "reading" /\ current' /\ fresh'
      BY <1>1, <2>4, <3>1
    <3>. QED
      BY <3>3, <3>4, <3>5 DEF MeasureInv
  <2>5. CASE script_pc = "ended"
    BY <1>1, <2>5 DEF ThermoInv, MeasureInv
  <2>. QED
    BY <2>1, <2>2, <2>3, <2>4, <2>5 DEF ThermoInv, ThermoTypeOK
<1>7. SocketInv' /\ CallInv' /\ FreshReading' /\ CallsAreShort'
  BY <1>1 DEF ThermoInv, SocketInv, CallInv, InCall, FreshReading, CallsAreShort
<1>. QED
  BY <1>4, <1>5, <1>6, <1>7 DEF ThermoInv

\* A datagram is lost.
LEMMA LostKeeps ==
  ASSUME ThermoInv, Lost
  PROVE  ThermoInv'
<1>1. /\ requests' \subseteq requests /\ replies' \subseteq replies
      /\ UNCHANGED <<script_pc, request_id, trials_left, timer, elapsed, socket, busy, current,
                     fresh, reading>>
  BY DEF Lost, clientVars, sensorVars
<1>2. requests = {} /\ replies = {} => requests' = {} /\ replies' = {}
  BY <1>1
<1>3. ThermoTypeOK' /\ QuietInv'
  BY <1>1, <1>2 DEF ThermoInv, ThermoTypeOK, QuietInv, InCall
<1>4. SocketInv' /\ CallInv' /\ FreshReading' /\ CallsAreShort' /\ MeasureInv'
  BY <1>1 DEF ThermoInv, SocketInv, CallInv, InCall, FreshReading, CallsAreShort, MeasureInv
<1>. QED
  BY <1>3, <1>4 DEF ThermoInv

\* A tick makes every datagram older, and nothing else.
LEMMA Aging ==
  ASSUME ThermoTypeOK, \A p \in requests \cup replies : p.age < MaxDelay
  PROVE  /\ Older(requests) \subseteq [id : Ids, cmd : {"START", "READ"}, age : Ages]
         /\ Older(replies) \subseteq [id : Ids, age : Ages, fresh : BOOLEAN]
         /\ \A q \in Older(requests) :
              \E p \in requests : q.id = p.id /\ q.cmd = p.cmd /\ q.age = p.age + 1
         /\ \A q \in Older(replies) :
              \E p \in replies : q.id = p.id /\ q.fresh = p.fresh /\ q.age = p.age + 1
<1>1. \A n \in Ages : n < MaxDelay => n + 1 \in Ages
  BY Times DEF Ages
<1>2. ASSUME NEW p \in requests
      PROVE  LET q == [p EXCEPT !.age = @ + 1]
             IN  /\ q \in [id : Ids, cmd : {"START", "READ"}, age : Ages]
                 /\ q.id = p.id /\ q.cmd = p.cmd /\ q.age = p.age + 1
  <2>1. p \in [id : Ids, cmd : {"START", "READ"}, age : Ages] /\ p.age + 1 \in Ages
    BY <1>1 DEF ThermoTypeOK
  <2>. QED
    BY <2>1
<1>3. ASSUME NEW p \in replies
      PROVE  LET q == [p EXCEPT !.age = @ + 1]
             IN  /\ q \in [id : Ids, age : Ages, fresh : BOOLEAN]
                 /\ q.id = p.id /\ q.fresh = p.fresh /\ q.age = p.age + 1
  <2>1. p \in [id : Ids, age : Ages, fresh : BOOLEAN] /\ p.age + 1 \in Ages
    BY <1>1 DEF ThermoTypeOK
  <2>. QED
    BY <2>1
<1>4. \A S, q : q \in Older(S) => \E p \in S : q = [p EXCEPT !.age = @ + 1]
  BY Zenon DEF Older
<1>5. ASSUME NEW q \in Older(requests)
      PROVE  /\ q \in [id : Ids, cmd : {"START", "READ"}, age : Ages]
             /\ \E p \in requests : q.id = p.id /\ q.cmd = p.cmd /\ q.age = p.age + 1
  BY <1>2, <1>4
<1>6. ASSUME NEW q \in Older(replies)
      PROVE  /\ q \in [id : Ids, age : Ages, fresh : BOOLEAN]
             /\ \E p \in replies : q.id = p.id /\ q.fresh = p.fresh /\ q.age = p.age + 1
  BY <1>3, <1>4
<1>. QED
  BY <1>5, <1>6, Zenon

\* Time passes: the conversion goes on, the call and the pause get closer to their end.
LEMMA TickKeeps ==
  ASSUME ThermoInv, Tick
  PROVE  ThermoInv'
<1>1. /\ timer > 0 /\ timer' = timer - 1
      /\ elapsed' = IF InCall THEN elapsed + 1 ELSE 0
      /\ requests' = Older(requests) /\ replies' = Older(replies)
      /\ busy' = IF busy > 0 THEN busy - 1 ELSE 0
      /\ fresh' = IF busy = 1 THEN current ELSE fresh
      /\ UNCHANGED <<script_pc, request_id, trials_left, socket, current, reading>>
      /\ InCall => socket = <<>>
  BY DEF Tick
<1>2. /\ requests' \subseteq [id : Ids, cmd : {"START", "READ"}, age : Ages]
      /\ replies' \subseteq [id : Ids, age : Ages, fresh : BOOLEAN]
      /\ \A q \in requests' :
           \E p \in requests : q.id = p.id /\ q.cmd = p.cmd /\ q.age = p.age + 1
      /\ \A q \in replies' :
           \E p \in replies : q.id = p.id /\ q.fresh = p.fresh /\ q.age = p.age + 1
  BY <1>1, Aging DEF Tick, ThermoInv
<1>3. /\ requests \subseteq [id : Ids, cmd : {"START", "READ"}, age : Ages]
      /\ replies \subseteq [id : Ids, age : Ages, fresh : BOOLEAN]
      /\ timer \in Nat /\ timer' \in 0..Sleep /\ busy \in 0..Conversion /\ elapsed \in Nat
  BY <1>1, Times DEF ThermoInv, ThermoTypeOK
<1>4. ThermoTypeOK'
  <2>1. busy' \in 0..Conversion /\ elapsed' \in Nat
    BY <1>1, <1>3, Times
  <2>. QED
    BY <1>1, <1>2, <1>3, <2>1 DEF ThermoInv, ThermoTypeOK
<1>5. \A a \in Ages : a \in Nat
  BY Times DEF Ages
<1>6. QuietInv'
  <2>1. \A q \in requests' \cup replies' : q.id = request_id'
    BY <1>1, <1>2 DEF ThermoInv, QuietInv
  <2>2. ASSUME script_pc \in {"sleep", "rest"}, NEW q \in requests'
        PROVE  2 * MaxDelay < timer' + q.age
    <3>1. PICK p \in requests : q.age = p.age + 1
      BY <1>2
    <3>2. 2 * MaxDelay < timer + p.age /\ p.age \in Nat
      BY <1>3, <1>5, <2>2 DEF ThermoInv, QuietInv
    <3>. QED
      BY <1>1, <1>3, <3>1, <3>2, Times
  <2>3. ASSUME script_pc \in {"sleep", "rest"}, NEW q \in replies'
        PROVE  MaxDelay < timer' + q.age
    <3>1. PICK p \in replies : q.age = p.age + 1
      BY <1>2
    <3>2. MaxDelay < timer + p.age /\ p.age \in Nat
      BY <1>3, <1>5, <2>3 DEF ThermoInv, QuietInv
    <3>. QED
      BY <1>1, <1>3, <3>1, <3>2, Times
  <2>4. script_pc \in {"start", "read"} => requests' = {} /\ replies' = {}
    BY <1>2 DEF ThermoInv, QuietInv
  <2>. QED
    BY <1>1, <2>1, <2>2, <2>3, <2>4 DEF QuietInv
<1>7. CallInv' /\ CallsAreShort'
  <2>1. /\ trials_left * RecvTimeout \in Nat /\ (1 + max_retries) * RecvTimeout \in Nat
    BY Times, Timeouts DEF ThermoInv, ThermoTypeOK
  <2>2. \A e, t, x, y \in Nat :
           t > 0 /\ e + t + x = y => (e + 1) + (t - 1) + x = y /\ e + 1 <= y
    OBVIOUS
  <2>3. CASE InCall
    <3>1. (elapsed + 1) + (timer - 1) + trials_left * RecvTimeout = (1 + max_retries) * RecvTimeout
          /\ elapsed + 1 <= (1 + max_retries) * RecvTimeout
      BY <1>1, <1>3, <2>1, <2>2, <2>3, ZenonT(40) DEF ThermoInv, CallInv
    <3>. QED
      BY <1>1, <2>3, <3>1 DEF CallInv, CallsAreShort
  <2>4. CASE ~InCall
    <3>1. 0 <= (1 + max_retries) * RecvTimeout
      BY <2>1
    <3>. QED
      BY <1>1, <2>4, <3>1 DEF CallInv, CallsAreShort, InCall
  <2>. QED
    BY <2>3, <2>4
<1>8. MeasureInv'
  <2>1. /\ busy = 0 => busy' = 0 /\ fresh' = fresh
        /\ current /\ (fresh \/ busy > 0) => fresh' \/ busy' > 0
        /\ busy' > 0 => busy > 0
        /\ current /\ fresh => fresh'
        /\ busy <= timer => busy' <= timer'
    BY <1>1, <1>3
  <2>2. /\ script_pc = "starting" => \A q \in requests' : q.cmd = "START"
        /\ script_pc = "reading" => /\ \A q \in requests' : q.cmd = "READ"
                                    /\ \A q \in replies' : q.fresh
        /\ replies' # {} => replies # {}
    BY <1>2 DEF ThermoInv, MeasureInv
  <2>3. ASSUME script_pc \in {"sleep", "rest"}, NEW q \in requests'
        PROVE  MaxDelay + Conversion <= timer' + q.age
    <3>1. PICK p \in requests : q.age = p.age + 1
      BY <1>2
    <3>2. MaxDelay + Conversion <= timer + p.age /\ p.age \in Nat
      BY <1>3, <1>5, <2>3 DEF ThermoInv, MeasureInv
    <3>. QED
      BY <1>1, <1>3, <3>1, <3>2, Times
  <2>. QED
    BY <1>1, <2>1, <2>2, <2>3 DEF ThermoInv, MeasureInv
<1>9. FreshReading'
  BY <1>1 DEF ThermoInv, FreshReading
<1>10. SocketInv'
  <2>1. InCall => DOMAIN socket = {}
    BY <1>1
  <2>. QED
    BY <1>1, <2>1 DEF ThermoInv, SocketInv, InCall
<1>. QED
  BY <1>4, <1>6, <1>7, <1>8, <1>9, <1>10 DEF ThermoInv

\* ... and every step of client, network, sensor and time keeps it.
LEMMA ThermoInvNext == ThermoInv /\ [ThermoNext]_thermoVars => ThermoInv'
<1> SUFFICES ASSUME ThermoInv, [ThermoNext]_thermoVars PROVE ThermoInv'
  OBVIOUS
<1>1. CASE ThermoNext
  BY <1>1, CallsBegin, TimeoutKeeps, RecvKeeps, AwakeKeeps, RequestKeeps, ReplyKeeps, LostKeeps,
     TickKeeps, Zenon DEF ThermoNext
<1>2. CASE UNCHANGED thermoVars
  BY <1>2 DEF thermoVars, clientVars, sensorVars, ThermoInv, ThermoTypeOK, QuietInv, SocketInv,
              CallInv, MeasureInv, InCall, FreshReading, CallsAreShort
<1>. QED
  BY <1>1, <1>2

\* The inductive invariant of the measurement.
LEMMA ThermoInvariance == ThermoSpec => []ThermoInv
  BY ThermoInvInit, ThermoInvNext, PTL DEF ThermoSpec
-----------------------------------------------------------------------------
(* The composition: a part is not disturbed by the others.                 *)

\* A behaviour of the peripherals is one of each of its parts.
LEMMA Projections ==
  Spec => MacSpec /\ DelaySpec /\ SerialSpec /\ ThermoSpec
<1>1. Init => MacInit /\ DelayInit /\ SerialInit /\ ThermoInit
  BY DEF Init
<1>2. ASSUME [Next]_vars
      PROVE  /\ [MacNext]_macVars /\ [DelayNext]_delayVars
             /\ [SerialNext]_serialVars /\ [ThermoNext]_thermoVars
  BY <1>2, Zenon DEF Next, In, vars
<1>. QED
  BY <1>1, <1>2, PTL DEF Spec, MacSpec, DelaySpec, SerialSpec, ThermoSpec

\* The inductive invariant of all parts.
THEOREM Invariance == Spec => []IInv
  BY Projections, MacInvariance, DelayInvariance, SerialInvariance, ThermoInvariance, PTL DEF IInv

\* The bytes of the address, the registers, buffers, timers and datagrams under
\* way stay in their ranges.
THEOREM TypeCorrect == Spec => []TypeOK
<1>1. IInv => TypeOK
  BY DEF IInv, TypeOK, MacInv, DelayInv, SerialInv, ThermoInv
<1>. QED
  BY <1>1, Invariance, PTL

\* iostack_query_mac_address shows the digits that were typed, for addresses of
\* any length and any mixture of digits and backspaces.
THEOREM DigitsKept == Spec => []NoDigitLost
<1>1. IInv => NoDigitLost
  BY DEF IInv, MacInv
<1>. QED
  BY <1>1, Invariance, PTL

\* flasher_SET_PULSE_WIDTH sets the delay to its argument, for a delay line of
\* any length, and at no other moment than when the latch closes.
THEOREM WidthIsSet == Spec => DelayIsWidth
  BY Projections, DelaySet, PTL

\* flasher_READ_SERIAL_NO yields the chip's number but for garbled bytes, for numbers
\* of any length, transfers from any register and any bytes on the bus.
THEOREM NumberRead == Spec => []NumberIsChips
<1>1. IInv => NumberIsChips
  BY DEF IInv, SerialInv
<1>. QED
  BY <1>1, Invariance, PTL

\* read_temperature prints a temperature measured after it asked for one, for all
\* delays, timeouts and numbers of retries that leave the pause long enough.
THEOREM FreshTemperature == Spec => []FreshReading
<1>1. IInv => FreshReading
  BY DEF IInv, ThermoInv
<1>. QED
  BY <1>1, Invariance, PTL

\* A call of the client ends within the timeouts of its trials, whatever replies to
\* the call before the pause has left in the socket.
THEOREM CallsEnd == Spec => []CallsAreShort
<1>1. IInv => CallsAreShort
  BY DEF IInv, ThermoInv
<1>. QED
  BY <1>1, Invariance, PTL
=============================================================================
