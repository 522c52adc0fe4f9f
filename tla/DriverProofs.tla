----------------------------- MODULE DriverProofs -----------------------------
(***************************************************************************)
(* Proofs about the W5500 driver, for rings, pointers, headers and buffers *)
(* of any size, and any datagrams and parts.                               *)
(***************************************************************************)
EXTENDS Driver, SequenceTheorems, TLAPS, WellFoundedInduction

(* w55_read16.                                                             *)

\* Values have two natural components, and NoValue is none of them.
LEMMA ValueParts ==
  /\ \A v \in Values : /\ v = <<v[1], v[2]>>
                       /\ v[1] \in 0..MaxHigh /\ v[2] \in 0..MaxByte
  /\ NoValue \notin Values
  BY ByteAssumption DEF Values, NoValue

\* The invariant holds before the first call ...
LEMMA ReadInvInit == ReadInit => ReadInv
  BY ByteAssumption DEF ReadInit, ReadInv, ReadTypeOK, NotTorn, NoValue

\* ... and is kept by the driver: the second byte of a read is where a pair is
\* confirmed, because the high byte has not moved since the first one ...
LEMMA DriverKeeps ==
  ASSUME ReadInv, w55_read16
  PROVE  ReadInv'
<1>. /\ register \in Values /\ high \in 0..MaxHigh
     /\ register[1] \in 0..MaxHigh /\ register[2] \in 0..MaxByte
     /\ register = <<register[1], register[2]>>
  BY ValueParts DEF ReadInv, ReadTypeOK
<1>1. CASE Call
  BY <1>1 DEF Call, ReadInv, ReadTypeOK, NotTorn
<1>2. CASE ReadHigh
  BY <1>2 DEF ReadHigh, ReadInv, ReadTypeOK, NotTorn, Confirmed
<1>3. CASE ReadLow
  <2>1. new_value \in Values /\ new_value[1] = high /\ new_value # NoValue
    BY ByteAssumption DEF new_value, Values, NoValue
  <2>2. new_value[1] = register[1] => new_value = register
    BY DEF new_value
  <2>3. Confirmed(register[1], new_value)
    BY <1>3, <2>1, <2>2 DEF ReadLow, ReadInv, Confirmed
  <2>4. new_value = value => value \in seen
    BY <1>3, <2>1 DEF ReadLow, ReadInv, Confirmed
  <2>5. /\ value' = new_value /\ UNCHANGED <<register, high, seen>>
        /\ read_pc' = IF new_value = value THEN "done" ELSE "high"
        /\ read_pc = "low"
    BY <1>3 DEF ReadLow
  <2>. QED
    BY <2>1, <2>3, <2>4, <2>5 DEF ReadInv, ReadTypeOK, NotTorn, Confirmed
<1>4. CASE Return
  BY <1>4 DEF Return, ReadInv, ReadTypeOK, NotTorn
<1>. QED
  BY <1>1, <1>2, <1>3, <1>4 DEF w55_read16

\* ... and by the chip, whose high byte never falls during a call.
LEMMA ChipKeeps ==
  ASSUME ReadInv, Chip
  PROVE  ReadInv'
<1>. register \in Values /\ high \in 0..MaxHigh /\ register[1] \in 0..MaxHigh
  BY ValueParts DEF ReadInv, ReadTypeOK
<1>1. ASSUME NEW new \in Values, Grow(new)
      PROVE  ReadInv'
  <2>1. new[1] \in 0..MaxHigh /\ register[1] <= new[1]
    BY <1>1, ValueParts DEF Grow, \prec
  <2>2. \A v \in Values : Confirmed(register[1], v) => Confirmed(register[1], v)'
    BY <1>1, <2>1, ValueParts DEF Grow, Confirmed
  <2>3. \A v \in Values : Confirmed(high, v) => Confirmed(high, v)'
    BY <1>1 DEF Grow, Confirmed
  <2>. QED
    BY <1>1, <2>1, <2>2, <2>3 DEF Grow, ReadInv, ReadTypeOK, NotTorn
<1>2. ASSUME NEW new \in Values, Command(new)
      PROVE  ReadInv'
  BY <1>2 DEF Command, ReadInv, ReadTypeOK, NotTorn
<1>. QED
  BY <1>1, <1>2 DEF Chip

\* Two equal reads are not torn, however often the register changed.
THEOREM ReadsAreNotTorn == ReadSpec => []NotTorn
<1>1. ReadInv /\ [ReadNext]_readVars => ReadInv'
  <2>1. CASE UNCHANGED readVars
    BY <2>1 DEF readVars, ReadInv, ReadTypeOK, NotTorn, Confirmed
  <2>. QED
    BY <2>1, DriverKeeps, ChipKeeps DEF ReadNext
<1>2. ReadInv => NotTorn
  BY DEF ReadInv
<1>. QED
  BY <1>1, <1>2, ReadInvInit, PTL DEF ReadSpec
-----------------------------------------------------------------------------
(* FlattenSeq.  It is defined by recursion over positions; what is needed  *)
(* of it follows by looking at the first position where it would fail.     *)

\* A set of positions has a first one.
LEMMA First ==
  ASSUME NEW T \in SUBSET Nat, T # {}
  PROVE  \E x \in T : \A y \in T : x <= y
<1>. DEFINE R == {ss \in Nat \X Nat : ss[1] < ss[2]}
<1>1. IsWellFoundedOn(R, Nat)
  BY NatLessThanWellFounded DEF OpToRel
<1>2. PICK x \in T : \A y \in T : ~(<<y, x>> \in R)
  <2>. HIDE DEF R
  <2>. QED
    BY <1>1, WFMin, Zenon
<1>3. ASSUME NEW y \in T PROVE x <= y
  <2>1. ~(<<y, x>> \in R) /\ x \in Nat /\ y \in Nat
    BY <1>2
  <2>. QED
    BY <2>1
<1>. QED
  BY <1>2, <1>3

\* The concatenations of the first sequences in s, up to n of them.
Flattens(f, s, n, S) ==
  /\ f \in [1..n -> Seq(S)]
  /\ \A i \in 1..n : f[i] = IF i = 1 THEN s[i] ELSE f[i - 1] \o s[i]

\* They exist, for one position after the other ...
LEMMA FlattensExists ==
  ASSUME NEW S, NEW s \in Seq(Seq(S))
  PROVE  \A n \in 0..Len(s) : \E f : Flattens(f, s, n, S)
<1>. DEFINE T == {n \in 0..Len(s) : ~\E f : Flattens(f, s, n, S)}
<1>. SUFFICES ASSUME T # {} PROVE FALSE
  BY Zenon
<1>. Len(s) \in Nat /\ \A i \in 1..Len(s) : s[i] \in Seq(S)
  OBVIOUS
<1>1. T \in SUBSET Nat
  OBVIOUS
<1>2. PICK n \in T : \A k \in T : n <= k
  <2>. HIDE DEF T
  <2>. QED
    BY <1>1, First
<1>3. n \in 0..Len(s) /\ ~\E f : Flattens(f, s, n, S)
  OBVIOUS
<1>4. n # 0
  <2>1. Flattens([i \in 1..0 |-> <<>>], s, 0, S)
    BY DEF Flattens
  <2>. QED
    BY <1>3, <2>1
<1>5. PICK f : Flattens(f, s, n - 1, S)
  <2>1. n - 1 \in 0..Len(s) /\ ~(n <= n - 1)
    BY <1>3, <1>4
  <2>2. n - 1 \notin T
    BY <1>2, <2>1
  <2>. QED
    BY <2>1, <2>2
<1>. DEFINE g == [i \in 1..n |-> IF i # n THEN f[i] ELSE IF n = 1 THEN s[n] ELSE f[n - 1] \o s[n]]
<1>6. \A i \in 1..n : g[i] \in Seq(S)
  BY <1>3, <1>4, <1>5 DEF Flattens
<1>7. \A i \in 1..n : g[i] = IF i = 1 THEN s[i] ELSE g[i - 1] \o s[i]
  <2>. SUFFICES ASSUME NEW i \in 1..n PROVE g[i] = IF i = 1 THEN s[i] ELSE g[i - 1] \o s[i]
    OBVIOUS
  <2>1. CASE i = n
    BY <2>1, <1>3, <1>4
  <2>2. CASE i # n
    <3>1. i \in 1..(n - 1) /\ (i # 1 => i - 1 \in 1..n /\ i - 1 # n)
      BY <2>2, <1>3, <1>4
    <3>. QED
      BY <2>2, <3>1, <1>5 DEF Flattens
  <2>. QED
    BY <2>1, <2>2
<1>. QED
  <2>1. g \in [1..n -> Seq(S)]
    BY <1>6
  <2>. HIDE DEF g
  <2>. QED
    BY <1>3, <1>7, <2>1 DEF Flattens

\* ... and are the same as far as the sequences are.
LEMMA FlattensUnique ==
  ASSUME NEW S, NEW s, NEW t, NEW m \in Nat, NEW n \in Nat,
         m <= n, \A i \in 1..m : s[i] = t[i],
         NEW f, NEW g, Flattens(f, s, m, S), Flattens(g, t, n, S)
  PROVE  \A i \in 1..m : f[i] = g[i]
<1>. DEFINE T == {i \in 1..m : f[i] # g[i]}
<1>. SUFFICES ASSUME T # {} PROVE FALSE
  BY Zenon
<1>1. T \in SUBSET Nat
  OBVIOUS
<1>2. PICK x \in T : \A y \in T : x <= y
  <2>. HIDE DEF T
  <2>. QED
    BY <1>1, First
<1>3. f[x] # g[x] /\ x \in 1..m /\ x \in 1..n
  OBVIOUS
<1>4. x # 1
  BY <1>3 DEF Flattens
<1>5. f[x - 1] = g[x - 1]
  <2>1. x - 1 \in 1..m /\ ~(x <= x - 1)
    BY <1>3, <1>4
  <2>. QED
    BY <1>2, <2>1
<1>6. f[x] = f[x - 1] \o s[x] /\ g[x] = g[x - 1] \o t[x] /\ s[x] = t[x]
  BY <1>3, <1>4 DEF Flattens
<1>. QED
  BY <1>3, <1>5, <1>6

\* FlattenSeq is the last of them.
LEMMA FlattenIs ==
  ASSUME NEW S, NEW s \in Seq(Seq(S)), s # <<>>
  PROVE  \E f : Flattens(f, s, Len(s), S) /\ FlattenSeq(s) = f[Len(s)]
<1>. DEFINE n == Len(s)
            Def(f) == f = [i \in 1..n |-> IF i = 1 THEN s[i] ELSE f[i - 1] \o s[i]]
            F == CHOOSE f : f = [i \in 1..Len(s) |-> IF i = 1 THEN s[i] ELSE f[i - 1] \o s[i]]
<1>1. n \in Nat \ {0}
  OBVIOUS
<1>2. PICK f : Flattens(f, s, n, S)
  <2>1. n \in 0..Len(s)
    BY <1>1
  <2>. QED
    BY <2>1, FlattensExists
<1>3. Def(f)
  BY <1>2 DEF Flattens
<1>4. Def(F)
  BY <1>3, Zenon
<1>5. FlattenSeq(s) = F[n]
  <2>1. Len(s) # 0
    BY <1>1
  <2>. QED
    BY <2>1 DEF FlattenSeq
<1>6. \A i \in 1..n : F[i] = f[i]
  <2>. DEFINE T == {i \in 1..n : F[i] # f[i]}
  <2>. SUFFICES ASSUME T # {} PROVE FALSE
    BY Zenon
  <2>1. T \in SUBSET Nat
    <3>. HIDE DEF F
    <3>. QED
      BY <1>1
  <2>2. PICK x \in T : \A y \in T : x <= y
    <3>. HIDE DEF T
    <3>. QED
      BY <2>1, First
  <2>3. x \in 1..n /\ F[x] # f[x]
    OBVIOUS
  <2>4. \A i \in 1..n : F[i] = IF i = 1 THEN s[i] ELSE F[i - 1] \o s[i]
    <3>. HIDE DEF F
    <3>. QED
      BY <1>4
  <2>5. x # 1
    BY <2>3, <2>4, <1>2 DEF Flattens
  <2>6. F[x - 1] = f[x - 1]
    <3>1. x - 1 \in 1..n /\ ~(x <= x - 1)
      BY <2>3, <2>5
    <3>. HIDE DEF F
    <3>. QED
      BY <2>2, <3>1
  <2>. HIDE DEF F
  <2>. QED
    BY <2>3, <2>4, <2>5, <2>6, <1>2 DEF Flattens
<1>7. n \in 1..n
  BY <1>1
<1>. HIDE DEF F, Def
<1>. QED
  BY <1>2, <1>5, <1>6, <1>7

\* What is concatenated of nothing, and of a sequence with one more at its end.
LEMMA FlattenAppend ==
  ASSUME NEW S
  PROVE  /\ FlattenSeq(<<>>) = <<>>
         /\ \A s \in Seq(Seq(S)) : FlattenSeq(s) \in Seq(S)
         /\ \A s \in Seq(Seq(S)), e \in Seq(S) :
              FlattenSeq(Append(s, e)) = FlattenSeq(s) \o e
<1>1. FlattenSeq(<<>>) = <<>>
  BY DEF FlattenSeq
<1>2. ASSUME NEW s \in Seq(Seq(S))
      PROVE  FlattenSeq(s) \in Seq(S)
  <2>1. CASE s = <<>>
    <3>1. <<>> \in Seq(S)
      BY EmptySeq
    <3>. QED
      BY <1>1, <2>1, <3>1, Zenon
  <2>2. CASE s # <<>>
    <3>1. PICK f : Flattens(f, s, Len(s), S) /\ FlattenSeq(s) = f[Len(s)]
      BY <2>2, FlattenIs
    <3>2. Len(s) \in 1..Len(s)
      BY <2>2
    <3>. QED
      BY <3>1, <3>2 DEF Flattens
  <2>. QED
    BY <2>1, <2>2
<1>3. ASSUME NEW s \in Seq(Seq(S)), NEW e \in Seq(S)
      PROVE  FlattenSeq(Append(s, e)) = FlattenSeq(s) \o e
  <2>. DEFINE t == Append(s, e)
              n == Len(s)
  <2>1. /\ t \in Seq(Seq(S)) /\ t # <<>> /\ Len(t) = n + 1 /\ n \in Nat
        /\ t[n + 1] = e /\ \A i \in 1..n : t[i] = s[i]
    BY AppendProperties
  <2>. HIDE DEF t
  <2>2. PICK g : Flattens(g, t, n + 1, S) /\ FlattenSeq(t) = g[n + 1]
    BY <2>1, FlattenIs
  <2>3. CASE s = <<>>
    <3>1. n = 0
      BY <2>3
    <3>2. g[n + 1] = e
      BY <3>1, <2>1, <2>2 DEF Flattens
    <3>. QED
      BY <3>2, <2>2, <2>3, <1>1, ConcatEmptySeq DEF t
  <2>4. CASE s # <<>>
    <3>1. n \in 1..n /\ n + 1 # 1 /\ n + 1 \in 1..(n + 1) /\ (n + 1) - 1 = n
      BY <2>1, <2>4, EmptySeq
    <3>2. PICK f : Flattens(f, s, n, S) /\ FlattenSeq(s) = f[n]
      BY <2>4, FlattenIs
    <3>3. g[n + 1] = g[n] \o e
      BY <3>1, <2>1, <2>2 DEF Flattens
    <3>4. f[n] = g[n]
      <4>1. n \in Nat /\ n + 1 \in Nat /\ n <= n + 1 /\ \A i \in 1..n : s[i] = t[i]
        BY <2>1
      <4>2. Flattens(f, s, n, S) /\ Flattens(g, t, n + 1, S)
        BY <2>2, <3>2
      <4>. HIDE DEF n
      <4>3. \A i \in 1..n : f[i] = g[i]
        BY <4>1, <4>2, FlattensUnique
      <4>. QED
        BY <4>3, <3>1
    <3>. QED
      BY <2>2, <3>2, <3>3, <3>4 DEF t
  <2>. QED
    BY <2>3, <2>4
<1>. QED
  BY <1>1, <1>2, <1>3

\* The first sequence comes first.
LEMMA FlattenHead ==
  ASSUME NEW S, NEW s \in Seq(Seq(S)), s # <<>>
  PROVE  FlattenSeq(s) = Head(s) \o FlattenSeq(Tail(s))
<1>. DEFINE Splits(q) == FlattenSeq(q) = Head(q) \o FlattenSeq(Tail(q))
            T == {n \in Nat : \E q \in Seq(Seq(S)) : Len(q) = n /\ q # <<>> /\ ~Splits(q)}
<1>0. \A x, y, z \in Seq(S) : (x \o y) \o z = x \o (y \o z)
  <2>. HIDE DEF Splits, T
  <2>1. ASSUME NEW x \in Seq(S), NEW y \in Seq(S), NEW z \in Seq(S)
        PROVE  (x \o y) \o z = x \o (y \o z)
    BY ConcatAssociative, SMTT(40)
  <2>. QED
    BY <2>1, Zenon
<1>. SUFFICES ASSUME T # {} PROVE FALSE
  <2>1. Len(s) \in Nat
    OBVIOUS
  <2>2. ~Splits(s) => Len(s) \in T
    <3>. HIDE DEF Splits
    <3>. QED
      BY <2>1
  <2>. HIDE DEF T
  <2>. QED
    BY <2>2
<1>1. T \in SUBSET Nat
  OBVIOUS
<1>2. PICK n \in T : \A k \in T : n <= k
  <2>. HIDE DEF T
  <2>. QED
    BY <1>1, First
<1>3. PICK q \in Seq(Seq(S)) : Len(q) = n /\ q # <<>> /\ ~Splits(q)
  <2>. HIDE DEF Splits
  <2>. QED
    BY <1>2
<1>4. PICK p \in Seq(Seq(S)), e \in Seq(S) : q = Append(p, e)
  BY <1>3, SequenceEmptyOrAppend
<1>5. Len(p) \in Nat /\ Len(p) < n
  <2>1. Len(q) = Len(p) + 1 /\ Len(p) \in Nat
    BY <1>4, AppendProperties
  <2>. QED
    BY <1>3, <2>1
<1>6. CASE p = <<>>
  <2>1. q = <<e>> /\ Head(q) = e /\ Tail(q) = <<>>
    BY <1>4, <1>6
  <2>2. FlattenSeq(q) = <<>> \o e
    BY <1>4, <1>6, FlattenAppend
  <2>3. e = <<>> \o e /\ e = e \o <<>>
    BY ConcatEmptySeq
  <2>. QED
    BY <1>3, <2>1, <2>2, <2>3, FlattenAppend
<1>7. CASE p # <<>>
  <2>1. Splits(p)
    <3>. HIDE DEF Splits
    <3>1. Len(p) \notin T
      <4>1. ~(n <= Len(p))
        BY <1>5
      <4>. HIDE DEF T
      <4>. QED
        BY <1>2, <4>1
    <3>. QED
      BY <3>1, <1>5, <1>7
  <2>2. Head(q) = Head(p) /\ Tail(q) = Append(Tail(p), e)
    BY <1>4, <1>7, HeadTailAppend
  <2>3. Head(p) \in Seq(S) /\ Tail(p) \in Seq(Seq(S))
    BY <1>7, HeadTailProperties
  <2>4. FlattenSeq(q) = FlattenSeq(p) \o e /\ FlattenSeq(Tail(q)) = FlattenSeq(Tail(p)) \o e
    BY <1>4, <2>2, <2>3, FlattenAppend
  <2>5. FlattenSeq(Tail(p)) \in Seq(S)
    BY <2>3, FlattenAppend
  <2>6. (Head(p) \o FlattenSeq(Tail(p))) \o e = Head(p) \o (FlattenSeq(Tail(p)) \o e)
    BY <2>3, <2>5, <1>0, Zenon
  <2>7. Splits(q)
    <3>1. FlattenSeq(q) = (Head(p) \o FlattenSeq(Tail(p))) \o e
      BY <2>1, <2>4
    <3>2. FlattenSeq(q) = Head(p) \o FlattenSeq(Tail(q))
      BY <3>1, <2>4, <2>6
    <3>. QED
      BY <3>2, <2>2
  <2>. HIDE DEF Splits
  <2>. QED
    BY <1>3, <2>7
<1>. QED
  BY <1>6, <1>7
-----------------------------------------------------------------------------
(* Pointers.                                                               *)

\* Division with remainder, and the products it brings along.
LEMMA Division ==
  ASSUME NEW R \in Nat \ {0}, NEW a \in Int
  PROVE  a \div R \in Int /\ a % R \in 0..(R - 1) /\ a = R * (a \div R) + (a % R)
  OBVIOUS

\* Products of a ring size, for a prover that knows no multiplication.
LEMMA Products ==
  ASSUME NEW R \in Nat \ {0}
  PROVE  /\ \A p, q \in Int : R * p - R * q = R * (p - q) /\ R * p + R * q = R * (p + q)
         /\ \A d \in Int : d >= 1 => R * d >= R
         /\ \A d \in Int : d <= -1 => R * d <= -R
         /\ \A d \in Int : R * d \in Int /\ R * (-d) = -(R * d)
         /\ \A k, x \in Int : (R * k) * x = R * (k * x) /\ k * x \in Int
         /\ R * 0 = 0 /\ R * 1 = R /\ R * (-1) = -R
  OBVIOUS

\* The remainder is the only one in its range ...
LEMMA Remainder ==
  ASSUME NEW R \in Nat \ {0}, NEW a \in Int, NEW q \in Int, NEW b \in 0..(R - 1),
         a = R * q + b
  PROVE  a % R = b
<1>. DEFINE p == a \div R
            r == a % R
            d == p - q
<1>1. p \in Int /\ r \in 0..(R - 1) /\ a = R * p + r
  BY Division
<1>. HIDE DEF p, r
<1>2. d \in Int /\ R * d = R * p - R * q /\ R * p \in Int /\ R * q \in Int
  BY <1>1, Products
<1>3. R * d = b - r
  BY <1>1, <1>2
<1>4. ~(R * d >= R) /\ ~(R * d <= -R)
  BY <1>1, <1>3
<1>5. d = 0
  <2>1. ~(d >= 1) /\ ~(d <= -1)
    BY <1>2, <1>4, Products
  <2>. QED
    BY <1>2, <2>1
<1>6. b - r = 0
  BY <1>3, <1>5, Products
<1>. QED
  BY <1>1, <1>6 DEF r

\* ... and does not see multiples.
LEMMA Multiples ==
  ASSUME NEW R \in Nat \ {0}, NEW a \in Int, NEW b \in Int, NEW q \in Int,
         a = b + R * q
  PROVE  a % R = b % R
<1>. DEFINE p == b \div R
            r == b % R
<1>1. p \in Int /\ r \in 0..(R - 1) /\ b = R * p + r
  BY Division
<1>. HIDE DEF p, r
<1>2. R * p \in Int /\ R * q \in Int /\ R * p + R * q = R * (p + q) /\ p + q \in Int
  BY <1>1, Products
<1>3. a = R * (p + q) + r
  BY <1>1, <1>2
<1>4. a % R = r
  BY <1>1, <1>2, <1>3, Remainder
<1>. QED
  BY <1>4 DEF r

\* A pointer that counts modulo M is as good as the count for a ring of R cells.
LEMMA Wraps ==
  ASSUME NEW R \in Nat \ {0}, NEW M \in Nat \ {0}, M % R = 0, NEW a \in Int, NEW j \in Int
  PROVE  /\ ((a % M) + j) % R = (a + j) % R
         /\ (j - (a % M)) % R = (j - a) % R
<1>. DEFINE k == M \div R
            x == a \div M
            r == a % M
<1>1. k \in Int /\ M = R * k
  BY Division
<1>2. x \in Int /\ r \in Int /\ a = M * x + r
  BY Division
<1>. HIDE DEF k, x, r
<1>3. PICK q \in Int : M * x = R * q
  BY <1>1, <1>2, Products
<1>4. PICK p \in Int : p = -q /\ R * p = -(R * q) /\ R * q \in Int
  BY <1>3, Products
<1>5. r + j = (a + j) + R * p /\ j - r = (j - a) + R * q
  BY <1>2, <1>3, <1>4
<1>6. r + j \in Int /\ a + j \in Int /\ j - r \in Int /\ j - a \in Int
  BY <1>2
<1>. DEFINE u == r + j
            v == a + j
            y == j - r
            z == j - a
<1>7. u \in Int /\ v \in Int /\ y \in Int /\ z \in Int /\ u = v + R * p /\ y = z + R * q
  BY <1>5, <1>6
<1>. HIDE DEF u, v, y, z
<1>8. u % R = v % R
  BY <1>7, Multiples
<1>9. y % R = z % R
  BY <1>7, Multiples
<1>. QED
  BY <1>8, <1>9 DEF r, u, v, y, z

\* A number is no multiple of itself, and a small one is its own remainder.
LEMMA SmallRemainders ==
  ASSUME NEW R \in Nat \ {0}
  PROVE  R % R = 0 /\ \A x \in 0..(R - 1) : x % R = x
<1>1. R = R * 1 + 0 /\ 0 \in 0..(R - 1) /\ R \in Int /\ 1 \in Int
  OBVIOUS
<1>2. R % R = 0
  BY <1>1, Remainder
<1>3. ASSUME NEW x \in 0..(R - 1) PROVE x % R = x
  <2>1. x = R * 0 + x /\ x \in Int /\ 0 \in Int
    OBVIOUS
  <2>. QED
    BY <2>1, Remainder
<1>. QED
  BY <1>2, <1>3

\* Wraps, for a prover that is to instantiate it.
LEMMA AllWrap ==
  ASSUME NEW R \in Nat \ {0}, NEW M \in Nat \ {0}, M % R = 0
  PROVE  \A a, j \in Int : /\ ((a % M) + j) % R = (a + j) % R
                           /\ (j - (a % M)) % R = (j - a) % R
<1>. SUFFICES ASSUME NEW a \in Int, NEW j \in Int
              PROVE  /\ ((a % M) + j) % R = (a + j) % R
                     /\ (j - (a % M)) % R = (j - a) % R
  BY Zenon
<1>. QED
  BY Wraps

\* A pointer moved on, the way from one pointer to another, the i-th cell from a
\* pointer on.
Ahead(M, ptr, n) == (ptr + n) % M
Between(M, from, to) == (to - from) % M
At(R, ptr, i) == (ptr + i - 1) % R

\* They are pointers and positions again.
LEMMA PointerTypes ==
  ASSUME NEW R \in Nat \ {0}
  PROVE  \A p, q \in Int : /\ Ahead(R, p, q) \in 0..(R - 1)
                         /\ Between(R, p, q) \in 0..(R - 1)
                         /\ At(R, p, q) \in 0..(R - 1)
<1>1. \A a \in Int : a % R \in 0..(R - 1)
  BY Division
<1>. QED
  <2>1. ASSUME NEW p \in Int, NEW q \in Int
        PROVE  p + q \in Int /\ q - p \in Int /\ p + q - 1 \in Int
    OBVIOUS
  <2>. QED
    BY <1>1, <2>1, Zenon DEF Ahead, Between, At

\* The way gets longer as its end moves on, and shorter as its beginning does.
LEMMA Distances ==
  ASSUME NEW M \in Nat \ {0}
  PROVE  \A U, W \in Int, k \in Nat :
           /\ Between(M, U, W) + k < M =>
                Between(M, U, Ahead(M, W, k)) = Between(M, U, W) + k
           /\ k <= Between(M, U, W) =>
                Between(M, Ahead(M, U, k), W) = Between(M, U, W) - k
<1>. SUFFICES ASSUME NEW U \in Int, NEW W \in Int, NEW k \in Nat
              PROVE  /\ Between(M, U, W) + k < M =>
                          Between(M, U, Ahead(M, W, k)) = Between(M, U, W) + k
                     /\ k <= Between(M, U, W) =>
                          Between(M, Ahead(M, U, k), W) = Between(M, U, W) - k
  BY Zenon
<1>. DEFINE a == W + k
            b == U + k
            d == W - U
            n == d % M
            l == -U
            m == -k
<1>1. a \in Int /\ b \in Int /\ d \in Int /\ l \in Int /\ m \in Int /\ k \in Int
  OBVIOUS
<1>2. M % M = 0 /\ \A x \in 0..(M - 1) : x % M = x
  BY SmallRemainders
<1>3. n \in 0..(M - 1)
  BY <1>1, Division
<1>. HIDE DEF a, b, d, l, m
<1>4. /\ ((a % M) + l) % M = (a + l) % M /\ ((d % M) + k) % M = (d + k) % M
      /\ (W - (b % M)) % M = (W - b) % M /\ ((d % M) + m) % M = (d + m) % M
      /\ a % M \in 0..(M - 1) /\ b % M \in 0..(M - 1)
  <2>1. \A p, q \in Int : /\ ((p % M) + q) % M = (p + q) % M
                          /\ (q - (p % M)) % M = (q - p) % M
    BY <1>2, AllWrap
  <2>2. W \in Int
    OBVIOUS
  <2>3. a % M \in 0..(M - 1) /\ b % M \in 0..(M - 1)
    BY <1>1, Division
  <2>. QED
    BY <1>1, <2>1, <2>2, <2>3, Zenon
<1>5. a + l = d + k /\ W - b = d + m
  BY DEF a, b, d, l, m
<1>. HIDE DEF n
<1>7. d % M = n
  BY DEF n
<1>8. n + k < M => ((a % M) + l) % M = n + k
  <2>1. n + k < M => n + k \in 0..(M - 1)
    BY <1>3
  <2>. QED
    BY <1>2, <1>4, <1>5, <1>7, <2>1
<1>9. k <= n => (W - (b % M)) % M = n + m
  <2>1. k <= n => n + m \in 0..(M - 1)
    BY <1>3 DEF m
  <2>. QED
    BY <1>2, <1>4, <1>5, <1>7, <2>1
<1>10. (a % M) + l = (a % M) - U /\ n + m = n - k
  BY <1>3, <1>4 DEF l, m
<1>. QED
  BY <1>8, <1>9, <1>10 DEF a, b, d, n, Ahead, Between

\* Where the k-th cell lies as seen from behind the n-th.
Behind(R, n, k) == IF k <= n THEN R + k - 1 - n ELSE k - 1 - n

\* The position, counted from a pointer W, of the k-th cell from U on.
LEMMA Offsets ==
  ASSUME NEW R \in Nat \ {0}, NEW M \in Nat \ {0}, M % R = 0
  PROVE  \A U, W \in Int, k \in 1..R :
           Between(M, U, W) <= R =>
             Between(R, W, At(R, U, k)) = Behind(R, Between(M, U, W), k)
<1>. SUFFICES ASSUME NEW U \in Int, NEW W \in Int, Between(M, U, W) <= R, NEW k \in 1..R
              PROVE  Between(R, W, At(R, U, k)) = Behind(R, Between(M, U, W), k)
  BY Zenon
<1>. DEFINE c == U + k - 1
            d == W - U
            n == d % M
            l == -W
            j == k - 1
<1>1. c \in Int /\ d \in Int /\ l \in Int /\ j \in Int /\ c + l = j - d
  OBVIOUS
<1>2. R % R = 0
  BY SmallRemainders
<1>3. n \in 0..R
  <2>1. n \in 0..(M - 1)
    BY <1>1, Division
  <2>2. n <= R
    BY DEF Between
  <2>. HIDE DEF n
  <2>. QED
    BY <2>1, <2>2
<1>. HIDE DEF c, d, l, j
<1>4. ((c % R) + l) % R = (c + l) % R /\ (j - n) % R = (j - d) % R /\ c % R \in 0..(R - 1)
  <2>1. \A p, q \in Int : /\ ((p % R) + q) % R = (p + q) % R
                          /\ (q - (p % R)) % R = (q - p) % R
    BY <1>2, AllWrap
  <2>2. \A p, q \in Int : /\ ((p % M) + q) % R = (p + q) % R
                          /\ (q - (p % M)) % R = (q - p) % R
    BY AllWrap
  <2>3. c % R \in 0..(R - 1)
    BY <1>1, Division
  <2>. QED
    BY <1>1, <2>1, <2>2, <2>3, Zenon
<1>. HIDE DEF n
<1>5. (j - n) % R = IF k <= n THEN R + k - 1 - n ELSE k - 1 - n
  <2>. DEFINE x == j - n
              y == R + k - 1 - n
  <2>1. x \in Int /\ y \in Int /\ x = R * (-1) + y /\ x = R * 0 + x /\ -1 \in Int /\ 0 \in Int
        /\ (k <= n => y \in 0..(R - 1)) /\ (~(k <= n) => x \in 0..(R - 1)) /\ x = k - 1 - n
    BY <1>3 DEF j
  <2>. HIDE DEF x, y
  <2>2. k <= n => x % R = y
    BY <2>1, Remainder
  <2>3. ~(k <= n) => x % R = x
    BY <2>1, Remainder
  <2>. QED
    BY <2>1, <2>2, <2>3 DEF x, y
<1>6. (c % R) + l = (c % R) - W
  BY <1>4 DEF l
<1>7. ((c % R) - W) % R = IF k <= n THEN R + k - 1 - n ELSE k - 1 - n
  BY <1>1, <1>4, <1>5, <1>6
<1>. QED
  BY <1>7 DEF c, d, n, Between, At, Behind

\* The i-th cell from a pointer moved on, in a ring and a pointer that wraps.
LEMMA Further ==
  ASSUME NEW R \in Nat \ {0}, NEW M \in Nat \ {0}, M % R = 0
  PROVE  \A U, k, i \in Int : At(R, Ahead(M, U, k), i) = At(R, U, k + i)
<1>. SUFFICES ASSUME NEW U \in Int, NEW k \in Int, NEW i \in Int
              PROVE  At(R, Ahead(M, U, k), i) = At(R, U, k + i)
  BY Zenon
<1>. DEFINE a == U + k
            j == i - 1
            r == a % M
<1>1. a \in Int /\ j \in Int
  OBVIOUS
<1>2. r \in Int
  BY <1>1, Division
<1>3. (r + j) % R = (a + j) % R
  <2>1. \A p, q \in Int : /\ ((p % M) + q) % R = (p + q) % R
                          /\ (q - (p % M)) % R = (q - p) % R
    BY AllWrap
  <2>. QED
    BY <1>1, <2>1, Zenon
<1>4. r + i - 1 = r + j /\ U + (k + i) - 1 = a + j
  BY <1>2
<1>. QED
  BY <1>3, <1>4 DEF Ahead, At
-----------------------------------------------------------------------------
(* Cells of a ring.                                                        *)

\* n cells of a ring of R from a pointer on.
CellsFrom(ring, R, ptr, n) == [i \in 1..n |-> ring[At(R, ptr, i)]]

\* A ring with p written into it from a pointer on.
Put(ring, R, ptr, p) ==
  [i \in DOMAIN ring |->
     IF Between(R, ptr, i) < Len(p) THEN p[Between(R, ptr, i) + 1] ELSE ring[i]]

\* The rings of R cells.
Rings(R) == [0..(R - 1) -> Nat]

\* They are a sequence of what is in the ring.
LEMMA CellsType ==
  ASSUME NEW R \in Nat \ {0}, NEW S, NEW ring \in [0..(R - 1) -> S]
  PROVE  \A ptr \in Int, n \in Nat :
           /\ CellsFrom(ring, R, ptr, n) \in Seq(S)
           /\ Len(CellsFrom(ring, R, ptr, n)) = n
           /\ \A i \in 1..n : CellsFrom(ring, R, ptr, n)[i] = ring[At(R, ptr, i)]
<1>. SUFFICES ASSUME NEW ptr \in Int, NEW n \in Nat
              PROVE  /\ CellsFrom(ring, R, ptr, n) \in Seq(S)
                     /\ Len(CellsFrom(ring, R, ptr, n)) = n
                     /\ \A i \in 1..n : CellsFrom(ring, R, ptr, n)[i] = ring[At(R, ptr, i)]
  BY Zenon
<1>1. \A i \in 1..n : ring[At(R, ptr, i)] \in S
  <2>1. \A i \in 1..n : i \in Int
    OBVIOUS
  <2>2. \A i \in 1..n : At(R, ptr, i) \in 0..(R - 1)
    BY <2>1, PointerTypes
  <2>. QED
    BY <2>2
<1>. QED
  BY <1>1 DEF CellsFrom

\* A part written behind n cells, into room that is there, follows them, also
\* when the ring wraps.
LEMMA PutFollows ==
  ASSUME NEW R \in Nat \ {0}, NEW M \in Nat \ {0}, M % R = 0, R < M
  PROVE  \A ring \in Rings(R), p \in Seq(Nat), U, W \in Int :
           Between(M, U, W) + Len(p) <= R =>
             /\ Put(ring, R, W, p) \in Rings(R)
             /\ CellsFrom(Put(ring, R, W, p), R, U, Between(M, U, W) + Len(p)) =
                  CellsFrom(ring, R, U, Between(M, U, W)) \o p
             /\ Between(M, U, Ahead(M, W, Len(p))) = Between(M, U, W) + Len(p)
<1>. SUFFICES ASSUME NEW ring \in Rings(R), NEW p \in Seq(Nat), NEW U \in Int, NEW W \in Int,
                     Between(M, U, W) + Len(p) <= R
              PROVE  /\ Put(ring, R, W, p) \in Rings(R)
                     /\ CellsFrom(Put(ring, R, W, p), R, U, Between(M, U, W) + Len(p)) =
                          CellsFrom(ring, R, U, Between(M, U, W)) \o p
                     /\ Between(M, U, Ahead(M, W, Len(p))) = Between(M, U, W) + Len(p)
  BY Zenon
<1>. DEFINE S == Nat
<1>. ring \in [0..(R - 1) -> S] /\ p \in Seq(S)
  BY DEF Rings
<1>. HIDE DEF S
<1>c. ASSUME NEW q \in [0..(R - 1) -> S], NEW k \in Nat
      PROVE  /\ CellsFrom(q, R, U, k) \in Seq(S) /\ Len(CellsFrom(q, R, U, k)) = k
             /\ \A i \in 1..k : CellsFrom(q, R, U, k)[i] = q[At(R, U, i)]
  BY CellsType
<1>0. \A k \in 1..R : Between(R, W, At(R, U, k)) = Behind(R, Between(M, U, W), k)
  <2>1. Between(M, U, W) <= R
    <3>1. Between(M, U, W) \in 0..(M - 1)
      BY PointerTypes
    <3>2. Len(p) \in Nat
      OBVIOUS
    <3>. QED
      BY <3>1, <3>2
  <2>2. \A V, X \in Int, k \in 1..R :
          Between(M, V, X) <= R =>
            Between(R, X, At(R, V, k)) = Behind(R, Between(M, V, X), k)
    BY Offsets
  <2>. QED
    BY <2>1, <2>2, Zenon
<1>. DEFINE m == Len(p)
            n == Between(M, U, W)
            put == Put(ring, R, W, p)
            old == CellsFrom(ring, R, U, n)
            new == CellsFrom(put, R, U, n + m)
<1>1. /\ m \in Nat /\ n \in Nat /\ n + m \in Nat /\ n + m <= R /\ n <= R /\ n + m < M
      /\ \A i \in 1..m : p[i] \in S
  <2>1. n \in 0..(M - 1)
    BY PointerTypes
  <2>2. n + m <= R /\ m \in Nat /\ \A i \in 1..m : p[i] \in S
    OBVIOUS
  <2>. HIDE DEF n, m
  <2>. QED
    BY <2>1, <2>2
<1>2. put \in [0..(R - 1) -> S]
  <2>0. \A i \in 0..(R - 1) : i \in Int
    OBVIOUS
  <2>1. \A i \in 0..(R - 1) : Between(R, W, i) \in 0..(R - 1)
    BY <2>0, PointerTypes
  <2>2. ASSUME NEW i \in 0..(R - 1)
        PROVE  (IF Between(R, W, i) < m THEN p[Between(R, W, i) + 1] ELSE ring[i]) \in S
    <3>. DEFINE b == Between(R, W, i)
    <3>1. b \in 0..(R - 1)
      BY <2>1, Zenon
    <3>2. ring[i] \in S
      OBVIOUS
    <3>3. m \in Nat /\ \A j \in 1..m : p[j] \in S
      BY <1>1
    <3>. HIDE DEF b, m, n, put, old, new
    <3>4. ASSUME b < m
          PROVE  p[b + 1] \in S
      <4>1. b + 1 \in 1..m
        BY <3>1, <3>3, <3>4
      <4>. QED
        BY <4>1, <3>3, Zenon
    <3>. QED
      BY <3>2, <3>4 DEF b
  <2>. QED
    BY <2>2 DEF Put
<1>3. /\ old \in Seq(S) /\ Len(old) = n
      /\ \A i \in 1..n : old[i] = ring[At(R, U, i)]
  <2>. DEFINE k == n
  <2>. HIDE DEF m, n, put, old, new, k
  <2>0. k \in Nat /\ ring \in [0..(R - 1) -> S]
    BY <1>1 DEF k
  <2>1. /\ CellsFrom(ring, R, U, k) \in Seq(S) /\ Len(CellsFrom(ring, R, U, k)) = k
        /\ \A i \in 1..k : CellsFrom(ring, R, U, k)[i] = ring[At(R, U, i)]
    BY <2>0, <1>c, Zenon
  <2>. QED
    BY <2>1, Zenon DEF k, old
<1>4. /\ new \in Seq(S) /\ Len(new) = n + m
      /\ \A i \in 1..(n + m) : new[i] = put[At(R, U, i)]
  <2>. DEFINE k == n + m
  <2>. HIDE DEF m, n, put, old, new, k
  <2>0. k \in Nat
    BY <1>1 DEF k
  <2>1. /\ CellsFrom(put, R, U, k) \in Seq(S) /\ Len(CellsFrom(put, R, U, k)) = k
        /\ \A i \in 1..k : CellsFrom(put, R, U, k)[i] = put[At(R, U, i)]
    BY <1>2, <2>0, <1>c, Zenon
  <2>. QED
    BY <2>1, Zenon DEF k, new
<1>5. ASSUME NEW i \in 1..(n + m)
      PROVE  new[i] = IF i <= n THEN old[i] ELSE p[i - n]
  <2>1. i \in 1..R /\ i \in Int
    BY <1>1
  <2>. DEFINE c == At(R, U, i)
              o == Between(R, W, c)
  <2>2. c \in 0..(R - 1) /\ o = IF i <= n THEN R + i - 1 - n ELSE i - 1 - n
    <3>1. c \in 0..(R - 1)
      BY <2>1, PointerTypes
    <3>2. o = Behind(R, n, i)
      BY <2>1, <1>0
    <3>. QED
      BY <3>1, <3>2 DEF Behind
  <2>3. put[c] = IF o < m THEN p[o + 1] ELSE ring[c]
    BY <2>2 DEF Put
  <2>4. new[i] = put[c]
    BY <1>4
  <2>. HIDE DEF c, o, put, new, old, n, m
  <2>5. CASE i <= n
    <3>1. ~(o < m)
      BY <1>1, <2>1, <2>2, <2>5
    <3>2. i \in 1..n
      BY <1>1, <2>5
    <3>3. old[i] = ring[c]
      BY <1>3, <3>2 DEF c
    <3>. QED
      BY <2>3, <2>4, <2>5, <3>1, <3>3
  <2>6. CASE ~(i <= n)
    <3>1. o < m /\ o + 1 = i - n
      BY <1>1, <2>1, <2>2, <2>6
    <3>. QED
      BY <2>3, <2>4, <2>6, <3>1
  <2>. QED
    BY <2>5, <2>6
<1>. HIDE DEF n, put, old, new
<1>6. new = old \o p
  <2>. DEFINE q == old \o p
  <2>1. q \in Seq(S) /\ Len(q) = n + m
        /\ \A i \in 1..(n + m) : q[i] = IF i <= n THEN old[i] ELSE p[i - n]
    <3>1. /\ old \o p \in Seq(S) /\ Len(old \o p) = Len(old) + Len(p)
          /\ \A i \in 1..(Len(old) + Len(p)) :
               (old \o p)[i] = IF i <= Len(old) THEN old[i] ELSE p[i - Len(old)]
      <4>1. old \in Seq(S) /\ p \in Seq(S)
        BY <1>3
      <4>. QED
        BY <4>1, ConcatProperties
    <3>. HIDE DEF q
    <3>. QED
      BY <1>3, <3>1 DEF q
  <2>. HIDE DEF q, m
  <2>2. \A i \in 1..Len(new) : new[i] = q[i]
    BY <1>4, <1>5, <2>1
  <2>3. new = q
    BY <1>4, <2>1, <2>2, SeqEqual
  <2>. QED
    BY <2>3 DEF q
<1>7. Between(M, U, Ahead(M, W, m)) = n + m
  <2>. HIDE DEF m
  <2>1. Between(M, U, W) + m < M
    BY <1>1 DEF n
  <2>2. Between(M, U, Ahead(M, W, m)) = Between(M, U, W) + m
    <3>1. \A V, X \in Int, k \in Nat :
            /\ Between(M, V, X) + k < M =>
                 Between(M, V, Ahead(M, X, k)) = Between(M, V, X) + k
            /\ k <= Between(M, V, X) =>
                 Between(M, Ahead(M, V, k), X) = Between(M, V, X) - k
      BY Distances
    <3>. QED
      BY <1>1, <2>1, <3>1, Zenon
  <2>. QED
    BY <2>2 DEF n
<1>. QED
  BY <1>2, <1>6, <1>7 DEF put, old, new, n, S, Rings
-----------------------------------------------------------------------------
(* Receiving.                                                              *)

\* What is known of the constants.
LEMMA RxConstants ==
  /\ RxRingSize \in Nat \ {0} /\ RxPtrMod \in Nat \ {0} /\ RxPtrMod % RxRingSize = 0
  /\ RxRingSize < RxPtrMod /\ header_size \in Nat /\ header_size >= 2 /\ Size \in Nat
  /\ \A d \in Datagrams : d.from \in Nat /\ d.data \in Seq(Nat)
<1>1. /\ RxRingSize \in Nat \ {0} /\ RxPtrMod \in Nat /\ RxPtrMod % RxRingSize = 0
      /\ RxPtrMod > RxRingSize /\ header_size \in Nat \ {0, 1} /\ Size \in Nat
  BY RxAssumption
<1>2. \A d \in Datagrams : d.from \in Nat /\ d.data \in Seq(Nat)
  BY RxAssumption
<1>. QED
  BY <1>1, <1>2

\* The registers of the chip in the words of the lemmas above.
LEMMA RxWords ==
  /\ \A ptr, n : RxCells(ptr, n) = CellsFrom(rx_ring, RxRingSize, ptr, n)
  /\ \A ptr, n : RxPlus(ptr, n) = Ahead(RxPtrMod, ptr, n)
  /\ RX_RSR = Between(RxPtrMod, taken_up_to, RX_WR)
  BY DEF RxCells, RxPlus, RX_RSR, CellsFrom, At, Ahead, Between

\* A framed datagram has its sender first, its size last in the header, and its
\* data behind the header.
LEMMA FramedParts ==
  ASSUME NEW d \in Datagrams
  PROVE  /\ Framed(d) \in Seq(Nat) /\ Len(Framed(d)) = header_size + Len(d.data)
         /\ Framed(d)[1] = d.from /\ Framed(d)[header_size] = Len(d.data)
         /\ \A i \in 1..Len(d.data) : Framed(d)[header_size + i] = d.data[i]
<1>. DEFINE h == [i \in 1..header_size |-> IF i = 1 THEN d.from
                                          ELSE IF i = header_size THEN Len(d.data) ELSE 0]
            p == d.data
<1>1. header_size \in Nat /\ header_size >= 2 /\ d.from \in Nat /\ p \in Seq(Nat)
  BY RxConstants
<1>2. h \in Seq(Nat) /\ Len(h) = header_size /\ h[1] = d.from /\ h[header_size] = Len(p)
  <2>. Len(p) \in Nat
    BY <1>1
  <2>. QED
    BY <1>1
<1>3. Framed(d) = h \o p
  BY DEF Framed
<1>. HIDE DEF h, p
<1>4. /\ h \o p \in Seq(Nat) /\ Len(h \o p) = Len(h) + Len(p)
      /\ \A i \in 1..(Len(h) + Len(p)) : (h \o p)[i] = IF i <= Len(h) THEN h[i] ELSE p[i - Len(h)]
  BY <1>1, <1>2, ConcatProperties
<1>5. Len(p) \in Nat
  BY <1>1
<1>6. \A i \in 1..Len(p) : (h \o p)[header_size + i] = p[i]
  <2>. SUFFICES ASSUME NEW i \in 1..Len(p) PROVE (h \o p)[header_size + i] = p[i]
    OBVIOUS
  <2>1. header_size + i \in 1..(Len(h) + Len(p)) /\ ~(header_size + i <= Len(h))
        /\ (header_size + i) - Len(h) = i
    BY <1>1, <1>2, <1>5
  <2>. QED
    BY <1>4, <2>1
<1>7. 1 \in 1..(Len(h) + Len(p)) /\ header_size \in 1..(Len(h) + Len(p))
      /\ 1 <= Len(h) /\ header_size <= Len(h)
  BY <1>1, <1>2, <1>5
<1>8. (h \o p)[1] = h[1] /\ (h \o p)[header_size] = h[header_size]
  BY <1>4, <1>7
<1>. QED
  BY <1>2, <1>3, <1>4, <1>6, <1>8 DEF p

\* The datagrams of a queue, each framed.
Frames(q) == [i \in DOMAIN q |-> Framed(q[i])]

\* One more, and one less, in the queue is one more, one less frame.
LEMMA FramesOf ==
  /\ Frames(<<>>) = <<>>
  /\ \A q \in Seq(Datagrams) : Frames(q) \in Seq(Seq(Nat))
  /\ \A q \in Seq(Datagrams), d \in Datagrams :
       Frames(Append(q, d)) = Append(Frames(q), Framed(d))
  /\ \A q \in Seq(Datagrams) : q # <<>> =>
       Frames(q) # <<>> /\ Head(Frames(q)) = Framed(Head(q)) /\ Tail(Frames(q)) = Frames(Tail(q))
<1>. \A d \in Datagrams : Framed(d) \in Seq(Nat)
  BY FramedParts
<1>1. Frames(<<>>) = <<>>
  BY DEF Frames
<1>2. ASSUME NEW q \in Seq(Datagrams) PROVE Frames(q) \in Seq(Seq(Nat))
  <2>1. Len(q) \in Nat /\ DOMAIN q = 1..Len(q) /\ \A i \in 1..Len(q) : q[i] \in Datagrams
    OBVIOUS
  <2>2. \A i \in 1..Len(q) : Framed(q[i]) \in Seq(Nat)
    BY <2>1
  <2>3. Frames(q) = [i \in 1..Len(q) |-> Framed(q[i])]
    BY <2>1 DEF Frames
  <2>. DEFINE S == Seq(Nat)
  <2>4. \A i \in 1..Len(q) : Framed(q[i]) \in S
    BY <2>2
  <2>. HIDE DEF S
  <2>5. Frames(q) \in Seq(S)
    BY <2>1, <2>3, <2>4
  <2>. QED
    BY <2>5 DEF S
<1>3. ASSUME NEW q \in Seq(Datagrams), NEW d \in Datagrams
      PROVE  Frames(Append(q, d)) = Append(Frames(q), Framed(d))
  BY DEF Frames
<1>4. ASSUME NEW q \in Seq(Datagrams), q # <<>>
      PROVE  /\ Frames(q) # <<>> /\ Head(Frames(q)) = Framed(Head(q))
             /\ Tail(Frames(q)) = Frames(Tail(q))
  BY <1>4 DEF Frames
<1>. QED
  BY <1>1, <1>2, <1>3, <1>4

\* In the ring the invariant says where each cell of the first datagram lies,
\* and that the others follow it.
LEMMA FirstInRing ==
  ASSUME ReceiveInv, queue # <<>>
  PROVE  /\ Head(queue) \in Datagrams /\ Tail(queue) \in Seq(Datagrams)
         /\ Len(Framed(Head(queue))) \in Nat /\ Len(Framed(Head(queue))) <= RX_RSR
         /\ \A i \in 1..Len(Framed(Head(queue))) :
              rx_ring[At(RxRingSize, taken_up_to, i)] = Framed(Head(queue))[i]
         /\ FlattenSeq(Frames(Tail(queue))) \in Seq(Nat)
         /\ CellsFrom(rx_ring, RxRingSize, taken_up_to, RX_RSR) =
              Framed(Head(queue)) \o FlattenSeq(Frames(Tail(queue)))
<1>. DEFINE d == Head(queue)
            rest == Tail(queue)
            n == RX_RSR
            k == Len(Framed(d))
            cells == CellsFrom(rx_ring, RxRingSize, taken_up_to, n)
            more == FlattenSeq(Frames(rest))
<1>1. /\ queue \in Seq(Datagrams) /\ n \in 0..RxRingSize
      /\ taken_up_to \in 0..(RxPtrMod - 1) /\ rx_ring \in [0..(RxRingSize - 1) -> Nat]
  BY DEF ReceiveInv, ReceiveTypeOK
<1>2. d \in Datagrams /\ rest \in Seq(Datagrams)
  BY <1>1
<1>3. Framed(d) \in Seq(Nat) /\ k \in Nat
  <2>1. Framed(d) \in Seq(Nat)
    BY <1>2, FramedParts
  <2>. QED
    BY <2>1
<1>4. more \in Seq(Nat)
  BY <1>2, FramesOf, FlattenAppend
<1>5. FlattenSeq(Frames(queue)) = Framed(d) \o more
  <2>1. /\ Frames(queue) \in Seq(Seq(Nat)) /\ Frames(queue) # <<>>
        /\ Head(Frames(queue)) = Framed(d) /\ Tail(Frames(queue)) = Frames(rest)
    BY <1>1, FramesOf
  <2>2. FlattenSeq(Frames(queue)) = Head(Frames(queue)) \o FlattenSeq(Tail(Frames(queue)))
    BY <2>1, FlattenHead
  <2>. QED
    BY <2>1, <2>2
<1>6. cells = Framed(d) \o more
  <2>1. cells = FlattenSeq(Frames(queue))
    BY RxWords DEF ReceiveInv, RingHoldsQueue, Frames
  <2>. QED
    BY <2>1, <1>5
<1>7. RxRingSize \in Nat \ {0} /\ taken_up_to \in Int /\ n \in Nat
  BY <1>1, RxConstants
<1>8. /\ cells \in Seq(Nat) /\ Len(cells) = n
      /\ \A i \in 1..n : cells[i] = rx_ring[At(RxRingSize, taken_up_to, i)]
  <2>. HIDE DEF n
  <2>1. \A i \in 1..n : i \in Int
    BY <1>7
  <2>2. \A p, q \in Int : At(RxRingSize, p, q) \in 0..(RxRingSize - 1)
    BY <1>7, PointerTypes
  <2>3. \A i \in 1..n : rx_ring[At(RxRingSize, taken_up_to, i)] \in Nat
    BY <1>1, <1>7, <2>1, <2>2
  <2>. QED
    BY <1>7, <2>3 DEF CellsFrom
<1>. HIDE DEF d, rest, cells, more, n
<1>9. /\ Len(cells) = k + Len(more)
      /\ \A i \in 1..(k + Len(more)) : cells[i] = IF i <= k THEN Framed(d)[i] ELSE more[i - k]
  <2>1. /\ Len(Framed(d) \o more) = Len(Framed(d)) + Len(more)
        /\ \A i \in 1..(Len(Framed(d)) + Len(more)) :
             (Framed(d) \o more)[i] = IF i <= Len(Framed(d)) THEN Framed(d)[i]
                                      ELSE more[i - Len(Framed(d))]
    BY <1>3, <1>4, ConcatProperties
  <2>. QED
    BY <2>1, <1>6
<1>10. Len(more) \in Nat
  BY <1>4
<1>. HIDE DEF k
<1>11. k <= n
  BY <1>3, <1>7, <1>8, <1>9, <1>10
<1>12. \A i \in 1..k : rx_ring[At(RxRingSize, taken_up_to, i)] = Framed(d)[i]
  <2>. SUFFICES ASSUME NEW i \in 1..k
                PROVE  rx_ring[At(RxRingSize, taken_up_to, i)] = Framed(d)[i]
    OBVIOUS
  <2>1. i \in 1..n /\ i \in 1..(k + Len(more)) /\ i <= k
    BY <1>3, <1>7, <1>10, <1>11
  <2>. QED
    BY <1>8, <1>9, <2>1
<1>. QED
  BY <1>2, <1>3, <1>4, <1>6, <1>11, <1>12 DEF d, rest, n, k, cells, more

\* Moving on twice is moving on once.
LEMMA AheadTwice ==
  ASSUME NEW M \in Nat \ {0}
  PROVE  \A p, k, l \in Int : Ahead(M, Ahead(M, p, k), l) = Ahead(M, p, k + l)
<1>. SUFFICES ASSUME NEW p \in Int, NEW k \in Int, NEW l \in Int
              PROVE  Ahead(M, Ahead(M, p, k), l) = Ahead(M, p, k + l)
  BY Zenon
<1>. DEFINE a == p + k
<1>1. M % M = 0
  BY SmallRemainders
<1>2. a \in Int /\ a + l = p + (k + l)
  OBVIOUS
<1>. HIDE DEF a
<1>3. \A x, j \in Int : /\ ((x % M) + j) % M = (x + j) % M
                        /\ (j - (x % M)) % M = (j - x) % M
  BY <1>1, AllWrap
<1>4. ((a % M) + l) % M = (a + l) % M
  BY <1>2, <1>3, Zenon
<1>. QED
  BY <1>2, <1>4 DEF a, Ahead

\* The invariant holds of the empty ring.
LEMMA ReceiveInvInit == ReceiveInit => ReceiveInv
<1>. SUFFICES ASSUME ReceiveInit PROVE ReceiveInv
  OBVIOUS
<1>1. /\ RxRingSize \in Nat \ {0} /\ RxPtrMod \in Nat \ {0} /\ Size \in Nat
      /\ 0 % RxPtrMod = 0
  <2>1. 0 \in 0..(RxPtrMod - 1)
    BY RxConstants
  <2>. QED
    BY <2>1, RxConstants, SmallRemainders
<1>2. /\ rx_ring = [i \in 0..(RxRingSize - 1) |-> 0] /\ RX_WR = 0 /\ RX_RD = 0
      /\ taken_up_to = 0 /\ receive_pc = "size" /\ rxrd = 0 /\ dst = <<>> /\ queue = <<>>
  BY DEF ReceiveInit, Port!Init
<1>3. RX_RSR = 0
  BY <1>1, <1>2 DEF RX_RSR
<1>4. ReceiveTypeOK
  <2>1. dst \in Seq(Nat) /\ Len(dst) = 0 /\ queue \in Seq(Datagrams)
    BY <1>2
  <2>. QED
    BY <1>1, <1>2, <1>3, <2>1 DEF ReceiveTypeOK
<1>5. RingHoldsQueue
  <2>1. RxCells(taken_up_to, RX_RSR) = <<>>
    BY <1>3 DEF RxCells
  <2>2. [i \in DOMAIN queue |-> Framed(queue[i])] = <<>>
    BY <1>2, FramesOf DEF Frames
  <2>. QED
    BY <2>1, <2>2, FlattenAppend DEF RingHoldsQueue
<1>. QED
  BY <1>2, <1>4, <1>5 DEF ReceiveInv, TakingInv

\* A datagram that arrives is put behind the others, into free cells.
LEMMA ArriveKeeps ==
  ASSUME ReceiveInv, NEW d \in Datagrams, Arrive(d)
  PROVE  ReceiveInv'
<1>. DEFINE p == Framed(d)
            R == RxRingSize
            M == RxPtrMod
            U == taken_up_to
            W == RX_WR
            n == RX_RSR
            k == Len(p)
<1>1. /\ R \in Nat \ {0} /\ M \in Nat \ {0} /\ M % R = 0 /\ R < M
  BY RxConstants
<1>2. /\ rx_ring \in [0..(R - 1) -> Nat] /\ U \in 0..(M - 1) /\ W \in 0..(M - 1)
      /\ n \in 0..R /\ queue \in Seq(Datagrams)
  BY DEF ReceiveInv, ReceiveTypeOK
<1>3. p \in Seq(Nat) /\ k \in Nat
  <2>1. p \in Seq(Nat)
    BY FramedParts
  <2>. QED
    BY <2>1
<1>4. /\ n + k <= R /\ rx_ring' = Put(rx_ring, R, W, p) /\ RX_WR' = Ahead(M, W, k)
      /\ queue' = Append(queue, d)
      /\ UNCHANGED <<taken_up_to, RX_RD, receive_pc, rxrd, header, dst, got>>
  BY DEF Arrive, Put, Between, RxPlus, Ahead
<1>5. n = Between(M, U, W)
  BY RxWords
<1>6. /\ Put(rx_ring, R, W, p) \in Rings(R)
      /\ CellsFrom(Put(rx_ring, R, W, p), R, U, Between(M, U, W) + Len(p)) =
           CellsFrom(rx_ring, R, U, Between(M, U, W)) \o p
      /\ Between(M, U, Ahead(M, W, Len(p))) = Between(M, U, W) + Len(p)
  <2>1. U \in Int /\ W \in Int /\ Between(M, U, W) + Len(p) <= R
    BY <1>1, <1>2, <1>4, <1>5
  <2>2. rx_ring \in Rings(R)
    BY <1>2 DEF Rings
  <2>. HIDE DEF p, R, M, U, W, n, k
  <2>. QED
    <3>1. \A ring \in Rings(R), q \in Seq(Nat), V, X \in Int :
            Between(M, V, X) + Len(q) <= R =>
              /\ Put(ring, R, X, q) \in Rings(R)
              /\ CellsFrom(Put(ring, R, X, q), R, V, Between(M, V, X) + Len(q)) =
                   CellsFrom(ring, R, V, Between(M, V, X)) \o q
              /\ Between(M, V, Ahead(M, X, Len(q))) = Between(M, V, X) + Len(q)
      BY <1>1, PutFollows
    <3>. QED
      BY <1>3, <2>1, <2>2, <3>1, Zenon
<1>7. RX_RSR' = n + k
  <2>1. RX_RSR' = Between(M, U, RX_WR')
    BY <1>4 DEF RX_RSR, Between
  <2>. QED
    BY <2>1, <1>4, <1>5, <1>6
<1>8. RingHoldsQueue'
  <2>1. RxCells(taken_up_to, RX_RSR)' = CellsFrom(rx_ring', R, U, n + k)
    BY <1>4, <1>7 DEF RxCells, CellsFrom, At
  <2>2. CellsFrom(rx_ring, R, U, n) = FlattenSeq(Frames(queue))
    BY RxWords DEF ReceiveInv, RingHoldsQueue, Frames
  <2>3. FlattenSeq(Append(Frames(queue), p)) = FlattenSeq(Frames(queue)) \o p
    BY <1>2, <1>3, FramesOf, FlattenAppend
  <2>4. Frames(queue') = Append(Frames(queue), p)
    BY <1>2, <1>4, FramesOf
  <2>5. RingHoldsQueue' <=> RxCells(taken_up_to, RX_RSR)' = FlattenSeq(Frames(queue'))
    BY DEF RingHoldsQueue, Frames, Framed
  <2>. HIDE DEF n, k, U, W, M, R, p
  <2>. QED
    BY <1>4, <1>5, <1>6, <2>1, <2>2, <2>3, <2>4, <2>5 DEF k
<1>9. ReceiveTypeOK'
  <2>1. RX_WR' \in 0..(M - 1)
    <3>1. W \in Int /\ k \in Int
      BY <1>2, <1>3
    <3>2. Ahead(M, W, k) \in 0..(M - 1)
      <4>. HIDE DEF M, W, k
      <4>. QED
        BY <1>1, <3>1, PointerTypes
    <3>. QED
      BY <1>4, <3>2
  <2>2. queue' \in Seq(Datagrams) /\ RX_RSR' \in 0..RxRingSize
    BY <1>2, <1>3, <1>4, <1>7
  <2>3. rx_ring' \in [0..(R - 1) -> Nat]
    BY <1>4, <1>6 DEF Rings
  <2>. QED
    BY <1>4, <2>1, <2>2, <2>3 DEF ReceiveInv, ReceiveTypeOK
<1>10. TakingInv'
  <2>1. queue # <<>> => Head(queue') = Head(queue)
    BY <1>2, <1>4
  <2>2. queue' # <<>>
    BY <1>2, <1>4
  <2>3. TakingInv
    BY DEF ReceiveInv
  <2>. QED
    BY <1>4, <2>1, <2>2, <2>3 DEF TakingInv, RxPlus, Port!Taken, Framed
<1>. QED
  BY <1>8, <1>9, <1>10 DEF ReceiveInv

\* The kinds of the variables that pointers are compared with.
LEMMA RxTypes ==
  ASSUME ReceiveInv
  PROVE  /\ RX_RSR \in Nat /\ RX_RSR <= RxRingSize /\ rx_ring \in Rings(RxRingSize)
         /\ taken_up_to \in Int /\ RX_WR \in Int /\ RX_RD \in Int /\ rxrd \in Int
<1>1. RxRingSize \in Nat \ {0} /\ RxPtrMod \in Nat \ {0}
  BY RxConstants
<1>2. /\ RX_RSR \in 0..RxRingSize /\ rx_ring \in [0..(RxRingSize - 1) -> Nat]
      /\ {RX_WR, RX_RD, taken_up_to, rxrd} \subseteq 0..(RxPtrMod - 1)
  BY DEF ReceiveInv, ReceiveTypeOK
<1>3. \A x \in 0..(RxPtrMod - 1) : x \in Int
  BY <1>1
<1>4. \A x \in 0..RxRingSize : x \in Nat /\ x <= RxRingSize
  BY <1>1
<1>. HIDE DEF RX_RSR
<1>. QED
  BY <1>2, <1>3, <1>4, Zenon DEF Rings

\* Steps that leave ring and queue alone.
LEMMA SameRing ==
  ASSUME ReceiveInv, UNCHANGED <<rxChip, queue>>
  PROVE  RX_RSR' = RX_RSR /\ RingHoldsQueue'
<1>1. RX_RSR' = RX_RSR
  BY DEF RX_RSR, rxChip
<1>2. RxCells(taken_up_to, RX_RSR)' = RxCells(taken_up_to, RX_RSR)
  BY <1>1 DEF RxCells, rxChip
<1>. QED
  BY <1>1, <1>2 DEF ReceiveInv, RingHoldsQueue, Framed

\* The driver finds that there is something, and where: then there is a datagram.
LEMMA ReadSizeKeeps ==
  ASSUME ReceiveInv, ReadSize \/ ReadPointer
  PROVE  ReceiveInv'
<1>1. UNCHANGED <<rxChip, queue>> /\ UNCHANGED <<RX_RD, header, dst>>
      /\ rxrd' \in {rxrd, RX_RD} /\ receive_pc' \in {"size", "pointer", "header"}
  BY DEF ReadSize, ReadPointer
<1>2. RX_RSR' = RX_RSR /\ RingHoldsQueue'
  BY <1>1, SameRing
<1>3. ReceiveTypeOK'
  BY <1>1, <1>2 DEF ReceiveInv, ReceiveTypeOK, rxChip
<1>4. CASE ReadSize
  <2>1. receive_pc' # "size" => queue # <<>>
    <3>1. receive_pc' # "size" => RX_RSR >= header_size
      BY <1>4, RxConstants DEF ReadSize, ReceiveInv, ReceiveTypeOK
    <3>2. queue = <<>> => RX_RSR = 0
      <4>. SUFFICES ASSUME queue = <<>> PROVE RX_RSR = 0
        OBVIOUS
      <4>1. Frames(queue) = <<>>
        BY FramesOf
      <4>2. RxCells(taken_up_to, RX_RSR) = <<>>
        BY <4>1, FlattenAppend DEF ReceiveInv, RingHoldsQueue, Frames
      <4>3. DOMAIN RxCells(taken_up_to, RX_RSR) = 1..RX_RSR
        BY DEF RxCells
      <4>4. RX_RSR \in Nat
        BY RxTypes
      <4>. HIDE DEF RX_RSR
      <4>. QED
        BY <4>2, <4>3, <4>4
    <3>. QED
      BY <3>1, <3>2, RxConstants
  <2>. QED
    BY <1>1, <1>2, <1>3, <1>4, <2>1 DEF ReadSize, ReceiveInv, TakingInv, rxChip
<1>5. CASE ReadPointer
  BY <1>1, <1>2, <1>3, <1>5 DEF ReadPointer, ReceiveInv, TakingInv, rxChip
<1>. QED
  BY <1>4, <1>5

\* What it takes for the header is the header of the first datagram ...
LEMMA ReadHeaderKeeps ==
  ASSUME ReceiveInv, ReadHeader
  PROVE  ReceiveInv'
<1>. DEFINE d == Head(queue)
<1>1. /\ UNCHANGED <<rxChip, queue>> /\ UNCHANGED <<RX_RD, dst, got>>
      /\ rxrd' = RxPlus(rxrd, header_size) /\ receive_pc' = "data"
      /\ receive_pc = "header" /\ rxrd = taken_up_to /\ queue # <<>>
      /\ header' = [from |-> RxCells(rxrd, header_size)[1],
                    size |-> RxCells(rxrd, header_size)[header_size]]
  BY DEF ReadHeader, ReceiveInv, TakingInv
<1>2. RX_RSR' = RX_RSR /\ RingHoldsQueue'
  BY <1>1, SameRing
<1>3. header' = [from |-> d.from, size |-> Len(d.data)]
  <2>1. /\ d \in Datagrams
        /\ \A i \in 1..Len(Framed(d)) : rx_ring[At(RxRingSize, taken_up_to, i)] = Framed(d)[i]
    BY <1>1, FirstInRing
  <2>2. d.data \in Seq(Nat) /\ header_size \in Nat /\ header_size >= 2
    BY <2>1, RxConstants
  <2>. HIDE DEF d
  <2>3. Len(d.data) \in Nat
    BY <2>2
  <2>4. /\ Len(Framed(d)) = header_size + Len(d.data)
        /\ Framed(d)[1] = d.from /\ Framed(d)[header_size] = Len(d.data)
    BY <2>1, FramedParts
  <2>5. 1 \in 1..Len(Framed(d)) /\ header_size \in 1..Len(Framed(d))
        /\ 1 \in 1..header_size /\ header_size \in 1..header_size
    BY <2>2, <2>3, <2>4
  <2>6. \A i \in 1..header_size :
          RxCells(rxrd, header_size)[i] = rx_ring[At(RxRingSize, taken_up_to, i)]
    BY <1>1 DEF RxCells, At
  <2>. QED
    BY <1>1, <2>1, <2>4, <2>5, <2>6
<1>4. rxrd' \in 0..(RxPtrMod - 1)
  <2>1. rxrd \in Int /\ header_size \in Int /\ RxPtrMod \in Nat \ {0}
    BY RxConstants, RxTypes
  <2>2. Ahead(RxPtrMod, rxrd, header_size) \in 0..(RxPtrMod - 1)
    BY <2>1, PointerTypes
  <2>. QED
    BY <1>1, <2>2, RxWords
<1>5. ReceiveTypeOK'
  BY <1>1, <1>2, <1>4 DEF ReceiveInv, ReceiveTypeOK, rxChip
<1>. QED
  BY <1>1, <1>2, <1>3, <1>5 DEF ReceiveInv, TakingInv, rxChip, RxPlus

\* ... what it takes for the data is the data, as much as there is room for ...
LEMMA ReadDataKeeps ==
  ASSUME ReceiveInv, ReadData
  PROVE  ReceiveInv'
<1>. DEFINE d == Head(queue)
            l == Len(d.data)
            c == Copied(l)
<1>1. /\ UNCHANGED <<rxChip, queue>> /\ UNCHANGED <<RX_RD, header, got>>
      /\ receive_pc = "data" /\ receive_pc' = "write back" /\ queue # <<>>
      /\ rxrd = RxPlus(taken_up_to, header_size)
      /\ header = [from |-> d.from, size |-> l]
      /\ dst' = RxCells(rxrd, Copied(header.size))
      /\ rxrd' = RxPlus(rxrd, Advance(header.size))
  BY DEF ReadData, ReceiveInv, TakingInv
<1>2. RX_RSR' = RX_RSR /\ RingHoldsQueue'
  BY <1>1, SameRing
<1>3. /\ d \in Datagrams
      /\ \A i \in 1..Len(Framed(d)) : rx_ring[At(RxRingSize, taken_up_to, i)] = Framed(d)[i]
  BY <1>1, FirstInRing
<1>4. /\ d.data \in Seq(Nat) /\ header_size \in Nat /\ RxPtrMod \in Nat \ {0} /\ Size \in Nat
      /\ RxRingSize \in Nat \ {0} /\ RxPtrMod % RxRingSize = 0
  BY <1>3, RxConstants
<1>5. l \in Nat
  BY <1>4
<1>6. c \in Nat /\ c <= l /\ c <= Size /\ c = IF l < Size THEN l ELSE Size
  BY <1>4, <1>5 DEF Copied
<1>7. /\ Len(Framed(d)) = header_size + l
      /\ \A i \in 1..l : Framed(d)[header_size + i] = d.data[i]
  BY <1>3, FramedParts
<1>8. taken_up_to \in Int /\ header_size \in Int /\ l \in Int
  BY <1>4, <1>5, RxTypes
<1>9. rxrd' = RxPlus(taken_up_to, Len(Framed(d)))
  <2>. HIDE DEF d, l
  <2>1. \A p, k, j \in Int :
          Ahead(RxPtrMod, Ahead(RxPtrMod, p, k), j) = Ahead(RxPtrMod, p, k + j)
    BY <1>4, AheadTwice
  <2>2. Ahead(RxPtrMod, Ahead(RxPtrMod, taken_up_to, header_size), l) =
          Ahead(RxPtrMod, taken_up_to, header_size + l)
    BY <1>8, <2>1, Zenon
  <2>3. rxrd' = Ahead(RxPtrMod, Ahead(RxPtrMod, taken_up_to, header_size), l)
    BY <1>1 DEF RxPlus, Ahead, Advance
  <2>. QED
    BY <1>7, <2>2, <2>3 DEF RxPlus, Ahead
<1>10. dst' = SubSeq(d.data, 1, c)
  <2>1. dst' = [i \in 1..c |-> rx_ring[At(RxRingSize, rxrd, i)]]
    BY <1>1 DEF RxCells, At
  <2>2. \A i \in 1..c : At(RxRingSize, rxrd, i) = At(RxRingSize, taken_up_to, header_size + i)
    <3>1. \A U, k, i \in Int :
            At(RxRingSize, Ahead(RxPtrMod, U, k), i) = At(RxRingSize, U, k + i)
      BY <1>4, Further
    <3>2. \A i \in 1..c : i \in Int
      OBVIOUS
    <3>3. rxrd = Ahead(RxPtrMod, taken_up_to, header_size)
      BY <1>1, RxWords
    <3>. HIDE DEF c
    <3>. QED
      BY <1>8, <3>1, <3>2, <3>3
  <2>. HIDE DEF d, l, c
  <2>3. \A i \in 1..c : rx_ring[At(RxRingSize, rxrd, i)] = d.data[i]
    <3>. SUFFICES ASSUME NEW i \in 1..c PROVE rx_ring[At(RxRingSize, rxrd, i)] = d.data[i]
      OBVIOUS
    <3>1. header_size + i \in 1..Len(Framed(d)) /\ i \in 1..l
      BY <1>4, <1>5, <1>6, <1>7
    <3>. QED
      BY <1>3, <1>7, <2>2, <3>1
  <2>4. SubSeq(d.data, 1, c) = [i \in 1..c |-> d.data[i]]
    BY <1>4, <1>5, <1>6 DEF l
  <2>. QED
    BY <2>1, <2>3, <2>4
<1>11. dst' \in Seq(Nat) /\ Len(dst') <= Size
  <2>1. SubSeq(d.data, 1, c) \in Seq(Nat) /\ Len(SubSeq(d.data, 1, c)) = c
    <3>. HIDE DEF c
    <3>. QED
      BY <1>4, <1>5, <1>6
  <2>. QED
    BY <1>6, <1>10, <2>1
<1>12. rxrd' \in 0..(RxPtrMod - 1)
  <2>1. Len(Framed(d)) \in Int
    BY <1>7, <1>8
  <2>2. Ahead(RxPtrMod, taken_up_to, Len(Framed(d))) \in 0..(RxPtrMod - 1)
    BY <1>4, <1>8, <2>1, PointerTypes
  <2>. QED
    BY <1>9, <2>2, RxWords
<1>13. ReceiveTypeOK'
  BY <1>1, <1>2, <1>11, <1>12 DEF ReceiveInv, ReceiveTypeOK, rxChip
<1>14. dst' = Port!Taken(d).copied
  BY <1>6, <1>10 DEF Port!Taken
<1>. QED
  BY <1>1, <1>2, <1>9, <1>13, <1>14 DEF ReceiveInv, TakingInv, rxChip, RxPlus, Port!Taken, Framed

\* ... and the pointer it hands back is that of the next datagram.
LEMMA WriteBackKeeps ==
  ASSUME ReceiveInv, WriteBack
  PROVE  ReceiveInv'
<1>1. /\ UNCHANGED <<rxChip, queue>> /\ UNCHANGED <<rxrd, header, dst, got>>
      /\ receive_pc = "write back" /\ receive_pc' = "RECV" /\ RX_RD' = rxrd
  BY DEF WriteBack
<1>2. RX_RSR' = RX_RSR /\ RingHoldsQueue'
  BY <1>1, SameRing
<1>3. ReceiveTypeOK'
  BY <1>1, <1>2 DEF ReceiveInv, ReceiveTypeOK, rxChip
<1>. QED
  BY <1>1, <1>2, <1>3 DEF ReceiveInv, TakingInv, rxChip, RxPlus, Framed

\* Then exactly the first datagram leaves the ring.
LEMMA RecvKeeps ==
  ASSUME ReceiveInv, Recv
  PROVE  ReceiveInv'
<1>. DEFINE d == Head(queue)
            k == Len(Framed(d))
            n == RX_RSR
            U == taken_up_to
            V == Ahead(RxPtrMod, U, k)
            more == FlattenSeq(Frames(Tail(queue)))
<1>1. /\ receive_pc = "RECV" /\ queue # <<>> /\ RX_RD = rxrd /\ taken_up_to' = RX_RD
      /\ queue' = Tail(queue) /\ receive_pc' = "size"
      /\ UNCHANGED <<rx_ring, RX_WR, RX_RD, rxrd, header, dst>>
  BY DEF Recv, ReceiveInv, TakingInv
<1>2. taken_up_to' = V
  BY <1>1, RxWords DEF ReceiveInv, TakingInv
<1>3. /\ d \in Datagrams /\ Tail(queue) \in Seq(Datagrams)
      /\ k \in Nat /\ k <= n /\ more \in Seq(Nat)
      /\ CellsFrom(rx_ring, RxRingSize, U, n) = Framed(d) \o more
  BY <1>1, FirstInRing
<1>4. /\ RxRingSize \in Nat \ {0} /\ RxPtrMod \in Nat \ {0} /\ RxPtrMod % RxRingSize = 0
      /\ U \in Int /\ RX_WR \in Int /\ n \in Nat /\ rx_ring \in Rings(RxRingSize)
      /\ n = Between(RxPtrMod, U, RX_WR)
  BY RxConstants, RxTypes, RxWords
<1>5. RX_RSR' = n - k
  <2>1. Between(RxPtrMod, V, RX_WR) = Between(RxPtrMod, U, RX_WR) - k
    <3>. HIDE DEF d, k, n, U, more
    <3>1. \A X, Y \in Int, j \in Nat :
            /\ Between(RxPtrMod, X, Y) + j < RxPtrMod =>
                 Between(RxPtrMod, X, Ahead(RxPtrMod, Y, j)) = Between(RxPtrMod, X, Y) + j
            /\ j <= Between(RxPtrMod, X, Y) =>
                 Between(RxPtrMod, Ahead(RxPtrMod, X, j), Y) = Between(RxPtrMod, X, Y) - j
      BY <1>4, Distances
    <3>2. k <= Between(RxPtrMod, U, RX_WR)
      BY <1>3, <1>4
    <3>. QED
      BY <1>3, <1>4, <3>1, <3>2, Zenon
  <2>2. RX_RSR' = Between(RxPtrMod, taken_up_to', RX_WR)
    BY <1>1 DEF RX_RSR, Between
  <2>. QED
    BY <1>2, <1>4, <2>1, <2>2
<1>6. Framed(d) \in Seq(Nat)
  BY <1>3, FramedParts
<1>7. Len(more) \in Nat /\ Len(more) = n - k
      /\ \A i \in 1..(n - k) : (Framed(d) \o more)[k + i] = more[i]
  <2>. HIDE DEF d, U, more, n
  <2>1. /\ Len(Framed(d) \o more) = Len(Framed(d)) + Len(more)
        /\ \A i \in 1..(Len(Framed(d)) + Len(more)) :
             (Framed(d) \o more)[i] = IF i <= Len(Framed(d)) THEN Framed(d)[i]
                                      ELSE more[i - Len(Framed(d))]
    BY <1>3, <1>6, ConcatProperties
  <2>2. Len(more) \in Nat
    BY <1>3
  <2>3. DOMAIN CellsFrom(rx_ring, RxRingSize, U, n) = 1..n
    BY DEF CellsFrom
  <2>4. DOMAIN (Framed(d) \o more) = 1..(k + Len(more))
    <3>1. Framed(d) \o more \in Seq(Nat)
      BY <1>3, <1>6, ConcatProperties
    <3>. QED
      BY <2>1, <3>1
  <2>. HIDE DEF k
  <2>5. n = k + Len(more)
    <3>1. 1..n = 1..(k + Len(more))
      BY <1>3, <2>3, <2>4
    <3>2. k + Len(more) \in Nat
      BY <1>3, <2>2
    <3>. QED
      BY <1>4, <3>1, <3>2
  <2>6. \A i \in 1..(n - k) : (Framed(d) \o more)[k + i] = more[i]
    <3>. SUFFICES ASSUME NEW i \in 1..(n - k) PROVE (Framed(d) \o more)[k + i] = more[i]
      OBVIOUS
    <3>1. k + i \in 1..(k + Len(more)) /\ ~(k + i <= k) /\ (k + i) - k = i
      BY <1>3, <1>4, <2>2, <2>5
    <3>. QED
      BY <2>1, <3>1 DEF k
  <2>7. Len(more) = n - k
    BY <1>3, <2>2, <2>5
  <2>. QED
    BY <2>2, <2>6, <2>7, Zenon
<1>8. CellsFrom(rx_ring, RxRingSize, V, n - k) = more
  <2>. HIDE DEF d, k, n, U, more
  <2>1. n - k \in Nat /\ k + (n - k) <= n
    BY <1>3, <1>4
  <2>2. \A i \in 1..(n - k) : CellsFrom(rx_ring, RxRingSize, V, n - k)[i] =
                              CellsFrom(rx_ring, RxRingSize, U, n)[k + i]
    <3>1. \A X, j, i \in Int :
            At(RxRingSize, Ahead(RxPtrMod, X, j), i) = At(RxRingSize, X, j + i)
      BY <1>4, Further
    <3>2. k \in Int /\ \A i \in 1..(n - k) : i \in Int /\ k + i \in 1..n
      BY <1>3, <1>4
    <3>3. \A i \in 1..(n - k) : At(RxRingSize, V, i) = At(RxRingSize, U, k + i)
      BY <1>4, <3>1, <3>2
    <3>. HIDE DEF V
    <3>. QED
      BY <3>2, <3>3 DEF CellsFrom
  <2>3. CellsFrom(rx_ring, RxRingSize, V, n - k) = [i \in 1..(n - k) |-> more[i]]
    <3>1. \A i \in 1..(n - k) : rx_ring[At(RxRingSize, V, i)] = more[i]
      <4>1. \A i \in 1..(n - k) :
              CellsFrom(rx_ring, RxRingSize, V, n - k)[i] = rx_ring[At(RxRingSize, V, i)]
        BY DEF CellsFrom
      <4>. HIDE DEF V
      <4>. QED
        BY <1>3, <1>7, <2>2, <4>1
    <3>. HIDE DEF V
    <3>. QED
      BY <3>1 DEF CellsFrom
  <2>4. more = [i \in 1..(n - k) |-> more[i]]
    BY <1>3, <1>7
  <2>. QED
    BY <2>3, <2>4
<1>9. RingHoldsQueue'
  <2>1. RxCells(taken_up_to, RX_RSR)' = CellsFrom(rx_ring, RxRingSize, V, n - k)
    BY <1>1, <1>2, <1>5 DEF RxCells, CellsFrom, At
  <2>2. RingHoldsQueue' <=> RxCells(taken_up_to, RX_RSR)' = FlattenSeq(Frames(queue'))
    BY DEF RingHoldsQueue, Frames, Framed
  <2>. HIDE DEF V
  <2>. QED
    BY <1>1, <1>8, <2>1, <2>2
<1>10. ReceiveTypeOK'
  <2>1. RX_RSR' \in 0..RxRingSize
    <3>1. n <= RxRingSize
      BY RxTypes
    <3>. HIDE DEF n, k
    <3>. QED
      BY <1>3, <1>4, <1>5, <3>1, SMTT(40)
  <2>2. queue' \in Seq(Datagrams)
    BY <1>1, <1>3
  <2>3. /\ dst \in Seq(Nat) /\ Len(dst) <= Size
        /\ {RX_WR, RX_RD, taken_up_to, rxrd} \subseteq 0..(RxPtrMod - 1)
        /\ rx_ring \in [0..(RxRingSize - 1) -> Nat]
    BY DEF ReceiveInv, ReceiveTypeOK
  <2>. QED
    BY <1>1, <2>1, <2>2, <2>3 DEF ReceiveTypeOK
<1>. QED
  BY <1>1, <1>9, <1>10 DEF ReceiveInv, TakingInv

\* Every step keeps the invariant.
LEMMA ReceiveKeeps ==
  ASSUME ReceiveInv, w55_udp_read
  PROVE  ReceiveInv'
  BY ReadSizeKeeps, ReadHeaderKeeps, ReadDataKeeps, WriteBackKeeps, RecvKeeps DEF w55_udp_read

\* A step of the driver is one of its port: the RECV command takes the first
\* datagram, whole and with its sender, and a call that returns empty-handed
\* found nothing.
LEMMA ReadImplements ==
  ASSUME ReceiveInv, w55_udp_read
  PROVE  [Port!Next]_<<queue, got>>
<1>1. CASE Recv
  <2>1. /\ queue # <<>> /\ dst = Port!Taken(Head(queue)).copied
        /\ header = [from |-> Head(queue).from, size |-> Len(Head(queue).data)]
    BY <1>1 DEF Recv, ReceiveInv, TakingInv
  <2>2. queue' = Tail(queue) /\ got' = [from |-> header.from, size |-> header.size, copied |-> dst]
    BY <1>1 DEF Recv
  <2>3. got' = Port!Taken(Head(queue))
    BY <2>1, <2>2 DEF Port!Taken
  <2>. QED
    BY <2>1, <2>2, <2>3 DEF Port!Next, Port!Take
<1>2. CASE ReadSize
  <2>1. UNCHANGED queue /\ (RX_RSR < header_size => got' = Port!Nothing)
        /\ (~(RX_RSR < header_size) => UNCHANGED got)
    BY <1>2 DEF ReadSize
  <2>2. queue # <<>> => ~(RX_RSR < header_size)
    <3>. SUFFICES ASSUME queue # <<>> PROVE ~(RX_RSR < header_size)
      OBVIOUS
    <3>1. Head(queue) \in Datagrams /\ Len(Framed(Head(queue))) <= RX_RSR
      BY FirstInRing
    <3>2. Len(Framed(Head(queue))) = header_size + Len(Head(queue).data)
          /\ Head(queue).data \in Seq(Nat)
      BY <3>1, FramedParts, RxConstants
    <3>3. Len(Head(queue).data) \in Nat /\ header_size \in Nat /\ RX_RSR \in Nat
      BY <3>2, RxConstants, RxTypes
    <3>. HIDE DEF RX_RSR
    <3>. QED
      BY <3>1, <3>2, <3>3
  <2>. QED
    BY <2>1, <2>2 DEF Port!Next, Port!FindNothing
<1>3. CASE ReadPointer \/ ReadHeader \/ ReadData \/ WriteBack
  BY <1>3 DEF ReadPointer, ReadHeader, ReadData, WriteBack
<1>. QED
  BY <1>1, <1>2, <1>3 DEF w55_udp_read
-----------------------------------------------------------------------------
(* Sending: which of the parts written fit.                                *)

\* Room and Fitting of any sequence of parts.
RoomIn(w, n) == Len(FlattenSeq(SubSeq(w, 1, n))) <= TxRingSize
LastFit(w, n) == RoomIn(w, n) /\ (n = Len(w) \/ ~RoomIn(w, n + 1))
FitIn(w) == SubSeq(w, 1, CHOOSE n \in 0..Len(w) : LastFit(w, n))
RoomAll(w) == Len(FlattenSeq(w)) <= TxRingSize

\* The same for the parts that were written.
LEMMA TxWords ==
  /\ \A ptr, n : TxCells(ptr, n) = CellsFrom(tx_ring, TxRingSize, ptr, n)
  /\ \A ptr, n : TxPlus(ptr, n) = Ahead(TxPtrMod, ptr, n)
  /\ \A ptr, base : TxMinus(ptr, base) = Between(TxPtrMod, base, ptr)
  /\ Fitting = IF ~opened THEN <<>> ELSE FitIn(written)
  BY DEF TxCells, TxPlus, TxMinus, CellsFrom, At, Ahead, Between, Fitting, FitIn, LastFit, RoomIn, Room

\* What is known of the constants.
LEMMA TxConstants ==
  /\ TxRingSize \in Nat \ {0} /\ TxPtrMod \in Nat \ {0} /\ TxPtrMod % TxRingSize = 0
  /\ TxRingSize < TxPtrMod /\ Seq(Parts) \subseteq Seq(Seq(Nat)) /\ Parts \subseteq Seq(Nat)
<1>1. /\ TxRingSize \in Nat \ {0} /\ TxPtrMod \in Nat /\ TxPtrMod % TxRingSize = 0
      /\ TxPtrMod > TxRingSize /\ Parts \subseteq Seq(Nat)
  BY TxAssumption
<1>2. Seq(Parts) \subseteq Seq(Seq(Nat))
  <2>. DEFINE S == Seq(Nat)
  <2>1. Parts \subseteq S
    BY <1>1
  <2>. HIDE DEF S
  <2>2. ASSUME NEW w \in Seq(Parts)
        PROVE  w \in Seq(S)
    <3>1. Len(w) \in Nat /\ w \in [1..Len(w) -> Parts]
      BY LenProperties
    <3>2. \A i \in 1..Len(w) : w[i] \in Parts
      BY <3>1, Zenon
    <3>3. \A i \in 1..Len(w) : w[i] \in S
      BY <2>1, <3>2, ZenonT(40)
    <3>. QED
      BY <3>1, <3>3
  <2>. QED
    BY <2>2, Zenon DEF S
<1>. QED
  BY <1>1, <1>2

\* One part more takes its length more.
LEMMA RoomStep ==
  ASSUME NEW w \in Seq(Seq(Nat))
  PROVE  /\ RoomIn(w, 0) /\ SubSeq(w, 1, Len(w)) = w /\ (RoomAll(w) <=> RoomIn(w, Len(w)))
         /\ \A n \in 0..Len(w) : SubSeq(w, 1, n) \in Seq(Seq(Nat))
         /\ \A n \in 0..Len(w) : n # Len(w) /\ RoomIn(w, n + 1) => RoomIn(w, n)
<1>. DEFINE S == Seq(Nat)
<1>. w \in Seq(S)
  OBVIOUS
<1>1. TxRingSize \in Nat
  BY TxConstants
<1>2. Len(w) \in Nat
  OBVIOUS
<1>3. SubSeq(w, 1, Len(w)) = w /\ SubSeq(w, 1, 0) = <<>>
  <2>. HIDE DEF S
  <2>. QED
    BY <1>2
<1>4. \A n \in 0..Len(w) : SubSeq(w, 1, n) \in Seq(S)
  <2>. HIDE DEF S
  <2>. QED
    BY <1>2
<1>5. RoomIn(w, 0)
  <2>1. Len(FlattenSeq(<<>>)) = 0
    BY FlattenAppend
  <2>2. Len(FlattenSeq(SubSeq(w, 1, 0))) = 0
    BY <1>3, <2>1, Zenon
  <2>3. 0 <= TxRingSize
    BY <1>1
  <2>. QED
    BY <2>2, <2>3, Zenon DEF RoomIn
<1>6. ASSUME NEW n \in 0..Len(w), n # Len(w), RoomIn(w, n + 1)
      PROVE  RoomIn(w, n)
  <2>. DEFINE v == SubSeq(w, 1, n)
              e == w[n + 1]
  <2>1. v \in Seq(S) /\ e \in S
    <3>1. n + 1 \in 1..Len(w)
      BY <1>2, <1>6
    <3>. HIDE DEF S
    <3>. QED
      BY <1>4, <3>1
  <2>2. SubSeq(w, 1, n + 1) = Append(v, e)
    <3>1. n \in Nat /\ n + 1 \in 0..Len(w)
      BY <1>2, <1>6
    <3>. HIDE DEF S
    <3>. QED
      BY <1>2, <3>1
  <2>3. FlattenSeq(Append(v, e)) = FlattenSeq(v) \o e /\ FlattenSeq(v) \in Seq(Nat)
    BY <2>1, FlattenAppend
  <2>. DEFINE f == FlattenSeq(v)
  <2>4. Len(f \o e) = Len(f) + Len(e) /\ Len(f) \in Nat /\ Len(e) \in Nat
    <3>1. f \in Seq(Nat) /\ e \in Seq(Nat)
      BY <2>1, <2>3
    <3>. HIDE DEF f, e
    <3>. QED
      BY <3>1, ConcatProperties
  <2>5. Len(f) + Len(e) <= TxRingSize
    BY <1>6, <2>2, <2>3, <2>4 DEF RoomIn
  <2>6. Len(f) <= TxRingSize
    <3>. HIDE DEF f, e
    <3>. QED
      BY <1>1, <2>4, <2>5
  <2>. QED
    BY <2>6 DEF RoomIn
<1>7. RoomAll(w) <=> RoomIn(w, Len(w))
  BY <1>3 DEF RoomAll, RoomIn
<1>. QED
  BY <1>3, <1>4, <1>5, <1>6, <1>7

\* Where there is room for more parts there is room for fewer.
LEMMA RoomDown ==
  ASSUME NEW w \in Seq(Seq(Nat)), NEW m \in 0..Len(w), RoomIn(w, m), NEW n \in 0..m
  PROVE  RoomIn(w, n)
<1>. DEFINE T == {k \in n..m : RoomIn(w, k)}
<1>0. Len(w) \in Nat
  OBVIOUS
<1>1. T \in SUBSET Nat /\ T # {}
  <2>1. m \in n..m /\ n..m \in SUBSET Nat
    BY <1>0
  <2>2. m \in T
    BY <2>1
  <2>. QED
    BY <2>1, <2>2
<1>2. PICK x \in T : \A y \in T : x <= y
  <2>. HIDE DEF T
  <2>. QED
    BY <1>1, First
<1>3. x \in n..m /\ RoomIn(w, x)
  OBVIOUS
<1>4. CASE x = n
  BY <1>3, <1>4
<1>5. CASE x # n
  <2>1. x - 1 \in 0..Len(w) /\ x - 1 # Len(w) /\ (x - 1) + 1 = x
        /\ x - 1 \in n..m /\ ~(x <= x - 1)
    BY <1>0, <1>3, <1>5
  <2>2. RoomIn(w, x - 1)
    BY <1>3, <2>1, RoomStep
  <2>. QED
    BY <1>2, <2>1, <2>2
<1>. QED
  BY <1>4, <1>5

\* There is only one last part up to which the parts fit ...
LEMMA LastIs ==
  ASSUME NEW w \in Seq(Seq(Nat)), NEW n \in 0..Len(w), LastFit(w, n)
  PROVE  FitIn(w) = SubSeq(w, 1, n)
<1>. DEFINE l == CHOOSE k \in 0..Len(w) : LastFit(w, k)
<1>0. Len(w) \in Nat
  OBVIOUS
<1>1. l \in 0..Len(w) /\ LastFit(w, l)
  OBVIOUS
<1>. HIDE DEF l
<1>2. ~(n < l)
  <2>. SUFFICES ASSUME n < l PROVE FALSE
    OBVIOUS
  <2>1. n # Len(w) /\ n + 1 \in 0..l /\ ~RoomIn(w, n + 1) /\ RoomIn(w, l)
    BY <1>0, <1>1 DEF LastFit
  <2>. QED
    BY <1>1, <2>1, RoomDown
<1>3. ~(l < n)
  <2>. SUFFICES ASSUME l < n PROVE FALSE
    OBVIOUS
  <2>1. l # Len(w) /\ l + 1 \in 0..n /\ ~RoomIn(w, l + 1) /\ RoomIn(w, n)
    BY <1>0, <1>1 DEF LastFit
  <2>. QED
    BY <2>1, RoomDown
<1>4. l = n
  BY <1>0, <1>1, <1>2, <1>3
<1>. QED
  BY <1>4 DEF FitIn, l

\* ... and there is one.
LEMMA LastExists ==
  ASSUME NEW w \in Seq(Seq(Nat))
  PROVE  \E n \in 0..Len(w) : LastFit(w, n)
<1>. DEFINE T == {k \in 0..Len(w) : ~RoomIn(w, k)}
<1>0. Len(w) \in Nat
  OBVIOUS
<1>1. CASE T = {}
  <2>1. Len(w) \in 0..Len(w) /\ RoomIn(w, Len(w))
    BY <1>0, <1>1
  <2>. QED
    BY <2>1 DEF LastFit
<1>2. CASE T # {}
  <2>1. T \in SUBSET Nat
    BY <1>0
  <2>2. PICK x \in T : \A y \in T : x <= y
    <3>. HIDE DEF T
    <3>. QED
      BY <1>2, <2>1, First
  <2>3. x \in 0..Len(w) /\ ~RoomIn(w, x) /\ x # 0
    BY RoomStep
  <2>4. x - 1 \in 0..Len(w) /\ (x - 1) + 1 = x /\ ~(x <= x - 1)
    BY <1>0, <2>3
  <2>5. RoomIn(w, x - 1)
    BY <2>2, <2>4
  <2>. QED
    BY <2>3, <2>4, <2>5 DEF LastFit
<1>. QED
  BY <1>1, <1>2

\* If all parts fit they all are taken.
LEMMA FitAll ==
  ASSUME NEW w \in Seq(Seq(Nat)), RoomAll(w)
  PROVE  FitIn(w) = w
<1>1. Len(w) \in 0..Len(w)
  <2>1. Len(w) \in Nat
    OBVIOUS
  <2>. QED
    BY <2>1
<1>2. SubSeq(w, 1, Len(w)) = w /\ RoomIn(w, Len(w))
  BY RoomStep
<1>3. FitIn(w) = SubSeq(w, 1, Len(w))
  BY <1>1, <1>2, LastIs DEF LastFit
<1>. QED
  BY <1>2, <1>3

\* One part more is taken as well if all fitted and there is room for it, and
\* changes nothing otherwise.
LEMMA FitAppend ==
  ASSUME NEW w \in Seq(Seq(Nat)), NEW p \in Seq(Nat)
  PROVE  /\ Append(w, p) \in Seq(Seq(Nat))
         /\ FlattenSeq(w) \in Seq(Nat)
         /\ FlattenSeq(Append(w, p)) = FlattenSeq(w) \o p
         /\ RoomAll(Append(w, p)) <=> RoomAll(w) /\ Len(FlattenSeq(w)) + Len(p) <= TxRingSize
         /\ RoomAll(Append(w, p)) => FitIn(Append(w, p)) = Append(w, p)
         /\ ~RoomAll(Append(w, p)) => FitIn(Append(w, p)) = FitIn(w)
<1>. DEFINE a == Append(w, p)
            f == FlattenSeq(w)
            L == Len(w)
<1>1. /\ a \in Seq(Seq(Nat)) /\ Len(a) = L + 1 /\ L \in Nat
  BY AppendProperties
<1>2. \A n \in 0..L : SubSeq(a, 1, n) = SubSeq(w, 1, n)
  <2>. DEFINE S == Seq(Nat)
  <2>1. w \in Seq(S) /\ p \in S
    OBVIOUS
  <2>. HIDE DEF S
  <2>. QED
    BY <1>1, <2>1
<1>3. f \in Seq(Nat) /\ FlattenSeq(a) = f \o p
  BY FlattenAppend
<1>4. Len(f \o p) = Len(f) + Len(p) /\ Len(f) \in Nat /\ Len(p) \in Nat
  <2>1. f \in Seq(Nat) /\ p \in Seq(Nat)
    BY <1>3
  <2>. HIDE DEF f
  <2>. QED
    BY <2>1, ConcatProperties
<1>5. TxRingSize \in Nat
  BY TxConstants
<1>6. RoomAll(a) <=> RoomAll(w) /\ Len(f) + Len(p) <= TxRingSize
  <2>1. RoomAll(a) <=> Len(f) + Len(p) <= TxRingSize
    BY <1>3, <1>4 DEF RoomAll
  <2>2. Len(f) + Len(p) <= TxRingSize => Len(f) <= TxRingSize
    <3>. HIDE DEF f
    <3>. QED
      BY <1>4, <1>5
  <2>3. RoomAll(w) <=> Len(f) <= TxRingSize
    BY DEF RoomAll
  <2>. QED
    BY <2>1, <2>2, <2>3, Zenon
<1>7. RoomAll(a) => FitIn(a) = a
  BY <1>1, FitAll
<1>8. ~RoomAll(a) => FitIn(a) = FitIn(w)
  <2>. SUFFICES ASSUME ~RoomAll(a) PROVE FitIn(a) = FitIn(w)
    OBVIOUS
  <2>1. PICK n \in 0..L : LastFit(w, n)
    BY LastExists
  <2>. HIDE DEF a, L
  <2>2. n \in 0..Len(a) /\ n \in 0..L /\ n # Len(a)
    BY <1>1
  <2>3. RoomIn(a, n)
    BY <1>2, <2>1 DEF LastFit, RoomIn
  <2>4. ~RoomIn(a, n + 1)
    <3>1. CASE n = L
      <4>1. n + 1 = Len(a)
        BY <1>1, <3>1
      <4>. QED
        BY <1>1, <4>1, RoomStep
    <3>2. CASE n # L
      <4>1. n + 1 \in 0..L
        BY <1>1, <3>2
      <4>2. ~RoomIn(w, n + 1)
        BY <2>1, <3>2 DEF LastFit, L
      <4>. QED
        BY <1>2, <4>1, <4>2 DEF RoomIn
    <3>. QED
      BY <3>1, <3>2
  <2>5. FitIn(a) = SubSeq(a, 1, n)
    BY <1>1, <2>2, <2>3, <2>4, LastIs DEF LastFit
  <2>6. FitIn(w) = SubSeq(w, 1, n)
    BY <2>1, LastIs DEF L
  <2>. QED
    BY <1>2, <2>5, <2>6
<1>. QED
  BY <1>1, <1>3, <1>6, <1>7, <1>8
-----------------------------------------------------------------------------
(* Sending: the driver's calls.                                            *)

\* The kinds of the variables that pointers and parts are compared with.
LEMMA TxTypes ==
  ASSUME TransmitInv
  PROVE  /\ TX_RD \in Int /\ TX_WR \in Int /\ txwr \in Int
         /\ tx_ring \in Rings(TxRingSize) /\ get_free_size \in Nat
         /\ written \in Seq(Seq(Nat)) /\ transmit_pc \in {"ready", "SEND", "wait"}
<1>1. TxRingSize \in Nat \ {0} /\ TxPtrMod \in Nat \ {0} /\ Seq(Parts) \subseteq Seq(Seq(Nat))
  BY TxConstants
<1>2. /\ {TX_RD, TX_WR, txwr} \subseteq 0..(TxPtrMod - 1) /\ get_free_size \in 0..TxRingSize
      /\ tx_ring \in [0..(TxRingSize - 1) -> Nat] /\ written \in Seq(Parts)
      /\ transmit_pc \in {"ready", "SEND", "wait"}
  BY DEF TransmitInv, TransmitTypeOK
<1>3. \A x \in 0..(TxPtrMod - 1) : x \in Int
  BY <1>1
<1>4. \A x \in 0..TxRingSize : x \in Nat
  BY <1>1
<1>. QED
  BY <1>1, <1>2, <1>3, <1>4, Zenon DEF Rings

\* The invariant's clauses about parts in the words of the lemmas above.
LEMMA PartsWords ==
  PartsInv <=>
    /\ transmit_pc \in {"ready", "SEND"} \/ sending =>
         CellsFrom(tx_ring, TxRingSize, TX_RD, Between(TxPtrMod, TX_RD, txwr)) =
           FlattenSeq(IF ~opened THEN <<>> ELSE FitIn(written))
    /\ transmit_pc = "ready" =>
         get_free_size = IF opened /\ RoomIn(written, Len(written))
                         THEN TxRingSize - Between(TxPtrMod, TX_RD, txwr) ELSE 0
    /\ transmit_pc = "wait" => get_free_size = 0
<1>1. TxCells(TX_RD, TxMinus(txwr, TX_RD)) =
        CellsFrom(tx_ring, TxRingSize, TX_RD, Between(TxPtrMod, TX_RD, txwr))
  BY TxWords
<1>2. TxMinus(txwr, TX_RD) = Between(TxPtrMod, TX_RD, txwr)
  BY TxWords
<1>3. Fitting = IF ~opened THEN <<>> ELSE FitIn(written)
  BY TxWords
<1>4. Room(Len(written)) <=> RoomIn(written, Len(written))
  BY DEF Room, RoomIn
<1>. QED
  BY <1>1, <1>2, <1>3, <1>4 DEF PartsInv

\* What PartsInv says of the next state.
LEMMA PartsWordsNext ==
  PartsInv' <=>
    /\ transmit_pc' \in {"ready", "SEND"} \/ sending' =>
         CellsFrom(tx_ring', TxRingSize, TX_RD', Between(TxPtrMod, TX_RD', txwr')) =
           FlattenSeq(IF ~opened' THEN <<>> ELSE FitIn(written'))
    /\ transmit_pc' = "ready" =>
         get_free_size' = IF opened' /\ RoomIn(written', Len(written'))
                          THEN TxRingSize - Between(TxPtrMod, TX_RD', txwr') ELSE 0
    /\ transmit_pc' = "wait" => get_free_size' = 0
<1>1. TxCells(TX_RD, TxMinus(txwr, TX_RD))' =
        CellsFrom(tx_ring', TxRingSize, TX_RD', Between(TxPtrMod, TX_RD', txwr'))
  BY DEF TxCells, TxMinus, CellsFrom, At, Between
<1>2. TxMinus(txwr, TX_RD)' = Between(TxPtrMod, TX_RD', txwr')
  BY DEF TxMinus, Between
<1>3. Fitting' = IF ~opened' THEN <<>> ELSE FitIn(written')
  BY DEF Fitting, FitIn, LastFit, RoomIn, Room
<1>4. Room(Len(written))' <=> RoomIn(written', Len(written'))
  BY DEF Room, RoomIn
<1>. QED
  BY <1>1, <1>2, <1>3, <1>4 DEF PartsInv

\* From a pointer to itself there is no way, and there are no cells.
LEMMA NoWay ==
  /\ \A p \in Int : Between(TxPtrMod, p, p) = 0
  /\ \A ring, p : CellsFrom(ring, TxRingSize, p, 0) = <<>>
<1>1. TxPtrMod \in Nat \ {0} /\ 0 \in 0..(TxPtrMod - 1)
  BY TxConstants
<1>2. 0 % TxPtrMod = 0
  BY <1>1, SmallRemainders
<1>3. \A p \in Int : p - p = 0
  OBVIOUS
<1>4. \A ring, p : CellsFrom(ring, TxRingSize, p, 0) = <<>>
  BY DEF CellsFrom
<1>. QED
  BY <1>2, <1>3, <1>4 DEF Between

\* Nothing was written yet: nothing is to be sent, and there is room.
LEMMA NothingWritten ==
  /\ FitIn(<<>>) = <<>> /\ FlattenSeq(<<>>) = <<>> /\ RoomIn(<<>>, Len(<<>>))
<1>1. <<>> \in Seq(Seq(Nat))
  BY EmptySeq
<1>2. RoomIn(<<>>, Len(<<>>)) /\ RoomAll(<<>>)
  <2>1. RoomIn(<<>>, 0) /\ Len(<<>>) = 0
    BY <1>1, RoomStep
  <2>. QED
    BY <1>1, <2>1, RoomStep
<1>. QED
  <2>1. FlattenSeq(<<>>) = <<>>
    BY FlattenAppend
  <2>2. FitIn(<<>>) = <<>>
    BY <1>1, <1>2, FitAll
  <2>. QED
    BY <1>2, <2>1, <2>2

\* The invariant holds of the empty ring.
LEMMA TransmitInvInit == TransmitInit => TransmitInv
<1>. SUFFICES ASSUME TransmitInit PROVE TransmitInv
  OBVIOUS
<1>1. TxRingSize \in Nat \ {0} /\ TxPtrMod \in Nat \ {0}
  BY TxConstants
<1>2. TransmitTypeOK /\ FlagsInv
  BY <1>1, SMTT(40) DEF TransmitInit, TransmitTypeOK, FlagsInv
<1>3. PartsInv
  <2>1. CellsFrom(tx_ring, TxRingSize, TX_RD, Between(TxPtrMod, TX_RD, txwr)) = <<>>
    BY NoWay DEF TransmitInit
  <2>. QED
    BY <2>1, NothingWritten, PartsWords DEF TransmitInit
<1>. QED
  BY <1>2, <1>3 DEF TransmitInv

\* After begin nothing lies between the pointers.
LEMMA BeginKeeps ==
  ASSUME TransmitInv, w55_udp_begin
  PROVE  TransmitInv'
<1>1. /\ transmit_pc = "ready" /\ TX_WR = TX_RD /\ txwr' = TX_WR /\ get_free_size' = TX_FSR
      /\ opened' = TRUE /\ written' = <<>>
      /\ UNCHANGED <<tx_ring, TX_RD, TX_WR, IR, sending, transmit_pc, rc, outcome>>
  BY DEF w55_udp_begin, TransmitInv, FlagsInv
<1>2. Between(TxPtrMod, TX_RD', txwr') = 0
  BY <1>1, TxTypes, NoWay
<1>3. get_free_size' = TxRingSize /\ TxRingSize \in Nat \ {0}
  <2>1. TxMinus(TX_WR, TX_RD) = 0
    BY <1>1, TxTypes, TxWords, NoWay
  <2>2. TxRingSize \in Nat \ {0}
    BY TxConstants
  <2>. QED
    BY <1>1, <2>1, <2>2 DEF TX_FSR
<1>4. PartsInv'
  <2>1. CellsFrom(tx_ring', TxRingSize, TX_RD', Between(TxPtrMod, TX_RD', txwr')) = <<>>
    BY <1>2, NoWay
  <2>2. TxRingSize - 0 = TxRingSize
    BY <1>3
  <2>. QED
    BY <1>1, <1>2, <1>3, <2>1, <2>2, NothingWritten, PartsWordsNext
<1>5. TransmitTypeOK'
  <2>1. <<>> \in Seq(Parts)
    BY EmptySeq
  <2>. QED
    BY <1>1, <1>3, <2>1 DEF TransmitInv, TransmitTypeOK
<1>. QED
  BY <1>1, <1>4, <1>5 DEF TransmitInv, FlagsInv

\* What lies between the pointers stays until the chip has sent it.
LEMMA EndKeeps ==
  ASSUME TransmitInv, w55_udp_end \/ SendCommand
  PROVE  TransmitInv'
<1>1. /\ UNCHANGED <<tx_ring, TX_RD, IR, txwr, rc, opened, written, outcome>>
      /\ transmit_pc \in {"ready", "SEND"} /\ IR = {}
      /\ TransmitTypeOK /\ FlagsInv /\ PartsInv
  BY DEF w55_udp_end, SendCommand, history, TransmitInv, FlagsInv
<1>2. CASE w55_udp_end
  <2>1. /\ transmit_pc = "ready" /\ TX_WR' = txwr /\ transmit_pc' = "SEND"
        /\ UNCHANGED <<sending, get_free_size>>
    BY <1>2 DEF w55_udp_end
  <2>2. PartsInv'
    BY <1>1, <2>1, PartsWords, PartsWordsNext
  <2>. QED
    BY <1>1, <2>1, <2>2 DEF TransmitInv, TransmitTypeOK, FlagsInv
<1>3. CASE SendCommand
  <2>1. /\ transmit_pc = "SEND" /\ transmit_pc' = "wait" /\ sending' = TRUE
        /\ get_free_size' = 0 /\ UNCHANGED TX_WR
    BY <1>3 DEF SendCommand
  <2>2. PartsInv'
    BY <1>1, <2>1, PartsWords, PartsWordsNext
  <2>3. 0 \in 0..TxRingSize
    BY TxConstants
  <2>. QED
    BY <1>1, <2>1, <2>2, <2>3 DEF TransmitInv, TransmitTypeOK, FlagsInv
<1>. QED
  BY <1>2, <1>3

\* The flag the chip sets is that of its outcome.
LEMMA TransmitKeeps ==
  ASSUME TransmitInv, NEW event \in {"SEND_OK", "TIMEOUT"}, Transmit(event)
  PROVE  TransmitInv'
<1>1. /\ UNCHANGED <<tx_ring, TX_WR, get_free_size, txwr, transmit_pc, rc, opened, written>>
      /\ sending /\ sending' = FALSE /\ TX_RD' = TX_WR /\ IR' = IR \cup {event}
      /\ outcome'.event = event
      /\ transmit_pc = "wait" /\ IR = {} /\ TX_WR = txwr
      /\ TransmitTypeOK /\ FlagsInv /\ PartsInv
  BY DEF Transmit, driverVars, TransmitInv, FlagsInv
<1>2. PartsInv'
  BY <1>1, PartsWords, PartsWordsNext
<1>. QED
  BY <1>1, <1>2 DEF TransmitInv, TransmitTypeOK, FlagsInv

\* When the call returns, nothing lies between the pointers, and both flags are
\* cleared.
LEMMA EndReturnsKeeps ==
  ASSUME TransmitInv, EndReturns
  PROVE  TransmitInv'
<1>1. /\ UNCHANGED <<tx_ring, TX_RD, TX_WR, sending, get_free_size, txwr, outcome>>
      /\ transmit_pc = "wait" /\ transmit_pc' = "ready" /\ rc' \in {0, 1} /\ IR' = {}
      /\ opened' = FALSE /\ written' = <<>>
      /\ ~sending /\ TX_RD = TX_WR /\ TX_WR = txwr /\ get_free_size = 0
      /\ TransmitTypeOK /\ FlagsInv /\ PartsInv
  BY DEF EndReturns, Cleared, TransmitInv, FlagsInv, PartsInv
<1>2. CellsFrom(tx_ring', TxRingSize, TX_RD', Between(TxPtrMod, TX_RD', txwr')) = <<>>
  BY <1>1, TxTypes, NoWay
<1>3. PartsInv'
  BY <1>1, <1>2, NothingWritten, PartsWordsNext
<1>4. <<>> \in Seq(Parts)
  BY EmptySeq
<1>. QED
  BY <1>1, <1>3, <1>4 DEF TransmitInv, TransmitTypeOK, FlagsInv

\* How the parts in the ring and the free size change with a part written.
LEMMA WritePieces ==
  ASSUME TransmitInv, NEW p \in Parts, w55_udp_write(p)
  PROVE  /\ transmit_pc = "ready" /\ p \in Seq(Nat) /\ Len(p) \in Nat
         /\ UNCHANGED <<TX_RD, TX_WR, IR, sending, transmit_pc, rc, opened, outcome>>
         /\ written' = Append(written, p) /\ written \in Seq(Seq(Nat))
         /\ \/ p = <<>> /\ UNCHANGED <<tx_ring, txwr, get_free_size>>
            \/ /\ Len(p) # 0 /\ Len(p) <= get_free_size
               /\ tx_ring' = Put(tx_ring, TxRingSize, txwr, p)
               /\ txwr' = Ahead(TxPtrMod, txwr, Len(p))
               /\ get_free_size' = get_free_size - Len(p)
            \/ /\ Len(p) # 0 /\ ~(Len(p) <= get_free_size)
               /\ get_free_size' = 0 /\ UNCHANGED <<tx_ring, txwr>>
<1>1. p \in Seq(Nat)
  BY TxConstants
<1>2. Len(p) \in Nat /\ (p # <<>> => Len(p) # 0)
  BY <1>1
<1>3. get_free_size \in Nat
  BY TxTypes
<1>4. Fits(p) <=> Len(p) <= get_free_size
  BY <1>2, <1>3 DEF Fits
<1>5. Accepted(p) => /\ tx_ring' = Put(tx_ring, TxRingSize, txwr, p)
                     /\ txwr' = Ahead(TxPtrMod, txwr, Len(p))
                     /\ get_free_size' = get_free_size - Len(p)
  BY DEF Accepted, Put, Between, TxPlus, Ahead
<1>. QED
  BY <1>1, <1>2, <1>4, <1>5, TxTypes DEF w55_udp_write, Refused

\* A part goes behind the others if all of them fitted and there is room for it;
\* then nothing is written over, and otherwise nothing is written at all.
LEMMA WriteKeeps ==
  ASSUME TransmitInv, NEW p \in Parts, w55_udp_write(p)
  PROVE  TransmitInv'
<1>. DEFINE R == TxRingSize
            M == TxPtrMod
            U == TX_RD
            W == txwr
            n == Between(M, U, W)
            k == Len(p)
            w == written
            f == FlattenSeq(w)
            a == Append(w, p)
<1>1. /\ transmit_pc = "ready" /\ p \in Seq(Nat) /\ k \in Nat /\ w \in Seq(Seq(Nat))
      /\ UNCHANGED <<TX_RD, TX_WR, IR, sending, transmit_pc, rc, opened, outcome>>
      /\ written' = a
  BY WritePieces
<1>2. /\ R \in Nat \ {0} /\ M \in Nat \ {0} /\ M % R = 0 /\ R < M
  BY TxConstants
<1>3. /\ U \in Int /\ W \in Int /\ tx_ring \in Rings(R) /\ get_free_size \in Nat
      /\ TransmitTypeOK /\ FlagsInv
  BY TxTypes DEF TransmitInv
<1>4. /\ a \in Seq(Seq(Nat)) /\ f \in Seq(Nat) /\ FlattenSeq(a) = f \o p
      /\ RoomAll(a) <=> RoomAll(w) /\ Len(f) + k <= R
      /\ RoomAll(a) => FitIn(a) = a
      /\ ~RoomAll(a) => FitIn(a) = FitIn(w)
      /\ RoomAll(w) => FitIn(w) = w
  BY <1>1, FitAppend, FitAll
<1>5. (RoomIn(w, Len(w)) <=> RoomAll(w)) /\ (RoomIn(a, Len(a)) <=> RoomAll(a))
  BY <1>1, <1>4, RoomStep
<1>6. /\ CellsFrom(tx_ring, R, U, n) = FlattenSeq(IF ~opened THEN <<>> ELSE FitIn(w))
      /\ get_free_size = IF opened /\ RoomAll(w) THEN R - n ELSE 0
  BY <1>1, <1>5, PartsWords DEF TransmitInv
<1>7. n \in Nat
  <2>1. n \in 0..(M - 1)
    <3>. HIDE DEF M, U, W
    <3>. QED
      BY <1>2, <1>3, PointerTypes
  <2>. HIDE DEF n
  <2>. QED
    BY <1>2, <2>1
<1>8. opened /\ RoomAll(w) => Len(f) = n
  <2>. SUFFICES ASSUME opened, RoomAll(w) PROVE Len(f) = n
    OBVIOUS
  <2>1. CellsFrom(tx_ring, R, U, n) = f
    BY <1>4, <1>6
  <2>2. DOMAIN CellsFrom(tx_ring, R, U, n) = 1..n
    BY DEF CellsFrom
  <2>3. DOMAIN f = 1..Len(f) /\ Len(f) \in Nat
    BY <1>4
  <2>. DEFINE l == Len(f)
  <2>4. 1..n = 1..l /\ l \in Nat
    BY <2>1, <2>2, <2>3
  <2>. HIDE DEF n, l
  <2>5. l = n
    BY <1>7, <2>4
  <2>. QED
    BY <2>5 DEF l
<1>9. /\ tx_ring' \in Rings(R) /\ txwr' \in 0..(M - 1) /\ get_free_size' \in 0..R
      /\ CellsFrom(tx_ring', R, U, Between(M, U, txwr')) =
           FlattenSeq(IF ~opened THEN <<>> ELSE FitIn(a))
      /\ get_free_size' = IF opened /\ RoomAll(a) THEN R - Between(M, U, txwr') ELSE 0
  <2>0. W \in 0..(M - 1) /\ get_free_size \in 0..R
    BY DEF TransmitInv, TransmitTypeOK
  <2>1. CASE p = <<>> /\ UNCHANGED <<tx_ring, txwr, get_free_size>>
    <3>1. k = 0 /\ f \o p = f
      BY <1>4, <2>1, ConcatEmptySeq
    <3>2. RoomAll(w) => Len(f) + k <= R
      <4>1. Len(f) \in Nat
        BY <1>4
      <4>. HIDE DEF f, k, w
      <4>. QED
        BY <1>2, <3>1, <4>1 DEF RoomAll, f
    <3>3. RoomAll(a) <=> RoomAll(w)
      BY <1>4, <3>2
    <3>4. FlattenSeq(FitIn(a)) = FlattenSeq(FitIn(w))
      <4>1. CASE RoomAll(a)
        BY <1>4, <3>1, <3>3, <4>1
      <4>2. CASE ~RoomAll(a)
        BY <1>4, <4>2
      <4>. QED
        BY <4>1, <4>2
    <3>. HIDE DEF a, w, f, k, n
    <3>. QED
      BY <1>3, <1>6, <2>0, <2>1, <3>3, <3>4 DEF n
  <2>2. CASE /\ k # 0 /\ k <= get_free_size
             /\ tx_ring' = Put(tx_ring, R, W, p) /\ txwr' = Ahead(M, W, k)
             /\ get_free_size' = get_free_size - k
    <3>1. opened /\ RoomAll(w) /\ get_free_size = R - n
      <4>. HIDE DEF n, k, w
      <4>. QED
        BY <1>1, <1>6, <2>2
    <3>2. n + k <= R /\ Len(f) = n
      <4>1. Len(f) = n
        BY <1>8, <3>1
      <4>. HIDE DEF n, k, f, w
      <4>. QED
        BY <1>1, <1>2, <1>7, <2>2, <3>1, <4>1
    <3>3. RoomAll(a)
      BY <1>4, <3>1, <3>2
    <3>4. /\ tx_ring' \in Rings(R)
          /\ CellsFrom(tx_ring', R, U, n + k) = CellsFrom(tx_ring, R, U, n) \o p
          /\ Between(M, U, txwr') = n + k
      <4>1. \A ring \in Rings(R), q \in Seq(Nat), V, X \in Int :
              Between(M, V, X) + Len(q) <= R =>
                /\ Put(ring, R, X, q) \in Rings(R)
                /\ CellsFrom(Put(ring, R, X, q), R, V, Between(M, V, X) + Len(q)) =
                     CellsFrom(ring, R, V, Between(M, V, X)) \o q
                /\ Between(M, V, Ahead(M, X, Len(q))) = Between(M, V, X) + Len(q)
        BY <1>2, PutFollows
      <4>2. /\ Put(tx_ring, R, W, p) \in Rings(R)
            /\ CellsFrom(Put(tx_ring, R, W, p), R, U, Between(M, U, W) + Len(p)) =
                 CellsFrom(tx_ring, R, U, Between(M, U, W)) \o p
            /\ Between(M, U, Ahead(M, W, Len(p))) = Between(M, U, W) + Len(p)
        BY <1>1, <1>3, <3>2, <4>1, Zenon
      <4>. QED
        BY <2>2, <4>2
    <3>5. txwr' \in 0..(M - 1)
      <4>1. k \in Int
        BY <1>1
      <4>2. Ahead(M, W, k) \in 0..(M - 1)
        <5>. HIDE DEF M, W, k
        <5>. QED
          BY <1>2, <1>3, <4>1, PointerTypes
      <4>. QED
        BY <2>2, <4>2
    <3>6. get_free_size' = R - (n + k) /\ get_free_size' \in 0..R
      <4>. HIDE DEF n, k
      <4>. QED
        BY <1>1, <1>2, <1>7, <2>2, <3>1, <3>2
    <3>7. CellsFrom(tx_ring, R, U, n) \o p = FlattenSeq(FitIn(a))
      BY <1>4, <1>6, <3>1, <3>3
    <3>. HIDE DEF n, k, a, f, w, R, M, U, W
    <3>. QED
      BY <3>1, <3>3, <3>4, <3>5, <3>6, <3>7
  <2>3. CASE /\ k # 0 /\ ~(k <= get_free_size)
             /\ get_free_size' = 0 /\ UNCHANGED <<tx_ring, txwr>>
    <3>1. opened => ~RoomAll(a)
      <4>. SUFFICES ASSUME opened, RoomAll(w), Len(f) + k <= R PROVE FALSE
        BY <1>4
      <4>1. Len(f) = n /\ get_free_size = R - n
        BY <1>6, <1>8
      <4>. HIDE DEF n, k, f, w
      <4>. QED
        BY <1>1, <1>2, <1>7, <2>3, <4>1
    <3>2. 0 \in 0..R
      BY <1>2
    <3>. HIDE DEF a, w, f, k, n
    <3>. QED
      BY <1>3, <1>4, <1>6, <2>0, <2>3, <3>1, <3>2 DEF n
  <2>. QED
    BY <2>1, <2>2, <2>3, WritePieces
<1>10. PartsInv'
  <2>1. /\ transmit_pc' = "ready" /\ TX_RD' = TX_RD /\ opened' = opened
        /\ written' = a
    BY <1>1
  <2>. HIDE DEF a
  <2>. QED
    BY <1>5, <1>9, <2>1, PartsWordsNext
<1>11. TransmitTypeOK'
  <2>1. written' \in Seq(Parts)
    BY <1>1 DEF TransmitInv, TransmitTypeOK
  <2>. QED
    BY <1>1, <1>3, <1>9, <2>1 DEF TransmitTypeOK, Rings
<1>. QED
  BY <1>1, <1>3, <1>10, <1>11 DEF TransmitInv, FlagsInv

\* Every step keeps the invariant.
LEMMA TransmitNextKeeps ==
  ASSUME TransmitInv, TransmitNext
  PROVE  TransmitInv'
  BY BeginKeeps, WriteKeeps, EndKeeps, EndReturnsKeeps, TransmitKeeps DEF TransmitNext, Sends

\* A SEND that ends has sent what lay between the pointers: the parts that fitted.
LEMMA SendsWhatFits ==
  ASSUME TransmitInv, TransmitNext, sending, ~sending'
  PROVE  outcome'.data = FlattenSeq(Fitting)
<1>1. PICK event \in {"SEND_OK", "TIMEOUT"} : Transmit(event)
  BY DEF TransmitNext, w55_udp_begin, w55_udp_write, w55_udp_end, Sends, SendCommand, EndReturns
<1>2. outcome'.data = TxCells(TX_RD, TxMinus(TX_WR, TX_RD))
  BY <1>1 DEF Transmit
<1>3. TX_WR = txwr
  BY DEF TransmitInv, FlagsInv
<1>. QED
  BY <1>2, <1>3 DEF TransmitInv, PartsInv

\* A call returns on the flag of what the chip did last, when it is done.
LEMMA ReportsItsOwn ==
  ASSUME TransmitInv, TransmitNext, transmit_pc = "wait", transmit_pc' = "ready"
  PROVE  ~sending /\ (rc' = 0 <=> outcome.event = "SEND_OK")
<1>1. EndReturns
  BY DEF TransmitNext, w55_udp_begin, w55_udp_write, w55_udp_end, Sends, SendCommand, Transmit,
         driverVars
<1>2. ~sending /\ IR = {outcome.event}
  BY <1>1 DEF EndReturns, TransmitInv, FlagsInv
<1>. QED
  BY <1>1, <1>2 DEF EndReturns
-----------------------------------------------------------------------------
(* The driver.                                                             *)

\* A part that is not exercised keeps its invariant.
LEMMA OthersKeep ==
  /\ ReadInv /\ UNCHANGED readVars => ReadInv'
  /\ ReceiveInv /\ UNCHANGED receiveVars => ReceiveInv'
  /\ TransmitInv /\ UNCHANGED transmitVars => TransmitInv'
<1>1. ReadInv /\ UNCHANGED readVars => ReadInv'
  BY DEF readVars, ReadInv, ReadTypeOK, NotTorn, Confirmed
<1>2. ASSUME ReceiveInv, UNCHANGED receiveVars PROVE ReceiveInv'
  <2>1. UNCHANGED <<rxChip, queue>> /\ UNCHANGED rxChip
        /\ UNCHANGED <<RX_RD, receive_pc, rxrd, header, dst>>
    BY <1>2 DEF receiveVars
  <2>2. RX_RSR' = RX_RSR /\ RingHoldsQueue'
    BY <1>2, <2>1, SameRing
  <2>3. ReceiveTypeOK'
    BY <1>2, <2>1, <2>2 DEF ReceiveInv, ReceiveTypeOK, rxChip
  <2>. QED
    BY <1>2, <2>1, <2>2, <2>3
       DEF ReceiveInv, TakingInv, rxChip, RxPlus, Framed, Port!Taken
<1>3. ASSUME TransmitInv, UNCHANGED transmitVars PROVE TransmitInv'
  <2>1. /\ UNCHANGED <<tx_ring, TX_RD, TX_WR, IR, sending>>
        /\ UNCHANGED <<get_free_size, txwr, transmit_pc, rc, opened, written, outcome>>
    BY <1>3 DEF transmitVars, txChip, driverVars, history
  <2>2. PartsInv'
    BY <1>3, <2>1, PartsWords, PartsWordsNext DEF TransmitInv
  <2>. QED
    BY <1>3, <2>1, <2>2 DEF TransmitInv, TransmitTypeOK, FlagsInv
<1>. QED
  BY <1>1, <1>2, <1>3

\* What a step of the driver is for each part: a step of the part, or nothing.
LEMMA StepOfParts ==
  ASSUME [Next]_driverPartsVars
  PROVE  /\ [ReadNext]_readVars
         /\ [ReceiveNext]_receiveVars
         /\ [TransmitNext]_transmitVars
  BY DEF Next, Reading, Receiving, Transmitting, In, driverPartsVars, ReadNext, ReceiveNext

\* The invariant is inductive.
LEMMA Inductive ==
  ASSUME IInv, [Next]_driverPartsVars
  PROVE  IInv'
<1>. ReadInv /\ ReceiveInv /\ TransmitInv
  BY DEF IInv
<1>1. [ReadNext]_readVars /\ [ReceiveNext]_receiveVars /\ [TransmitNext]_transmitVars
  BY StepOfParts
<1>2. ReadInv'
  BY <1>1, OthersKeep, DriverKeeps, ChipKeeps DEF ReadNext
<1>3. ReceiveInv'
  BY <1>1, OthersKeep, ReceiveKeeps, ArriveKeeps DEF ReceiveNext
<1>4. TransmitInv'
  BY <1>1, OthersKeep, TransmitNextKeeps
<1>. QED
  BY <1>2, <1>3, <1>4 DEF IInv

\* In every reachable state pointers and sizes are in their ranges, the caller's
\* buffer is not overrun, the unread part of the receive ring is exactly the
\* accepted datagrams, and the unsent part of the transmit ring exactly the
\* written parts that fitted.
THEOREM Invariance == Spec => []IInv
<1>1. Init => IInv
  BY ReadInvInit, ReceiveInvInit, TransmitInvInit DEF Init, IInv
<1>2. IInv /\ [Next]_driverPartsVars => IInv'
  BY Inductive
<1>. QED
  BY <1>1, <1>2, PTL DEF Spec

\* Every variable of the driver keeps its type.
THEOREM TypeCorrect == Spec => []TypeOK
<1>1. IInv => TypeOK
  BY DEF IInv, TypeOK, ReadInv, ReceiveInv, TransmitInv
<1>. QED
  BY <1>1, Invariance, PTL

\* The ring never holds a remainder of a datagram.
THEOREM RingHolds == Spec => []RingHoldsQueue
<1>1. IInv => RingHoldsQueue
  BY DEF IInv, ReceiveInv
<1>. QED
  BY <1>1, Invariance, PTL

\* w55_read16 within the driver: no call returns a torn value.
THEOREM NeverTorn == Spec => []NotTorn
<1>1. IInv => NotTorn
  BY DEF IInv, ReadInv
<1>. QED
  BY <1>1, Invariance, PTL

\* w55_udp_read, access by access, implements the port: accepted datagrams come
\* out whole and in order, one per call, whatever arrives in between.
THEOREM ReceiveImplementsPort == Spec => ImplementsPort
<1>1. Init => Port!Init
  BY DEF Init, ReceiveInit
<1>2. IInv /\ [Next]_driverPartsVars => [Port!Next]_<<queue, got>>
  <2>. SUFFICES ASSUME IInv, [Next]_driverPartsVars PROVE [Port!Next]_<<queue, got>>
    OBVIOUS
  <2>1. [ReceiveNext]_receiveVars /\ ReceiveInv
    BY StepOfParts DEF IInv
  <2>2. ASSUME NEW d \in Datagrams, Arrive(d) PROVE [Port!Next]_<<queue, got>>
    BY <2>2 DEF Arrive, Port!Next, Port!Accept
  <2>3. CASE UNCHANGED receiveVars
    BY <2>3 DEF receiveVars
  <2>4. CASE w55_udp_read
    BY <2>1, <2>4, ReadImplements
  <2>. QED
    BY <2>1, <2>2, <2>3, <2>4 DEF ReceiveNext
<1>. QED
  BY <1>1, <1>2, Invariance, PTL DEF Spec, ImplementsPort, Port!Spec

\* What goes on the wire is what was written since begin, in order, up to the
\* first part that did not fit.
THEOREM WrittenIsSent == Spec => SentAsWritten
<1>1. IInv /\ [Next]_driverPartsVars =>
        [sending /\ ~sending' => outcome'.data = FlattenSeq(Fitting)]_transmitVars
  BY StepOfParts, SendsWhatFits DEF IInv, transmitVars, txChip
<1>. QED
  BY <1>1, Invariance, PTL DEF Spec, SentAsWritten

\* w55_udp_end reports what became of its own datagram.
THEOREM EndReports == Spec => EndReportsOwn
<1>1. IInv /\ [Next]_driverPartsVars =>
        [transmit_pc = "wait" /\ transmit_pc' = "ready" =>
           ~sending /\ (rc' = 0 <=> outcome.event = "SEND_OK")]_transmitVars
  BY StepOfParts, ReportsItsOwn DEF IInv
<1>. QED
  BY <1>1, Invariance, PTL DEF Spec, EndReportsOwn
=============================================================================
