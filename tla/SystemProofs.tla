---------------------------- MODULE SystemProofs ----------------------------
(***************************************************************************)
(* Proofs about a client and a device with a network between them, for any *)
(* calls, numbers of retries and ids, and any number of datagrams under    *)
(* way.                                                                    *)
(***************************************************************************)
EXTENDS System, FiniteSetTheorems, FunctionTheorems, SequenceTheorems, TLAPS

(* Bags and counting.                                                      *)

\* One copy more ...
LEMMA BagAdd ==
  ASSUME NEW B, IsABag(B), NEW d
  PROVE  LET C == B (+) SetToBag({d}) IN
         /\ IsABag(C) /\ BagToSet(C) = BagToSet(B) \cup {d}
         /\ C[d] = IF d \in BagToSet(B) THEN B[d] + 1 ELSE 1
         /\ \A e \in BagToSet(B) : e # d => C[e] = B[e]
<1>. DEFINE N == {n \in Nat : n > 0}
            C == B (+) SetToBag({d})
<1>1. \A e \in BagToSet(B) : B[e] \in N
  BY DEF IsABag, BagToSet
<1>2. /\ DOMAIN C = BagToSet(B) \cup {d}
      /\ C = [e \in BagToSet(B) \cup {d} |->
                (IF e \in BagToSet(B) THEN B[e] ELSE 0) + (IF e = d THEN 1 ELSE 0)]
  BY DEF (+), SetToBag, BagToSet
<1>. HIDE DEF C
<1>3. \A e \in BagToSet(B) \cup {d} :
        C[e] = (IF e \in BagToSet(B) THEN B[e] ELSE 0) + (IF e = d THEN 1 ELSE 0)
  BY <1>2
<1>4. C[d] = IF d \in BagToSet(B) THEN B[d] + 1 ELSE 1
  BY <1>1, <1>3
<1>5. \A e \in BagToSet(B) : e # d => C[e] = B[e]
  BY <1>1, <1>3
<1>6. \A e \in BagToSet(B) \cup {d} : C[e] \in N
  BY <1>1, <1>4, <1>5
<1>7. C \in [DOMAIN C -> N]
  BY <1>2, <1>6
<1>. QED
  BY <1>2, <1>4, <1>5, <1>7 DEF IsABag, BagToSet, C

\* ... and one less.
LEMMA BagRemove ==
  ASSUME NEW B, IsABag(B), NEW d \in BagToSet(B)
  PROVE  LET C == B (-) SetToBag({d}) IN
         /\ IsABag(C)
         /\ BagToSet(C) = {e \in BagToSet(B) : e # d \/ B[d] > 1}
         /\ d \in BagToSet(C) => C[d] = B[d] - 1
         /\ \A e \in BagToSet(C) : e # d => C[e] = B[e]
<1>. DEFINE N == {n \in Nat : n > 0}
            C == B (-) SetToBag({d})
            A == [e \in BagToSet(B) |-> IF e = d THEN B[e] - 1 ELSE B[e]]
<1>1. \A e \in BagToSet(B) : B[e] \in N
  BY DEF IsABag, BagToSet
<1>2. C = [e \in {x \in BagToSet(B) : A[x] > 0} |-> A[e]]
  <2>1. \A e : e \in DOMAIN SetToBag({d}) <=> e = d
    BY DEF SetToBag
  <2>2. \A e \in BagToSet(B) : e = d => SetToBag({d})[e] = 1
    BY DEF SetToBag
  <2>3. A = [e \in DOMAIN B |-> IF e \in DOMAIN SetToBag({d}) THEN B[e] - SetToBag({d})[e] ELSE B[e]]
    BY <2>1, <2>2 DEF BagToSet
  <2>4. DOMAIN A = BagToSet(B)
    OBVIOUS
  <2>. HIDE DEF A
  <2>. QED
    BY <2>3, <2>4 DEF (-)
<1>3. {x \in BagToSet(B) : A[x] > 0} = {e \in BagToSet(B) : e # d \/ B[d] > 1}
  BY <1>1
<1>4. \A e \in BagToSet(B) : A[e] = IF e = d THEN B[e] - 1 ELSE B[e]
  OBVIOUS
<1>. HIDE DEF A, C
<1>5. /\ DOMAIN C = {e \in BagToSet(B) : e # d \/ B[d] > 1}
      /\ \A e \in DOMAIN C : C[e] = IF e = d THEN B[d] - 1 ELSE B[e]
  BY <1>2, <1>3, <1>4
<1>6. \A e \in DOMAIN C : C[e] \in N
  BY <1>1, <1>5
<1>7. C \in [DOMAIN C -> N]
  BY <1>2, <1>6
<1>. QED
  BY <1>5, <1>7 DEF IsABag, BagToSet, C

\* The copies that carry an id are one more when one of them is added ...
LEMMA CopiesAdd ==
  ASSUME NEW B, IsABag(B), NEW d, NEW id, IsFiniteSet(Copies(B, id))
  PROVE  LET C == B (+) SetToBag({d}) IN
         /\ IsFiniteSet(Copies(C, id))
         /\ d.data[1] = id => Cardinality(Copies(C, id)) = Cardinality(Copies(B, id)) + 1
         /\ d.data[1] # id => Copies(C, id) = Copies(B, id)
<1>. DEFINE C == B (+) SetToBag({d})
            n == IF d \in BagToSet(B) THEN B[d] + 1 ELSE 1
<1>1. /\ IsABag(C) /\ BagToSet(C) = BagToSet(B) \cup {d}
      /\ C[d] = n /\ \A e \in BagToSet(B) : e # d => C[e] = B[e]
  BY BagAdd
<1>2. \A e \in BagToSet(B) : B[e] \in Nat
  BY DEF IsABag, BagToSet
<1>. HIDE DEF C
<1>3. CASE d.data[1] # id
  <2>1. Copies(C, id) = Copies(B, id)
    BY <1>1, <1>3 DEF Copies
  <2>. QED
    BY <1>3, <2>1, FS_CardinalityType DEF C
<1>4. CASE d.data[1] = id
  <2>1. <<d, n>> \notin Copies(B, id)
    BY <1>2 DEF Copies
  <2>2. ASSUME NEW e \in BagToSet(C), NEW k
        PROVE  k \in 1..C[e] <=>
                 (e \in BagToSet(B) /\ k \in 1..B[e]) \/ (e = d /\ k = n)
    <3>1. CASE e = d
      BY <1>1, <1>2, <3>1
    <3>2. CASE e # d
      BY <1>1, <1>2, <3>2
    <3>. QED
      BY <3>1, <3>2
  <2>3. Copies(C, id) = Copies(B, id) \cup {<<d, n>>}
    <3>1. \A x : x \in Copies(C, id) <=>
                   \E e \in BagToSet(C) : \E k : x = <<e, k>> /\ e.data[1] = id /\ k \in 1..C[e]
      BY DEF Copies
    <3>2. \A x : x \in Copies(B, id) <=>
                   \E e \in BagToSet(B) : \E k : x = <<e, k>> /\ e.data[1] = id /\ k \in 1..B[e]
      BY DEF Copies
    <3>. HIDE DEF n
    <3>3. ASSUME NEW x \in Copies(C, id)
          PROVE  x \in Copies(B, id) \/ x = <<d, n>>
      BY <1>1, <2>2, <3>1, <3>2
    <3>4. ASSUME NEW x \in Copies(B, id)
          PROVE  x \in Copies(C, id)
      BY <1>1, <2>2, <3>1, <3>2
    <3>5. d \in BagToSet(C) /\ n \in 1..C[d]
      BY <1>1, <2>2
    <3>6. <<d, n>> \in Copies(C, id)
      BY <1>4, <3>1, <3>5
    <3>. QED
      BY <3>3, <3>4, <3>6
  <2>. HIDE DEF n
  <2>4. /\ IsFiniteSet(Copies(B, id) \cup {<<d, n>>})
        /\ Cardinality(Copies(B, id) \cup {<<d, n>>}) = Cardinality(Copies(B, id)) + 1
    BY <2>1, FS_AddElement
  <2>. QED
    BY <1>4, <2>3, <2>4 DEF C
<1>. QED
  BY <1>3, <1>4

\* ... and one less when one of them is removed.
LEMMA CopiesRemove ==
  ASSUME NEW B, IsABag(B), NEW d \in BagToSet(B), NEW id, IsFiniteSet(Copies(B, id))
  PROVE  LET C == B (-) SetToBag({d}) IN
         /\ IsFiniteSet(Copies(C, id))
         /\ d.data[1] = id => Cardinality(Copies(C, id)) = Cardinality(Copies(B, id)) - 1
         /\ d.data[1] # id => Copies(C, id) = Copies(B, id)
<1>. DEFINE C == B (-) SetToBag({d})
<1>1. /\ IsABag(C) /\ BagToSet(C) = {e \in BagToSet(B) : e # d \/ B[d] > 1}
      /\ d \in BagToSet(C) => C[d] = B[d] - 1
      /\ \A e \in BagToSet(C) : e # d => C[e] = B[e]
  BY BagRemove
<1>2. \A e \in BagToSet(B) : B[e] \in Nat /\ B[e] > 0
  BY DEF IsABag, BagToSet
<1>. HIDE DEF C
<1>3. CASE d.data[1] # id
  <2>1. Copies(C, id) = Copies(B, id)
    BY <1>1, <1>3 DEF Copies
  <2>. QED
    BY <1>3, <2>1, FS_CardinalityType DEF C
<1>4. CASE d.data[1] = id
  <2>2. ASSUME NEW e \in BagToSet(B), NEW k
        PROVE  (e \in BagToSet(C) /\ k \in 1..C[e]) <=>
                 k \in 1..B[e] /\ ~(e = d /\ k = B[d])
    <3>1. CASE e = d
      BY <1>1, <1>2, <3>1
    <3>2. CASE e # d
      BY <1>1, <1>2, <3>2
    <3>. QED
      BY <3>1, <3>2
  <2>3. Copies(C, id) = Copies(B, id) \ {<<d, B[d]>>}
    <3>1. \A x : x \in Copies(C, id) <=>
                   \E e \in BagToSet(C) : \E k : x = <<e, k>> /\ e.data[1] = id /\ k \in 1..C[e]
      BY DEF Copies
    <3>2. \A x : x \in Copies(B, id) <=>
                   \E e \in BagToSet(B) : \E k : x = <<e, k>> /\ e.data[1] = id /\ k \in 1..B[e]
      BY DEF Copies
    <3>3. BagToSet(C) \subseteq BagToSet(B)
      BY <1>1
    <3>4. ASSUME NEW x \in Copies(C, id)
          PROVE  x \in Copies(B, id) /\ x # <<d, B[d]>>
      BY <2>2, <3>1, <3>2, <3>3
    <3>5. ASSUME NEW x \in Copies(B, id), x # <<d, B[d]>>
          PROVE  x \in Copies(C, id)
      BY <2>2, <3>1, <3>2, <3>5
    <3>. QED
      BY <3>4, <3>5
  <2>4. <<d, B[d]>> \in Copies(B, id)
    BY <1>2, <1>4 DEF Copies
  <2>5. /\ IsFiniteSet(Copies(B, id) \ {<<d, B[d]>>})
        /\ Cardinality(Copies(B, id) \ {<<d, B[d]>>}) = Cardinality(Copies(B, id)) - 1
    BY <2>4, FS_RemoveElement
  <2>. QED
    BY <1>4, <2>3, <2>5 DEF C
<1>. QED
  BY <1>3, <1>4

\* Positions in a sequence are finitely many, none if there is no element, one
\* more or none when an element is appended ...
LEMMA Positions ==
  ASSUME NEW n \in Nat, NEW I \in SUBSET (1..n)
  PROVE  /\ IsFiniteSet(I) /\ Cardinality(I) \in Nat
         /\ (n + 1) \notin I /\ Cardinality(I \cup {n + 1}) = Cardinality(I) + 1
<1>1. IsFiniteSet(1..n)
  BY FS_Interval
<1>2. IsFiniteSet(I)
  BY <1>1, FS_Subset
<1>3. (n + 1) \notin I
  OBVIOUS
<1>. QED
  BY <1>2, <1>3, FS_AddElement, FS_CardinalityType

\* ... and one less or none when the first one is taken.
LEMMA PositionsOfTail ==
  ASSUME NEW n \in Nat, n > 0, NEW I \in SUBSET (1..n)
  PROVE  Cardinality({i \in 1..(n - 1) : i + 1 \in I}) =
           Cardinality(I) - (IF 1 \in I THEN 1 ELSE 0)
<1>. DEFINE J == {i \in 1..(n - 1) : i + 1 \in I}
            f == [i \in J |-> i + 1]
<1>1. IsFiniteSet(I) /\ Cardinality(I) \in Nat
  BY Positions
<1>2. IsFiniteSet(J)
  <2>1. n - 1 \in Nat
    OBVIOUS
  <2>. QED
    BY <2>1, Positions
<1>3. f \in Bijection(J, I \ {1})
  <2>1. f \in [J -> I \ {1}]
    OBVIOUS
  <2>2. \A a, b \in J : f[a] = f[b] => a = b
    OBVIOUS
  <2>3. \A t \in I \ {1} : \E s \in J : f[s] = t
    <3>1. ASSUME NEW t \in I \ {1}
          PROVE  t - 1 \in J /\ f[t - 1] = t
      OBVIOUS
    <3>. QED
      BY <3>1
  <2>. HIDE DEF f, J
  <2>. QED
    BY <2>1, <2>2, <2>3, Fun_IsBij
<1>. HIDE DEF f, J
<1>4. Cardinality(I \ {1}) = Cardinality(J)
  BY <1>2, <1>3, FS_Bijection DEF ExistsBijection
<1>5. Cardinality(I \ {1}) = Cardinality(I) - (IF 1 \in I THEN 1 ELSE 0)
  BY <1>1, FS_RemoveElement
<1>. QED
  BY <1>4, <1>5 DEF J

\* The positions of what carries an id in a sequence of datagrams ...
DataPlaces(s, id) == {i \in DOMAIN s : s[i].data[1] = id}

\* Their number after one more at the end, and without the first.
LEMMA DataPlacesStep ==
  ASSUME NEW T, NEW s \in Seq(T), NEW id
  PROVE  /\ Cardinality(DataPlaces(s, id)) \in Nat
         /\ \A d \in T : Cardinality(DataPlaces(Append(s, d), id)) =
              Cardinality(DataPlaces(s, id)) + (IF d.data[1] = id THEN 1 ELSE 0)
         /\ s # <<>> => Cardinality(DataPlaces(Tail(s), id)) =
              Cardinality(DataPlaces(s, id)) - (IF Head(s).data[1] = id THEN 1 ELSE 0)
<1>. DEFINE n == Len(s)
            I == DataPlaces(s, id)
<1>1. n \in Nat /\ DOMAIN s = 1..n /\ I \in SUBSET (1..n)
  BY DEF DataPlaces
<1>2. ASSUME NEW d \in T
      PROVE  DataPlaces(Append(s, d), id) = IF d.data[1] = id THEN I \cup {n + 1} ELSE I
  BY AppendProperties DEF DataPlaces
<1>3. ASSUME s # <<>>
      PROVE  /\ DataPlaces(Tail(s), id) = {i \in 1..(n - 1) : i + 1 \in I}
             /\ n > 0 /\ (1 \in I <=> Head(s).data[1] = id)
  BY <1>3, HeadTailProperties, EmptySeq DEF DataPlaces
<1>. HIDE DEF n, I
<1>4. /\ Cardinality(I) \in Nat
      /\ Cardinality(I \cup {n + 1}) = Cardinality(I) + 1
  BY <1>1, Positions
<1>5. ASSUME s # <<>>
      PROVE  Cardinality(DataPlaces(Tail(s), id)) =
               Cardinality(I) - (IF Head(s).data[1] = id THEN 1 ELSE 0)
  BY <1>1, <1>3, <1>5, PositionsOfTail
<1>6. ASSUME NEW d \in T
      PROVE  Cardinality(DataPlaces(Append(s, d), id)) =
               Cardinality(I) + (IF d.data[1] = id THEN 1 ELSE 0)
  <2>1. CASE d.data[1] = id
    BY <1>2, <1>4, <2>1, Zenon
  <2>2. CASE d.data[1] # id
    <3>1. Cardinality(I) + 0 = Cardinality(I)
      BY <1>4
    <3>. QED
      BY <1>2, <2>2, <3>1, Zenon
  <2>. QED
    BY <2>1, <2>2
<1>. QED
  BY <1>4, <1>5, <1>6 DEF I

\* ... and in one of words.
WordPlaces(s, id) == {i \in DOMAIN s : s[i][1] = id}

\* Their number.
LEMMA WordPlacesStep ==
  ASSUME NEW T, NEW s \in Seq(T), NEW id
  PROVE  /\ Cardinality(WordPlaces(s, id)) \in Nat
         /\ \A w \in T : Cardinality(WordPlaces(Append(s, w), id)) =
              Cardinality(WordPlaces(s, id)) + (IF w[1] = id THEN 1 ELSE 0)
         /\ s # <<>> => Cardinality(WordPlaces(Tail(s), id)) =
              Cardinality(WordPlaces(s, id)) - (IF Head(s)[1] = id THEN 1 ELSE 0)
<1>. DEFINE n == Len(s)
            I == WordPlaces(s, id)
<1>1. n \in Nat /\ DOMAIN s = 1..n /\ I \in SUBSET (1..n)
  BY DEF WordPlaces
<1>2. ASSUME NEW w \in T
      PROVE  WordPlaces(Append(s, w), id) = IF w[1] = id THEN I \cup {n + 1} ELSE I
  BY AppendProperties DEF WordPlaces
<1>3. ASSUME s # <<>>
      PROVE  /\ WordPlaces(Tail(s), id) = {i \in 1..(n - 1) : i + 1 \in I}
             /\ n > 0 /\ (1 \in I <=> Head(s)[1] = id)
  BY <1>3, HeadTailProperties, EmptySeq DEF WordPlaces
<1>. HIDE DEF n, I
<1>4. /\ Cardinality(I) \in Nat
      /\ Cardinality(I \cup {n + 1}) = Cardinality(I) + 1
  BY <1>1, Positions
<1>5. ASSUME s # <<>>
      PROVE  Cardinality(WordPlaces(Tail(s), id)) =
               Cardinality(I) - (IF Head(s)[1] = id THEN 1 ELSE 0)
  BY <1>1, <1>3, <1>5, PositionsOfTail
<1>6. ASSUME NEW w \in T
      PROVE  Cardinality(WordPlaces(Append(s, w), id)) =
               Cardinality(I) + (IF w[1] = id THEN 1 ELSE 0)
  <2>1. CASE w[1] = id
    BY <1>2, <1>4, <2>1, Zenon
  <2>2. CASE w[1] # id
    <3>1. Cardinality(I) + 0 = Cardinality(I)
      BY <1>4
    <3>. QED
      BY <1>2, <2>2, <3>1, Zenon
  <2>. QED
    BY <2>1, <2>2
<1>. QED
  BY <1>4, <1>5, <1>6 DEF I

\* What of a sequence remains when its first element is taken, or joins when one
\* is appended.
LEMMA Elements ==
  ASSUME NEW T, NEW s \in Seq(T)
  PROVE  /\ s # <<>> => /\ Head(s) \in T /\ Tail(s) \in Seq(T) /\ Len(s) >= 1
                        /\ 1 \in DOMAIN s /\ Head(s) = s[1]
                        /\ \A i \in DOMAIN Tail(s) : i + 1 \in DOMAIN s /\ Tail(s)[i] = s[i + 1]
         /\ \A e \in T : /\ Append(s, e) \in Seq(T)
                         /\ \A i \in DOMAIN Append(s, e) :
                              \/ i \in DOMAIN s /\ Append(s, e)[i] = s[i]
                              \/ i = Len(s) + 1 /\ Append(s, e)[i] = e
<1>1. DOMAIN s = 1..Len(s) /\ Len(s) \in Nat
  OBVIOUS
<1>2. ASSUME s # <<>>
      PROVE  /\ Head(s) \in T /\ Tail(s) \in Seq(T) /\ Len(s) >= 1
             /\ 1 \in DOMAIN s /\ Head(s) = s[1]
             /\ \A i \in DOMAIN Tail(s) : i + 1 \in DOMAIN s /\ Tail(s)[i] = s[i + 1]
  BY <1>1, <1>2, HeadTailProperties, EmptySeq
<1>3. ASSUME NEW e \in T
      PROVE  /\ Append(s, e) \in Seq(T)
             /\ \A i \in DOMAIN Append(s, e) :
                  \/ i \in DOMAIN s /\ Append(s, e)[i] = s[i]
                  \/ i = Len(s) + 1 /\ Append(s, e)[i] = e
  BY <1>1, AppendProperties
<1>. QED
  BY <1>2, <1>3
-----------------------------------------------------------------------------
(* Words.                                                                  *)

\* The device speaks the same protocol: the same numbers, ...
LEMMA Numbers ==
  /\ HeaderSize = 3 /\ ConfigSize = 4 /\ SYS_IOSTACK = 0 /\ SYS_FLASHER = 2
  /\ CMD_READ_REG = 0 /\ CMD_WRITE_REG = 1 /\ CMD_PING = 2 /\ ERR_REPORT = 255
  /\ CMD_START_TEMPERATURE = 1 /\ CMD_READ_TEMPERATURE = 2 /\ CMD_READ_SERIAL_NO = 3
  /\ CMD_REPORT_FLASHERCTL_ERR = 65535
  /\ Flasher!HeaderSize = 3 /\ Flasher!SYS_IOSTACK = 0 /\ Flasher!SYS_FLASHER = 2
  /\ Flasher!CMD_PING = 2 /\ Flasher!CMD_START_TEMPERATURE = 1
  /\ Flasher!CMD_READ_TEMPERATURE = 2 /\ Flasher!CMD_READ_SERIAL_NO = 3
  /\ Flasher!Setters = {0, 4, 5, 6} /\ Flasher!OKAY = 0
  /\ Flasher!ConfigSize = 4 /\ Flasher!CMD_READ_REG = 0 /\ Flasher!CMD_WRITE_REG = 1
  /\ Flasher!REG_ETH_CFG = 0 /\ Flasher!ERR_REPORT = 255
  /\ Flasher!CMD_REPORT_FLASHERCTL_ERR = 65535
BY DEF HeaderSize, ConfigSize, SYS_IOSTACK, SYS_FLASHER, CMD_READ_REG, CMD_WRITE_REG,
       CMD_PING, ERR_REPORT, CMD_START_TEMPERATURE, CMD_READ_TEMPERATURE,
       CMD_READ_SERIAL_NO, CMD_REPORT_FLASHERCTL_ERR,
       Flasher!HeaderSize, Flasher!SYS_IOSTACK, Flasher!SYS_FLASHER, Flasher!CMD_PING,
       Flasher!CMD_START_TEMPERATURE, Flasher!CMD_READ_TEMPERATURE,
       Flasher!CMD_READ_SERIAL_NO, Flasher!Setters, Flasher!OKAY, Flasher!ConfigSize,
       Flasher!CMD_READ_REG, Flasher!CMD_WRITE_REG, Flasher!REG_ETH_CFG,
       Flasher!ERR_REPORT, Flasher!CMD_REPORT_FLASHERCTL_ERR, Flasher!CMD_LED_BUILTIN,
       Flasher!CMD_SET_LED_CURRENT, Flasher!CMD_SET_PULSE_WIDTH, Flasher!CMD_TEST_PULSE

\* ... the same formats, ...
LEMMA Formats ==
  /\ \A a, b, c : Flasher!Header(a, b, c) = Header(a, b, c)
  /\ \A q : Flasher!ConfigOf(q) = ConfigOf(q)
  /\ \A d : Flasher!Payload(d) = Payload(d)
  /\ \A d : Flasher!Sys(d) = d[2] /\ Flasher!Code(d) = d[3]
  /\ \A d, sys, code : Flasher!Names(d, sys, code) <=> d[2] = sys /\ d[3] = code
BY DEF Flasher!Header, Header, Flasher!ConfigOf, ConfigOf, Flasher!Payload, Payload,
       Flasher!Names, Flasher!Sys, Flasher!Code, Flasher!HeaderSize, HeaderSize

\* ... the same requests ...
LEMMA Kinds ==
  /\ \A d, code : Flasher!Bare(d, code) <=> d[2] = 2 /\ d[3] = code /\ Len(d) = 3
  /\ \A d : Flasher!IsConfigRead(d) <=> d[2] = 0 /\ d[3] = 0 /\ Payload(d) = <<0, 0>>
  /\ \A d : Flasher!IsConfigWrite(d) <=>
              /\ Len(d) = 9 /\ d[2] = 0 /\ d[3] = 1
              /\ Payload(d)[1] = 0 /\ Payload(d)[2] = 0
  /\ \A d : Flasher!Sets(d) <=>
              /\ d[2] = 2 /\ d[3] \in {0, 4, 5, 6} /\ Len(d) = 4
              /\ Payload(d)[1] <= Flasher!Largest(d[3])
BY Numbers, Formats DEF Flasher!Bare, Flasher!IsConfigRead, Flasher!IsConfigWrite,
                        Flasher!Sets

\* ... and the same replies.
LEMMA Replies ==
  ASSUME NEW d
  PROVE  /\ Flasher!Errors(d) = {Header(d[1], 0, 255) \o <<e>> : e \in {1, 2, 3, 4, 5}}
         /\ Flasher!FlasherErrors(d) = {Header(d[1], 2, 65535) \o <<e>> : e \in {1, 2}}
         /\ Flasher!Payloads(d) =
              Flasher!Echoes(d) \cup {cfg, <<0>>, <<>>}
                \cup {<<v>> : v \in Temperatures \cup Serials}
BY DEF Header, Flasher!Header, Flasher!SYS_IOSTACK, Flasher!SYS_FLASHER,
       Flasher!ERR_REPORT, Flasher!CMD_REPORT_FLASHERCTL_ERR,
       Flasher!Errors, Flasher!FlasherErrors, Flasher!UNKNOWN_SUBSYSTEM,
       Flasher!UNKNOWN_COMMAND, Flasher!INVALID_SIZE, Flasher!INVALID_REGISTER,
       Flasher!INVALID_MAC, Flasher!FLASHER_EBVALUE, Flasher!FLASHER_ESERIALNO,
       Flasher!Payloads, Flasher!Payload, Payload, HeaderSize, Flasher!HeaderSize,
       Flasher!OKAY

\* A part of a sequence of words.
LEMMA Part ==
  ASSUME NEW w \in Seq(Int), NEW a \in Nat \ {0}, NEW m \in Nat, m <= Len(w), a <= m + 1
  PROVE  /\ SubSeq(w, a, m) \in Seq(Int) /\ Len(SubSeq(w, a, m)) = m + 1 - a
         /\ \A i \in 1..(m + 1 - a) : SubSeq(w, a, m)[i] = w[a + i - 1]
<1>1. a \in Int /\ m \in Int /\ \A i \in a..m : w[i] \in Int
  OBVIOUS
<1>2. /\ SubSeq(w, a, m) \in Seq(Int)
      /\ Len(SubSeq(w, a, m)) = IF a <= m THEN m - a + 1 ELSE 0
      /\ \A i \in 1..(m - a + 1) : SubSeq(w, a, m)[i] = w[a + i - 1]
  BY <1>1, SubSeqProperties
<1>3. m - a + 1 = m + 1 - a /\ (IF a <= m THEN m - a + 1 ELSE 0) = m + 1 - a
  OBVIOUS
<1>. QED
  BY <1>2, <1>3, Zenon

\* The words after the header.
LEMMA Rest ==
  ASSUME NEW w \in Seq(Int), Len(w) >= 3
  PROVE  /\ Payload(w) \in Seq(Int) /\ Len(Payload(w)) = Len(w) - 3
         /\ \A i \in 1..(Len(w) - 3) : Payload(w)[i] = w[3 + i]
<1>. DEFINE n == Len(w)
<1>1. n \in Nat /\ n <= Len(w) /\ 4 <= n + 1 /\ 4 \in Nat \ {0}
  OBVIOUS
<1>2. /\ SubSeq(w, 4, n) \in Seq(Int) /\ Len(SubSeq(w, 4, n)) = n + 1 - 4
      /\ \A i \in 1..(n + 1 - 4) : SubSeq(w, 4, n)[i] = w[4 + i - 1]
  BY <1>1, Part, Zenon
<1>3. Payload(w) = SubSeq(w, 4, n)
  BY DEF Payload, HeaderSize
<1>. HIDE DEF n
<1>4. n + 1 - 4 = n - 3 /\ \A i \in 1..(n - 3) : 4 + i - 1 = 3 + i
  BY <1>1
<1>. QED
  BY <1>2, <1>3, <1>4, Zenon DEF n

\* The parts of a datagram.
Parts(w, id, sys, code, p) ==
  /\ w \in Seq(Int) /\ Len(w) = 3 + Len(p)
  /\ w[1] = id /\ w[2] = sys /\ w[3] = code /\ Payload(w) = p

\* Header and payload of a datagram are found again in it.
LEMMA HeaderAndPayload ==
  ASSUME NEW id \in Int, NEW sys \in Int, NEW code \in Int, NEW p \in Seq(Int)
  PROVE  Parts(Header(id, sys, code) \o p, id, sys, code, p)
<1>. DEFINE h == Header(id, sys, code)
            w == h \o p
<1>1. h \in Seq(Int) /\ Len(h) = 3 /\ h[1] = id /\ h[2] = sys /\ h[3] = code
  BY DEF Header
<1>. HIDE DEF h
<1>2. /\ w \in Seq(Int) /\ Len(w) = Len(h) + Len(p)
      /\ \A i \in 1..(Len(h) + Len(p)) :
           w[i] = IF i <= Len(h) THEN h[i] ELSE p[i - Len(h)]
  BY <1>1, ConcatProperties, Zenon
<1>. HIDE DEF w
<1>3. Len(p) \in Nat
  OBVIOUS
<1>4. w[1] = id /\ w[2] = sys /\ w[3] = code
  BY <1>1, <1>2, <1>3
<1>5. Payload(w) = p
  <2>1. /\ Payload(w) \in Seq(Int) /\ Len(Payload(w)) = Len(w) - 3
        /\ \A i \in 1..(Len(w) - 3) : Payload(w)[i] = w[3 + i]
    <3>1. w \in Seq(Int) /\ Len(w) >= 3
      BY <1>1, <1>2, <1>3
    <3>. QED
      BY <3>1, Rest, Zenon
  <2>2. Len(w) - 3 = Len(p) /\ \A i \in 1..Len(p) : w[3 + i] = p[i]
    <3>1. Len(w) - 3 = Len(p)
      BY <1>1, <1>2, <1>3
    <3>2. ASSUME NEW i \in 1..Len(p)
          PROVE  w[3 + i] = p[i]
      <4>. DEFINE j == 3 + i
      <4>1. j \in 1..(Len(h) + Len(p)) /\ ~(j <= Len(h)) /\ j - Len(h) = i
        BY <1>1, <1>3
      <4>. HIDE DEF j
      <4>2. w[j] = IF j <= Len(h) THEN h[j] ELSE p[j - Len(h)]
        BY <1>2, <4>1
      <4>3. w[j] = p[i]
        BY <4>1, <4>2, Zenon
      <4>. QED
        BY <4>3 DEF j
    <3>. QED
      BY <3>1, <3>2
  <2>3. Len(Payload(w)) = Len(p) /\ \A i \in 1..Len(p) : Payload(w)[i] = p[i]
    BY <2>1, <2>2, Zenon
  <2>. QED
    BY <2>1, <2>3, SeqEqual
<1>. QED
  BY <1>1, <1>2, <1>4, <1>5 DEF h, w, Parts

\* The datagram of a call.
LEMMA DatagramWords ==
  ASSUME NEW id \in Int, NEW o \in Op
  PROVE  LET d == Datagram(id, o) IN
         /\ d.from = Me /\ d.data \in Seq(Int) /\ Len(d.data) = 3 + Len(o.payload)
         /\ d.data[1] = id /\ d.data[2] = o.sys /\ d.data[3] = o.code
         /\ Payload(d.data) = o.payload
<1>1. o.sys \in Int /\ o.code \in Int /\ o.payload \in Seq(Int)
  BY DEF Op
<1>2. /\ Datagram(id, o).from = Me
      /\ Datagram(id, o).data = Header(id, o.sys, o.code) \o o.payload
  BY DEF Datagram
<1>3. Parts(Datagram(id, o).data, id, o.sys, o.code, o.payload)
  BY <1>1, <1>2, HeaderAndPayload, Zenon
<1>. QED
  BY <1>2, <1>3, Zenon DEF Parts

\* Every request is from the client, and its id is one of the client's.
LEMMA RequestWords ==
  ASSUME NEW d \in AllRequests
  PROVE  /\ d.from = Me /\ d.data \in Seq(Int) /\ Len(d.data) >= 3
         /\ d.data[1] \in 0..(IdMod - 1)
<1>1. PICK id \in 0..(IdMod - 1), o \in Ops : d = Datagram(id, o)
  BY DEF AllRequests
<1>2. o \in Op /\ id \in Int /\ Len(o.payload) \in Nat
  BY SystemAssumption DEF Op
<1>3. /\ d.from = Me /\ d.data \in Seq(Int) /\ Len(d.data) = 3 + Len(o.payload)
      /\ d.data[1] = id
  BY <1>1, <1>2, DatagramWords
<1>. QED
  BY <1>2, <1>3

\* The words of an error.
LEMMA ErrorWords ==
  ASSUME NEW data, data[1] \in Int,
         NEW w \in Flasher!Errors(data) \cup Flasher!FlasherErrors(data)
  PROVE  /\ w \in Seq(Int) /\ Len(w) = 4 /\ w[1] = data[1]
         /\ w \in Flasher!Errors(data) =>
              w[2] = 0 /\ w[3] = 255 /\ Payload(w)[1] \in {1, 2, 3, 4, 5}
         /\ w \in Flasher!FlasherErrors(data) =>
              w[2] = 2 /\ w[3] = 65535 /\ Payload(w)[1] \in {1, 2}
<1>1. ASSUME NEW sys \in Int, NEW code \in Int, NEW e \in Int
      PROVE  LET v == Header(data[1], sys, code) \o <<e>> IN
             Parts(v, data[1], sys, code, <<e>>) /\ Len(v) = 4
  <2>1. <<e>> \in Seq(Int) /\ 3 + Len(<<e>>) = 4
    OBVIOUS
  <2>2. Parts(Header(data[1], sys, code) \o <<e>>, data[1], sys, code, <<e>>)
    BY <2>1, HeaderAndPayload, Zenon
  <2>. QED
    BY <2>1, <2>2, Zenon DEF Parts
<1>2. ASSUME w \in Flasher!Errors(data)
      PROVE  \E e \in {1, 2, 3, 4, 5} : Parts(w, data[1], 0, 255, <<e>>) /\ Len(w) = 4
  <2>. DEFINE code == 255
  <2>1. PICK e \in {1, 2, 3, 4, 5} : w = Header(data[1], 0, code) \o <<e>>
    BY <1>2, Replies, SMTT(40)
  <2>2. 0 \in Int /\ code \in Int /\ e \in Int
    OBVIOUS
  <2>. HIDE DEF code
  <2>3. Parts(w, data[1], 0, code, <<e>>) /\ Len(w) = 4
    BY <1>1, <2>1, <2>2, Zenon
  <2>. QED
    BY <2>3 DEF code
<1>3. ASSUME w \in Flasher!FlasherErrors(data)
      PROVE  \E e \in {1, 2} : Parts(w, data[1], 2, 65535, <<e>>) /\ Len(w) = 4
  <2>. DEFINE code == 65535
  <2>1. PICK e \in {1, 2} : w = Header(data[1], 2, code) \o <<e>>
    BY <1>3, Replies, SMTT(40)
  <2>2. 2 \in Int /\ code \in Int /\ e \in Int
    OBVIOUS
  <2>. HIDE DEF code
  <2>3. Parts(w, data[1], 2, code, <<e>>) /\ Len(w) = 4
    BY <1>1, <2>1, <2>2, Zenon
  <2>. QED
    BY <2>3 DEF code
<1>4. \A e : <<e>>[1] = e
  OBVIOUS
<1>. QED
  BY <1>2, <1>3, <1>4 DEF Parts

\* The words of an echo, which is the payload of the ping if that fits.
LEMMA EchoWords ==
  ASSUME NEW w \in Seq(Int), Len(w) >= 3, NEW e \in Flasher!Echoes(w)
  PROVE  /\ e \in Seq(Int)
         /\ Len(Payload(w)) <= iostack_max_payload_size => e = Payload(w)
<1>. DEFINE p == Payload(w)
            room == iostack_max_payload_size
            k == Len(p) - room
            s == SubSeq(p, 1, room)
<1>1. p \in Seq(Int) /\ Len(p) \in Nat /\ room \in Nat
  BY Rest, SystemAssumption
<1>2. IF Len(p) <= room THEN e = p ELSE \E m \in [1..k -> MemoryWords] : e = s \o m
  BY Formats DEF Flasher!Echoes, Flasher!Found
<1>. HIDE DEF p, room
<1>3. CASE Len(p) <= room
  BY <1>1, <1>2, <1>3 DEF p, room
<1>4. CASE ~(Len(p) <= room)
  <2>1. PICK m \in [1..k -> MemoryWords] : e = s \o m
    BY <1>2, <1>4
  <2>2. k \in Nat /\ s \in Seq(Int)
    BY <1>1, <1>4, Part
  <2>. HIDE DEF k, s
  <2>3. m \in [1..k -> Int]
    BY SystemAssumption, Zenon
  <2>4. \A n \in Nat : \A f \in [1..n -> Int] : f \in Seq(Int)
    OBVIOUS
  <2>5. e \in Seq(Int)
    BY <2>1, <2>2, <2>3, <2>4, ConcatProperties
  <2>. QED
    BY <1>4, <2>5 DEF p, room
<1>. QED
  BY <1>3, <1>4

\* What the device makes of a request.
LEMMA ExecutionAnswers ==
  ASSUME ConfigInv, Flasher!Execute, NEW d \in AllRequests, Head(inbox) = d
  PROVE  /\ answer'.data \in Seq(Int) /\ Len(answer'.data) >= 3
         /\ answer' \in AllReplies /\ answer' # Flasher!NoAnswer
         /\ answer'.data[1] = d.data[1] /\ Answers(answer'.data, d.data)
         /\ ConfigInv'
<1>. DEFINE data == d.data
<1>1. /\ d.from = Me /\ data \in Seq(Int) /\ Len(data) >= 3
      /\ data[1] \in Int /\ data[2] \in Int /\ data[3] \in Int
  BY RequestWords
<1>2. ~Flasher!Valid(data) => ~Performs(data)
  BY Numbers DEF Flasher!Valid, Performs
<1>. HIDE DEF data
<1>3. ASSUME NEW reply \in Flasher!Errors(data) \cup Flasher!FlasherErrors(data),
             \/ Flasher!Refuse(data, reply)
             \/ /\ Flasher!Bare(data, Flasher!CMD_READ_SERIAL_NO)
                /\ reply \in Flasher!FlasherErrors(data) /\ Flasher!Keep
      PROVE  /\ reply \in Seq(Int) /\ Len(reply) >= 3 /\ reply[1] = data[1]
             /\ Answers(reply, data) /\ ConfigInv'
  <2>1. ConfigInv'
    BY <1>3 DEF Flasher!Refuse, Flasher!Keep, ConfigInv, Flasher!NoStored
  <2>2. ASSUME Flasher!Refuse(data, reply)
        PROVE  Answers(reply, data)
    BY <1>2, <2>2, Numbers, Formats DEF Flasher!Refuse, Answers
  <2>3. ASSUME /\ Flasher!Bare(data, Flasher!CMD_READ_SERIAL_NO)
               /\ reply \in Flasher!FlasherErrors(data)
        PROVE  Answers(reply, data)
    BY <2>3, Numbers, Kinds DEF Answers
  <2>4. reply \in Seq(Int) /\ Len(reply) = 4 /\ reply[1] = data[1]
    BY <1>1, ErrorWords
  <2>. QED
    BY <1>3, <2>1, <2>2, <2>3, <2>4
<1>4. ASSUME NEW payload \in Flasher!Payloads(data), Flasher!Perform(data, payload)
      PROVE  LET w == Flasher!Header(data[1], data[2], data[3]) \o payload IN
             /\ w \in Seq(Int) /\ Len(w) >= 3 /\ w[1] = data[1]
             /\ Answers(w, data) /\ ConfigInv'
  <2>. DEFINE w == Flasher!Header(data[1], data[2], data[3]) \o payload
  <2>1. payload \in Seq(Int) /\ Len(payload) \in Nat
    <3>1. \A e \in Flasher!Echoes(data) : e \in Seq(Int)
      BY <1>1, EchoWords
    <3>2. cfg \in Seq(Int)
      BY DEF ConfigInv, IsConfig
    <3>3. \A v \in Temperatures \cup Serials \cup {0} : <<v>> \in Seq(Int)
      BY SystemAssumption
    <3>4. <<>> \in Seq(Int)
      OBVIOUS
    <3>5. payload \in Seq(Int)
      <4>1. CASE payload \in {<<v>> : v \in Temperatures \cup Serials}
        BY <3>3, <4>1
      <4>2. CASE payload \in Flasher!Echoes(data)
        BY <3>1, <4>2
      <4>3. CASE payload \in {cfg, <<0>>, <<>>}
        BY <3>2, <3>3, <3>4, <4>3
      <4>. QED
        BY <4>1, <4>2, <4>3, Replies
    <3>. QED
      BY <3>5
  <2>2. /\ w \in Seq(Int) /\ Len(w) = 3 + Len(payload)
        /\ w[1] = data[1] /\ w[2] = data[2] /\ w[3] = data[3] /\ Payload(w) = payload
    <3>1. w = Header(data[1], data[2], data[3]) \o payload
      BY Formats
    <3>. HIDE DEF w
    <3>2. Parts(w, data[1], data[2], data[3], payload)
      BY <1>1, <2>1, <3>1, HeaderAndPayload, Zenon
    <3>. QED
      BY <3>2 DEF Parts
  <2>. HIDE DEF w
  <2>3. Fruit(data, payload)
    <3>1. Len(cfg) = 4
      BY Numbers DEF ConfigInv, IsConfig
    <3>2. ASSUME NEW S, payload \in {<<v>> : v \in S}
          PROVE  Len(payload) = 1
      BY <3>2
    <3>3. ASSUME payload \in Flasher!Echoes(data),
                 Len(Payload(data)) <= iostack_max_payload_size
          PROVE  payload = Payload(data)
      BY <1>1, <3>3, EchoWords
    <3>. QED
      BY <1>4, <3>1, <3>2, <3>3, Numbers, Formats DEF Flasher!Perform, Fruit
  <2>4. ConfigInv'
    <3>1. CASE Flasher!Keep \/ UNCHANGED <<cfg, stored>>
      BY <3>1 DEF Flasher!Keep, ConfigInv, Flasher!NoStored
    <3>2. CASE /\ Flasher!IsConfigWrite(data)
               /\ cfg' = Flasher!ConfigOf(Flasher!Payload(data)) /\ stored' = cfg'
      <4>. DEFINE q == Payload(data)
      <4>1. q \in Seq(Int) /\ Len(q) = 6
        <5>1. q \in Seq(Int) /\ Len(q) = Len(data) - 3
          BY <1>1, Rest, Zenon
        <5>2. Len(data) = 9
          BY <3>2, Kinds
        <5>. QED
          BY <5>1, <5>2
      <4>2. cfg' = <<q[3], q[4], q[5], q[6]>>
        BY <3>2, Formats DEF ConfigOf
      <4>. HIDE DEF q
      <4>3. q[3] \in Int /\ q[4] \in Int /\ q[5] \in Int /\ q[6] \in Int
        <5>1. \A i \in 1..6 : q[i] \in Int
          BY <4>1, ElementOfSeq
        <5>. QED
          BY <5>1
      <4>4. cfg' \in Seq(Int) /\ Len(cfg') = 4
        BY <4>2, <4>3
      <4>. QED
        BY <3>2, <4>4, Numbers DEF ConfigInv, IsConfig
    <3>. QED
      BY <1>4, <3>1, <3>2 DEF Flasher!Perform
  <2>. QED
    BY <2>1, <2>2, <2>3, <2>4 DEF Answers, w
<1>5. CASE \E reply \in Flasher!Errors(data) \cup Flasher!FlasherErrors(data) :
             /\ \/ Flasher!Refuse(data, reply)
                \/ /\ Flasher!Bare(data, Flasher!CMD_READ_SERIAL_NO)
                   /\ reply \in Flasher!FlasherErrors(data) /\ Flasher!Keep
             /\ Flasher!AnswerWith(reply)
  <2>1. PICK reply \in Flasher!Errors(data) \cup Flasher!FlasherErrors(data) :
          /\ \/ Flasher!Refuse(data, reply)
             \/ /\ Flasher!Bare(data, Flasher!CMD_READ_SERIAL_NO)
                /\ reply \in Flasher!FlasherErrors(data) /\ Flasher!Keep
          /\ Flasher!AnswerWith(reply)
    BY <1>5
  <2>2. answer' = [to |-> Me, data |-> reply] /\ answer' # Flasher!NoAnswer
    BY <1>1, <2>1 DEF Flasher!AnswerWith, Flasher!NoAnswer
  <2>3. /\ reply \in Seq(Int) /\ Len(reply) >= 3 /\ reply[1] = data[1]
        /\ Answers(reply, data) /\ ConfigInv'
    BY <1>3, <2>1
  <2>. QED
    BY <2>2, <2>3 DEF data, AllReplies
<1>6. CASE \E payload \in Flasher!Payloads(data) :
             /\ Flasher!Perform(data, payload)
             /\ Flasher!AnswerWith(Flasher!Header(data[1], data[2], data[3]) \o payload)
  <2>1. PICK payload \in Flasher!Payloads(data) :
          /\ Flasher!Perform(data, payload)
          /\ Flasher!AnswerWith(Flasher!Header(data[1], data[2], data[3]) \o payload)
    BY <1>6
  <2>. DEFINE w == Flasher!Header(data[1], data[2], data[3]) \o payload
  <2>2. answer' = [to |-> Me, data |-> w] /\ answer' # Flasher!NoAnswer
    <3>1. answer' = [to |-> Head(inbox).from, data |-> w]
      BY <2>1 DEF Flasher!AnswerWith
    <3>. HIDE DEF w
    <3>. QED
      BY <1>1, <3>1 DEF Flasher!NoAnswer, data
  <2>3. /\ w \in Seq(Int) /\ Len(w) >= 3 /\ w[1] = data[1]
        /\ Answers(w, data) /\ ConfigInv'
    BY <1>4, <2>1
  <2>. HIDE DEF w
  <2>. QED
    BY <2>2, <2>3 DEF data, AllReplies
<1>. QED
  BY <1>5, <1>6 DEF Flasher!Execute, data
-----------------------------------------------------------------------------
(* What the client makes of a reply.                                       *)

\* A call of one of the methods, and room in the buffer for what answers it and in
\* the device's request for a ping.
IsCall(o) ==
  \/ o.method = "request"
  \/ /\ o.method = "ping" /\ o.sys = SYS_IOSTACK /\ o.code = CMD_PING
     /\ Len(o.payload) <= MaxPayload /\ Len(o.payload) <= iostack_max_payload_size
  \/ /\ o.method = "flasher" /\ o.sys = SYS_FLASHER
     /\ o.code \in CMD_LED_BUILTIN..CMD_TEST_PULSE
  \/ /\ o.method = "register" /\ o.sys = SYS_IOSTACK
     /\ o.code \in {CMD_READ_REG, CMD_WRITE_REG} /\ MaxPayload >= ConfigSize

\* The application: calls of the methods, none while another one is suspended.
Application ==
  /\ ~Nesting /\ MaxPayload >= 1
  /\ \A o \in Ops : IsCall(o)

\* The buffer of recv keeps the header, and the whole of a datagram that fits.
LEMMA ReceivedWords ==
  ASSUME NEW w \in Seq(Int), Len(w) >= 3
  PROVE  LET r == Received(w) IN
         /\ r \in Seq(Int) /\ Len(r) >= 3
         /\ r[1] = w[1] /\ r[2] = w[2] /\ r[3] = w[3]
         /\ Len(w) <= 3 + MaxPayload => r = w
<1>. DEFINE m == 3 + MaxPayload
            r == Received(w)
<1>1. m \in Nat /\ m >= 3 /\ r = IF Len(w) > m THEN SubSeq(w, 1, m) ELSE w
  BY ClientAssumption, Numbers DEF Received
<1>2. Len(w) \in Nat
  OBVIOUS
<1>. HIDE DEF m, r
<1>3. CASE Len(w) > m
  <2>1. /\ SubSeq(w, 1, m) \in Seq(Int) /\ Len(SubSeq(w, 1, m)) = m + 1 - 1
        /\ \A i \in 1..(m + 1 - 1) : SubSeq(w, 1, m)[i] = w[1 + i - 1]
    BY <1>1, <1>2, <1>3, Part, SMTT(40)
  <2>2. m + 1 - 1 = m /\ ~(Len(w) <= m) /\ \A i \in 1..m : 1 + i - 1 = i
    BY <1>1, <1>2, <1>3
  <2>3. /\ r \in Seq(Int) /\ Len(r) = m /\ ~(Len(w) <= m)
        /\ \A i \in 1..m : r[i] = w[i]
    BY <1>1, <1>3, <2>1, <2>2, Zenon
  <2>4. 1 \in 1..m /\ 2 \in 1..m /\ 3 \in 1..m
    BY <1>1
  <2>5. r[1] = w[1] /\ r[2] = w[2] /\ r[3] = w[3] /\ Len(r) >= 3
    BY <1>1, <2>3, <2>4
  <2>. QED
    BY <2>3, <2>5 DEF m, r
<1>4. CASE ~(Len(w) > m)
  <2>1. r = w
    BY <1>1, <1>4, Zenon
  <2>. QED
    BY <2>1 DEF r
<1>. QED
  BY <1>3, <1>4

\* How multi_request takes an error, and a response.
LEMMA Judging ==
  ASSUME NEW v, Len(v) \in Nat, Len(v) >= 3, v[1] = request_id
  PROVE  /\ v[2] = 0 /\ v[3] = 255 /\ Len(v) = 4 /\ Payload(v)[1] \in IostackStatus
              => Judge(v) = "RequestError"
         /\ v[2] = op.sys /\ (v[2] = 0 => v[3] \in {0, 1, 2})
              => Judge(v) = "response"
<1>1. ~IsStale(v) /\ ~(Len(v) < HeaderSize) /\ Sys(v) = v[2] /\ Code(v) = v[3]
  BY Numbers DEF IsStale, Id, Sys, Code
<1>2. Judge(v) =
        IF v[2] = 0 /\ v[3] \notin {0, 1, 2, 255} THEN "ResponseError"
        ELSE IF v[2] = 0 /\ v[3] = 255
        THEN IF Len(v) = 4 /\ Payload(v)[1] \in IostackStatus
             THEN "RequestError" ELSE "ResponseError"
        ELSE IF v[2] # op.sys THEN "ResponseError" ELSE "response"
  BY <1>1, Numbers DEF Judge, IostackCommands
<1>. QED
  BY <1>2

\* A late reply is skipped; one to the request of the call is a response or an
\* error it can make sense of.
LEMMA ReplyMakesSense ==
  ASSUME MaxPayload >= 1, op \in Op, IsCall(op), request_id \in Int,
         NEW w, IsReply(w)
  PROVE  LET r == Received(w)
             data == Datagram(request_id, op).data IN
         /\ w[1] # request_id => Judge(r) \in {"skip", "TypeError"}
         /\ w[1] = request_id =>
              \/ Judge(r) = "RequestError" /\ ~Performs(data)
              \/ /\ Judge(r) = "response"
                 /\ \/ /\ Evaluate(r) = "value"
                       /\ \/ op.method = "request" \/ Performs(data)
                          \/ Flasher!IsConfigWrite(data)
                    \/ /\ Evaluate(r) = "RequestError"
                       /\ ~Performs(data) \/ op.code = CMD_READ_SERIAL_NO
<1>. DEFINE r == Received(w)
            data == Datagram(request_id, op).data
<1>1. w \in Seq(Int) /\ Len(w) >= 3 /\ (w[1] = request_id => Answers(w, data))
  BY Numbers DEF IsReply
<1>2. /\ r \in Seq(Int) /\ Len(r) >= 3 /\ r[1] = w[1] /\ r[2] = w[2] /\ r[3] = w[3]
      /\ Len(w) <= 3 + MaxPayload => r = w
  BY <1>1, ReceivedWords
<1>3. /\ data[1] = request_id /\ data[2] = op.sys /\ data[3] = op.code
      /\ Payload(data) = op.payload
  BY DatagramWords
<1>4. Payload(w) \in Seq(Int) /\ Len(Payload(w)) = Len(w) - 3
  BY <1>1, Rest
<1>5. ASSUME Len(Payload(w)) <= MaxPayload
      PROVE  r = w
  BY <1>1, <1>2, <1>4, <1>5, ClientAssumption
<1>. HIDE DEF r, data
<1>6. ASSUME w[1] # request_id
      PROVE  Judge(r) \in {"skip", "TypeError"}
  BY <1>2, <1>6, Numbers DEF Judge, IsStale, Id
<1>7. ASSUME w[1] = request_id, w \in Flasher!Errors(data), ~Performs(data)
      PROVE  Judge(r) = "RequestError"
  <2>1. Len(w) = 4 /\ w[2] = 0 /\ w[3] = 255 /\ Payload(w)[1] \in {1, 2, 3, 4, 5}
    BY <1>3, <1>7, ErrorWords
  <2>2. r = w
    BY <1>4, <1>5, <2>1, ClientAssumption
  <2>3. Payload(w)[1] \in IostackStatus
    BY <2>1 DEF IostackStatus
  <2>. QED
    BY <1>7, <2>1, <2>2, <2>3, Judging
<1>8. ASSUME w[1] = request_id, w \in Flasher!FlasherErrors(data), data[2] = SYS_FLASHER,
             ~Performs(data) \/ Flasher!Bare(data, CMD_READ_SERIAL_NO)
      PROVE  /\ Judge(r) = "response"
             /\ \/ Evaluate(r) = "value" /\ op.method = "request"
                \/ /\ Evaluate(r) = "RequestError"
                   /\ ~Performs(data) \/ op.code = CMD_READ_SERIAL_NO
  <2>1. Len(w) = 4 /\ w[2] = 2 /\ w[3] = 65535 /\ Payload(w)[1] \in {1, 2}
    BY <1>3, <1>8, ErrorWords
  <2>2. r = w
    BY <1>4, <1>5, <2>1, ClientAssumption
  <2>3. op.sys = 2 /\ (~Performs(data) \/ op.code = CMD_READ_SERIAL_NO)
    BY <1>3, <1>8, Numbers, Kinds
  <2>4. Judge(r) = "response"
    <3>1. Len(r) \in Nat /\ Len(r) >= 3 /\ r[1] = request_id /\ r[2] = op.sys /\ r[2] # 0
      BY <1>2, <1>8, <2>1, <2>3
    <3>. QED
      BY <3>1, Judging
  <2>5. CASE op.method = "request"
    BY <2>4, <2>5 DEF Evaluate, Decodes
  <2>6. CASE op.method = "flasher"
    <3>1. op.code # 65535
      BY <2>6 DEF IsCall, CMD_LED_BUILTIN, CMD_TEST_PULSE
    <3>2. Payload(w)[1] \in FlasherStatus
      BY <2>1 DEF FlasherStatus
    <3>. QED
      BY <2>1, <2>2, <2>3, <2>4, <2>6, <3>1, <3>2, Numbers DEF Evaluate, IsOwnCode, Code
  <2>. QED
    BY <2>3, <2>5, <2>6, Numbers DEF IsCall
<1>9. ASSUME w[1] = request_id, w[2] = data[2], w[3] = data[3], Fruit(data, Payload(w))
      PROVE  /\ Judge(r) = "response" /\ Evaluate(r) = "value"
             /\ \/ op.method = "request" \/ Performs(data)
                \/ Flasher!IsConfigWrite(data)
  <2>1. /\ r[1] = request_id /\ Len(r) >= 3 /\ r[2] = op.sys /\ r[3] = op.code
    BY <1>2, <1>3, <1>9
  <2>2. op.sys = 0 => op.code \in {0, 1, 2}
    BY <1>3, <1>9, Numbers, Formats, Kinds DEF Fruit
  <2>3. Judge(r) = "response"
    BY <1>2, <2>1, <2>2, Judging
  <2>4. CASE op.method = "request"
    BY <2>3, <2>4 DEF Evaluate, Decodes
  <2>5. CASE op.method = "ping"
    <3>1. /\ op.sys = 0 /\ op.code = 2 /\ Len(op.payload) <= MaxPayload
          /\ Len(op.payload) <= iostack_max_payload_size
      BY <2>5, Numbers DEF IsCall
    <3>2. Flasher!Names(data, SYS_IOSTACK, CMD_PING) /\ Payload(w) = op.payload
      BY <1>3, <1>9, <3>1, Numbers, Formats, Kinds DEF Fruit
    <3>3. r = w
      BY <1>5, <3>1, <3>2
    <3>. QED
      BY <2>3, <2>5, <3>2, <3>3 DEF Evaluate, Performs
  <2>6. CASE op.method = "flasher"
    <3>1. op.sys = 2
      BY <2>6, Numbers DEF IsCall
    <3>2. /\ \/ Flasher!Sets(data)
             \/ \E code \in {1, 2, 3} : Flasher!Bare(data, code)
          /\ op.code \in {2, 3} => Len(Payload(w)) = 1
      BY <1>3, <1>9, <3>1, Numbers, Formats, Kinds DEF Fruit
    <3>3. op.code \in {2, 3} => Len(Payload(r)) = 1
      BY <1>5, <3>2
    <3>4. Performs(data)
      BY <3>2, Numbers DEF Performs
    <3>. QED
      BY <2>1, <2>3, <2>6, <3>3, <3>4, Numbers DEF Evaluate, Decodes, IsOwnCode, Code
  <2>7. CASE op.method = "register"
    <3>1. op.sys = 0 /\ op.code \in {0, 1} /\ MaxPayload >= 4
      BY <2>7, Numbers DEF IsCall
    <3>2. /\ op.code = 0 => Flasher!IsConfigRead(data) /\ Len(Payload(w)) = 4
          /\ op.code = 1 => Flasher!IsConfigWrite(data)
      BY <1>3, <1>9, <3>1, Numbers, Formats, Kinds DEF Fruit
    <3>3. op.code = 0 => Len(Payload(r)) = 4
      BY <1>5, <3>1, <3>2
    <3>4. Performs(data) \/ Flasher!IsConfigWrite(data)
      BY <3>1, <3>2 DEF Performs
    <3>. QED
      BY <2>3, <2>7, <3>1, <3>3, <3>4, Numbers DEF Evaluate, Decodes
  <2>. QED
    BY <2>4, <2>5, <2>6, <2>7 DEF IsCall
<1>. QED
  BY <1>1, <1>6, <1>7, <1>8, <1>9 DEF Answers, r, data
-----------------------------------------------------------------------------
(* Each conjunct of the invariant is about some of the variables.          *)

\* The types, of the client and of the history;
LEMMA TypeFrame ==
  ASSUME TypeOK,
         UNCHANGED <<state, request_id, op, trials_left, yielded, execs, suspended, result>>
  PROVE  TypeOK'
BY DEF TypeOK

\* the call,
LEMMA CallFrame ==
  ASSUME CallInv, UNCHANGED <<state, request_id, frame, suspended, result>>
  PROVE  CallInv'
BY DEF CallInv, frame

\* the requests,
LEMMA RequestsFrame ==
  ASSUME RequestsInv, UNCHANGED <<request_id, op, requests, inbox>>
  PROVE  RequestsInv'
BY DEF RequestsInv, IsRequest, AllRequests

\* a reply,
LEMMA ReplyFrame ==
  ASSUME NEW w, UNCHANGED <<request_id, op>>
  PROVE  IsReply(w)' <=> IsReply(w)
BY DEF IsReply

\* the replies,
LEMMA RepliesFrame ==
  ASSUME RepliesInv, UNCHANGED <<request_id, op, answer, outbox, replies, socket>>
  PROVE  RepliesInv'
BY ReplyFrame DEF RepliesInv, AllReplies, Flasher!NoAnswer

\* the configurations,
LEMMA ConfigFrame ==
  ASSUME ConfigInv, UNCHANGED <<cfg, stored>>
  PROVE  ConfigInv'
BY DEF ConfigInv, Flasher!NoStored

\* the result, and none of these results says anything of a request,
LEMMA ResultFrame ==
  ASSUME ResultInv, UNCHANGED <<request_id, op>>, UNCHANGED result \/ result' \in {"none",
         "yield", "TimeoutError", "struct.error", "TypeError"}
  PROVE  ResultInv'
BY DEF ResultInv

\* the counts,
LEMMA CountFrame ==
  ASSUME CountInv, UNCHANGED <<request_id, op, trials_left, yielded, execs, requests,
                               inbox, answer, outbox, replies, socket>>
  PROVE  CountInv'
BY DEF CountInv, Untaken, Unserved, Unsent, Travelling, Unread, Answered, Copies,
       Flasher!NoAnswer

\* and the order.
LEMMA OrderFrame ==
  ASSUME OrderInv, UNCHANGED <<request_id, reorders, requests, inbox, execs>>
  PROVE  OrderInv'
BY DEF OrderInv, Age
-----------------------------------------------------------------------------
(* Ids.                                                                    *)

\* The next id, and the age of a datagram, as differences of two ids.
LEMMA Modulo ==
  ASSUME NEW m \in Nat \ {0}, NEW a \in 0..(m - 1), NEW b \in 0..(m - 1)
  PROVE  /\ (a + 1) % m = IF a + 1 = m THEN 0 ELSE a + 1
         /\ (a - b) % m = IF a >= b THEN a - b ELSE a - b + m
<1>1. \A k \in 0..(m - 1) : k % m = k
  OBVIOUS
<1>2. (a + 1) % m = IF a + 1 = m THEN 0 ELSE a + 1
  BY <1>1
<1>3. CASE a >= b
  <2>1. a - b \in 0..(m - 1)
    BY <1>3
  <2>. QED
    BY <1>1, <1>2, <1>3, <2>1
<1>4. CASE a < b
  <2>1. (a - b) % m = a - b + m
    BY <1>4
  <2>. QED
    BY <1>2, <1>4, <2>1
<1>. QED
  BY <1>3, <1>4

\* How many calls the id of a datagram is behind another id.
Behind(id, d) == (id - d.data[1]) % IdMod

\* That is less than the number of ids; behind the next id, which a request does
\* not have, it is one more.
LEMMA Ages ==
  ASSUME NEW id \in 0..(IdMod - 1)
  PROVE  /\ (id + 1) % IdMod \in 0..(IdMod - 1)
         /\ \A d \in AllRequests :
              /\ Behind(id, d) \in Nat
              /\ Behind(id, d) <= 0 <=> d.data[1] = id
              /\ d.data[1] # (id + 1) % IdMod =>
                   Behind((id + 1) % IdMod, d) = Behind(id, d) + 1
<1>. DEFINE next == IF id + 1 = IdMod THEN 0 ELSE id + 1
<1>1. IdMod \in Nat \ {0}
  BY ClientAssumption
<1>2. next = (id + 1) % IdMod /\ next \in 0..(IdMod - 1)
  BY <1>1, Modulo
<1>3. ASSUME NEW d \in AllRequests
      PROVE  /\ Behind(id, d) \in Nat
             /\ Behind(id, d) <= 0 <=> d.data[1] = id
             /\ d.data[1] # next => Behind(next, d) = Behind(id, d) + 1
  <2>. DEFINE i == d.data[1]
  <2>1. i \in 0..(IdMod - 1)
    BY RequestWords
  <2>2. Behind(id, d) = (id - i) % IdMod /\ Behind(next, d) = (next - i) % IdMod
    BY DEF Behind
  <2>. HIDE DEF i
  <2>3. (id - i) % IdMod = IF id >= i THEN id - i ELSE id - i + IdMod
    BY <1>1, <2>1, Modulo
  <2>4. (next - i) % IdMod = IF next >= i THEN next - i ELSE next - i + IdMod
    BY <1>1, <1>2, <2>1, Modulo
  <2>5. /\ Behind(id, d) \in Nat /\ (Behind(id, d) <= 0 <=> i = id)
        /\ i # next => Behind(next, d) = Behind(id, d) + 1
    BY <1>1, <1>2, <2>1, <2>2, <2>3, <2>4
  <2>. QED
    BY <2>5 DEF i
<1>. QED
  BY <1>2, <1>3

\* The order that a network may keep: of the requests D under way and those in s,
\* in a call with a given id whose request was executed n times.
Ordered(id, D, s, n) ==
  /\ \A d \in D, i \in DOMAIN s : Behind(id, d) <= Behind(id, s[i])
  /\ \A i, j \in DOMAIN s : i < j => Behind(id, s[j]) <= Behind(id, s[i])
  /\ n > 0 => /\ \A d \in D : d.data[1] = id
              /\ \A i \in DOMAIN s : s[i].data[1] = id

\* That is the order of the invariant, before and after a step.
LEMMA OrderMeans ==
  /\ OrderInv <=> (~reorders => Ordered(request_id, BagToSet(requests), inbox, execs))
  /\ OrderInv' <=>
       (~reorders' => Ordered(request_id', BagToSet(requests'), inbox', execs'))
BY DEF OrderInv, Age, Ordered, Behind

\* With a new id, ...
LEMMA OrderOfCall ==
  ASSUME NEW id \in 0..(IdMod - 1), NEW D \in SUBSET AllRequests, NEW s \in Seq(AllRequests),
         NEW n, Ordered(id, D, s, n), NEW next, next = (id + 1) % IdMod,
         \A d \in D : d.data[1] # next, \A i \in DOMAIN s : s[i].data[1] # next,
         NEW new \in AllRequests, new.data[1] = next
  PROVE  Ordered(next, D \cup {new}, s, 0)
<1>1. \A i \in DOMAIN s : s[i] \in AllRequests
  OBVIOUS
<1>2. next \in 0..(IdMod - 1)
  BY Ages
<1>3. Behind(next, new) \in Nat /\ Behind(next, new) <= 0
  BY <1>2, Ages
<1>4. \A d \in AllRequests : d.data[1] # next =>
        Behind(id, d) \in Nat /\ Behind(next, d) = Behind(id, d) + 1
  BY Ages
<1>5. ASSUME NEW d \in D \cup {new}, NEW i \in DOMAIN s
      PROVE  Behind(next, d) <= Behind(next, s[i])
  <2>1. Behind(id, s[i]) \in Nat /\ Behind(next, s[i]) = Behind(id, s[i]) + 1
    BY <1>1, <1>4
  <2>2. CASE d = new
    BY <1>3, <2>1, <2>2
  <2>3. CASE d \in D
    <3>1. Behind(id, d) \in Nat /\ Behind(next, d) = Behind(id, d) + 1
      BY <1>4, <2>3
    <3>2. Behind(id, d) <= Behind(id, s[i])
      BY <2>3 DEF Ordered
    <3>. QED
      BY <2>1, <3>1, <3>2
  <2>. QED
    BY <2>2, <2>3
<1>6. ASSUME NEW i \in DOMAIN s, NEW j \in DOMAIN s, i < j
      PROVE  Behind(next, s[j]) <= Behind(next, s[i])
  <2>1. /\ Behind(id, s[i]) \in Nat /\ Behind(next, s[i]) = Behind(id, s[i]) + 1
        /\ Behind(id, s[j]) \in Nat /\ Behind(next, s[j]) = Behind(id, s[j]) + 1
    BY <1>1, <1>4
  <2>2. Behind(id, s[j]) <= Behind(id, s[i])
    BY <1>6 DEF Ordered
  <2>. QED
    BY <2>1, <2>2
<1>. QED
  BY <1>5, <1>6 DEF Ordered

\* ... with a repeated request, or fewer of them, ...
LEMMA OrderOfRequests ==
  ASSUME NEW id \in 0..(IdMod - 1), NEW D \in SUBSET AllRequests, NEW s \in Seq(AllRequests),
         NEW n, Ordered(id, D, s, n),
         NEW E \in SUBSET AllRequests, \A d \in E : d \in D \/ d.data[1] = id
  PROVE  Ordered(id, E, s, n)
<1>1. \A i \in DOMAIN s : s[i] \in AllRequests
  OBVIOUS
<1>2. ASSUME NEW d \in E, NEW i \in DOMAIN s
      PROVE  Behind(id, d) <= Behind(id, s[i])
  <2>1. CASE d \in D
    BY <2>1 DEF Ordered
  <2>2. CASE d.data[1] = id
    <3>1. Behind(id, d) \in Nat /\ Behind(id, d) <= 0 /\ Behind(id, s[i]) \in Nat
      BY <1>1, <2>2, Ages
    <3>. QED
      BY <3>1
  <2>. QED
    BY <2>1, <2>2
<1>. QED
  BY <1>2 DEF Ordered

\* ... when the oldest request arrives, ...
LEMMA OrderOfArrival ==
  ASSUME NEW id, NEW D, NEW s \in Seq(AllRequests),
         NEW n, Ordered(id, D, s, n), NEW E \in SUBSET D, NEW d \in D, d \in AllRequests,
         \A e \in D : Behind(id, e) <= Behind(id, d)
  PROVE  Ordered(id, E, Append(s, d), n)
<1>1. \A i \in DOMAIN Append(s, d) : \/ i \in DOMAIN s /\ Append(s, d)[i] = s[i]
                                     \/ i = Len(s) + 1 /\ Append(s, d)[i] = d
  BY Elements
<1>2. DOMAIN s = 1..Len(s) /\ Len(s) \in Nat
  OBVIOUS
<1>3. ASSUME NEW i \in DOMAIN Append(s, d), NEW j \in DOMAIN Append(s, d), i < j
      PROVE  Behind(id, Append(s, d)[j]) <= Behind(id, Append(s, d)[i])
  <2>1. i \in DOMAIN s /\ Append(s, d)[i] = s[i]
    BY <1>1, <1>2, <1>3, AppendProperties
  <2>2. CASE j \in DOMAIN s /\ Append(s, d)[j] = s[j]
    BY <1>3, <2>1, <2>2 DEF Ordered
  <2>3. CASE Append(s, d)[j] = d
    BY <2>1, <2>3 DEF Ordered
  <2>. QED
    BY <1>1, <2>2, <2>3
<1>4. ASSUME NEW e \in E, NEW i \in DOMAIN Append(s, d)
      PROVE  Behind(id, e) <= Behind(id, Append(s, d)[i])
  BY <1>1 DEF Ordered
<1>. QED
  BY <1>1, <1>3, <1>4 DEF Ordered

\* ... when the first request is executed, ...
LEMMA OrderOfExecution ==
  ASSUME NEW id \in 0..(IdMod - 1), NEW D \in SUBSET AllRequests, NEW s \in Seq(AllRequests),
         s # <<>>, NEW n, Ordered(id, D, s, n), NEW k,
         k > 0 => n > 0 \/ Head(s).data[1] = id
  PROVE  Ordered(id, D, Tail(s), k)
<1>1. /\ Head(s) \in AllRequests /\ 1 \in DOMAIN s /\ Head(s) = s[1]
      /\ DOMAIN Tail(s) \subseteq Nat \ {0}
      /\ \A i \in DOMAIN Tail(s) :
           i + 1 \in DOMAIN s /\ Tail(s)[i] = s[i + 1] /\ Tail(s)[i] \in AllRequests
  BY Elements
<1>2. ASSUME Head(s).data[1] = id
      PROVE  /\ \A d \in D : d.data[1] = id
             /\ \A i \in DOMAIN Tail(s) : Tail(s)[i].data[1] = id
  <2>1. Behind(id, s[1]) <= 0 /\ Behind(id, s[1]) \in Nat
    BY <1>1, <1>2, Ages
  <2>2. ASSUME NEW d \in D
        PROVE  d.data[1] = id
    <3>1. Behind(id, d) <= Behind(id, s[1]) /\ Behind(id, d) \in Nat
      BY <1>1, Ages DEF Ordered
    <3>2. Behind(id, d) <= 0
      BY <2>1, <3>1
    <3>. QED
      BY <3>2, Ages
  <2>3. ASSUME NEW i \in DOMAIN Tail(s)
        PROVE  Tail(s)[i].data[1] = id
    <3>1. 1 < i + 1 /\ i + 1 \in DOMAIN s
      BY <1>1
    <3>2. Behind(id, s[i + 1]) <= Behind(id, s[1])
      BY <1>1, <3>1 DEF Ordered
    <3>3. Behind(id, Tail(s)[i]) <= 0
      <4>1. Behind(id, Tail(s)[i]) \in Nat
        BY <1>1, Ages
      <4>. QED
        BY <1>1, <2>1, <3>2, <4>1
    <3>. QED
      BY <1>1, <3>3, Ages
  <2>. QED
    BY <2>2, <2>3
<1>3. ASSUME NEW i \in DOMAIN Tail(s), NEW j \in DOMAIN Tail(s), i < j
      PROVE  Behind(id, Tail(s)[j]) <= Behind(id, Tail(s)[i])
  <2>1. i + 1 < j + 1
    BY <1>1, <1>3
  <2>. QED
    BY <1>1, <2>1 DEF Ordered
<1>4. \A d \in D, i \in DOMAIN Tail(s) : Behind(id, d) <= Behind(id, Tail(s)[i])
  BY <1>1 DEF Ordered
<1>5. k > 0 => /\ \A d \in D : d.data[1] = id
               /\ \A i \in DOMAIN Tail(s) : Tail(s)[i].data[1] = id
  BY <1>1, <1>2 DEF Ordered
<1>. QED
  BY <1>3, <1>4, <1>5 DEF Ordered
-----------------------------------------------------------------------------
(* The initial states.                                                     *)

\* What a bag holds without the id, and ...
LEMMA NoCopies ==
  ASSUME NEW B, NEW id, \A d \in BagToSet(B) : d.data[1] # id
  PROVE  Copies(B, id) = {} /\ IsFiniteSet(Copies(B, id)) /\ Cardinality(Copies(B, id)) = 0
<1>1. Copies(B, id) = {}
  BY DEF Copies
<1>. QED
  BY <1>1, FS_EmptySet

\* ... what a sequence holds without it, counts nothing.
LEMMA NoPlaces ==
  ASSUME NEW s, NEW id
  PROVE  /\ (\A i \in DOMAIN s : s[i].data[1] # id) => Cardinality(DataPlaces(s, id)) = 0
         /\ (\A i \in DOMAIN s : s[i][1] # id) => Cardinality(WordPlaces(s, id)) = 0
<1>1. ASSUME \A i \in DOMAIN s : s[i].data[1] # id
      PROVE  DataPlaces(s, id) = {}
  BY <1>1 DEF DataPlaces
<1>2. ASSUME \A i \in DOMAIN s : s[i][1] # id
      PROVE  WordPlaces(s, id) = {}
  BY <1>2 DEF WordPlaces
<1>. QED
  BY <1>1, <1>2, FS_EmptySet

\* Configurations given from outside.
LEMMA OutsideConfigs ==
  /\ \A c \in Configs \cup {DefaultConfig, Flasher!NoConfig} : IsConfig(c)
  /\ \A m \in ConsoleMacs : IsConfig(Flasher!WithMac(DefaultConfig, m))
<1>1. ASSUME NEW c \in Config
      PROVE  IsConfig(c)
  <2>1. PICK a, b, d, e \in Nat : c = <<a, b, d, e>>
    BY DEF Config
  <2>2. c \in Seq(Int) /\ Len(c) = 4
    BY <2>1
  <2>. QED
    BY <2>2, Numbers DEF IsConfig
<1>2. IsConfig(Flasher!NoConfig)
  BY Numbers DEF Flasher!NoConfig, IsConfig
<1>3. ASSUME NEW m \in Int
      PROVE  IsConfig(Flasher!WithMac(DefaultConfig, m))
  <2>. DEFINE c == DefaultConfig
  <2>1. c[1] \in Int /\ c[2] \in Int /\ c[4] \in Int
    BY SystemAssumption DEF Config
  <2>. HIDE DEF c
  <2>2. IsConfig(<<c[1], c[2], m, c[4]>>)
    BY <2>1, Numbers DEF IsConfig
  <2>. QED
    BY <2>2 DEF Flasher!WithMac, c
<1>. QED
  BY <1>1, <1>2, <1>3, SystemAssumption

\* Nothing is under way at first.
LEMMA InitInvariant ==
  ASSUME Init
  PROVE  IInv
<1>. USE DEF Init, ClientInit
<1>0. IsABag(EmptyBag) /\ BagToSet(EmptyBag) = {}
  BY DEF EmptyBag, SetToBag, IsABag, BagToSet
<1>1. TypeOK
  BY DEF TypeOK, NoOp, CallOf
<1>2. CallInv
  BY DEF CallInv
<1>3. RequestsInv
  BY <1>0 DEF RequestsInv, Flasher!Init
<1>4. RepliesInv
  BY <1>0 DEF RepliesInv, Flasher!Init, Flasher!NoAnswer
<1>5. ConfigInv
  BY OutsideConfigs DEF ConfigInv, Flasher!Init
<1>6. ResultInv
  BY DEF ResultInv
<1>7. CountInv
  <2>1. Untaken = {} /\ Travelling = {}
    BY <1>0 DEF Untaken, Travelling, Copies
  <2>2. Unserved = {} /\ Unsent = {} /\ Unread = {} /\ Answered = 0
    BY DEF Unserved, Unsent, Unread, Answered, Flasher!Init
  <2>3. op.max_retries = 0
    BY DEF NoOp, CallOf
  <2>. QED
    BY <2>1, <2>2, <2>3, FS_EmptySet DEF CountInv
<1>8. OrderInv
  BY <1>0 DEF OrderInv, Flasher!Init
<1>. QED
  BY <1>1, <1>2, <1>3, <1>4, <1>5, <1>6, <1>7, <1>8 DEF IInv
-----------------------------------------------------------------------------
(* The steps of the client.                                                *)

\* A new call: nothing that is under way carries its id.
LEMMA StepRequest ==
  ASSUME IInv, ~Nesting, NEW o \in Ops, ~Around((request_id + 1) % IdMod),
         Request(o), execs' = 0, UNCHANGED <<deviceVars, replies, reorders>>
  PROVE  IInv'
<1>. USE DEF IInv
<1>. DEFINE id == request_id'
            new == Datagram(id, o)
<1>1. /\ request_id \in 0..(IdMod - 1) /\ id = (request_id + 1) % IdMod
      /\ id \in 0..(IdMod - 1) /\ o \in Op /\ o.max_retries \in Nat
  <2>1. request_id \in 0..(IdMod - 1) /\ id = (request_id + 1) % IdMod
    BY DEF TypeOK, Request
  <2>2. id \in 0..(IdMod - 1)
    BY <2>1, ClientAssumption, Modulo
  <2>3. o \in Op /\ o.max_retries \in Nat
    BY SystemAssumption DEF Op
  <2>. QED
    BY <2>1, <2>2, <2>3
<1>2. /\ state = "idle" /\ suspended = <<>> /\ suspended' = <<>> /\ socket' = socket
      /\ request' = new /\ requests' = requests (+) SetToBag({new})
      /\ op' = o /\ trials_left' = o.max_retries /\ yielded' = 0
      /\ state' = "waiting" /\ result' = "none"
  BY DEF Request, MayCall, Send
<1>3. /\ new \in AllRequests /\ new.data[1] = id
  BY <1>1, DatagramWords DEF AllRequests
<1>4. /\ \A d \in BagToSet(requests) : d.data[1] # id
      /\ \A r \in BagToSet(replies) : r.data[1] # id
      /\ \A i \in DOMAIN inbox : inbox[i].data[1] # id
      /\ \A i \in DOMAIN outbox : outbox[i].data[1] # id
      /\ \A i \in DOMAIN socket : socket[i][1] # id
      /\ answer # Flasher!NoAnswer => answer.data[1] # id
  BY <1>1 DEF Around
<1>5. /\ IsABag(requests) /\ BagToSet(requests) \subseteq AllRequests
      /\ IsABag(requests') /\ BagToSet(requests') = BagToSet(requests) \cup {new}
  BY <1>2, BagAdd DEF RequestsInv, IsRequest
<1>6. UNCHANGED <<cfg, stored, inbox, answer, outbox>>
  BY DEF deviceVars
<1>. HIDE DEF id, new
<1>7. TypeOK'
  BY <1>1, <1>2 DEF TypeOK, id
<1>8. CallInv'
  BY <1>2 DEF CallInv, id, new
<1>9. RequestsInv'
  <2>1. \A d \in BagToSet(requests)' : IsRequest(d)'
    BY <1>2, <1>3, <1>4, <1>5 DEF IsRequest, id, new
  <2>2. \A i \in DOMAIN inbox : inbox[i] \in AllRequests
    BY DEF RequestsInv, IsRequest
  <2>3. \A i \in DOMAIN inbox' : IsRequest(inbox[i])'
    BY <1>4, <1>6, <2>2 DEF IsRequest, id
  <2>. QED
    BY <1>5, <1>6, <2>1, <2>3 DEF RequestsInv, AllRequests
<1>10. RepliesInv'
  <2>1. ASSUME NEW w, IsReply(w), w[1] # id
        PROVE  IsReply(w)'
    BY <2>1 DEF IsReply, id
  <2>. QED
    BY <1>2, <1>4, <1>6, <2>1 DEF RepliesInv, AllReplies, Flasher!NoAnswer
<1>11. ConfigInv'
  BY <1>6, ConfigFrame
<1>12. ResultInv'
  BY <1>2 DEF ResultInv
<1>13. CountInv'
  <2>1. /\ IsFiniteSet(Untaken') /\ Cardinality(Untaken') = 1
    <3>1. IsFiniteSet(Copies(requests, id)) /\ Cardinality(Copies(requests, id)) = 0
      BY <1>4, NoCopies
    <3>2. Untaken' = Copies(requests (+) SetToBag({new}), id)
      BY <1>2 DEF Untaken, Copies, id
    <3>3. /\ IsFiniteSet(Copies(requests (+) SetToBag({new}), id))
          /\ Cardinality(Copies(requests (+) SetToBag({new}), id)) =
               Cardinality(Copies(requests, id)) + 1
      BY <1>3, <1>5, <3>1, CopiesAdd, Zenon
    <3>. QED
      BY <3>1, <3>2, <3>3
  <2>2. IsFiniteSet(Travelling') /\ Cardinality(Travelling') = 0
    <3>1. Travelling' = Copies(replies, id)
      BY DEF Travelling, Copies, id
    <3>. QED
      BY <1>4, <3>1, NoCopies
  <2>3. /\ Cardinality(Unserved') = 0 /\ Cardinality(Unsent') = 0
        /\ Cardinality(Unread') = 0 /\ Answered' = 0
    <3>1. /\ Unserved' = DataPlaces(inbox, id) /\ Unsent' = DataPlaces(outbox, id)
          /\ Unread' = WordPlaces(socket, id)
      BY <1>2, <1>6 DEF Unserved, Unsent, Unread, DataPlaces, WordPlaces, id
    <3>2. Answered' = 0
      BY <1>4, <1>6 DEF Answered, id, Flasher!NoAnswer
    <3>. QED
      BY <1>4, <3>1, <3>2, NoPlaces
  <2>. QED
    BY <1>1, <1>2, <2>1, <2>2, <2>3 DEF CountInv
<1>14. OrderInv'
  <2>1. ASSUME ~reorders
        PROVE  Ordered(id, BagToSet(requests) \cup {new}, inbox, 0)
    <3>1. Ordered(request_id, BagToSet(requests), inbox, execs)
      BY <2>1, OrderMeans
    <3>2. inbox \in Seq(AllRequests)
      BY DEF RequestsInv
    <3>. QED
      BY <1>1, <1>3, <1>4, <1>5, <3>1, <3>2, OrderOfCall
  <2>. QED
    BY <1>5, <1>6, <2>1, OrderMeans DEF id
<1>. QED
  BY <1>7, <1>8, <1>9, <1>10, <1>11, <1>12, <1>13, <1>14

\* The counted sets and their sizes.
LEMMA CountMeans ==
  /\ Untaken = Copies(requests, request_id) /\ Travelling = Copies(replies, request_id)
  /\ Unserved = DataPlaces(inbox, request_id) /\ Unsent = DataPlaces(outbox, request_id)
  /\ Unread = WordPlaces(socket, request_id)
  /\ Untaken' = Copies(requests', request_id') /\ Travelling' = Copies(replies', request_id')
  /\ Unserved' = DataPlaces(inbox', request_id')
  /\ Unsent' = DataPlaces(outbox', request_id')
  /\ Unread' = WordPlaces(socket', request_id')
BY DEF Untaken, Travelling, Unserved, Unsent, Unread, DataPlaces, WordPlaces, Copies

\* The sizes are numbers.
LEMMA CountNumbers ==
  ASSUME IInv
  PROVE  /\ Cardinality(Untaken) \in Nat /\ Cardinality(Travelling) \in Nat
         /\ Cardinality(Unserved) \in Nat /\ Cardinality(Unsent) \in Nat
         /\ Cardinality(Unread) \in Nat /\ Answered \in {0, 1}
         /\ execs \in Nat /\ yielded \in Nat
         /\ op.max_retries \in Nat /\ trials_left \in 0..op.max_retries
         /\ request_id \in 0..(IdMod - 1)
<1>. USE DEF IInv
<1>1. Cardinality(Untaken) \in Nat /\ Cardinality(Travelling) \in Nat
  BY FS_CardinalityType DEF CountInv
<1>2. inbox \in Seq(AllRequests) /\ socket \in Seq(Seq(Int))
      /\ outbox \in Seq(AllReplies)
  BY DEF RequestsInv, RepliesInv
<1>3. /\ Cardinality(Unserved) \in Nat /\ Cardinality(Unsent) \in Nat
      /\ Cardinality(Unread) \in Nat
  BY <1>2, CountMeans, DataPlacesStep, WordPlacesStep
<1>4. Answered \in {0, 1}
  BY DEF Answered
<1>5. op.max_retries \in Nat
  BY SystemAssumption DEF TypeOK, Op, NoOp, CallOf
<1>. QED
  BY <1>1, <1>3, <1>4, <1>5 DEF TypeOK

\* A call that cannot be packed leaves all but its result alone.
LEMMA StepPackingFails ==
  ASSUME IInv, NEW o \in Ops, PackingFails(o), UNCHANGED othersVars
  PROVE  IInv'
<1>. USE DEF IInv, PackingFails, othersVars, deviceVars, frame
<1>1. TypeOK'
  BY DEF TypeOK
<1>2. CallInv'
  BY DEF CallInv, MayCall
<1>3. RequestsInv' /\ RepliesInv' /\ ConfigInv' /\ CountInv' /\ OrderInv' /\ ResultInv'
  BY RequestsFrame, RepliesFrame, ConfigFrame, CountFrame, OrderFrame, ResultFrame
<1>. QED
  BY <1>1, <1>2, <1>3

\* A request is repeated, or the call ends.
LEMMA StepTimeout ==
  ASSUME IInv, Timeout, UNCHANGED othersVars
  PROVE  IInv'
<1>. USE DEF IInv, othersVars, deviceVars
<1>1. /\ state = "waiting" /\ UNCHANGED <<request_id, op, request, suspended, socket, yielded>>
      /\ \/ /\ trials_left > 0 /\ trials_left' = trials_left - 1
            /\ requests' = requests (+) SetToBag({request}) /\ UNCHANGED <<state, result>>
         \/ /\ state' = "idle" /\ result' = "TimeoutError"
            /\ UNCHANGED <<trials_left, requests>>
  BY DEF Timeout, Finish, Send
<1>2. /\ suspended = <<>> /\ op \in Ops /\ request = Datagram(request_id, op)
      /\ request_id \in 0..(IdMod - 1)
  BY <1>1 DEF CallInv, TypeOK
<1>3. request \in AllRequests /\ request.data[1] = request_id
  <2>1. op \in Op
    BY <1>2, SystemAssumption
  <2>. QED
    BY <1>2, <2>1, DatagramWords DEF AllRequests
<1>4. RepliesInv' /\ ConfigInv'
  BY <1>1, RepliesFrame, ConfigFrame
<1>5. CASE /\ trials_left > 0 /\ trials_left' = trials_left - 1
           /\ requests' = requests (+) SetToBag({request}) /\ UNCHANGED <<state, result>>
  <2>1. /\ IsABag(requests) /\ BagToSet(requests) \subseteq AllRequests
        /\ IsABag(requests') /\ BagToSet(requests') = BagToSet(requests) \cup {request}
    BY <1>5, BagAdd DEF RequestsInv, IsRequest
  <2>2. TypeOK'
    BY <1>1, <1>5, CountNumbers DEF TypeOK
  <2>3. CallInv'
    BY <1>1, <1>2, <1>5 DEF CallInv
  <2>4. RequestsInv'
    BY <1>1, <1>2, <1>3, <2>1 DEF RequestsInv, IsRequest, AllRequests
  <2>5. ResultInv'
    BY <1>1, <1>5, ResultFrame
  <2>6. CountInv'
    <3>1. /\ IsFiniteSet(Untaken')
          /\ Cardinality(Untaken') = Cardinality(Untaken) + 1
      <4>1. IsFiniteSet(Copies(requests, request_id))
        BY CountMeans DEF CountInv
      <4>2. /\ IsFiniteSet(Copies(requests (+) SetToBag({request}), request_id))
            /\ Cardinality(Copies(requests (+) SetToBag({request}), request_id)) =
                 Cardinality(Copies(requests, request_id)) + 1
        BY <1>3, <2>1, <4>1, CopiesAdd, Zenon
      <4>. QED
        BY <1>1, <1>5, <4>2, CountMeans
    <3>2. UNCHANGED <<Travelling, Unserved, Unsent, Unread, Answered>>
      BY <1>1, CountMeans DEF Answered, Flasher!NoAnswer
    <3>. QED
      BY <1>1, <1>5, <3>1, <3>2, CountNumbers DEF CountInv
  <2>7. OrderInv'
    <3>1. ASSUME ~reorders
          PROVE  Ordered(request_id, BagToSet(requests) \cup {request}, inbox, execs)
      <4>1. Ordered(request_id, BagToSet(requests), inbox, execs)
        BY <3>1, OrderMeans
      <4>2. inbox \in Seq(AllRequests)
        BY DEF RequestsInv
      <4>. QED
        BY <1>2, <1>3, <2>1, <4>1, <4>2, OrderOfRequests
    <3>. QED
      BY <1>1, <2>1, <3>1, OrderMeans
  <2>. QED
    BY <1>4, <2>2, <2>3, <2>4, <2>5, <2>6, <2>7
<1>6. CASE /\ state' = "idle" /\ result' = "TimeoutError"
           /\ UNCHANGED <<trials_left, requests>>
  <2>1. TypeOK'
    BY <1>1, <1>2, <1>6 DEF TypeOK
  <2>2. CallInv'
    BY <1>1, <1>2, <1>6 DEF CallInv
  <2>3. RequestsInv' /\ ResultInv' /\ CountInv' /\ OrderInv'
    BY <1>1, <1>6, RequestsFrame, ResultFrame, CountFrame, OrderFrame
  <2>. QED
    BY <1>4, <2>1, <2>2, <2>3
<1>. QED
  BY <1>1, <1>5, <1>6

\* The application goes on with a suspended call, or drops it.
LEMMA StepResume ==
  ASSUME IInv, Resume \/ Close, UNCHANGED othersVars
  PROVE  IInv'
<1>. USE DEF IInv, othersVars, deviceVars, frame
<1>1. /\ state = "idle" /\ suspended # <<>> /\ suspended' = <<>>
      /\ UNCHANGED <<op, request, trials_left, yielded, request_id, socket, requests>>
      /\ op \in Ops /\ request = Datagram(request_id, op)
      /\ \/ state' = "waiting" /\ result' = "none"
         \/ UNCHANGED <<state, result>>
  BY DEF Resume, Close, CallInv
<1>2. TypeOK'
  BY <1>1 DEF TypeOK
<1>3. CallInv'
  BY <1>1 DEF CallInv
<1>4. /\ RequestsInv' /\ RepliesInv' /\ ConfigInv' /\ CountInv' /\ OrderInv'
      /\ ResultInv'
  BY <1>1, RequestsFrame, RepliesFrame, ConfigFrame, CountFrame, OrderFrame, ResultFrame
<1>. QED
  BY <1>2, <1>3, <1>4

\* A datagram is looked at.
LEMMA StepRecv ==
  ASSUME IInv, Application, Recv, UNCHANGED othersVars
  PROVE  IInv'
<1>. USE DEF IInv, othersVars, deviceVars
<1>. DEFINE w == Head(socket)
            r == Received(w)
            data == Datagram(request_id, op).data
            left == [op |-> op, request |-> request,
                     trials_left |-> trials_left, yielded |-> yielded']
            Fits == op.method = "request" \/ Performs(data) \/ Flasher!IsConfigWrite(data)
            Refused == ~Performs(data) \/ op.code = CMD_READ_SERIAL_NO
            Late == /\ w[1] # request_id
                    /\ UNCHANGED <<yielded, suspended>>
                    /\ \/ UNCHANGED <<state, result>>
                       \/ state' = "idle" /\ result' = "TypeError"
            Error == /\ w[1] = request_id /\ ~Performs(data)
                     /\ UNCHANGED <<yielded, suspended>>
                     /\ state' = "idle" /\ result' = "RequestError"
            Response == /\ w[1] = request_id
                        /\ yielded' = yielded + 1 /\ state' = "idle"
                        /\ \/ suspended' = <<left>> /\ result' = "yield"
                           \/ suspended' = suspended /\ result' = "value" /\ Fits
                           \/ suspended' = suspended /\ result' = "RequestError" /\ Refused
<1>1. /\ state = "waiting" /\ socket # <<>> /\ socket' = Tail(socket)
      /\ UNCHANGED <<request_id, op, request, trials_left, requests>>
  BY DEF Recv
<1>2. /\ result = "none" /\ suspended = <<>> /\ op \in Ops /\ op \in Op /\ IsCall(op)
      /\ request = Datagram(request_id, op) /\ request_id \in 0..(IdMod - 1)
      /\ yielded \in Nat
  BY <1>1, SystemAssumption DEF CallInv, TypeOK, Application
<1>3. /\ socket \in Seq(Seq(Int)) /\ w \in Seq(Int) /\ IsReply(w)
      /\ socket' \in Seq(Seq(Int))
      /\ \A i \in DOMAIN socket' : IsReply(socket'[i])
  BY <1>1, Elements DEF RepliesInv
<1>4. /\ w[1] # request_id => Judge(r) \in {"skip", "TypeError"}
      /\ w[1] = request_id =>
           \/ Judge(r) = "RequestError" /\ ~Performs(data)
           \/ /\ Judge(r) = "response"
              /\ \/ Evaluate(r) = "value" /\ Fits
                 \/ Evaluate(r) = "RequestError" /\ Refused
  BY <1>2, <1>3, ReplyMakesSense DEF Application
<1>5. /\ Judge(r) = "skip" => UNCHANGED <<state, result, yielded, suspended>>
      /\ Judge(r) \in {"TypeError", "RequestError"} =>
           /\ state' = "idle" /\ result' = Judge(r) /\ UNCHANGED <<yielded, suspended>>
      /\ Judge(r) = "response" =>
           /\ yielded' = yielded + 1 /\ state' = "idle"
           /\ \/ suspended' = <<left>> /\ result' = "yield"
              \/ suspended' = suspended /\ result' = Evaluate(r)
  BY DEF Recv, Finish
<1>. HIDE DEF r, w, data
<1>6. Late \/ Error \/ Response
  BY <1>4, <1>5
<1>7. TypeOK'
  <2>1. /\ state' \in {"idle", "waiting"} /\ yielded' \in Nat
        /\ result' \in {"none", "yield", "value", "RequestError", "TypeError"}
        /\ suspended' = <<>> \/ (suspended' = <<left>> /\ state' = "idle")
    BY <1>1, <1>2, <1>6
  <2>2. Len(<<left>>) <= 1 /\ Len(<<>>) <= 1
    OBVIOUS
  <2>. HIDE DEF left
  <2>3. Len(suspended') <= 1 /\ (suspended' # <<>> => state' = "idle")
    BY <2>1, <2>2
  <2>. QED
    BY <1>1, <2>1, <2>3 DEF TypeOK
<1>8. CallInv'
  <2>1. state' = "waiting" => result' = "none" /\ suspended' = <<>>
    BY <1>1, <1>2, <1>6
  <2>2. suspended' # <<>> => suspended' = <<left>>
    BY <1>2, <1>6
  <2>3. result' = "value" => yielded' > 0
    BY <1>2, <1>6
  <2>. QED
    BY <1>1, <1>2, <2>1, <2>2, <2>3 DEF CallInv
<1>9. RequestsInv' /\ ConfigInv' /\ OrderInv'
  BY <1>1, RequestsFrame, ConfigFrame, OrderFrame
<1>10. RepliesInv'
  BY <1>1, <1>3, ReplyFrame DEF RepliesInv, AllReplies, Flasher!NoAnswer
<1>11. ResultInv'
  <2>1. data = Datagram(request_id', op').data
    BY <1>1 DEF data
  <2>2. /\ result' # "ResponseError"
        /\ result' = "RequestError" => ~Performs(data) \/ op'.code = CMD_READ_SERIAL_NO
        /\ result' = "value" =>
             op'.method = "request" \/ Performs(data) \/ Flasher!IsConfigWrite(data)
    BY <1>1, <1>2, <1>6
  <2>. QED
    BY <2>1, <2>2 DEF ResultInv
<1>12. CountInv'
  <2>1. UNCHANGED <<Untaken, Travelling, Unserved, Unsent, Answered>>
    BY <1>1, CountMeans DEF Answered, Flasher!NoAnswer
  <2>. DEFINE k == IF w[1] = request_id THEN 1 ELSE 0
  <2>2. Cardinality(Unread') = Cardinality(Unread) - k
    BY <1>1, <1>3, CountMeans, WordPlacesStep DEF w
  <2>3. yielded' <= yielded + k /\ yielded' \in Nat /\ k \in {0, 1}
    BY <1>2, <1>6
  <2>. HIDE DEF k
  <2>4. yielded' + Answered' + Cardinality(Unsent') + Cardinality(Travelling')
          + Cardinality(Unread') <= execs'
    BY <2>1, <2>2, <2>3, CountNumbers DEF CountInv
  <2>. QED
    BY <1>1, <2>1, <2>4 DEF CountInv
<1>. QED
  BY <1>7, <1>8, <1>9, <1>10, <1>11, <1>12
-----------------------------------------------------------------------------
(* The steps of the network.                                               *)

\* A request is taken from the network: what remains, and how many.
LEMMA RequestTaken ==
  ASSUME IInv, NEW d \in BagToSet(requests), Take(d)
  PROVE  /\ d \in AllRequests /\ IsRequest(d)
         /\ IsABag(requests') /\ BagToSet(requests') \subseteq BagToSet(requests)
         /\ BagToSet(requests) \subseteq AllRequests
         /\ IsFiniteSet(Untaken')
         /\ Cardinality(Untaken') =
              Cardinality(Untaken) - (IF d.data[1] = request_id THEN 1 ELSE 0)
         /\ UNCHANGED <<state, request_id, op, request, trials_left, yielded, suspended,
                        socket, result>>
<1>. USE DEF IInv
<1>1. /\ requests' = requests (-) SetToBag({d})
      /\ UNCHANGED <<state, request_id, op, request, trials_left, yielded, suspended,
                     socket, result>>
  BY DEF Take, frame
<1>2. /\ d \in AllRequests /\ IsRequest(d) /\ IsABag(requests)
      /\ BagToSet(requests) \subseteq AllRequests
  BY DEF RequestsInv, IsRequest
<1>3. IsABag(requests') /\ BagToSet(requests') \subseteq BagToSet(requests)
  BY <1>1, <1>2, BagRemove
<1>4. IsFiniteSet(Copies(requests, request_id))
  BY CountMeans DEF CountInv
<1>. DEFINE B == requests (-) SetToBag({d})
<1>5. /\ IsFiniteSet(Copies(B, request_id))
      /\ d.data[1] = request_id =>
           Cardinality(Copies(B, request_id)) = Cardinality(Copies(requests, request_id)) - 1
      /\ d.data[1] # request_id => Copies(B, request_id) = Copies(requests, request_id)
  BY <1>2, <1>4, CopiesRemove, Zenon
<1>6. Untaken' = Copies(B, request_id) /\ Untaken = Copies(requests, request_id)
  BY <1>1, CountMeans
<1>. HIDE DEF B
<1>7. Cardinality(Untaken) \in Nat
  BY CountNumbers
<1>8. Cardinality(Untaken') =
        Cardinality(Untaken) - (IF d.data[1] = request_id THEN 1 ELSE 0)
  BY <1>5, <1>6, <1>7
<1>. QED
  BY <1>1, <1>2, <1>3, <1>5, <1>6, <1>8

\* A request that arrives is at the end of the inbox.
LEMMA StepRequestArrives ==
  ASSUME IInv, NEW d \in BagToSet(requests), RequestArrives(d), UNCHANGED reorders
  PROVE  IInv'
<1>. USE DEF IInv
<1>1. /\ d \in AllRequests /\ IsRequest(d)
      /\ IsABag(requests') /\ BagToSet(requests') \subseteq BagToSet(requests)
      /\ BagToSet(requests) \subseteq AllRequests
      /\ IsFiniteSet(Untaken')
      /\ Cardinality(Untaken') =
           Cardinality(Untaken) - (IF d.data[1] = request_id THEN 1 ELSE 0)
      /\ UNCHANGED <<state, request_id, op, request, trials_left, yielded, suspended,
                     socket, result>>
  BY RequestTaken DEF RequestArrives
<1>2. /\ inbox' = Append(inbox, d) /\ inbox \in Seq(AllRequests)
      /\ UNCHANGED <<cfg, stored, answer, outbox, replies, execs>>
  BY DEF RequestArrives, Flasher!Arrive, RequestsInv
<1>3. TypeOK' /\ CallInv' /\ RepliesInv' /\ ConfigInv' /\ ResultInv'
  BY <1>1, <1>2, TypeFrame, CallFrame, RepliesFrame, ConfigFrame, ResultFrame DEF frame
<1>4. RequestsInv'
  <2>1. inbox' \in Seq(AllRequests) /\ \A i \in DOMAIN inbox' : IsRequest(inbox'[i])
    BY <1>1, <1>2, Elements DEF RequestsInv
  <2>. QED
    BY <1>1, <2>1 DEF RequestsInv, IsRequest, AllRequests
<1>5. CountInv'
  <2>. DEFINE k == IF d.data[1] = request_id THEN 1 ELSE 0
  <2>1. k \in {0, 1} /\ Cardinality(Untaken') = Cardinality(Untaken) - k
    BY <1>1
  <2>2. Cardinality(Unserved') = Cardinality(Unserved) + k
    BY <1>1, <1>2, CountMeans, DataPlacesStep
  <2>. HIDE DEF k
  <2>3. UNCHANGED <<Travelling, Unsent, Unread, Answered>>
    BY <1>1, <1>2, CountMeans DEF Answered, Flasher!NoAnswer
  <2>4. execs' + Cardinality(Untaken') + Cardinality(Unserved')
          <= 1 + op'.max_retries - trials_left'
    <3>1. execs + Cardinality(Untaken) + Cardinality(Unserved)
            <= 1 + op.max_retries - trials_left
      BY DEF CountInv
    <3>2. execs + Cardinality(Untaken') + Cardinality(Unserved')
            <= 1 + op.max_retries - trials_left
      BY <2>1, <2>2, <3>1, CountNumbers
    <3>. QED
      BY <1>1, <1>2, <3>2
  <2>. QED
    BY <1>1, <1>2, <2>3, <2>4 DEF CountInv
<1>6. OrderInv'
  <2>1. ASSUME ~reorders
        PROVE  Ordered(request_id, BagToSet(requests'), Append(inbox, d), execs)
    <3>1. Ordered(request_id, BagToSet(requests), inbox, execs)
      BY <2>1, OrderMeans
    <3>2. \A e \in BagToSet(requests) : Behind(request_id, e) <= Behind(request_id, d)
      BY <2>1 DEF RequestArrives, Oldest, Age, Behind
    <3>. QED
      BY <1>1, <1>2, <3>1, <3>2, OrderOfArrival
  <2>. QED
    BY <1>1, <1>2, <2>1, OrderMeans
<1>. QED
  BY <1>3, <1>4, <1>5, <1>6

\* One that is lost is nowhere.
LEMMA StepRequestLost ==
  ASSUME IInv, NEW d \in BagToSet(requests), RequestLost(d), UNCHANGED reorders
  PROVE  IInv'
<1>. USE DEF IInv
<1>1. /\ d \in AllRequests /\ IsRequest(d)
      /\ IsABag(requests') /\ BagToSet(requests') \subseteq BagToSet(requests)
      /\ BagToSet(requests) \subseteq AllRequests
      /\ IsFiniteSet(Untaken')
      /\ Cardinality(Untaken') =
           Cardinality(Untaken) - (IF d.data[1] = request_id THEN 1 ELSE 0)
      /\ UNCHANGED <<state, request_id, op, request, trials_left, yielded, suspended,
                     socket, result>>
  BY RequestTaken DEF RequestLost
<1>2. UNCHANGED <<cfg, stored, inbox, answer, outbox, replies, execs>>
  BY DEF RequestLost, deviceVars
<1>3. TypeOK' /\ CallInv' /\ RepliesInv' /\ ConfigInv' /\ ResultInv'
  BY <1>1, <1>2, TypeFrame, CallFrame, RepliesFrame, ConfigFrame, ResultFrame DEF frame
<1>4. RequestsInv'
  BY <1>1, <1>2 DEF RequestsInv, IsRequest, AllRequests
<1>5. CountInv'
  <2>. DEFINE k == IF d.data[1] = request_id THEN 1 ELSE 0
  <2>1. k \in {0, 1} /\ Cardinality(Untaken') = Cardinality(Untaken) - k
    BY <1>1
  <2>. HIDE DEF k
  <2>2. UNCHANGED <<Unserved, Travelling, Unsent, Unread, Answered>>
    BY <1>1, <1>2, CountMeans DEF Answered, Flasher!NoAnswer
  <2>. QED
    BY <1>1, <1>2, <2>1, <2>2, CountNumbers DEF CountInv
<1>6. OrderInv'
  <2>1. ASSUME ~reorders
        PROVE  Ordered(request_id, BagToSet(requests'), inbox, execs)
    <3>1. Ordered(request_id, BagToSet(requests), inbox, execs)
      BY <2>1, OrderMeans
    <3>2. inbox \in Seq(AllRequests) /\ request_id \in 0..(IdMod - 1)
      BY DEF RequestsInv, TypeOK
    <3>. QED
      BY <1>1, <3>1, <3>2, OrderOfRequests
  <2>. QED
    BY <1>1, <1>2, <2>1, OrderMeans
<1>. QED
  BY <1>3, <1>4, <1>5, <1>6

\* A reply leaves the device, ...
LEMMA StepReplyLeaves ==
  ASSUME IInv, ReplyLeaves, UNCHANGED reorders
  PROVE  IInv'
<1>. USE DEF IInv
<1>. DEFINE T == AllReplies
            r == Head(outbox)
            k == IF r.data[1] = request_id THEN 1 ELSE 0
<1>1. /\ outbox # <<>> /\ outbox' = Tail(outbox) /\ replies' = replies (+) SetToBag({r})
      /\ UNCHANGED <<state, request_id, op, request, trials_left, yielded, suspended, socket,
                     requests, result, cfg, stored, inbox, answer, execs>>
  BY DEF ReplyLeaves, Flasher!Depart, clientVars, frame
<1>2. /\ outbox \in Seq(T) /\ IsABag(replies) /\ r \in T /\ IsReply(r.data)
      /\ outbox' \in Seq(T) /\ \A i \in DOMAIN outbox' : IsReply(outbox'[i].data)
  <2>. HIDE DEF T
  <2>1. /\ r \in T /\ Tail(outbox) \in Seq(T) /\ 1 \in DOMAIN outbox /\ r = outbox[1]
        /\ \A i \in DOMAIN Tail(outbox) :
             i + 1 \in DOMAIN outbox /\ Tail(outbox)[i] = outbox[i + 1]
    <3>1. outbox \in Seq(T)
      BY DEF RepliesInv, T
    <3>. QED
      BY <1>1, <3>1, Elements
  <2>. QED
    BY <1>1, <2>1 DEF RepliesInv, T
<1>. HIDE DEF r
<1>3. /\ TypeOK' /\ CallInv' /\ RequestsInv' /\ ConfigInv' /\ ResultInv' /\ OrderInv'
  BY <1>1, TypeFrame, CallFrame, RequestsFrame, ConfigFrame, ResultFrame, OrderFrame DEF frame
<1>4. IsABag(replies') /\ BagToSet(replies') = BagToSet(replies) \cup {r}
  BY <1>1, <1>2, BagAdd
<1>5. RepliesInv'
  BY <1>1, <1>2, <1>4, ReplyFrame DEF RepliesInv, AllReplies, Flasher!NoAnswer
<1>6. CountInv'
  <2>1. k \in {0, 1} /\ Cardinality(Unsent') = Cardinality(Unsent) - k
    BY <1>1, <1>2, CountMeans, DataPlacesStep DEF r
  <2>2. IsFiniteSet(Travelling') /\ Cardinality(Travelling') = Cardinality(Travelling) + k
    <3>1. IsFiniteSet(Copies(replies, request_id))
      BY CountMeans DEF CountInv
    <3>. DEFINE B == replies (+) SetToBag({r})
    <3>2. /\ IsFiniteSet(Copies(B, request_id))
          /\ r.data[1] = request_id =>
               Cardinality(Copies(B, request_id)) = Cardinality(Copies(replies, request_id)) + 1
          /\ r.data[1] # request_id => Copies(B, request_id) = Copies(replies, request_id)
      BY <1>2, <3>1, CopiesAdd, Zenon
    <3>3. Travelling' = Copies(B, request_id) /\ Travelling = Copies(replies, request_id)
      BY <1>1, CountMeans
    <3>. HIDE DEF B
    <3>. QED
      BY <3>2, <3>3, CountNumbers
  <2>. HIDE DEF k
  <2>3. UNCHANGED <<Untaken, Unserved, Unread, Answered>>
    BY <1>1, CountMeans DEF Answered, Flasher!NoAnswer
  <2>. QED
    BY <1>1, <2>1, <2>2, <2>3, CountNumbers, SMTT(40) DEF CountInv
<1>. QED
  BY <1>3, <1>5, <1>6

\* ... and reaches the socket, or is lost.
LEMMA StepReplyTaken ==
  ASSUME IInv, NEW r \in BagToSet(replies), ReplyArrives(r) \/ ReplyLost(r),
         UNCHANGED reorders
  PROVE  IInv'
<1>. USE DEF IInv
<1>. DEFINE k == IF r.data[1] = request_id THEN 1 ELSE 0
<1>1. /\ replies' = replies (-) SetToBag({r})
      /\ socket' = Append(socket, r.data) \/ socket' = socket
      /\ UNCHANGED <<state, request_id, op, request, trials_left, yielded, suspended,
                     requests, result, cfg, stored, inbox, answer, outbox, execs>>
  BY DEF ReplyArrives, ReplyLost, Deliver, clientVars, deviceVars, frame
<1>2. /\ IsABag(replies) /\ IsReply(r.data) /\ r.data \in Seq(Int)
      /\ socket \in Seq(Seq(Int))
  BY DEF RepliesInv, IsReply
<1>3. /\ TypeOK' /\ CallInv' /\ RequestsInv' /\ ConfigInv' /\ ResultInv' /\ OrderInv'
  BY <1>1, TypeFrame, CallFrame, RequestsFrame, ConfigFrame, ResultFrame, OrderFrame DEF frame
<1>4. IsABag(replies') /\ BagToSet(replies') \subseteq BagToSet(replies)
  BY <1>1, <1>2, BagRemove
<1>5. RepliesInv'
  <2>1. socket' \in Seq(Seq(Int)) /\ \A i \in DOMAIN socket' : IsReply(socket'[i])
    <3>. DEFINE w == r.data
                new == Append(socket, w)
    <3>1. /\ new \in Seq(Seq(Int))
          /\ \A i \in DOMAIN new : \/ i \in DOMAIN socket /\ new[i] = socket[i]
                                   \/ i = Len(socket) + 1 /\ new[i] = w
      <4>. HIDE DEF w
      <4>. QED
        BY <1>2, Elements DEF w
    <3>. HIDE DEF new
    <3>2. \A i \in DOMAIN new : IsReply(new[i])
      BY <1>2, <3>1 DEF RepliesInv
    <3>. QED
      BY <1>1, <1>2, <3>1, <3>2 DEF RepliesInv, new
  <2>. QED
    BY <1>1, <1>4, <2>1, ReplyFrame DEF RepliesInv, AllReplies, Flasher!NoAnswer
<1>6. CountInv'
  <2>1. k \in {0, 1}
    OBVIOUS
  <2>2. Cardinality(Unread') \in {Cardinality(Unread), Cardinality(Unread) + k}
    <3>1. Cardinality(WordPlaces(Append(socket, r.data), request_id)) =
            Cardinality(WordPlaces(socket, request_id)) + k
      BY <1>2, WordPlacesStep
    <3>. HIDE DEF k
    <3>. QED
      BY <1>1, <3>1, CountMeans
  <2>3. IsFiniteSet(Travelling') /\ Cardinality(Travelling') = Cardinality(Travelling) - k
    <3>1. IsFiniteSet(Copies(replies, request_id))
      BY CountMeans DEF CountInv
    <3>. DEFINE B == replies (-) SetToBag({r})
    <3>2. /\ IsFiniteSet(Copies(B, request_id))
          /\ r.data[1] = request_id =>
               Cardinality(Copies(B, request_id)) = Cardinality(Copies(replies, request_id)) - 1
          /\ r.data[1] # request_id => Copies(B, request_id) = Copies(replies, request_id)
      BY <1>2, <3>1, CopiesRemove, Zenon
    <3>3. Travelling' = Copies(B, request_id) /\ Travelling = Copies(replies, request_id)
      BY <1>1, CountMeans
    <3>. HIDE DEF B
    <3>. QED
      BY <3>2, <3>3, CountNumbers
  <2>. HIDE DEF k
  <2>4. UNCHANGED <<Untaken, Unserved, Unsent, Answered>>
    BY <1>1, CountMeans DEF Answered, Flasher!NoAnswer
  <2>. QED
    <3>1. /\ Cardinality(Unread') \in Nat
          /\ Cardinality(Unread') <= Cardinality(Unread) + k
      BY <2>1, <2>2, CountNumbers
    <3>2. yielded + Answered + Cardinality(Unsent) + Cardinality(Travelling')
            + Cardinality(Unread') <= execs
      BY <2>1, <2>3, <3>1, CountNumbers DEF CountInv
    <3>. QED
      BY <1>1, <2>3, <2>4, <3>2 DEF CountInv
<1>. QED
  BY <1>3, <1>5, <1>6
-----------------------------------------------------------------------------
(* The steps of the device.                                                *)

\* A request is executed.
LEMMA StepExecutes ==
  ASSUME IInv, Executes, UNCHANGED reorders
  PROVE  IInv'
<1>. USE DEF IInv
<1>. DEFINE d == Head(inbox)
            w == answer'.data
            k == IF d.data[1] = request_id THEN 1 ELSE 0
<1>1. /\ inbox # <<>> /\ inbox' = Tail(inbox) /\ answer = Flasher!NoAnswer
      /\ execs' = IF d.data[1] = request_id THEN execs + 1 ELSE execs
      /\ UNCHANGED <<state, request_id, op, request, trials_left, yielded, suspended, socket,
                     requests, result, outbox, replies>>
  BY DEF Executes, Flasher!Execute, Flasher!Serving, clientVars, frame
<1>2. /\ inbox \in Seq(AllRequests) /\ d \in AllRequests /\ IsRequest(d)
      /\ inbox' \in Seq(AllRequests) /\ \A i \in DOMAIN inbox' : IsRequest(inbox'[i])
      /\ request_id \in 0..(IdMod - 1) /\ execs \in Nat
      /\ BagToSet(requests) \subseteq AllRequests
  BY <1>1, Elements DEF RequestsInv, IsRequest, TypeOK
<1>3. /\ w \in Seq(Int) /\ Len(w) >= 3 /\ w[1] = d.data[1] /\ Answers(w, d.data)
      /\ answer' \in AllReplies /\ answer' # Flasher!NoAnswer /\ ConfigInv'
  BY <1>2, ExecutionAnswers DEF Executes
<1>. HIDE DEF d, w
<1>4. execs' = execs + k /\ execs' \in Nat /\ k \in {0, 1}
  BY <1>1, <1>2
<1>5. CallInv' /\ ResultInv'
  BY <1>1, CallFrame, ResultFrame DEF frame
<1>6. TypeOK'
  BY <1>1, <1>4 DEF TypeOK
<1>7. RequestsInv'
  BY <1>1, <1>2 DEF RequestsInv, IsRequest, AllRequests
<1>8. RepliesInv'
  <2>1. w[1] = request_id => Answers(w, Datagram(request_id, op).data)
    BY <1>2, <1>3 DEF IsRequest
  <2>2. IsReply(w)
    BY <1>3, <2>1, Numbers DEF IsReply
  <2>3. IsReply(answer.data)'
    BY <1>1, <2>2 DEF IsReply, w
  <2>. QED
    BY <1>1, <1>3, <2>3, ReplyFrame DEF RepliesInv, AllReplies, Flasher!NoAnswer
<1>9. CountInv'
  <2>1. Cardinality(Unserved') = Cardinality(Unserved) - k
    BY <1>1, <1>2, CountMeans, DataPlacesStep DEF d
  <2>2. Answered = 0
    BY <1>1 DEF Answered
  <2>3. Answered' = k
    BY <1>1, <1>3 DEF Answered, Flasher!NoAnswer, w
  <2>. HIDE DEF k
  <2>4. UNCHANGED <<Untaken, Travelling, Unsent, Unread>>
    BY <1>1, CountMeans
  <2>5. execs' + Cardinality(Untaken) + Cardinality(Unserved')
          <= 1 + op.max_retries - trials_left
    BY <1>4, <2>1, CountNumbers DEF CountInv
  <2>6. yielded + Answered' + Cardinality(Unsent) + Cardinality(Travelling)
          + Cardinality(Unread) <= execs'
    BY <1>4, <2>2, <2>3, CountNumbers DEF CountInv
  <2>. QED
    BY <1>1, <2>4, <2>5, <2>6 DEF CountInv
<1>10. OrderInv'
  <2>1. ASSUME ~reorders
        PROVE  Ordered(request_id, BagToSet(requests), Tail(inbox), execs')
    <3>1. Ordered(request_id, BagToSet(requests), inbox, execs)
      BY <2>1, OrderMeans
    <3>2. execs' > 0 => execs > 0 \/ Head(inbox).data[1] = request_id
      BY <1>1 DEF d
    <3>. QED
      BY <1>1, <1>2, <3>1, <3>2, OrderOfExecution
  <2>. QED
    BY <1>1, <2>1, OrderMeans
<1>. QED
  BY <1>3, <1>5, <1>6, <1>7, <1>8, <1>9, <1>10

\* A reply is put on the wire, or given up.
LEMMA StepReply ==
  ASSUME IInv, \E sent \in BOOLEAN : Flasher!Reply(sent),
         UNCHANGED <<clientVars, replies, execs, reorders>>
  PROVE  IInv'
<1>. USE DEF IInv
<1>1. /\ answer # Flasher!NoAnswer /\ answer' = Flasher!NoAnswer
      /\ outbox' = outbox \/ outbox' = Append(outbox, answer)
      /\ UNCHANGED <<state, request_id, op, request, trials_left, yielded, suspended, socket,
                     requests, result, cfg, stored, inbox, replies, execs, reorders>>
  BY DEF Flasher!Reply, clientVars, frame
<1>2. answer \in AllReplies /\ IsReply(answer.data) /\ outbox \in Seq(AllReplies)
  BY <1>1 DEF RepliesInv
<1>3. TypeOK' /\ CallInv' /\ RequestsInv' /\ ConfigInv' /\ ResultInv' /\ OrderInv'
  BY <1>1, TypeFrame, CallFrame, RequestsFrame, ConfigFrame, ResultFrame, OrderFrame DEF frame
<1>4. RepliesInv'
  <2>. DEFINE new == Append(outbox, answer)
  <2>1. /\ new \in Seq(AllReplies)
        /\ \A i \in DOMAIN new : \/ i \in DOMAIN outbox /\ new[i] = outbox[i]
                                 \/ i = Len(outbox) + 1 /\ new[i] = answer
    BY <1>2, Elements
  <2>. HIDE DEF new
  <2>2. \A i \in DOMAIN new : IsReply(new[i].data)
    BY <1>2, <2>1 DEF RepliesInv
  <2>3. outbox' \in Seq(AllReplies) /\ \A i \in DOMAIN outbox' : IsReply(outbox'[i].data)
    BY <1>1, <1>2, <2>1, <2>2 DEF RepliesInv, new
  <2>. QED
    BY <1>1, <2>3, ReplyFrame DEF RepliesInv, AllReplies, Flasher!NoAnswer
<1>5. CountInv'
  <2>1. Cardinality(Unsent') \in {Cardinality(Unsent), Cardinality(Unsent) + Answered}
    <3>1. Cardinality(DataPlaces(Append(outbox, answer), request_id)) =
            Cardinality(DataPlaces(outbox, request_id)) + Answered
      BY <1>1, <1>2, DataPlacesStep DEF Answered
    <3>. QED
      BY <1>1, <3>1, CountMeans
  <2>2. Answered' = 0
    BY <1>1 DEF Answered, Flasher!NoAnswer
  <2>3. UNCHANGED <<Untaken, Travelling, Unserved, Unread>>
    BY <1>1, CountMeans
  <2>4. Cardinality(Unsent') \in Nat /\ Cardinality(Unsent') <= Cardinality(Unsent) + Answered
    BY <2>1, CountNumbers
  <2>5. yielded + Answered' + Cardinality(Unsent') + Cardinality(Travelling)
          + Cardinality(Unread) <= execs
    BY <2>2, <2>4, CountNumbers DEF CountInv
  <2>. QED
    BY <1>1, <2>3, <2>5 DEF CountInv
<1>. QED
  BY <1>3, <1>4, <1>5

\* The device boots, fails, or loses its power.
LEMMA StepPower ==
  ASSUME IInv,
         \/ Flasher!Fail \/ Flasher!Load \/ Flasher!Store \/ Flasher!Start \/ Flasher!PowerCut,
         UNCHANGED <<clientVars, replies, execs, reorders>>
  PROVE  IInv'
<1>. USE DEF IInv
<1>1. UNCHANGED <<state, request_id, op, request, trials_left, yielded, suspended, socket,
                  requests, result, outbox, replies, execs, reorders>>
  BY DEF Flasher!Fail, Flasher!Load, Flasher!Store, Flasher!Start, Flasher!PowerCut,
         clientVars, frame
<1>2. \/ UNCHANGED <<inbox, answer>>
      \/ inbox' = <<>> /\ answer' = Flasher!NoAnswer
  BY DEF Flasher!Fail, Flasher!Load, Flasher!Store, Flasher!Start, Flasher!PowerCut
<1>3. ConfigInv'
  <2>1. IsConfig(cfg')
    BY OutsideConfigs
    DEF ConfigInv, Flasher!Fail, Flasher!Load, Flasher!Store, Flasher!Start, Flasher!PowerCut
  <2>2. stored' # Flasher!NoStored => IsConfig(stored')
    BY DEF ConfigInv, Flasher!Fail, Flasher!Load, Flasher!Store, Flasher!Start,
           Flasher!PowerCut
  <2>. QED
    BY <2>1, <2>2 DEF ConfigInv, IsConfig, Flasher!NoStored
<1>4. TypeOK' /\ CallInv' /\ ResultInv'
  BY <1>1, TypeFrame, CallFrame, ResultFrame DEF frame
<1>5. CASE UNCHANGED <<inbox, answer>>
  <2>1. RequestsInv' /\ RepliesInv' /\ CountInv' /\ OrderInv'
    BY <1>1, <1>5, RequestsFrame, RepliesFrame, CountFrame, OrderFrame
  <2>. QED
    BY <1>3, <1>4, <2>1
<1>6. CASE inbox' = <<>> /\ answer' = Flasher!NoAnswer
  <2>1. RequestsInv'
    BY <1>1, <1>6 DEF RequestsInv, IsRequest, AllRequests
  <2>2. RepliesInv'
    BY <1>1, <1>6, ReplyFrame DEF RepliesInv, AllReplies, Flasher!NoAnswer
  <2>3. CountInv'
    <3>1. Unserved' = {} /\ Answered' = 0
      BY <1>6 DEF Unserved, Answered, Flasher!NoAnswer
    <3>2. UNCHANGED <<Untaken, Travelling, Unsent, Unread>>
      BY <1>1, CountMeans
    <3>3. /\ execs + Cardinality(Untaken) + 0 <= 1 + op.max_retries - trials_left
          /\ yielded + 0 + Cardinality(Unsent) + Cardinality(Travelling)
               + Cardinality(Unread) <= execs
      BY CountNumbers DEF CountInv
    <3>. QED
      BY <1>1, <3>1, <3>2, <3>3, FS_EmptySet DEF CountInv
  <2>4. OrderInv'
    BY <1>1, <1>6, OrderMeans DEF Ordered
  <2>. QED
    BY <1>3, <1>4, <2>1, <2>2, <2>3, <2>4
<1>. QED
  BY <1>2, <1>5, <1>6
-----------------------------------------------------------------------------
(* The theorems, for an application that calls the methods of the client,  *)
(* one after the other.                                                    *)

\* The call in progress, or the last one, is a call.
LEMMA CurrentCall ==
  ASSUME IInv
  PROVE  op \in Op /\ request_id \in Int
<1>1. NoOp \in Op
  <2>1. <<>> \in Seq(Int)
    OBVIOUS
  <2>. QED
    BY <2>1 DEF NoOp, CallOf, Op
<1>2. op \in Ops \cup {NoOp} /\ request_id \in Int
  BY DEF IInv, TypeOK
<1>. QED
  BY <1>1, <1>2, SystemAssumption

\* Every step preserves the invariant.
LEMMA InvariantStep ==
  ASSUME Application, IInv, [Next]_vars
  PROVE  IInv'
<1>1. CASE UNCHANGED vars
  BY <1>1, TypeFrame, CallFrame, RequestsFrame, RepliesFrame, ConfigFrame,
     ResultFrame, CountFrame, OrderFrame
  DEF IInv, vars, clientVars, frame, othersVars, deviceVars
<1>2. CASE \E o \in Ops : Call(o)
  BY <1>2, StepRequest, StepPackingFails DEF Call, Application
<1>3. CASE Client
  BY <1>3, StepTimeout, StepRecv DEF Client
<1>4. CASE GoesOn \/ GivesUp
  BY <1>4, StepResume DEF GoesOn, GivesUp
<1>5. CASE Outside
  <2>1. CASE \E d \in BagToSet(requests) : RequestArrives(d) \/ RequestLost(d)
    BY <1>5, <2>1, StepRequestArrives, StepRequestLost DEF Outside
  <2>2. CASE Executes
    BY <1>5, <2>2, StepExecutes DEF Outside
  <2>3. CASE DeviceRuns
    BY <1>5, <2>3, StepReply, StepPower DEF Outside, DeviceRuns
  <2>4. CASE ReplyLeaves
    BY <1>5, <2>4, StepReplyLeaves DEF Outside
  <2>5. CASE \E r \in BagToSet(replies) : ReplyArrives(r) \/ ReplyLost(r)
    BY <1>5, <2>5, StepReplyTaken DEF Outside
  <2>. QED
    BY <1>5, <2>1, <2>2, <2>3, <2>4, <2>5 DEF Outside
<1>. QED
  BY <1>1, <1>2, <1>3, <1>4, <1>5 DEF Next

\* The inductive invariant: what is under way belongs to calls that were made, and
\* what carries the current id belongs to the current call, counted copy by copy.
THEOREM Invariance ==
  ASSUME Application
  PROVE  Spec => []IInv
<1>1. Init => IInv
  BY InitInvariant
<1>2. IInv /\ [Next]_vars => IInv'
  BY InvariantStep
<1>. QED
  BY <1>1, <1>2, PTL DEF Spec

\* Types of the client's variables, and never two calls at once.
THEOREM TypeCorrect ==
  ASSUME Application
  PROVE  Spec => []TypeOK
<1>1. IInv => TypeOK
  BY DEF IInv
<1>. QED
  BY <1>1, Invariance, PTL

\* A call is executed at most once per time it was sent, and each response is the
\* fruit of an execution of its own.
THEOREM ResponsesAreFruits ==
  ASSUME Application
  PROVE  Spec => []ResponsesExecuted
<1>1. IInv => ResponsesExecuted
  BY CountNumbers DEF IInv, CountInv, ResponsesExecuted
<1>. QED
  BY <1>1, Invariance, PTL

\* Client and firmware agree on the formats.
THEOREM FormatsAgree ==
  ASSUME Application
  PROVE  Spec => []NoResponseError
<1>1. IInv => NoResponseError
  BY DEF IInv, ResultInv, NoResponseError
<1>. QED
  BY <1>1, Invariance, PTL

\* What a call reports fits its request: an error only if the device cannot perform
\* it, a value only if it can.
THEOREM VerdictsFit ==
  ASSUME Application
  PROVE  Spec => []VerdictFits
<1>1. ASSUME IInv
      PROVE  VerdictFits
  <2>. DEFINE data == Datagram(request_id, op).data
  <2>1. /\ result = "RequestError" => ~Performs(data) \/ op.code = CMD_READ_SERIAL_NO
        /\ result = "value" =>
             op.method = "request" \/ Performs(data) \/ Flasher!IsConfigWrite(data)
    BY <1>1 DEF IInv, ResultInv
  <2>2. op \in Op /\ request_id \in Int
    BY <1>1, CurrentCall
  <2>3. data[2] = op.sys /\ data[3] = op.code
    BY <2>2, DatagramWords
  <2>. HIDE DEF data
  <2>4. Flasher!IsConfigWrite(data) => WritesConfig
    BY <2>3, Numbers, Kinds DEF WritesConfig
  <2>5. Performs(data) => Flasher!Valid(data)
    BY Numbers DEF Performs, Flasher!Valid
  <2>6. Flasher!Valid(data) => Performs(data) \/ Flasher!IsConfigWrite(data)
    BY Numbers DEF Performs, Flasher!Valid
  <2>. QED
    BY <2>1, <2>4, <2>5, <2>6 DEF VerdictFits, IsValid, data
<1>. QED
  BY <1>1, Invariance, PTL

\* A call that has a value was executed.
LEMMA ValueExecuted ==
  ASSUME IInv, result = "value"
  PROVE  execs > 0
<1>1. yielded \in Nat /\ execs \in Nat /\ yielded > 0
  BY CountNumbers DEF IInv, CallInv
<1>2. yielded <= execs
  BY CountNumbers DEF IInv, CountInv
<1>. QED
  BY <1>1, <1>2

\* What a step does to the outputs: it executes a request, darkens them, or leaves
\* them alone.
LEMMA OutputsStep ==
  ASSUME [Next]_vars
  PROVE  out' = out \/ out' = Flasher!DarkPins \/ Executes
<1>1. CASE UNCHANGED vars \/ (\E o \in Ops : Call(o)) \/ Client \/ GoesOn \/ GivesUp
  BY <1>1 DEF Call, Client, GoesOn, GivesUp, vars, othersVars, deviceVars
<1>2. CASE Outside
  <2>1. ASSUME NEW d, RequestArrives(d) \/ RequestLost(d)
        PROVE  out' = out
    BY <2>1 DEF RequestArrives, RequestLost, Flasher!Arrive, deviceVars
  <2>2. CASE DeviceRuns
    BY <2>2 DEF DeviceRuns, Flasher!Fail, Flasher!Reply, Flasher!Load, Flasher!Store,
                Flasher!Start, Flasher!PowerCut
  <2>3. CASE ReplyLeaves
    BY <2>3 DEF ReplyLeaves, Flasher!Depart
  <2>4. ASSUME NEW r, ReplyArrives(r) \/ ReplyLost(r)
        PROVE  out' = out
    BY <2>4 DEF ReplyArrives, ReplyLost, deviceVars
  <2>. QED
    BY <1>2, <2>1, <2>2, <2>3, <2>4 DEF Outside
<1>. QED
  BY <1>1, <1>2 DEF Next

\* A request that is executed sets at most the output that it names, to its value.
LEMMA OutputsOfExecution ==
  ASSUME Flasher!Execute
  PROVE  LET data == Head(inbox).data IN
         out' = out \/ out' = Flasher!Applied(data[3], Payload(data)[1])
<1>. DEFINE data == Head(inbox).data
<1>1. ASSUME NEW reply, Flasher!Refuse(data, reply) \/ Flasher!Keep
      PROVE  out' = out
  BY <1>1 DEF Flasher!Refuse, Flasher!Keep
<1>2. ASSUME NEW payload, Flasher!Perform(data, payload)
      PROVE  out' = out \/ out' = Flasher!Applied(data[3], Payload(data)[1])
  <2>1. out' = out \/ out' = Flasher!Applied(Flasher!Code(data), Flasher!Payload(data)[1])
    BY <1>2 DEF Flasher!Perform, Flasher!Keep
  <2>. QED
    BY <2>1, Formats
<1>. QED
  BY <1>1, <1>2 DEF Flasher!Execute

\* A setting reported as made stays: with a network that keeps the order, whatever
\* the device still executes during the call is a copy of the same request.
THEOREM SettingsStay ==
  ASSUME Application
  PROVE  Spec => SettingStays
<1>. DEFINE Reported == /\ ~reorders /\ result = "value" /\ op.method = "flasher"
                        /\ op.code \in Flasher!Setters /\ UNCHANGED <<request_id, result>>
            Allowed == {out, Flasher!DarkPins, Flasher!Applied(op.code, op.payload[1])}
<1>1. ASSUME IInv, Reported, Flasher!Execute
      PROVE  out' \in Allowed
  <2>. DEFINE d == Head(inbox)
  <2>1. execs > 0
    BY <1>1, ValueExecuted
  <2>2. d.data[1] = request_id /\ IsRequest(d)
    <3>1. inbox # <<>> /\ inbox \in Seq(AllRequests)
      BY <1>1 DEF Flasher!Execute, Flasher!Serving, IInv, RequestsInv
    <3>2. 1 \in DOMAIN inbox /\ d = inbox[1]
      BY <3>1, Elements
    <3>. QED
      BY <1>1, <2>1, <3>2 DEF IInv, OrderInv, RequestsInv
  <2>3. d = Datagram(request_id, op)
    BY <2>2 DEF IsRequest
  <2>4. op \in Op /\ request_id \in Int
    BY <1>1, CurrentCall
  <2>5. d.data[3] = op.code /\ Payload(d.data) = op.payload
    <3>1. LET e == Datagram(request_id, op)
          IN  e.data[3] = op.code /\ Payload(e.data) = op.payload
      BY <2>4, DatagramWords, Zenon
    <3>. HIDE DEF d
    <3>. QED
      BY <2>3, <3>1, Zenon
  <2>. QED
    BY <1>1, <2>5, OutputsOfExecution
<1>2. ASSUME IInv, [Next]_vars, Reported
      PROVE  out' \in Allowed
  BY <1>1, <1>2, OutputsStep DEF Executes
<1>3. IInv /\ [Next]_vars => [Reported => out' \in Allowed]_vars
  BY <1>2
<1>. QED
  BY <1>3, Invariance, PTL DEF Spec, SettingStays
=============================================================================
