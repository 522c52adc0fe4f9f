--------------------------- MODULE DiscoveryProofs ---------------------------
(***************************************************************************)
(* Proofs about the discovery tool, for any devices, interfaces, command   *)
(* lines and number of runs.                                               *)
(***************************************************************************)
EXTENDS Discovery, SequenceTheorems, WellFoundedInduction, TLAPS

(* Bags, sequences and words.                                              *)

\* What is in a bag after a broadcast or a reply, and after a datagram left it.
LEMMA BagSupport ==
  ASSUME NEW B, NEW S, NEW e
  PROVE  /\ BagToSet(B (+) SetToBag(S)) = BagToSet(B) \cup S
         /\ BagToSet(Without(B, e)) \subseteq BagToSet(B)
         /\ BagToSet(EmptyBag) = {}
  BY DEF BagToSet, SetToBag, (+), (-), Without, EmptyBag

\* A set of positions has a first one.
LEMMA Least ==
  ASSUME NEW T \in SUBSET Nat, T # {}
  PROVE  \E x \in T : \A y \in T : x <= y
<1>. DEFINE R == {ss \in Nat \X Nat : ss[1] < ss[2]}
<1>1. IsWellFoundedOn(R, Nat)
  BY NatLessThanWellFounded DEF OpToRel
<1>2. PICK x \in T : \A y \in T : ~(<<y, x>> \in R)
  <2>. HIDE DEF R
  <2>. QED
    BY <1>1, WFMin, Zenon
<1>3. ASSUME NEW y \in T PROVE x <= y
  <2>1. ~(<<y, x>> \in R) /\ x \in Nat /\ y \in Nat
    BY <1>2
  <2>. QED
    BY <2>1
<1>. QED
  BY <1>2, <1>3

\* The device the tool found is the first in the list with the address named.
LEMMA NamedIsListed ==
  ASSUME NEW S, devices \in Seq(S), HasNamed
  PROVE  Named \in S /\ IsNamed(Named)
<1>. DEFINE T == {i \in DOMAIN devices : IsNamed(devices[i])}
            First(i) == /\ i \in DOMAIN devices
                        /\ IsNamed(devices[i]) /\ \A j \in 1..(i - 1) : ~IsNamed(devices[j])
<1>1. DOMAIN devices = 1..Len(devices) /\ Len(devices) \in Nat
  OBVIOUS
<1>2. PICK x \in T : \A y \in T : x <= y
  <2>1. T \in SUBSET Nat
    BY <1>1
  <2>2. T # {}
    BY DEF HasNamed
  <2>. HIDE DEF T
  <2>. QED
    BY <2>1, <2>2, Least, Zenon
<1>3. ASSUME NEW j \in 1..(x - 1) PROVE ~IsNamed(devices[j])
  <2>1. j \in DOMAIN devices /\ ~(x <= j)
    BY <1>1, <1>2
  <2>. QED
    BY <1>2, <2>1
<1>4. PICK i : i = (CHOOSE k \in DOMAIN devices :
                      IsNamed(devices[k]) /\ \A j \in 1..(k - 1) : ~IsNamed(devices[j]))
  OBVIOUS
<1>5. i \in DOMAIN devices /\ IsNamed(devices[i])
  BY <1>2, <1>3, <1>4
<1>6. Named = devices[i]
  BY <1>4, Zenon DEF Named
<1>. QED
  BY <1>1, <1>5, <1>6

\* The payload is what was put behind the header.
LEMMA Message ==
  ASSUME NEW k \in Nat, NEW p \in Seq(Nat)
  PROVE  LET m == Header(0, SYS_IOSTACK, k) \o p
         IN  m[1] = 0 /\ m[3] = k /\ Payload(m) = p
<1>. DEFINE h == Header(0, SYS_IOSTACK, k)
            m == h \o p
<1>1. h \in Seq(Nat) /\ Len(h) = 3 /\ h[1] = 0 /\ h[3] = k
  BY DEF Header, SYS_IOSTACK
<1>2. Len(p) \in Nat
  OBVIOUS
<1>. HIDE DEF h
<1>3. /\ m \in Seq(Nat) /\ Len(m) = 3 + Len(p)
      /\ \A i \in 1..(3 + Len(p)) : m[i] = IF i <= 3 THEN h[i] ELSE p[i - 3]
  <2>1. /\ h \o p \in Seq(Nat) /\ Len(h \o p) = Len(h) + Len(p)
        /\ \A i \in 1..(Len(h) + Len(p)) :
              (h \o p)[i] = IF i <= Len(h) THEN h[i] ELSE p[i - Len(h)]
    BY <1>1, ConcatProperties, Zenon
  <2>. QED
    BY <1>1, <2>1, Zenon
<1>. HIDE DEF m
<1>4. m[1] = 0 /\ m[3] = k
  BY <1>1, <1>2, <1>3
<1>5. SubSeq(m, 4, Len(m)) = p
  <2>1. /\ 4 \in Int /\ Len(m) \in Int /\ \A i \in 4..Len(m) : m[i] \in Nat
        /\ (IF 4 <= Len(m) THEN Len(m) - 4 + 1 ELSE 0) = Len(p) /\ Len(m) - 4 + 1 = Len(p)
    BY <1>2, <1>3, SMTT(40)
  <2>2. /\ SubSeq(m, 4, Len(m)) \in Seq(Nat) /\ Len(SubSeq(m, 4, Len(m))) = Len(p)
        /\ \A i \in 1..Len(p) : SubSeq(m, 4, Len(m))[i] = m[4 + i - 1]
    BY <2>1, SubSeqProperties
  <2>3. \A i \in 1..Len(p) : m[4 + i - 1] = p[i]
    BY <1>2, <1>3, SMTT(40)
  <2>. QED
    BY <2>2, <2>3, SeqEqual
<1>6. Payload(m) = p
  <2>1. HeaderSize + 1 = 4
    BY DEF HeaderSize
  <2>. QED
    BY <1>5, <2>1, Zenon DEF Payload
<1>. QED
  BY <1>4, <1>6, Zenon DEF m, h

\* What a datagram carries.
LEMMA Datagrams ==
  ASSUME NEW c \in Config
  PROVE  /\ Read[1] = 0 /\ Read[3] = CMD_READ_REG
         /\ Write(c)[1] = 0 /\ Write(c)[3] = CMD_WRITE_REG /\ ConfigOf(Payload(Write(c))) = c
         /\ unpack_ethernet_configuration(Answer(c)) = c
         /\ Field(c, 3) = Mac(c)
<1>1. /\ c \in Seq(Nat) /\ Len(c) = 4 /\ c = <<c[1], c[2], c[3], c[4]>> /\ 3 \in DOMAIN c
  <2>1. PICK c1 \in Nat, c2 \in Nat, c3 \in Nat, c4 \in Nat : c = <<c1, c2, c3, c4>>
    BY DEF Config
  <2>2. /\ <<c1, c2, c3, c4>> \in Seq(Nat) /\ Len(<<c1, c2, c3, c4>>) = 4
        /\ 3 \in DOMAIN <<c1, c2, c3, c4>>
    OBVIOUS
  <2>3. c[1] = c1 /\ c[2] = c2 /\ c[3] = c3 /\ c[4] = c4
    BY <2>1
  <2>. QED
    BY <2>1, <2>2, <2>3, Zenon
<1>2. /\ <<REG_ETH_CFG, 0>> \in Seq(Nat) /\ Len(<<REG_ETH_CFG, 0>>) = 2
      /\ CMD_READ_REG \in Nat /\ CMD_WRITE_REG \in Nat
  BY DEF REG_ETH_CFG, CMD_READ_REG, CMD_WRITE_REG
<1>3. \A k : Header(0, SYS_IOSTACK, k) \in Seq(Nat) \/ k \notin Nat
  BY DEF Header, SYS_IOSTACK
<1>4. /\ <<REG_ETH_CFG, 0>> \o c \in Seq(Nat)
      /\ \A i \in 1..6 : (<<REG_ETH_CFG, 0>> \o c)[i]
                           = IF i <= 2 THEN <<REG_ETH_CFG, 0>>[i] ELSE c[i - 2]
  <2>. DEFINE t == <<REG_ETH_CFG, 0>>
  <2>1. t \in Seq(Nat) /\ Len(t) = 2
    BY <1>2
  <2>. HIDE DEF t
  <2>2. /\ t \o c \in Seq(Nat)
        /\ \A i \in 1..(Len(t) + Len(c)) :
              (t \o c)[i] = IF i <= Len(t) THEN t[i] ELSE c[i - Len(t)]
    BY <1>1, <2>1, ConcatProperties, Zenon
  <2>3. Len(t) + Len(c) = 6
    BY <1>1, <2>1
  <2>4. t \o c \in Seq(Nat) /\ \A i \in 1..6 : (t \o c)[i] = IF i <= 2 THEN t[i] ELSE c[i - 2]
    BY <2>1, <2>2, <2>3, Zenon
  <2>. QED
    BY <2>4, Zenon DEF t
<1>5. Write(c) = Header(0, SYS_IOSTACK, CMD_WRITE_REG) \o (<<REG_ETH_CFG, 0>> \o c)
  <2>. DEFINE h == Header(0, SYS_IOSTACK, CMD_WRITE_REG)
              t == <<REG_ETH_CFG, 0>>
  <2>1. h \in Seq(Nat) /\ t \in Seq(Nat)
    BY <1>2, <1>3
  <2>2. Write(c) = (h \o t) \o c
    BY DEF Write
  <2>. HIDE DEF h, t
  <2>3. (h \o t) \o c = h \o (t \o c)
    BY <1>1, <2>1, ConcatAssociative, SMTT(40)
  <2>. QED
    BY <2>2, <2>3, Zenon DEF h, t
<1>6. Write(c)[1] = 0 /\ Write(c)[3] = CMD_WRITE_REG /\ Payload(Write(c)) = <<REG_ETH_CFG, 0>> \o c
  <2>. DEFINE p == <<REG_ETH_CFG, 0>> \o c
  <2>1. p \in Seq(Nat) /\ Write(c) = Header(0, SYS_IOSTACK, CMD_WRITE_REG) \o p
    BY <1>4, <1>5, Zenon
  <2>. HIDE DEF p
  <2>2. \A k \in Nat : LET m == Header(0, SYS_IOSTACK, k) \o p
                       IN  m[1] = 0 /\ m[3] = k /\ Payload(m) = p
    BY <2>1, Message
  <2>3. Write(c)[1] = 0 /\ Write(c)[3] = CMD_WRITE_REG /\ Payload(Write(c)) = p
    BY <1>2, <2>1, <2>2, Zenon
  <2>. QED
    BY <2>3, Zenon DEF p
<1>7. ConfigOf(<<REG_ETH_CFG, 0>> \o c) = c
  <2>. DEFINE w == <<REG_ETH_CFG, 0>> \o c
  <2>1. \A i \in 1..6 : w[i] = IF i <= 2 THEN <<REG_ETH_CFG, 0>>[i] ELSE c[i - 2]
    BY <1>4, Zenon
  <2>. HIDE DEF w
  <2>2. w[3] = c[1] /\ w[4] = c[2] /\ w[5] = c[3] /\ w[6] = c[4]
    BY <2>1
  <2>3. <<w[3], w[4], w[5], w[6]>> = c
    BY <1>1, <2>2, Zenon
  <2>. QED
    BY <2>3, Zenon DEF ConfigOf, w
<1>8. Read[1] = 0 /\ Read[3] = CMD_READ_REG
  BY <1>2, Message DEF Read
<1>9. unpack_ethernet_configuration(Answer(c)) = c
  BY <1>1, <1>2, Message DEF Answer, unpack_ethernet_configuration, Payload
<1>. QED
  BY <1>1, <1>6, <1>7, <1>8, <1>9 DEF Field, Mac

\* What the tool makes of an acknowledgement or an error has no MAC address.
LEMMA ReceiptFields ==
  ASSUME NEW a \in Receipts
  PROVE  Field(unpack_ethernet_configuration(a), 3) = NoArg
<1>1. CMD_WRITE_REG \in Nat /\ ERR_REPORT \in Nat /\ OKAY \in Nat /\ INVALID_MAC \in Nat
  BY DEF CMD_WRITE_REG, ERR_REPORT, OKAY, INVALID_MAC
<1>2. ASSUME NEW k \in Nat, NEW n \in Nat
      PROVE  Field(unpack_ethernet_configuration(Header(0, SYS_IOSTACK, k) \o <<n>>), 3) = NoArg
  <2>1. <<n>> \in Seq(Nat) /\ 3 \notin DOMAIN <<n>>
    OBVIOUS
  <2>2. Payload(Header(0, SYS_IOSTACK, k) \o <<n>>) = <<n>>
    BY <2>1, Message
  <2>. QED
    BY <2>1, <2>2, Zenon DEF unpack_ethernet_configuration, Payload, Field
<1>. QED
  BY <1>1, <1>2 DEF Receipts

\* Replacing fields keeps the MAC address, and a second time changes nothing.
LEMMA Replacing ==
  ASSUME NEW a \in Argument, NEW c \in Config
  PROVE  With(a, c) \in Config /\ Mac(With(a, c)) = Mac(c) /\ With(a, With(a, c)) = With(a, c)
<1>1. PICK c1 \in Nat, c2 \in Nat, c3 \in Nat, c4 \in Nat : c = <<c1, c2, c3, c4>>
  BY DEF Config
<1>2. \A n \in Nat : /\ Given(a.gateway, n) \in Nat /\ Given(a.subnet, n) \in Nat
                     /\ Given(a.ip, n) \in Nat
  BY DEF Argument, Given
<1>3. With(a, c) = <<Given(a.gateway, c1), Given(a.subnet, c2), c3, Given(a.ip, c4)>>
  BY <1>1 DEF With
<1>4. \A x, n : Given(x, Given(x, n)) = Given(x, n)
  BY DEF Given
<1>. QED
  BY <1>1, <1>2, <1>3, <1>4 DEF With, Mac, Config

LEMMA Updating ==
  ASSUME args \in Argument, NEW c \in Config
  PROVE  Updated(c) \in Config /\ Mac(Updated(c)) = Mac(c) /\ Updated(Updated(c)) = Updated(c)
BY Replacing DEF Updated

\* The current interface and the ones after it.
LEMMA LeftParts ==
  ASSUME TypeOK, left # <<>>
  PROVE  /\ Head(left) \in Names /\ Tail(left) \in Seq(Names)
         /\ Len(left) > 1 => Tail(left) # <<>>
         /\ \A i, j \in DOMAIN Tail(left) : Tail(left)[i] = Tail(left)[j] => i = j
         /\ {Tail(left)[i] : i \in 1..Len(Tail(left))} = {left[i] : i \in 2..Len(left)}
         /\ Head(left) \notin {left[i] : i \in 2..Len(left)}
         /\ {left[i] : i \in 1..Len(left)} = {Head(left)} \cup {left[i] : i \in 2..Len(left)}
<1>1. /\ left \in Seq(Names) /\ left # <<>> /\ Len(left) \in Nat /\ Len(left) > 0
      /\ DOMAIN left = 1..Len(left) /\ Head(left) = left[1]
      /\ \A i, j \in DOMAIN left : left[i] = left[j] => i = j
  BY DEF TypeOK
<1>2. /\ Head(left) \in Names /\ Tail(left) \in Seq(Names) /\ Len(Tail(left)) = Len(left) - 1
      /\ \A i \in 1..Len(Tail(left)) : Tail(left)[i] = left[i + 1]
  BY <1>1, HeadTailProperties
<1>3. DOMAIN Tail(left) = 1..(Len(left) - 1) /\ (Len(left) > 1 => Tail(left) # <<>>)
  BY <1>1, <1>2
<1>4. \A i \in 1..(Len(left) - 1) : i + 1 \in 2..Len(left) /\ i + 1 \in DOMAIN left
  BY <1>1
<1>5. \A i \in 2..Len(left) : /\ i - 1 \in 1..(Len(left) - 1) /\ (i - 1) + 1 = i /\ i # 1
                              /\ i \in DOMAIN left /\ 1 \in DOMAIN left
  BY <1>1
<1>6. \A i, j \in DOMAIN Tail(left) : Tail(left)[i] = Tail(left)[j] => i = j
  <2>1. \A i, j \in 1..(Len(left) - 1) : i + 1 = j + 1 => i = j
    BY <1>1
  <2>. QED
    BY <1>1, <1>2, <1>3, <1>4, <2>1
<1>7. {Tail(left)[i] : i \in 1..Len(Tail(left))} = {left[i] : i \in 2..Len(left)}
  <2>1. ASSUME NEW i \in 1..Len(Tail(left)) PROVE Tail(left)[i] \in {left[j] : j \in 2..Len(left)}
    BY <1>2, <1>4
  <2>2. ASSUME NEW i \in 2..Len(left) PROVE left[i] \in {Tail(left)[j] : j \in 1..Len(Tail(left))}
    BY <1>2, <1>5
  <2>. QED
    BY <2>1, <2>2
<1>8. Head(left) \notin {left[i] : i \in 2..Len(left)}
  BY <1>1, <1>5
<1>9. {left[i] : i \in 1..Len(left)} = {Head(left)} \cup {left[i] : i \in 2..Len(left)}
  <2>1. \A i \in 1..Len(left) : i = 1 \/ i \in 2..Len(left)
    BY <1>1
  <2>2. \A i \in 2..Len(left) : i \in 1..Len(left)
    BY <1>1
  <2>3. 1 \in 1..Len(left)
    BY <1>1
  <2>. QED
    BY <1>1, <2>1, <2>2, <2>3
<1>. QED
  BY <1>2, <1>3, <1>6, <1>7, <1>8, <1>9, Zenon
-----------------------------------------------------------------------------
(* What stays true as the histories grow.                                  *)

Grows == /\ asked \subseteq asked' /\ asked' \subseteq Argument
         /\ \A d \in Devices : past[d] \subseteq past'[d]

\* A device was no less than before.
LEMMA Growing ==
  ASSUME Grows
  PROVE  /\ Pasts \subseteq Pasts' /\ Answers \subseteq Answers'
         /\ {unpack_ethernet_configuration(a) : a \in Answers}
              \subseteq {unpack_ethernet_configuration(a) : a \in Answers'}
<1>1. Pasts \subseteq Pasts'
  BY DEF Grows, Pasts
<1>2. Receipts' = Receipts /\ \A c : Answer(c)' = Answer(c)
  BY DEF Receipts, Answer
<1>3. Answers \subseteq Answers'
  BY <1>1, <1>2 DEF Answers
<1>. QED
  BY <1>1, <1>3

\* What was under way before is still accounted for.
LEMMA UnderWayStays ==
  ASSUME RequestsInv, RepliesInv, Grows,
         NEW S \in SUBSET BagToSet(requests), NEW T \in SUBSET BagToSet(replies)
  PROVE  /\ \A r \in S :
              /\ r.to \in Devices
              /\ LET w == ConfigOf(Payload(r.data))
                 IN  \/ r.data = Read
                     \/ /\ r.data = Write(w)
                        /\ \E a \in asked', c \in Pasts' : MadeOf(w, a, c)
         /\ \A r \in T : r.data \in Answers'
<1>1. ASSUME NEW r \in S
      PROVE  /\ r.to \in Devices
             /\ LET w == ConfigOf(Payload(r.data))
                IN  \/ r.data = Read
                    \/ /\ r.data = Write(w)
                       /\ \E a \in asked', c \in Pasts' : MadeOf(w, a, c)
  <2>. DEFINE w == ConfigOf(Payload(r.data))
  <2>1. /\ r.to \in Devices
        /\ \/ r.data = Read
           \/ r.data = Write(w) /\ \E a \in asked, c \in Pasts : MadeOf(w, a, c)
    BY DEF RequestsInv
  <2>. HIDE DEF w
  <2>2. (\E a \in asked, c \in Pasts : MadeOf(w, a, c))
          => \E a \in asked', c \in Pasts' : MadeOf(w, a, c)
    BY Growing DEF Grows
  <2>. QED
    BY <2>1, <2>2 DEF w
<1>2. ASSUME NEW r \in T PROVE r.data \in Answers'
  BY Growing DEF RepliesInv
<1>. QED
  BY <1>1, <1>2

\* In particular if nothing joins it.
LEMMA UnderWayShrinks ==
  ASSUME RequestsInv, RepliesInv, Grows,
         BagToSet(requests') \subseteq BagToSet(requests),
         BagToSet(replies') \subseteq BagToSet(replies)
  PROVE  RequestsInv' /\ RepliesInv'
<1>1. /\ \A r \in BagToSet(requests') :
           /\ r.to \in Devices
           /\ LET w == ConfigOf(Payload(r.data))
              IN  \/ r.data = Read
                  \/ /\ r.data = Write(w)
                     /\ \E a \in asked', c \in Pasts' : MadeOf(w, a, c)
      /\ \A r \in BagToSet(replies') : r.data \in Answers'
  BY UnderWayStays
<1>. QED
  BY <1>1 DEF RequestsInv, RepliesInv, MadeOf, With, Given, Read, Write

\* Configurations are configurations.
LEMMA PastConfigs == ASSUME TypeOK PROVE Pasts \subseteq Config
  BY DEF TypeOK, Pasts

\* Nothing changes for the devices.
LEMMA PastStays ==
  ASSUME PastInv, UNCHANGED <<cfg, past, args, asked>>, pc' # "off" => pc # "off",
         pc' = "configure" => args.mac # NoArg /\ HasNamed'
  PROVE  PastInv'
BY DEF PastInv

\* Writes of this run stay so as long as neither the configurations nor the command
\* line change.
LEMMA WritesStay ==
  ASSUME UNCHANGED <<args, cfg>>
  PROVE  \A c : IsWrite(c)' = IsWrite(c) /\ Updated(c)' = Updated(c)
BY DEF IsWrite, Updated, With, Given

\* On to the next interface.
LEMMA Advance ==
  ASSUME TypeOK, left # <<>>, NextInterface
  PROVE  /\ pc' \in {"off", "query"}
         /\ left' \in Seq(Names) /\ (pc' # "off" => left' # <<>>)
         /\ \A i, j \in DOMAIN left' : left'[i] = left'[j] => i = j
         /\ pc' # "off" => Later' = {left[i] : i \in 2..Len(left)}
BY LeftParts DEF NextInterface, Later
-----------------------------------------------------------------------------
(* The steps.                                                              *)

\* Nothing is under way at the beginning.
LEMMA IInvInit == Init => IInv
<1>. SUFFICES ASSUME Init PROVE IInv
  OBVIOUS
<1>1. /\ FactoryConfig \in [Devices -> Config] /\ 0 \in 0..MaxRuns
      /\ \A d \in Devices : cfg[d] \in Config /\ past[d] = {cfg[d]}
  BY DiscoveryAssumption DEF Init
<1>2. TypeOK
  <2>1. \A S : <<>> \in Seq(S)
    OBVIOUS
  <2>2. args \in Argument
    BY DEF Init, Argument
  <2>3. \A i \in DOMAIN <<>> : FALSE
    OBVIOUS
  <2>4. past \in [Devices -> SUBSET Config]
    BY <1>1 DEF Init
  <2>. QED
    BY <1>1, <2>1, <2>2, <2>3, <2>4 DEF Init, TypeOK
<1>3. BagToSet(requests) = {} /\ BagToSet(replies) = {}
  BY BagSupport DEF Init
<1>4. PastInv
  BY <1>1 DEF Init, PastInv
<1>5. RequestsInv /\ RepliesInv /\ InterfaceInv /\ HeldInv
  BY <1>3 DEF Init, RequestsInv, RepliesInv, InterfaceInv, HeldInv
<1>6. QuietInv
  <2>1. \A S : <<>> \in Seq(S)
    OBVIOUS
  <2>. QED
    BY <1>3, <1>5, <2>1 DEF Init, QuietInv
<1>. QED
  BY <1>2, <1>4, <1>5, <1>6 DEF IInv

\* The operator starts a run.
LEMMA StartKeeps ==
  ASSUME IInv, NEW a \in Arguments, Start(a)
  PROVE  IInv'
<1>1. /\ pc = "off" /\ pc' = (IF Interfaces = <<>> THEN "off" ELSE "query")
      /\ args' = a /\ asked' = asked \cup {a} /\ left' = Interfaces
      /\ quiet' = (requests = EmptyBag /\ replies = EmptyBag)
      /\ runs' = runs + 1 /\ runs < MaxRuns /\ devices' = <<>>
      /\ UNCHANGED <<socket, cfg, requests, replies, held, past>>
  BY DEF Start
<1>2. a \in Argument /\ \A S : <<>> \in Seq(S)
  BY DiscoveryAssumption
<1>3. socket = <<>>
  BY <1>1 DEF IInv, TypeOK
<1>4. TypeOK'
  <2>1. runs' \in 0..MaxRuns
    BY <1>1, DiscoveryAssumption DEF IInv, TypeOK
  <2>2. asked' \subseteq Argument /\ quiet' \in BOOLEAN
    BY <1>1, <1>2 DEF IInv, TypeOK
  <2>3. left' \in Seq(Names) /\ \A i, j \in DOMAIN left' : left'[i] = left'[j] => i = j
    BY <1>1, DiscoveryAssumption
  <2>4. pc' \in {"off", "query"} /\ (pc' # "off" => left' # <<>>)
    BY <1>1
  <2>5. /\ devices' \in Seq({unpack_ethernet_configuration(x) : x \in Answers'})
        /\ socket' \in Seq(Answers')
    BY <1>1, <1>2, <1>3, Zenon
  <2>. QED
    BY <1>1, <1>2, <1>3, <2>1, <2>2, <2>3, <2>4, <2>5 DEF IInv, TypeOK
<1>5. PastInv'
  BY <1>1 DEF IInv, PastInv
<1>6. RequestsInv' /\ RepliesInv'
  BY <1>1, <1>2, UnderWayShrinks DEF IInv, TypeOK, Grows
<1>7. ASSUME quiet' PROVE QuietInv'
  <2>1. BagToSet(requests') = {} /\ BagToSet(replies') = {}
    BY <1>1, <1>7, BagSupport
  <2>2. InterfaceInv' /\ HeldInv'
    BY <1>1, <2>1 DEF InterfaceInv, HeldInv
  <2>3. devices' \in Seq(held') /\ socket' \in Seq({Answer(c) : c \in held}')
    BY <1>1, <1>2, <1>3, Zenon
  <2>. QED
    BY <2>1, <2>2, <2>3 DEF QuietInv
<1>. QED
  BY <1>4, <1>5, <1>6, <1>7 DEF IInv

\* The tool ends, or goes on to an interface without sending.
LEMMA PassingKeeps ==
  ASSUME IInv, UNCHANGED <<args, runs, asked, quiet, cfg, requests, replies, held, past>>,
         pc # "off", devices' = devices, socket' = <<>>,
         \/ pc' = "off" /\ left' = left
         \/ NextInterface
         \/ pc' = "configure" /\ left' = left /\ HasNamed /\ args.mac # NoArg /\ pc = "listen"
  PROVE  IInv'
<1>1. TypeOK /\ left # <<>> /\ \A S : <<>> \in Seq(S)
  BY DEF IInv, TypeOK
<1>2. Pasts' = Pasts /\ Answers' = Answers
  BY DEF Pasts, Answers, Receipts, Answer
<1>3. TypeOK'
  <2>1. socket' \in Seq(Answers')
    BY <1>1, Zenon
  <2>. QED
    BY <1>1, <1>2, <2>1, Advance DEF TypeOK
<1>4. PastInv'
  <2>1. HasNamed' = HasNamed
    BY DEF HasNamed, IsNamed, Field
  <2>2. pc' = "configure" => args.mac # NoArg /\ HasNamed
    BY <1>1, Advance
  <2>. QED
    BY <2>1, <2>2, PastStays DEF IInv
<1>5. RequestsInv' /\ RepliesInv'
  BY UnderWayShrinks DEF IInv, TypeOK, Grows
<1>6. ASSUME quiet' PROVE QuietInv'
  <2>1. QuietInv
    BY <1>6 DEF IInv
  <2>2. \A c : IsWrite(c)' = IsWrite(c) /\ Updated(c)' = Updated(c)
    BY WritesStay
  <2>3. InterfaceInv' /\ HeldInv'
    <3>1. CASE pc' = "off"
      BY <3>1 DEF InterfaceInv, HeldInv
    <3>2. CASE NextInterface /\ pc' # "off"
      <4>1. pc' = "query" /\ Later' = {left[i] : i \in 2..Len(left)}
        BY <1>1, <3>2, Advance
      <4>2. Later' \subseteq Later
        BY <1>1, <4>1, LeftParts DEF Later
      <4>. QED
        BY <2>1, <4>1, <4>2 DEF QuietInv, InterfaceInv, HeldInv
    <3>3. CASE pc' = "configure" /\ left' = left /\ pc = "listen"
      <4>1. Later' = Later
        BY <3>3 DEF Later
      <4>. QED
        BY <2>1, <2>2, <3>3, <4>1 DEF QuietInv, InterfaceInv, HeldInv
    <3>. QED
      BY <3>1, <3>2, <3>3
  <2>4. devices' \in Seq(held') /\ socket' \in Seq({Answer(c) : c \in held}')
    BY <1>1, <2>1, Zenon DEF QuietInv
  <2>. QED
    BY <2>1, <2>2, <2>3, <2>4 DEF QuietInv
<1>. QED
  BY <1>3, <1>4, <1>5, <1>6 DEF IInv

\* A query: in a quiet run the interface carried nothing, so nothing but its requests
\* is there.
LEMMA QueryKeeps ==
  ASSUME IInv, Query
  PROVE  IInv'
<1>. DEFINE sent == {[to |-> d, interface |-> Head(left), data |-> Read] : d \in Reach[Head(left)]}
<1>1. /\ pc = "query" /\ pc' = "listen" /\ socket' = <<>> /\ devices' = <<>>
      /\ held' = {cfg[d] : d \in Devices}
      /\ UNCHANGED <<args, left, runs, asked, quiet, cfg, replies, past>>
      /\ BagToSet(requests') = BagToSet(requests) \cup sent
  BY BagSupport DEF Query, Broadcast
<1>2. TypeOK /\ left # <<>> /\ Head(left) \in Names /\ \A S : <<>> \in Seq(S)
  BY <1>1, LeftParts DEF IInv, TypeOK
<1>3. TypeOK'
  <2>1. held' \subseteq Config
    BY <1>1, <1>2 DEF TypeOK
  <2>2. /\ devices' \in Seq({unpack_ethernet_configuration(x) : x \in Answers'})
        /\ socket' \in Seq(Answers')
    BY <1>1, <1>2, Zenon
  <2>. QED
    BY <1>1, <1>2, <2>1, <2>2 DEF TypeOK
<1>4. PastInv'
  BY <1>1, PastStays DEF IInv
<1>5. \A r \in sent : r.to \in Devices /\ r.data = Read /\ r.interface = Head(left)
  BY <1>2, DiscoveryAssumption
<1>. HIDE DEF sent
<1>6. RequestsInv' /\ RepliesInv'
  <2>1. Grows
    BY <1>1, <1>2 DEF Grows, TypeOK
  <2>2. /\ \A r \in BagToSet(requests) :
             /\ r.to \in Devices
             /\ LET w == ConfigOf(Payload(r.data))
                IN  \/ r.data = Read
                    \/ /\ r.data = Write(w)
                       /\ \E a \in asked', c \in Pasts' : MadeOf(w, a, c)
        /\ \A r \in BagToSet(replies') : r.data \in Answers'
    BY <1>1, <2>1, UnderWayStays DEF IInv
  <2>. QED
    BY <1>1, <1>5, <2>2 DEF RequestsInv, RepliesInv
<1>7. ASSUME quiet' PROVE QuietInv'
  <2>1. QuietInv
    BY <1>1, <1>7 DEF IInv
  <2>2. \A c : IsWrite(c)' = IsWrite(c) /\ Updated(c)' = Updated(c)
    BY <1>1, WritesStay
  <2>3. HeldInv'
    <3>1. \A d, e \in Devices : Mac(cfg[d]) = Mac(cfg[e]) => d = e
      BY DiscoveryAssumption DEF IInv, PastInv
    <3>. QED
      BY <1>1, <2>2, <3>1 DEF HeldInv
  <2>4. InterfaceInv'
    <3>1. /\ Later = {Head(left)} \cup {left[i] : i \in 2..Len(left)}
          /\ Later' = {left[i] : i \in 2..Len(left)} /\ Head(left) \notin Later'
      BY <1>1, <1>2, LeftParts DEF Later
    <3>2. \A r \in BagToSet(requests) \cup BagToSet(replies) :
             r.interface # Head(left) /\ r.interface \notin Later'
      BY <1>1, <2>1, <3>1 DEF QuietInv, InterfaceInv
    <3>. QED
      BY <1>1, <1>5, <3>1, <3>2 DEF InterfaceInv
  <2>5. devices' \in Seq(held') /\ socket' \in Seq({Answer(c) : c \in held}')
    BY <1>1, <1>2, Zenon
  <2>. QED
    BY <1>1, <1>5, <2>1, <2>2, <2>3, <2>4, <2>5 DEF QuietInv
<1>. QED
  BY <1>3, <1>4, <1>6, <1>7 DEF IInv

\* A datagram is listed, whatever it is.
LEMMA ListedKeeps ==
  ASSUME IInv, Listed
  PROVE  IInv'
<1>. DEFINE U == {unpack_ethernet_configuration(a) : a \in Answers}
            H == {Answer(c) : c \in held}
<1>1. /\ pc = "listen" /\ socket # <<>> /\ socket \in Seq(Answers) /\ devices \in Seq(U)
      /\ held \subseteq Config
      /\ devices' = Append(devices, unpack_ethernet_configuration(Head(socket)))
      /\ socket' = Tail(socket)
      /\ UNCHANGED <<pc, args, left, runs, asked, quiet, cfg, requests, replies, held, past>>
  BY DEF Listed, IInv, TypeOK
<1>2. Answers' = Answers /\ U' = U
  BY <1>1 DEF Pasts, Answers, Receipts, Answer
<1>3. devices' \in Seq(U) /\ socket' \in Seq(Answers)
  <2>1. Head(socket) \in Answers /\ Tail(socket) \in Seq(Answers)
    BY <1>1, HeadTailProperties
  <2>2. unpack_ethernet_configuration(Head(socket)) \in U
    BY <2>1
  <2>. HIDE DEF U
  <2>. QED
    BY <1>1, <2>1, <2>2, AppendProperties
<1>4. TypeOK'
  BY <1>1, <1>2, <1>3 DEF IInv, TypeOK
<1>5. PastInv'
  BY <1>1, PastStays DEF IInv
<1>6. RequestsInv' /\ RepliesInv'
  BY <1>1, UnderWayShrinks DEF IInv, TypeOK, Grows
<1>7. ASSUME quiet' PROVE QuietInv'
  <2>1. QuietInv /\ socket \in Seq(H) /\ devices \in Seq(held)
    BY <1>1, <1>7 DEF IInv, QuietInv
  <2>2. Later' = Later /\ \A c : IsWrite(c)' = IsWrite(c) /\ Updated(c)' = Updated(c)
    BY <1>1, WritesStay DEF Later
  <2>3. InterfaceInv' /\ HeldInv'
    BY <1>1, <2>1, <2>2 DEF QuietInv, InterfaceInv, HeldInv
  <2>4. Head(socket) \in H /\ Tail(socket) \in Seq(H)
    <3>. HIDE DEF H
    <3>. QED
      BY <1>1, <2>1, HeadTailProperties
  <2>5. PICK c \in held : Head(socket) = Answer(c)
    BY <2>4
  <2>6. unpack_ethernet_configuration(Head(socket)) = c
    BY <1>1, <2>5, Datagrams
  <2>7. devices' \in Seq(held)
    BY <1>1, <2>1, <2>6, AppendProperties
  <2>. QED
    BY <1>1, <2>1, <2>2, <2>3, <2>4, <2>7 DEF QuietInv
<1>. QED
  BY <1>4, <1>5, <1>6, <1>7 DEF IInv

\* The device named in the list is one that had this configuration: an
\* acknowledgement has no MAC address.
LEMMA NamedWas ==
  ASSUME TypeOK, HasNamed, args.mac # NoArg
  PROVE  Named \in Pasts /\ Mac(Named) = args.mac
<1>. DEFINE U == {unpack_ethernet_configuration(a) : a \in Answers}
<1>1. Named \in U /\ Field(Named, 3) = args.mac
  <2>1. devices \in Seq(U)
    BY DEF TypeOK
  <2>. HIDE DEF U
  <2>. QED
    BY <2>1, NamedIsListed DEF IsNamed
<1>2. PICK a \in Answers : Named = unpack_ethernet_configuration(a)
  BY <1>1
<1>3. a \notin Receipts
  BY <1>1, <1>2, ReceiptFields
<1>4. PICK c \in Pasts : a = Answer(c)
  BY <1>2, <1>3 DEF Answers
<1>5. Named = c /\ Field(c, 3) = Mac(c)
  BY <1>2, <1>4, PastConfigs, Datagrams
<1>. QED
  BY <1>1, <1>5

\* The new configuration is that of the device named, with the fields replaced.
LEMMA ConfigureKeeps ==
  ASSUME IInv, Configure
  PROVE  IInv'
<1>. DEFINE w == Updated(Named)
            sent == {[to |-> d, interface |-> Head(left), data |-> Write(w)] :
                        d \in Reach[Head(left)]}
<1>1. /\ pc = "configure" /\ NextInterface
      /\ UNCHANGED <<args, devices, socket, runs, asked, quiet, cfg, replies, held, past>>
      /\ BagToSet(requests') = BagToSet(requests) \cup sent
  BY BagSupport DEF Configure, Broadcast
<1>2. TypeOK /\ left # <<>> /\ Head(left) \in Names /\ args \in Argument /\ held \subseteq Config
  BY <1>1, LeftParts DEF IInv, TypeOK
<1>3. Named \in Pasts /\ Named \in Config /\ Mac(Named) = args.mac /\ args \in asked
  BY <1>1, <1>2, NamedWas, PastConfigs DEF IInv, PastInv
<1>4. w \in Config /\ Mac(w) = Mac(Named) /\ MadeOf(w, args, Named)
  BY <1>2, <1>3, Updating DEF MadeOf, Updated
<1>. HIDE DEF w
<1>5. \A r \in sent : /\ r.to \in Devices /\ r.interface = Head(left)
                      /\ r.data = Write(w) /\ ConfigOf(Payload(r.data)) = w
  BY <1>2, <1>4, Datagrams, DiscoveryAssumption
<1>. HIDE DEF sent
<1>6. TypeOK'
  <2>1. Answers' = Answers
    BY <1>1 DEF Pasts, Answers, Receipts, Answer
  <2>. QED
    BY <1>1, <1>2, <2>1, Advance DEF TypeOK
<1>7. PastInv'
  BY <1>1, <1>2, Advance, PastStays DEF IInv
<1>8. RequestsInv' /\ RepliesInv'
  <2>1. Grows /\ Pasts' = Pasts
    BY <1>1, <1>2 DEF Grows, TypeOK, Pasts
  <2>2. /\ \A r \in BagToSet(requests) :
             /\ r.to \in Devices
             /\ LET v == ConfigOf(Payload(r.data))
                IN  \/ r.data = Read
                    \/ /\ r.data = Write(v)
                       /\ \E a \in asked', c \in Pasts' : MadeOf(v, a, c)
        /\ \A r \in BagToSet(replies') : r.data \in Answers'
    BY <1>1, <2>1, UnderWayStays DEF IInv
  <2>3. \E a \in asked', c \in Pasts' : MadeOf(w, a, c)
    BY <1>1, <1>3, <1>4, <2>1
  <2>. QED
    BY <1>1, <1>5, <2>2, <2>3 DEF RequestsInv, RepliesInv
<1>9. ASSUME quiet' PROVE QuietInv'
  <2>1. QuietInv
    BY <1>1, <1>9 DEF IInv
  <2>2. \A c : IsWrite(c)' = IsWrite(c) /\ Updated(c)' = Updated(c)
    BY <1>1, WritesStay
  <2>3. IsWrite(w)
    <3>1. Named \in held
      BY <1>1, <2>1, NamedIsListed DEF IInv, PastInv, QuietInv
    <3>. QED
      BY <1>1, <1>3, <1>4, <2>1, <3>1 DEF IsWrite, QuietInv, HeldInv, w
  <2>4. HeldInv'
    BY <1>1, <1>2, Advance DEF HeldInv
  <2>5. InterfaceInv'
    <3>1. CASE pc' = "off"
      BY <3>1 DEF InterfaceInv
    <3>2. CASE pc' # "off"
      <4>1. /\ pc' = "query" /\ Later' = Later /\ Head(left) \notin Later'
        BY <1>1, <1>2, <3>2, Advance, LeftParts DEF Later
      <4>. QED
        BY <1>1, <1>5, <2>1, <4>1 DEF QuietInv, InterfaceInv
    <3>. QED
      BY <3>1, <3>2
  <2>. QED
    BY <1>1, <1>5, <2>1, <2>2, <2>3, <2>4, <2>5 DEF QuietInv
<1>. QED
  BY <1>6, <1>7, <1>8, <1>9 DEF IInv

\* What a device does with a configuration.
LEMMA Execution ==
  ASSUME IInv, NEW r \in BagToSet(requests), Execute(r)
  PROVE  /\ r.to \in Devices
         /\ UNCHANGED <<pc, args, left, devices, socket, runs, asked, quiet>>
         /\ BagToSet(requests') \subseteq BagToSet(requests)
         /\ held' = held \cup {cfg'[r.to]}
         /\ past' = [past EXCEPT ![r.to] = @ \cup {cfg'[r.to]}]
         /\ \/ cfg' = cfg
            \/ LET w == ConfigOf(Payload(r.data))
               IN  /\ r.data = Write(w) /\ r.data # Read
                   /\ w \in Config /\ Mac(w) = Mac(cfg[r.to])
                   /\ \E a \in asked, c \in Pasts : MadeOf(w, a, c)
                   /\ cfg' = [cfg EXCEPT ![r.to] = w]
         /\ \E data : /\ BagToSet(replies') = BagToSet(replies)
                           \cup {[interface |-> r.interface, data |-> data]}
                      /\ data \in Receipts \cup {Answer(cfg[r.to])}
                      /\ r.data = Read => data = Answer(cfg[r.to]) /\ cfg' = cfg
<1>. DEFINE w == ConfigOf(Payload(r.data))
<1>1. /\ r.to \in Devices
      /\ \/ r.data = Read
         \/ /\ r.data = Write(w) /\ w \in Config
            /\ \E a \in asked, c \in Pasts : MadeOf(w, a, c)
  <2>1. \A a \in asked, c \in Pasts : MadeOf(w, a, c) => w \in Config
    BY PastConfigs, Replacing DEF IInv, TypeOK, MadeOf
  <2>. QED
    BY <2>1 DEF IInv, RequestsInv
<1>2. /\ Read[1] = 0 /\ Read[3] = CMD_READ_REG
      /\ \A d \in Config : Write(d)[1] = 0 /\ Write(d)[3] = CMD_WRITE_REG
  <2>1. cfg[r.to] \in Config
    BY <1>1 DEF IInv, TypeOK
  <2>. QED
    BY <2>1, Datagrams
<1>3. CMD_READ_REG # CMD_WRITE_REG
  BY DEF CMD_READ_REG, CMD_WRITE_REG
<1>4. /\ UNCHANGED <<pc, args, left, devices, socket, runs, asked, quiet>>
      /\ requests' = Without(requests, r) /\ held' = held \cup {cfg'[r.to]}
      /\ past' = [past EXCEPT ![r.to] = @ \cup {cfg'[r.to]}]
  BY DEF Execute, toolVars
<1>5. BagToSet(requests') \subseteq BagToSet(requests)
  BY <1>4, BagSupport
<1>6. \A data : replies' = replies (+) SetToBag({[interface |-> r.interface, data |-> data]})
        => BagToSet(replies') = BagToSet(replies) \cup {[interface |-> r.interface, data |-> data]}
  BY BagSupport
<1>7. CASE r.data[3] = CMD_READ_REG
  <2>1. r.data = Read
    BY <1>1, <1>2, <1>3, <1>7
  <2>2. cfg' = cfg /\ replies' = replies (+)
           SetToBag({[interface |-> r.interface, data |-> Answer(cfg[r.to])]})
    BY <1>2, <1>3, <1>7, <2>1 DEF Execute, Answer
  <2>. QED
    BY <1>1, <1>4, <1>5, <1>6, <2>2
<1>8. CASE r.data[3] # CMD_READ_REG
  <2>1. /\ r.data = Write(w) /\ r.data # Read /\ w \in Config /\ r.data[1] = 0
        /\ \E a \in asked, c \in Pasts : MadeOf(w, a, c)
    BY <1>1, <1>2, <1>8
  <2>. HIDE DEF w
  <2>2. \/ /\ cfg' = cfg
           /\ replies' = replies (+) SetToBag({[interface |-> r.interface,
                data |-> Header(0, SYS_IOSTACK, ERR_REPORT) \o <<INVALID_MAC>>]})
        \/ /\ Mac(w) = Mac(cfg[r.to]) /\ cfg' = [cfg EXCEPT ![r.to] = w]
           /\ replies' = replies (+) SetToBag({[interface |-> r.interface,
                data |-> Header(0, SYS_IOSTACK, CMD_WRITE_REG) \o <<OKAY>>]})
    BY <1>8, <2>1 DEF Execute, w
  <2>3. \E data \in Receipts :
           replies' = replies (+) SetToBag({[interface |-> r.interface, data |-> data]})
    BY <2>2 DEF Receipts
  <2>. QED
    BY <1>1, <1>4, <1>5, <1>6, <2>1, <2>2, <2>3 DEF w
<1>. QED
  BY <1>7, <1>8

\* A device takes a request: its configuration changes into what some command line
\* made of an earlier one of its own, or not at all.
LEMMA ExecuteKeeps ==
  ASSUME IInv, NEW r \in BagToSet(requests), Execute(r)
  PROVE  /\ IInv'
         /\ \A d \in Devices : cfg'[d] # cfg[d] =>
              \E a \in asked, c \in past[d] : a.mac = Mac(cfg[d]) /\ cfg'[d] = With(a, c)
         /\ quiet => \A d \in Devices :
              cfg'[d] # cfg[d] => Mac(cfg[d]) = args.mac /\ cfg'[d] = With(args, cfg[d])
<1>1. /\ r.to \in Devices
      /\ UNCHANGED <<pc, args, left, devices, socket, runs, asked, quiet>>
      /\ BagToSet(requests') \subseteq BagToSet(requests)
      /\ held' = held \cup {cfg'[r.to]}
      /\ past' = [past EXCEPT ![r.to] = @ \cup {cfg'[r.to]}]
  BY Execution
<1>2. /\ TypeOK /\ cfg \in [Devices -> Config] /\ args \in Argument /\ held \subseteq Config
      /\ past \in [Devices -> SUBSET Config] /\ asked \subseteq Argument
  BY DEF IInv, TypeOK
<1>3. /\ cfg' \in [Devices -> Config]
      /\ \A d \in Devices : d # r.to => cfg'[d] = cfg[d]
      /\ \A d \in Devices : cfg'[d] # cfg[d] =>
           \E a \in asked, c \in past[d] : a.mac = Mac(cfg[d]) /\ cfg'[d] = With(a, c)
  <2>1. CASE cfg' = cfg
    BY <1>2, <2>1
  <2>2. CASE cfg' # cfg
    <3>1. PICK w \in Config : /\ Mac(w) = Mac(cfg[r.to])
                              /\ \E a \in asked, c \in Pasts : MadeOf(w, a, c)
                              /\ cfg' = [cfg EXCEPT ![r.to] = w]
      BY <2>2, Execution
    <3>2. PICK a \in asked, c \in Pasts : MadeOf(w, a, c)
      BY <3>1
    <3>3. a.mac = Mac(c) /\ w = With(a, c) /\ Mac(w) = Mac(c)
      BY <1>2, <3>2, PastConfigs, Replacing DEF MadeOf
    <3>4. PICK e \in Devices : c \in past[e]
      BY DEF Pasts
    <3>5. Mac(FactoryConfig[e]) = Mac(FactoryConfig[r.to])
      BY <1>1, <3>1, <3>3, <3>4 DEF IInv, PastInv
    <3>6. e = r.to
      BY <1>1, <3>5, DiscoveryAssumption
    <3>. QED
      BY <1>1, <1>2, <3>1, <3>3, <3>4, <3>6
  <2>. QED
    BY <2>1, <2>2
<1>4. \A d \in Devices : /\ cfg[d] \in Config /\ Mac(cfg'[d]) = Mac(cfg[d])
                         /\ past[d] \subseteq past'[d] /\ cfg'[d] \in past'[d]
                         /\ past'[d] \subseteq past[d] \cup {cfg'[d]}
  <2>1. ASSUME NEW d \in Devices PROVE Mac(cfg'[d]) = Mac(cfg[d])
    <3>1. CASE cfg'[d] = cfg[d]
      BY <3>1
    <3>2. CASE cfg'[d] # cfg[d]
      <4>1. PICK a \in asked, c \in past[d] : cfg'[d] = With(a, c)
        BY <1>3, <3>2
      <4>2. c \in Config /\ a \in Argument
        BY <1>2
      <4>3. Mac(cfg'[d]) = Mac(c)
        BY <4>1, <4>2, Replacing
      <4>. QED
        BY <4>3 DEF IInv, PastInv
    <3>. QED
      BY <3>1, <3>2
  <2>2. ASSUME NEW d \in Devices
        PROVE  /\ past[d] \subseteq past'[d] /\ cfg'[d] \in past'[d]
               /\ past'[d] \subseteq past[d] \cup {cfg'[d]}
    <3>1. CASE d = r.to
      BY <1>1, <1>2, <3>1
    <3>2. CASE d # r.to
      BY <1>1, <1>2, <1>3, <3>2 DEF IInv, PastInv
    <3>. QED
      BY <3>1, <3>2
  <2>. QED
    BY <1>2, <2>1, <2>2
<1>5. Grows
  BY <1>1, <1>2, <1>4 DEF Grows
<1>6. TypeOK'
  <2>1. held' \subseteq Config /\ past' \in [Devices -> SUBSET Config]
    BY <1>1, <1>2, <1>3
  <2>. DEFINE U == {unpack_ethernet_configuration(a) : a \in Answers}
              V == {unpack_ethernet_configuration(a) : a \in Answers'}
  <2>2. U \subseteq V /\ Answers \subseteq Answers' /\ devices \in Seq(U) /\ socket \in Seq(Answers)
    BY <1>2, <1>5, Growing DEF TypeOK
  <2>. HIDE DEF U, V
  <2>3. socket \in Seq(Answers') /\ devices \in Seq(V)
    BY <2>2, SeqMonotonic
  <2>. QED
    BY <1>1, <1>2, <1>3, <2>1, <2>3 DEF TypeOK, V
<1>7. PastInv'
  <2>1. HasNamed' = HasNamed
    BY <1>1 DEF HasNamed, IsNamed, Field
  <2>2. ASSUME NEW d \in Devices
        PROVE  cfg'[d] \in past'[d] /\ \A c \in past'[d] : Mac(c) = Mac(FactoryConfig[d])
    BY <1>4 DEF IInv, PastInv
  <2>. QED
    BY <1>1, <2>1, <2>2 DEF IInv, PastInv
<1>8. PICK data : /\ BagToSet(replies') = BagToSet(replies)
                       \cup {[interface |-> r.interface, data |-> data]}
                  /\ data \in Receipts \cup {Answer(cfg[r.to])}
                  /\ r.data = Read => data = Answer(cfg[r.to]) /\ cfg' = cfg
  BY Execution
<1>9. RequestsInv' /\ RepliesInv'
  <2>1. /\ \A q \in BagToSet(requests') :
             /\ q.to \in Devices
             /\ LET w == ConfigOf(Payload(q.data))
                IN  \/ q.data = Read
                    \/ /\ q.data = Write(w)
                       /\ \E a \in asked', c \in Pasts' : MadeOf(w, a, c)
        /\ \A q \in BagToSet(replies) : q.data \in Answers'
    BY <1>1, <1>5, UnderWayStays DEF IInv
  <2>2. data \in Answers
    <3>1. cfg[r.to] \in Pasts
      BY <1>1 DEF Pasts, IInv, PastInv
    <3>. QED
      BY <1>8, <3>1 DEF Answers
  <2>3. data \in Answers'
    BY <1>5, <2>2, Growing
  <2>. QED
    BY <1>8, <2>1, <2>3 DEF RequestsInv, RepliesInv
<1>10. ASSUME quiet
       PROVE  /\ QuietInv'
              /\ \A d \in Devices :
                   cfg'[d] # cfg[d] => Mac(cfg[d]) = args.mac /\ cfg'[d] = With(args, cfg[d])
  <2>1. QuietInv
    BY <1>10 DEF IInv
  <2>2. \A d \in Devices : \/ cfg'[d] = cfg[d]
                           \/ cfg'[d] = Updated(cfg[d]) /\ Mac(cfg[d]) = args.mac
    <3>1. CASE cfg' = cfg
      BY <3>1
    <3>2. CASE cfg' # cfg
      <4>1. PICK w \in Config : /\ w = ConfigOf(Payload(r.data)) /\ r.data # Read
                                /\ Mac(w) = Mac(cfg[r.to])
                                /\ cfg' = [cfg EXCEPT ![r.to] = w]
        BY <3>2, Execution
      <4>2. IsWrite(w)
        BY <2>1, <4>1 DEF QuietInv
      <4>3. w = Updated(cfg[r.to]) /\ Mac(cfg[r.to]) = args.mac
        BY <1>1, <4>1, <4>2 DEF IsWrite
      <4>. QED
        BY <1>1, <1>2, <4>1, <4>3
    <3>. QED
      BY <3>1, <3>2
  <2>3. \A d \in Devices : Updated(cfg'[d]) = Updated(cfg[d])
    BY <1>2, <1>4, <2>2, Updating
  <2>4. \A c : Updated(c)' = Updated(c)
    BY <1>1 DEF Updated, With, Given
  <2>5. /\ held \subseteq held'
        /\ devices' \in Seq(held') /\ socket' \in Seq({Answer(c) : c \in held'})
    <3>. DEFINE G == {Answer(c) : c \in held}
                H == {Answer(c) : c \in held'}
    <3>1. held \subseteq held' /\ G \subseteq H /\ devices \in Seq(held) /\ socket \in Seq(G)
      BY <1>1, <2>1 DEF QuietInv
    <3>. HIDE DEF G, H
    <3>2. devices \in Seq(held') /\ socket \in Seq(H)
      BY <3>1, SeqMonotonic
    <3>. QED
      BY <1>1, <3>1, <3>2 DEF H
  <2>6. ASSUME NEW c, IsWrite(c) PROVE IsWrite(c)'
    BY <1>1, <1>4, <2>3, <2>4, <2>6 DEF IsWrite
  <2>7. HeldInv'
    <3>1. ASSUME NEW c \in held', NEW d \in Devices, pc \in {"listen", "configure"},
                 Mac(c) = Mac(cfg'[d])
          PROVE  Updated(c) = Updated(cfg'[d])
      <4>1. CASE c \in held
        BY <1>4, <2>1, <2>3, <3>1, <4>1 DEF QuietInv, HeldInv
      <4>2. CASE c = cfg'[r.to]
        <5>1. Mac(FactoryConfig[r.to]) = Mac(FactoryConfig[d])
          BY <1>1, <1>4, <3>1, <4>2 DEF IInv, PastInv
        <5>2. d = r.to
          BY <1>1, <5>1, DiscoveryAssumption
        <5>. QED
          BY <4>2, <5>2
      <4>. QED
        BY <1>1, <4>1, <4>2
    <3>. QED
      BY <1>1, <2>4, <3>1 DEF HeldInv
  <2>8. InterfaceInv'
    <3>1. Later' = Later
      BY <1>1 DEF Later
    <3>2. pc = "listen" /\ r.interface = Head(left) => data = Answer(cfg'[r.to]) /\ cfg'[r.to] \in held'
      BY <1>1, <1>8, <2>1 DEF QuietInv, InterfaceInv
    <3>3. pc # "off" => r.interface \notin Later
      BY <2>1 DEF QuietInv, InterfaceInv
    <3>4. pc = "listen" => \A q \in BagToSet(replies') :
             q.interface = Head(left) => \E c \in held' : q.data = Answer(c)
      BY <1>8, <2>1, <2>5, <3>2 DEF QuietInv, InterfaceInv
    <3>. QED
      BY <1>1, <1>8, <2>1, <3>1, <3>3, <3>4 DEF QuietInv, InterfaceInv
  <2>9. QuietInv'
    BY <1>1, <2>1, <2>5, <2>6, <2>7, <2>8 DEF QuietInv
  <2>. QED
    BY <2>2, <2>9 DEF Updated
<1>. QED
  BY <1>1, <1>3, <1>6, <1>7, <1>9, <1>10 DEF IInv

\* Datagrams are lost, or reach the tool.
LEMMA LeavingKeeps ==
  ASSUME IInv, UNCHANGED <<pc, args, left, devices, runs, asked, quiet, cfg, held, past>>,
         BagToSet(requests') \subseteq BagToSet(requests),
         BagToSet(replies') \subseteq BagToSet(replies),
         socket' \in Seq(Answers), pc # "listen" => socket' = socket,
         quiet => socket' \in Seq({Answer(c) : c \in held})
  PROVE  IInv'
<1>1. TypeOK'
  <2>1. Answers' = Answers
    BY DEF Pasts, Answers, Receipts, Answer
  <2>. QED
    BY <2>1 DEF IInv, TypeOK
<1>2. PastInv'
  <2>1. HasNamed' = HasNamed
    BY DEF HasNamed, IsNamed, Field
  <2>. QED
    BY <2>1, PastStays DEF IInv, PastInv
<1>3. RequestsInv' /\ RepliesInv'
  BY UnderWayShrinks DEF IInv, TypeOK, Grows
<1>4. ASSUME quiet PROVE QuietInv'
  <2>1. Later' = Later /\ \A c : IsWrite(c)' = IsWrite(c) /\ Updated(c)' = Updated(c)
    BY WritesStay DEF Later
  <2>2. InterfaceInv' /\ HeldInv'
    BY <1>4, <2>1 DEF IInv, QuietInv, InterfaceInv, HeldInv
  <2>. QED
    BY <1>4, <2>1, <2>2 DEF IInv, QuietInv
<1>. QED
  BY <1>1, <1>2, <1>3, <1>4 DEF IInv

\* Each way in which a datagram leaves the network without a device.
LEMMA NetworkKeeps ==
  ASSUME IInv, \/ \E r \in BagToSet(requests) : RequestLost(r)
               \/ \E r \in BagToSet(replies) : ReplyArrives(r) \/ ReplyLost(r)
  PROVE  IInv'
<1>. DEFINE H == {Answer(c) : c \in held}
<1>1. socket \in Seq(Answers) /\ (quiet => socket \in Seq(H))
  BY DEF IInv, TypeOK, QuietInv
<1>2. ASSUME NEW r, RequestLost(r) \/ ReplyLost(r) PROVE IInv'
  BY <1>1, <1>2, BagSupport, LeavingKeeps DEF RequestLost, ReplyLost, toolVars
<1>3. ASSUME NEW r \in BagToSet(replies), ReplyArrives(r) PROVE IInv'
  <2>1. r.data \in Answers /\ (quiet => r.data \in H)
    BY <1>3 DEF ReplyArrives, IInv, RepliesInv, QuietInv, InterfaceInv
  <2>. HIDE DEF H
  <2>2. Append(socket, r.data) \in Seq(Answers) /\ (quiet => Append(socket, r.data) \in Seq(H))
    BY <1>1, <2>1, AppendProperties
  <2>. USE DEF H
  <2>. QED
    BY <1>3, <2>2, BagSupport, LeavingKeeps DEF ReplyArrives
<1>. QED
  BY <1>2, <1>3

\* The invariant under every step.
LEMMA IInvNext == IInv /\ [Next]_vars => IInv'
<1>. SUFFICES ASSUME IInv, [Next]_vars PROVE IInv'
  OBVIOUS
<1>1. CASE \E a \in Arguments : Start(a)
  BY <1>1, StartKeeps
<1>2. CASE NoPort \/ Continue \/ Silence
  <2>1. UNCHANGED <<args, runs, asked, quiet, cfg, requests, replies, held, past, devices>>
    BY <1>2 DEF NoPort, Exit, Continue, Silence
  <2>2. socket' = <<>> /\ pc # "off"
    BY <1>2 DEF NoPort, Exit, Continue, Silence, IInv, TypeOK
  <2>3. \/ pc' = "off" /\ left' = left
        \/ NextInterface
        \/ pc' = "configure" /\ left' = left /\ HasNamed /\ args.mac # NoArg /\ pc = "listen"
    BY <1>2 DEF NoPort, Exit, Continue, Silence
  <2>. QED
    BY <2>1, <2>2, <2>3, PassingKeeps
<1>3. CASE Query
  BY <1>3, QueryKeeps
<1>4. CASE Listed
  BY <1>4, ListedKeeps
<1>5. CASE Configure
  BY <1>5, ConfigureKeeps
<1>6. CASE \E r \in BagToSet(requests) : Execute(r)
  BY <1>6, ExecuteKeeps
<1>7. CASE \/ \E r \in BagToSet(requests) : RequestLost(r)
           \/ \E r \in BagToSet(replies) : ReplyArrives(r) \/ ReplyLost(r)
  BY <1>7, NetworkKeeps
<1>8. CASE UNCHANGED vars
  BY <1>8, LeavingKeeps DEF vars, toolVars, IInv, TypeOK, QuietInv
<1>. QED
  BY <1>1, <1>2, <1>3, <1>4, <1>5, <1>6, <1>7, <1>8, Zenon DEF Next, Tool

\* Only a device changes its configuration.
LEMMA OthersKeepConfigs == Next => cfg' = cfg \/ \E r \in BagToSet(requests) : Execute(r)
BY DEF Next, Tool, Start, NoPort, Query, Continue, Listed, Silence, Configure,
       RequestLost, ReplyArrives, ReplyLost
-----------------------------------------------------------------------------
(* The results.                                                            *)

\* The inductive invariant: what the datagrams under way and the list have to do with
\* what the devices ever were, and in a quiet run with what they are.
THEOREM Invariance == Spec => []IInv
  BY IInvInit, IInvNext, PTL DEF Spec

\* Types, the visit of the interfaces included: none twice, none after the last.
THEOREM TypeCorrect == Spec => []TypeOK
<1>1. IInv => TypeOK
  BY DEF IInv
<1>. QED
  BY <1>1, Invariance, PTL

\* A device changes only into what a command line that named it made of something it
\* has been: configure_device never sends an acknowledgement, another device's
\* addresses or a mixture, whatever earlier runs have left under way.
THEOREM ChangesComeFromRequests == Spec => ChangesAreAskedFor
<1>1. ASSUME IInv, [Next]_vars
      PROVE  [\A d \in Devices : cfg'[d] # cfg[d] =>
                \E a \in asked, c \in past[d] :
                  a.mac = Mac(cfg[d]) /\ cfg'[d] = With(a, c)]_vars
  <2>1. CASE \E r \in BagToSet(requests) : Execute(r)
    BY <1>1, <2>1, ExecuteKeeps
  <2>2. CASE cfg' = cfg
    BY <2>2
  <2>. QED
    BY <1>1, <2>1, <2>2, OthersKeepConfigs
<1>. QED
  BY <1>1, Invariance, PTL DEF Spec, ChangesAreAskedFor

\* In a run that begins when nothing of an earlier one is under way, only the device
\* named changes, and only in the fields asked for: over lost and late datagrams, and
\* whatever interfaces reach it.
THEOREM ConfiguresAsAsked == Spec => ChangesAsAsked
<1>1. ASSUME IInv, [Next]_vars
      PROVE  [quiet => \A d \in Devices :
                cfg'[d] # cfg[d] => Mac(cfg[d]) = args.mac /\ cfg'[d] = With(args, cfg[d])]_vars
  <2>1. CASE \E r \in BagToSet(requests) : Execute(r)
    BY <1>1, <2>1, ExecuteKeeps
  <2>2. CASE cfg' = cfg
    BY <2>2
  <2>. QED
    BY <1>1, <2>1, <2>2, OthersKeepConfigs
<1>. QED
  BY <1>1, Invariance, PTL DEF Spec, ChangesAsAsked
=============================================================================
