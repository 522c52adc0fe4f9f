--------------------------- MODULE IostackProofs ---------------------------
(***************************************************************************)
(* Proofs about Iostack, for every choice of clients, requests,            *)
(* configurations and buffer sizes that satisfies the two assumptions.     *)
(***************************************************************************)
EXTENDS Iostack, SequenceTheorems, TLAPS

\* The initial records are of their types.
LEMMA InitialValuesTyped ==
  /\ NoRequest \in RequestType
  /\ NoConfig \in Config
  /\ NoReply \in [code : Nat, data : Seq(Nat)]
  /\ NoDatagram \in Datagram
  /\ NoBefore \in [out : OutType, ram : Config]
  /\ DarkPins \in OutType
<1>1. NoRequest.from \in Clients
  BY ConstantsAssumption DEF NoRequest
<1>2. <<>> \in Seq(Nat)
  OBVIOUS
<1>3. NoRequest \in RequestType
  BY <1>1, <1>2 DEF NoRequest, RequestType
<1>4. NoConfig \in Config
  BY DEF NoConfig, Config
<1>5. DarkPins \in OutType
  BY DEF DarkPins, OutType
<1>. QED
  BY <1>1, <1>2, <1>3, <1>4, <1>5 DEF NoReply, NoDatagram, Datagram, NoBefore

\* Changing the mask or the MAC address of a configuration gives one.
LEMMA ConfigUpdates ==
  ASSUME NEW c \in Config, NEW n \in Nat
  PROVE  /\ WithMask(c, n) \in Config /\ Mac(WithMask(c, n)) = Mac(c)
         /\ WithMac(c, n) \in Config /\ Mac(WithMac(c, n)) = n
         /\ Mac(c) \in Nat
  BY DEF Config, WithMask, WithMac, Mac

\* The payload of a datagram is a sequence of words.
LEMMA PayloadType ==
  ASSUME NEW data \in Seq(Nat)
  PROVE  Payload(data) \in Seq(Nat)
<1>1. Len(data) \in Nat /\ data \in [1..Len(data) -> Nat]
  BY LenProperties
<1>2. \A i \in (HeaderSize + 1)..Len(data) : data[i] \in Nat
  BY <1>1 DEF HeaderSize
<1>. QED
  BY <1>1, <1>2, SubSeqProperties DEF Payload, HeaderSize

\* What is found where words were copied to a place has their number and begins
\* with those that fit.
LEMMA FoundWords ==
  ASSUME NEW p \in Seq(Nat), NEW room \in Nat, NEW memory \in SUBSET Nat,
         NEW w \in Found(p, room, memory)
  PROVE  /\ w \in Seq(Nat) /\ Len(w) = Len(p)
         /\ Len(p) <= room => w = p
         /\ \A i \in 1..Len(p) : i <= room => w[i] = p[i]
<1>1. Len(p) \in Nat
  BY LenProperties
<1>2. CASE Len(p) <= room
  BY <1>2 DEF Found
<1>3. CASE ~(Len(p) <= room)
  <2> DEFINE k == Len(p) - room
             s == SubSeq(p, 1, room)
  <2>1. k \in Nat /\ room + k = Len(p)
    BY <1>1, <1>3
  <2>2. PICK m \in [1..k -> memory] : w = s \o m
    BY <1>3 DEF Found
  <2>3. m \in Seq(Nat) /\ Len(m) = k
    <3>. HIDE DEF k
    <3>1. m \in [1..k -> Nat]
      BY Zenon
    <3>2. \A n \in Nat : \A f \in [1..n -> Nat] : f \in Seq(Nat) /\ Len(f) = n
      OBVIOUS
    <3>. QED
      BY <2>1, <3>1, <3>2, Zenon
  <2>4. s \in Seq(Nat) /\ Len(s) = room /\ \A i \in 1..room : s[i] = p[i]
    <3>1. \A i \in 1..room : p[i] \in Nat
      BY <1>1, <1>3
    <3>. QED
      BY <1>1, <1>3, <3>1, SubSeqProperties
  <2>. HIDE DEF k, s
  <2>5. /\ w \in Seq(Nat) /\ Len(w) = room + k
        /\ \A i \in 1..room : w[i] = s[i]
    <3>1. 1..room \subseteq 1..(room + k)
      BY <2>1
    <3>2. /\ s \o m \in Seq(Nat) /\ Len(s \o m) = Len(s) + Len(m)
          /\ \A i \in 1..(Len(s) + Len(m)) :
               (s \o m)[i] = IF i <= Len(s) THEN s[i] ELSE m[i - Len(s)]
      BY <2>3, <2>4, ConcatProperties, Zenon
    <3>3. \A i \in 1..room : i <= room
      OBVIOUS
    <3>. QED
      BY <2>2, <2>3, <2>4, <3>1, <3>2, <3>3, Zenon
  <2>. QED
    BY <1>3, <2>1, <2>4, <2>5
<1>. QED
  BY <1>2, <1>3

\* The same of the payload of a request: no handler but that of a ping takes one
\* that does not fit.
LEMMA PayloadRead ==
  ASSUME NEW data \in Seq(Nat), NEW w \in PayloadWords(data)
  PROVE  /\ w \in Seq(Nat) /\ Len(w) = Len(Payload(data))
         /\ Len(Payload(data)) <= iostack_max_payload_size => w = Payload(data)
         /\ Len(w) <= 2 + ConfigSize => w = Payload(data)
         /\ \A i \in 1..Len(Payload(data)) :
              i <= iostack_max_payload_size => w[i] = Payload(data)[i]
<1>1. Payload(data) \in Seq(Nat)
  BY PayloadType
<1>2. /\ w \in Seq(Nat) /\ Len(w) = Len(Payload(data))
      /\ Len(Payload(data)) <= iostack_max_payload_size => w = Payload(data)
      /\ \A i \in 1..Len(Payload(data)) :
           i <= iostack_max_payload_size => w[i] = Payload(data)[i]
  BY <1>1, FoundWords, ConstantsAssumption, PayloadAssumption DEF PayloadWords
<1>3. Len(w) \in Nat
  BY <1>2, LenProperties
<1>. QED
  BY <1>2, <1>3, PayloadAssumption DEF ConfigSize

\* Its configuration, if it is long enough to hold one.
LEMMA ConfigOfType ==
  ASSUME NEW p \in Seq(Nat), Len(p) = 2 + ConfigSize
  PROVE  ConfigOf(p) \in Config
<1>. Len(p) = 6
  BY DEF ConfigSize
<1>1. p \in [1..6 -> Nat]
  BY LenProperties
<1>2. \A i \in 1..6 : p[i] \in Nat
  BY <1>1
<1>3. p[3] \in Nat /\ p[4] \in Nat /\ p[5] \in Nat /\ p[6] \in Nat
  BY <1>2
<1>. QED
  BY <1>3 DEF ConfigOf, Config

\* Headers and short replies are sequences of words.
LEMMA WordSequences ==
  /\ \A a, b, c \in Nat : <<a, b, c>> \in Seq(Nat) /\ Len(<<a, b, c>>) = 3
  /\ \A a \in Nat : <<a>> \in Seq(Nat) /\ Len(<<a>>) = 1
  /\ \A c \in Config : c \in Seq(Nat) /\ Len(c) = 4
<1>1. \A a, b, c \in Nat : <<a, b, c>> \in Seq(Nat) /\ Len(<<a, b, c>>) = 3
  OBVIOUS
<1>2. \A a \in Nat : <<a>> \in Seq(Nat) /\ Len(<<a>>) = 1
  OBVIOUS
<1>3. ASSUME NEW c \in Config
      PROVE  c \in Seq(Nat) /\ Len(c) = 4
  <2>1. PICK g \in Nat, m \in Nat, a \in Nat, i \in Nat : c = <<g, m, a, i>>
    BY DEF Config
  <2>. QED
    BY <2>1
<1>. QED
  BY <1>1, <1>2, <1>3

\* The tables have at most seven entries.
LEMMA TableLengths ==
  ASSUME NEW sys
  PROVE  Len(CmdsOf(sys)) \in 1..7
<1>1. Len(iostack_cmds) = 3 /\ Len(flasher_cmds) = 7
  BY DEF iostack_cmds, flasher_cmds
<1>. QED
  BY <1>1 DEF CmdsOf
-----------------------------------------------------------------------------
(* Type correctness.                                                       *)

\* The initial states are well typed.
LEMMA TypeInit == Init => TypeOK
<1> SUFFICES ASSUME Init PROVE TypeOK
  OBVIOUS
<1>1. flash \in [valid : BOOLEAN, cfg : Config]
  <2>1. CASE flash \in [valid : {TRUE}, cfg : Configs]
    BY <2>1, ConstantsAssumption
  <2>2. CASE flash = [valid |-> FALSE, cfg |-> NoConfig]
    BY <2>2, InitialValuesTyped
  <2>. QED
    BY <2>1, <2>2 DEF Init
<1>2. dest \in Clients
  BY InitialValuesTyped DEF Init, RequestType
<1>3. macs \subseteq Nat
  BY <1>1, ConfigUpdates DEF Init
<1>. QED
  BY <1>1, <1>2, <1>3, InitialValuesTyped, TxBufAssumption
  DEF Init, TypeOK, PcValues, Booting, NULL, OKAY, INVALID_MAC

\* The command codes are words.
LEMMA CodesAreWords ==
  /\ SYS_IOSTACK \in Nat /\ ERR_REPORT \in Nat
  /\ CMD_REPORT_FLASHERCTL_ERR \in Nat
  /\ FLASHER_EBVALUE \in Nat /\ FLASHER_ESERIALNO \in Nat
  /\ CMD_READ_REG \in Nat
  /\ OKAY = 0 /\ INVALID_MAC = 5
  BY DEF SYS_IOSTACK, ERR_REPORT, CMD_REPORT_FLASHERCTL_ERR, FLASHER_EBVALUE,
         FLASHER_ESERIALNO, CMD_READ_REG, OKAY, INVALID_MAC

\* The arguments of the response calls.
LEMMA RespondType ==
  ASSUME NEW c \in Nat, NEW d \in Seq(Nat)
  PROVE  [code |-> c, data |-> d] \in [code : Nat, data : Seq(Nat)]
  OBVIOUS

\* Boot keeps the types.
LEMMA TypeBoot ==
  ASSUME TypeOK, BootLoad \/ BootErase \/ BootProgram \/ Configure
  PROVE  TypeOK'
<1>1. CASE BootLoad
  BY <1>1, ConstantsAssumption
  DEF TypeOK, BootLoad, PcValues, Booting, replyVars, histVars
<1>2. CASE BootErase
  BY <1>2
  DEF TypeOK, BootErase, EraseFlash, PcValues, Booting, replyVars, histVars
<1>3. CASE BootProgram
  BY <1>3
  DEF TypeOK, BootProgram, PcValues, Booting, replyVars, histVars
<1>4. CASE Configure
  BY <1>4, InitialValuesTyped
  DEF TypeOK, Configure, PcValues, Booting, replyVars, histVars
<1>. QED
  BY <1>1, <1>2, <1>3, <1>4

\* Concatenating and appending words gives words.
LEMMA ConcatType ==
  ASSUME NEW S, NEW s \in Seq(S), NEW t \in Seq(S), NEW x \in S
  PROVE  /\ s \o t \in Seq(S) /\ Len(s \o t) = Len(s) + Len(t)
         /\ Append(s, x) \in Seq(S) /\ Len(Append(s, x)) = Len(s) + 1
         /\ Len(s) \in Nat
         /\ s # <<>> => Head(s) \in S /\ Tail(s) \in Seq(S)
  OBVIOUS

\* Assigning to the fields of the request that the response calls write.
LEMMA RequestUpdates ==
  ASSUME NEW r \in RequestType
  PROVE  /\ \A c \in Nat, n \in {0, 1} :
              [r EXCEPT !.code = c, !.response_state = n] \in RequestType
         /\ [r EXCEPT !.response_state = 2] \in RequestType
         /\ [r EXCEPT !.sys = SYS_IOSTACK] \in RequestType
<1>1. ASSUME NEW c \in Nat, NEW n \in 0..2
      PROVE  [r EXCEPT !.code = c, !.response_state = n] \in RequestType
  BY DEF RequestType
<1>2. [r EXCEPT !.response_state = 2] \in RequestType
  BY DEF RequestType
<1>3. [r EXCEPT !.sys = SYS_IOSTACK] \in RequestType
  BY DEF RequestType, SYS_IOSTACK
<1>4. \A n \in {0, 1} : n \in 0..2
  OBVIOUS
<1>. QED
  BY <1>1, <1>2, <1>3, <1>4, Zenon

\* So do the response calls.
LEMMA TypeReply ==
  ASSUME TypeOK,
         ResponseBegin \/ ResponseWrite \/ \E sent \in BOOLEAN : ResponseEnd(sent)
  PROVE  TypeOK'
<1>1. CASE ResponseBegin
  <2>1. request \in RequestType /\ resp.code \in Nat
    BY DEF TypeOK
  <2>2. [request EXCEPT !.code = resp.code, !.response_state = 0] \in RequestType
    BY <2>1, RequestUpdates, Zenon
  <2>3. [request EXCEPT !.code = resp.code, !.response_state = 1] \in RequestType
    BY <2>1, RequestUpdates, Zenon
  <2>4. Header(request.id, request.sys, resp.code) \in Seq(Nat)
    BY <2>1, WordSequences DEF Header, RequestType
  <2>5. request' \in RequestType /\ dest' \in Clients
    <3>1. CASE request.response_state # 0
      BY <1>1, <3>1 DEF ResponseBegin, TypeOK
    <3>2. CASE request.response_state = 0
      BY <1>1, <3>2, <2>1, <2>2, <2>3 DEF ResponseBegin, RequestType
    <3>. QED
      BY <3>1, <3>2
  <2>6. txbuf' \in Seq(Nat) /\ free' \in 0..TxBufSize
    <3>1. TxBufSize - HeaderSize \in 0..TxBufSize /\ 0 \in 0..TxBufSize
      BY TxBufAssumption DEF HeaderSize, ConfigSize
    <3>2. txbuf \in Seq(Nat) /\ free \in 0..TxBufSize /\ <<>> \in Seq(Nat)
      BY DEF TypeOK
    <3>. QED
      BY <1>1, <2>4, <3>1, <3>2, Zenon DEF ResponseBegin
  <2>. QED
    BY <1>1, <2>5, <2>6
    DEF TypeOK, ResponseBegin, PcValues, Replying, boardVars, histVars
<1>2. CASE ResponseWrite
  <2>1. txbuf \o resp.data \in Seq(Nat)
    BY ConcatType DEF TypeOK
  <2>2. Fits(resp.data) => free - Len(resp.data) \in 0..TxBufSize
    BY ConcatType, TxBufAssumption DEF TypeOK, Fits
  <2>3. 0 \in 0..TxBufSize
    BY TxBufAssumption
  <2>4. txbuf' \in Seq(Nat) /\ free' \in 0..TxBufSize
    BY <1>2, <2>1, <2>2, <2>3 DEF ResponseWrite, TypeOK
  <2>. QED
    BY <1>2, <2>4
    DEF TypeOK, ResponseWrite, PcValues, Replying, boardVars, histVars
<1>3. ASSUME NEW sent \in BOOLEAN, ResponseEnd(sent)
      PROVE  TypeOK'
  <2>1. [request EXCEPT !.response_state = 2] \in RequestType
    BY RequestUpdates, Zenon DEF TypeOK
  <2>2. Append(tx, [to |-> dest, data |-> txbuf])
          \in Seq([to : Clients, data : Seq(Nat)])
    <3>1. [to |-> dest, data |-> txbuf] \in [to : Clients, data : Seq(Nat)]
      BY DEF TypeOK
    <3>. QED
      BY <3>1, ConcatType DEF TypeOK
  <2>3. 0 \in 0..TxBufSize /\ <<>> \in Seq(Nat)
    BY TxBufAssumption
  <2>4. pc' \in PcValues
    BY <1>3 DEF ResponseEnd, AfterReply, PcValues
  <2>5. /\ request' \in RequestType /\ free' \in 0..TxBufSize
        /\ tx' \in Seq([to : Clients, data : Seq(Nat)]) /\ txbuf' \in Seq(Nat)
    BY <1>3, <2>1, <2>2, <2>3, Zenon DEF TypeOK, ResponseEnd
  <2>6. sends' \in Nat
    BY <1>3 DEF TypeOK, ResponseEnd
  <2>. QED
    BY <1>3, <2>4, <2>5, <2>6, Zenon DEF TypeOK, ResponseEnd, boardVars, histVars
<1>. QED
  BY <1>1, <1>2, <1>3

\* The dispatch of a tick.
LEMMA TypeTick ==
  ASSUME TypeOK, TickRead \/ FindSubsystem \/ FindCommand \/ Return
  PROVE  TypeOK'
<1>1. CASE TickRead
  <2> DEFINE d == Head(rx)
  <2>1. d \in Datagram /\ Tail(rx) \in Seq(Datagram)
    BY <1>1, ConcatType DEF TypeOK, TickRead
  <2>2. /\ d.data \in Seq(Nat) /\ d.from \in Clients
        /\ \A i \in 1..Len(d.data) : d.data[i] \in Nat
    BY <2>1 DEF Datagram
  <2>3. \A i \in {1, 2, 3}, old \in Nat : Field(d.data, i, old) \in Nat
    BY <2>2 DEF Field
  <2>4. \A words \in PayloadWords(d.data) : words \in Seq(Nat)
    BY <2>2, PayloadRead
  <2>5. request' \in RequestType
    <3>1. /\ Field(d.data, 1, request.id) \in Nat
          /\ Field(d.data, 2, request.sys) \in Nat
          /\ Field(d.data, 3, request.code) \in Nat
      BY <2>3 DEF TypeOK, RequestType
    <3>2. \A a, b, c \in Nat, p \in Seq(Nat), f \in Clients :
            [id |-> a, sys |-> b, code |-> c, payload |-> p,
             response_state |-> 0, from |-> f] \in RequestType
      BY DEF RequestType
    <3>. QED
      BY <1>1, <2>2, <2>4, <3>1, <3>2 DEF TickRead
  <2>6. served' \in Datagram /\ before' \in [out : OutType, ram : Config]
    BY <1>1, <2>1, SMTT(40) DEF TickRead, TypeOK
  <2>. QED
    BY <1>1, <2>1, <2>5, <2>6
    DEF TypeOK, TickRead, PcValues, boardVars, replyVars
<1>2. CASE FindSubsystem
  <2>1. /\ [request EXCEPT !.sys = SYS_IOSTACK] \in RequestType
        /\ <<UNKNOWN_SUBSYSTEM>> \in Seq(Nat)
    BY RequestUpdates, WordSequences DEF TypeOK, UNKNOWN_SUBSYSTEM
  <2>2. request' \in RequestType
    BY <1>2, <2>1, Zenon DEF TypeOK, FindSubsystem, SendError
  <2>3. resp' \in [code : Nat, data : Seq(Nat)]
    BY <1>2, <2>1, CodesAreWords, RespondType, Zenon
    DEF TypeOK, FindSubsystem, SendError, Respond
  <2>4. pc' \in PcValues /\ cursor' \in -1..7
    BY <1>2, SMTT(40)
    DEF TypeOK, FindSubsystem, SendError, Respond, PcValues, Replying
  <2>. QED
    BY <1>2, <2>2, <2>3, <2>4, Zenon
    DEF TypeOK, FindSubsystem, boardVars, replyVars, histVars
<1>3. CASE FindCommand
  <2>1. /\ [request EXCEPT !.sys = SYS_IOSTACK] \in RequestType
        /\ <<UNKNOWN_COMMAND>> \in Seq(Nat)
    BY RequestUpdates, WordSequences DEF TypeOK, UNKNOWN_COMMAND
  <2>2. cursor' \in -1..7
    <3> DEFINE n == Len(CmdsOf(request.sys))
    <3>1. n \in 1..7
      BY TableLengths
    <3>. HIDE DEF n
    <3>2. CmdNext(cursor, n) \in -1..7 \/ cursor \notin 0..(n - 1)
      BY <3>1 DEF CmdNext, NULL
    <3>3. \/ cursor' = cursor \/ cursor' = NULL
          \/ cursor \in 0..(n - 1) /\ cursor' = CmdNext(cursor, n)
      BY <1>3, Zenon DEF FindCommand, n
    <3>. QED
      BY <3>2, <3>3, SMTT(40) DEF NULL, TypeOK
  <2>3. request' \in RequestType
    BY <1>3, <2>1, Zenon DEF TypeOK, FindCommand, SendError
  <2>4. resp' \in [code : Nat, data : Seq(Nat)]
    BY <1>3, <2>1, CodesAreWords, RespondType, Zenon
    DEF TypeOK, FindCommand, SendError, Respond
  <2>5. pc' \in PcValues
    BY <1>3 DEF TypeOK, FindCommand, SendError, Respond, PcValues, Replying
  <2>. QED
    BY <1>3, <2>2, <2>3, <2>4, <2>5, Zenon
    DEF TypeOK, FindCommand, boardVars, replyVars, histVars
<1>4. CASE Return
  <2>1. /\ [request EXCEPT !.sys = SYS_IOSTACK] \in RequestType
    BY RequestUpdates DEF TypeOK
  <2>2. <<rc>> \in Seq(Nat) /\ OKAY \in OKAY..INVALID_MAC
    <3>1. rc \in Nat
      BY CodesAreWords DEF TypeOK
    <3>. QED
      BY <3>1, WordSequences, CodesAreWords
  <2>3. NULL \in -1..7 /\ 0 \in Nat
    BY DEF NULL
  <2>4. request' \in RequestType
    BY <1>4, <2>1, Zenon DEF TypeOK, Return, SendError
  <2>5. resp' \in [code : Nat, data : Seq(Nat)]
    <3>1. NoReply \in [code : Nat, data : Seq(Nat)]
      BY InitialValuesTyped
    <3>2. [code |-> ERR_REPORT, data |-> <<rc>>] \in [code : Nat, data : Seq(Nat)]
      BY <2>2, CodesAreWords, RespondType
    <3>. QED
      BY <1>4, <3>1, <3>2, Zenon DEF Return, SendError, Respond
  <2>6. pc' \in PcValues
    BY <1>4 DEF TypeOK, Return, SendError, Respond, PcValues, Replying
  <2>7. /\ cursor' \in -1..7 /\ sends' \in Nat /\ served' \in Datagram
        /\ before' \in [out : OutType, ram : Config] /\ rc' \in OKAY..INVALID_MAC
    BY <1>4, <2>2, <2>3, InitialValuesTyped, Zenon DEF TypeOK, Return
  <2>. QED
    BY <1>4, <2>4, <2>5, <2>6, <2>7, Zenon DEF TypeOK, Return, boardVars
<1>. QED
  BY <1>1, <1>2, <1>3, <1>4

\* A handler of the flasher subsystem leaves the pins and the reply well typed,
\* whatever it does with the argument.
LEMMA TypeFlasherHandlers ==
  ASSUME TypeOK,
         \/ LedBuiltin \/ TestPulse \/ SetLedCurrent \/ SetPulseWidth
         \/ StartTemperature \/ ReadTemperature \/ ReadSerialNo
  PROVE  TypeOK'
<1>1. /\ out \in OutType /\ request.code \in Nat /\ request.payload \in Seq(Nat)
      /\ rc \in OKAY..INVALID_MAC /\ <<>> \in Seq(Nat)
  BY DEF TypeOK, RequestType
<1>2. Len(request.payload) = 1 => Arg \in Nat
  BY <1>1 DEF Arg
<1>3. /\ \A v \in 0..1 : [out EXCEPT !.led = v] \in OutType
      /\ \A v \in 0..1 : [out EXCEPT !.test = v] \in OutType
      /\ \A v \in 0..15 : [out EXCEPT !.current = v] \in OutType
      /\ \A v \in Nat : [out EXCEPT !.width = v] \in OutType
  <2>1. \A v \in 0..1 : [out EXCEPT !.led = v] \in OutType
    BY <1>1 DEF OutType
  <2>2. \A v \in 0..1 : [out EXCEPT !.test = v] \in OutType
    BY <1>1 DEF OutType
  <2>3. \A v \in 0..15 : [out EXCEPT !.current = v] \in OutType
    BY <1>1 DEF OutType
  <2>4. \A v \in Nat : [out EXCEPT !.width = v] \in OutType
    BY <1>1 DEF OutType
  <2>. QED
    BY <2>1, <2>2, <2>3, <2>4
<1>4. INVALID_SIZE \in OKAY..INVALID_MAC
  BY DEF INVALID_SIZE, OKAY, INVALID_MAC
<1> DEFINE Responds == /\ out' \in OutType
                       /\ resp' \in [code : Nat, data : Seq(Nat)]
                       /\ pc' = "begin"
<1>5. ASSUME NEW newOut \in OutType, Ack(newOut)
      PROVE  Responds
  BY <1>5, <1>1, RespondType DEF Ack, Respond
<1>6. ASSUME NEW err \in Nat, FlasherError(err)
      PROVE  Responds
  <2>1. <<err>> \in Seq(Nat)
    BY WordSequences
  <2>. QED
    BY <1>6, <2>1, <1>1, CodesAreWords, RespondType DEF FlasherError, Respond
<1>7. ASSUME NEW data \in Seq(Nat), Answer(data)
      PROVE  Responds
  BY <1>7, <1>1, RespondType DEF Answer, Respond
\* Whatever the call is, it is enough to look at the pins and the response.
<1>8. ASSUME NEW code,
             \/ Fail(INVALID_SIZE)
             \/ Responds /\ UNCHANGED <<ram, chip, flash, request, rc>>,
             UNCHANGED <<cursor, rx, replyVars, histVars>>
      PROVE  TypeOK'
  BY <1>4, <1>8
  DEF TypeOK, Fail, PcValues, Replying, boardVars, replyVars, histVars
<1>. HIDE DEF Responds
<1>9. CASE LedBuiltin
  <2>1. FlasherHandler(CMD_LED_BUILTIN, Responds)
    <3>1. Arg \in {0, 1} => Arg \in 0..1
      OBVIOUS
    <3>. QED
      BY <1>9, <3>1, <1>3, <1>5, <1>6, CodesAreWords, Zenon
      DEF LedBuiltin, FlasherHandler
  <2>. QED
    BY <2>1, <1>8, Zenon DEF FlasherHandler
<1>10. CASE TestPulse
  <2>1. FlasherHandler(CMD_TEST_PULSE, Responds)
    <3>1. (IF Arg = 1 THEN 1 ELSE 0) \in 0..1
      OBVIOUS
    <3>. QED
      BY <1>10, <3>1, <1>3, <1>5, <1>6, CodesAreWords, Zenon
      DEF TestPulse, FlasherHandler
  <2>. QED
    BY <2>1, <1>8, Zenon DEF FlasherHandler
<1>11. CASE SetLedCurrent
  <2>1. FlasherHandler(CMD_SET_LED_CURRENT, Responds)
    <3>1. Len(request.payload) = FlasherPayloadSize(CMD_SET_LED_CURRENT)
            => Arg > 15 \/ Arg \in 0..15
      BY <1>2 DEF FlasherPayloadSize, CMD_SET_LED_CURRENT, CMD_START_TEMPERATURE,
                  CMD_READ_TEMPERATURE, CMD_READ_SERIAL_NO
    <3>. QED
      BY <1>11, <3>1, <1>3, <1>5, <1>6, CodesAreWords, Zenon
      DEF SetLedCurrent, FlasherHandler
  <2>. QED
    BY <2>1, <1>8, Zenon DEF FlasherHandler
<1>12. CASE SetPulseWidth
  <2>1. FlasherHandler(CMD_SET_PULSE_WIDTH, Responds)
    <3>1. Len(request.payload) = FlasherPayloadSize(CMD_SET_PULSE_WIDTH)
            => Arg \in Nat
      BY <1>2 DEF FlasherPayloadSize, CMD_SET_PULSE_WIDTH, CMD_START_TEMPERATURE,
                  CMD_READ_TEMPERATURE, CMD_READ_SERIAL_NO
    <3>. QED
      BY <1>12, <3>1, <1>3, <1>5, Zenon DEF SetPulseWidth, FlasherHandler
  <2>. QED
    BY <2>1, <1>8, Zenon DEF FlasherHandler
<1>13. CASE StartTemperature
  <2>1. FlasherHandler(CMD_START_TEMPERATURE, Responds)
    BY <1>13, <1>1, <1>5, Zenon DEF StartTemperature, FlasherHandler
  <2>. QED
    BY <2>1, <1>8, Zenon DEF FlasherHandler
<1>14. CASE ReadTemperature
  <2>1. \A t \in Temperatures : <<t>> \in Seq(Nat)
    BY WordSequences, ConstantsAssumption
  <2>2. FlasherHandler(CMD_READ_TEMPERATURE, Responds)
    BY <1>14, <2>1, <1>7, Zenon DEF ReadTemperature, FlasherHandler
  <2>. QED
    BY <2>2, <1>8, Zenon DEF FlasherHandler
<1>15. CASE ReadSerialNo
  <2>1. \A s \in Serials : <<s>> \in Seq(Nat)
    BY WordSequences, ConstantsAssumption
  <2>2. FlasherHandler(CMD_READ_SERIAL_NO, Responds)
    BY <1>15, <2>1, <1>6, <1>7, CodesAreWords, Zenon
    DEF ReadSerialNo, FlasherHandler
  <2>. QED
    BY <2>2, <1>8, Zenon DEF FlasherHandler
<1>. QED
  BY <1>9, <1>10, <1>11, <1>12, <1>13, <1>14, <1>15

\* The handlers of the iostack subsystem, and what follows a reply of theirs.
LEMMA TypeIostackHandlers ==
  ASSUME TypeOK,
         \/ Ping \/ RegisterRead \/ RegisterWrite
         \/ RestoreMask \/ WriteErase \/ WriteProgram
  PROVE  TypeOK'
<1>1. /\ request.code \in Nat /\ request.payload \in Seq(Nat)
      /\ [request EXCEPT !.sys = SYS_IOSTACK] \in RequestType
      /\ chip \in Seq(Nat) /\ WithMask(chip, 0) \in Config
  BY RequestUpdates, ConfigUpdates, WordSequences DEF TypeOK, RequestType
<1>2. {INVALID_SIZE, INVALID_REGISTER, INVALID_MAC, OKAY} \subseteq OKAY..INVALID_MAC
  BY DEF INVALID_SIZE, INVALID_REGISTER, OKAY, INVALID_MAC
<1>3. <<INVALID_MAC>> \in Seq(Nat) /\ <<OKAY>> \in Seq(Nat)
  BY CodesAreWords, WordSequences
<1>4. CASE Ping
  <2>1. resp' \in [code : Nat, data : Seq(Nat)] /\ pc' = "begin"
    BY <1>1, <1>4, RespondType, Zenon DEF Ping, Respond
  <2>. QED
    BY <1>4, <2>1
    DEF TypeOK, Ping, PcValues, Replying, boardVars, replyVars, histVars
<1>5. CASE RegisterRead
  <2>1. /\ rc' \in OKAY..INVALID_MAC /\ request' \in RequestType
        /\ ram' \in Config /\ chip' \in Config
        /\ UNCHANGED <<flash, out>>
    BY <1>1, <1>2, <1>5, Zenon DEF TypeOK, RegisterRead, Fail, boardVars
  <2>2. pc' \in {"begin", "return"}
    BY <1>5 DEF RegisterRead, Fail, Respond
  <2>3. resp' \in [code : Nat, data : Seq(Nat)]
    <3>1. [code |-> request.code, data |-> chip] \in [code : Nat, data : Seq(Nat)]
      BY <1>1, RespondType
    <3>. QED
      BY <1>5, <3>1, Zenon DEF TypeOK, RegisterRead, Fail, Respond
  <2>4. pc' \in PcValues
    BY <2>2 DEF PcValues, Replying
  <2>. QED
    BY <1>5, <2>1, <2>3, <2>4, Zenon
    DEF TypeOK, RegisterRead, replyVars, histVars
<1>6. CASE RegisterWrite
  <2>1. /\ rc' \in OKAY..INVALID_MAC /\ request' \in RequestType
        /\ UNCHANGED <<flash, out>>
    BY <1>1, <1>2, <1>6, Zenon DEF TypeOK, RegisterWrite, Fail, SendError, boardVars
  <2>2. ram' \in Config /\ chip' \in Config
    <3>1. CASE Len(request.payload) = 2 + ConfigSize
      <4>1. NewConfig \in Config
        BY <1>1, <3>1, ConfigOfType DEF NewConfig
      <4>. QED
        BY <1>6, <4>1, Zenon DEF TypeOK, RegisterWrite, Fail, boardVars
    <3>2. CASE Len(request.payload) # 2 + ConfigSize
      BY <1>6, <3>2, Zenon DEF TypeOK, RegisterWrite, Fail, boardVars
    <3>. QED
      BY <3>1, <3>2
  <2>3. pc' \in {"begin", "return", "erase"}
    BY <1>6 DEF RegisterWrite, Fail, SendError, Respond
  <2>4. resp' \in [code : Nat, data : Seq(Nat)]
    <3>1. [code |-> ERR_REPORT, data |-> <<INVALID_MAC>>]
            \in [code : Nat, data : Seq(Nat)]
      BY <1>3, CodesAreWords, RespondType
    <3>. QED
      BY <1>6, <3>1, Zenon DEF TypeOK, RegisterWrite, Fail, SendError, Respond
  <2>5. pc' \in PcValues
    BY <2>3 DEF PcValues, Replying
  <2>. QED
    BY <1>6, <2>1, <2>2, <2>4, <2>5, Zenon
    DEF TypeOK, RegisterWrite, replyVars, histVars
<1>7. CASE RestoreMask
  BY <1>7 DEF TypeOK, RestoreMask, PcValues, replyVars, histVars
<1>8. CASE WriteErase
  BY <1>8 DEF TypeOK, WriteErase, EraseFlash, PcValues, replyVars, histVars
<1>9. CASE WriteProgram
  <2>1. request' \in RequestType /\ resp' \in [code : Nat, data : Seq(Nat)]
    BY <1>1, <1>3, <1>9, RespondType, Zenon
    DEF WriteProgram, SendAcknowledge, Respond
  <2>2. flash' \in [valid : BOOLEAN, cfg : Config]
    BY <1>9 DEF TypeOK, WriteProgram
  <2>3. pc' \in PcValues
    BY <1>9 DEF WriteProgram, SendAcknowledge, Respond, PcValues, Replying
  <2>. QED
    BY <1>9, <2>1, <2>2, <2>3, Zenon DEF TypeOK, WriteProgram, replyVars, histVars
<1>. QED
  BY <1>4, <1>5, <1>6, <1>7, <1>8, <1>9

\* The operator, the power switch and the network.
LEMMA TypeEnvironment ==
  ASSUME TypeOK, Environment
  PROVE  TypeOK'
<1>1. ASSUME NEW mac \in ConsoleMacs, EnterMac(mac)
      PROVE  TypeOK'
  <2>1. mac \in Nat /\ WithMac(ram, mac) \in Config
    BY ConstantsAssumption, ConfigUpdates DEF TypeOK
  <2>. QED
    BY <1>1, <2>1 DEF TypeOK, EnterMac, PcValues, Booting, replyVars
<1>2. CASE PowerCycle
  <2>1. NoRequest.from \in Clients /\ 0 \in 0..TxBufSize
    BY InitialValuesTyped, TxBufAssumption DEF RequestType
  <2>. QED
    BY <1>2, <2>1, InitialValuesTyped
    DEF TypeOK, PowerCycle, Volatile, PcValues, Booting, NULL, OKAY, INVALID_MAC
<1>3. ASSUME NEW d \in Requests, Arrive(d)
      PROVE  TypeOK'
  <2>1. Append(rx, d) \in Seq(Datagram)
    BY ConstantsAssumption, ConcatType DEF TypeOK
  <2>. QED
    BY <1>3, <2>1, Zenon DEF TypeOK, Arrive, boardVars, replyVars, histVars
<1>4. CASE Depart
  <2>1. Tail(tx) \in Seq([to : Clients, data : Seq(Nat)])
    BY <1>4, ConcatType DEF TypeOK, Depart
  <2>. QED
    BY <1>4, <2>1, Zenon DEF TypeOK, Depart, boardVars, histVars
<1>. QED
  BY <1>1, <1>2, <1>3, <1>4 DEF Environment

\* Every step keeps the types.
LEMMA TypeNext == TypeOK /\ [Next]_vars => TypeOK'
<1> SUFFICES ASSUME TypeOK, [Next]_vars PROVE TypeOK'
  OBVIOUS
<1>1. CASE Firmware
  BY <1>1, TypeBoot, TypeTick, TypeReply, TypeFlasherHandlers,
     TypeIostackHandlers, Zenon
  DEF Firmware, Handler
<1>2. CASE Environment
  BY <1>2, TypeEnvironment
<1>3. CASE UNCHANGED vars
  BY <1>3, Zenon DEF vars, boardVars, replyVars, histVars, TypeOK
<1>. QED
  BY <1>1, <1>2, <1>3 DEF Next

\* The state of the firmware is well typed in every reachable state.
THEOREM TypeCorrect == Spec => []TypeOK
  BY TypeInit, TypeNext, PTL DEF Spec
-----------------------------------------------------------------------------
(* The inductive invariant.                                                *)

\* What the response calls leave of the request.
LEMMA RequestFields ==
  ASSUME NEW r \in RequestType
  PROVE  /\ \A c, n : LET s == [r EXCEPT !.code = c, !.response_state = n]
                      IN  s.response_state = n /\ s.sys = r.sys
         /\ LET s == [r EXCEPT !.response_state = 2]
            IN  s.response_state = 2 /\ s.sys = r.sys
         /\ LET s == [r EXCEPT !.sys = SYS_IOSTACK]
            IN  s.response_state = r.response_state /\ s.sys = SYS_IOSTACK
  BY DEF RequestType

\* A power cycle and the initial state begin at "boot" with nothing sent.
LEMMA StateInvBoot ==
  ASSUME pc = "boot", sends = 0, flash.valid => Mac(flash.cfg) \in macs
  PROVE  ReplyInv /\ ConfigInv /\ MacInv
  BY DEF ReplyInv, ConfigInv, MacInv, Booting, Replying

\* The inductive invariant holds at first power-on ...
LEMMA StateInvInit == Init => StateInv
<1> SUFFICES ASSUME Init PROVE StateInv
  OBVIOUS
<1>1. flash.valid => Mac(flash.cfg) \in macs
  BY DEF Init
<1>. QED
  BY <1>1, TypeInit, StateInvBoot DEF Init, StateInv

\* The steps that change neither the count of transmissions nor how far the
\* response got, by what they do to pc and rc.
LEMMA ReplyKept ==
  ASSUME ReplyInv, sends' = sends,
         request'.response_state = request.response_state,
         \/ pc \in Booting /\ pc' \in Booting \cup {"idle"}
         \/ /\ pc \in {"subsystem", "command", "handler", "erase", "program"}
            /\ \/ pc' \in {"command", "handler", "erase", "program", "begin",
                           "fault"}
               \/ pc' = "return" /\ rc' # OKAY
         \/ pc = "write" /\ pc' = "end"
         \/ pc = "restore" /\ pc' = "return"
         \/ pc = "return" /\ pc' = "begin"
         \/ pc' = pc /\ rc' = rc
  PROVE  ReplyInv'
  BY DEF ReplyInv, Booting

\* Every step keeps ReplyInv.
LEMMA ReplyInvNext ==
  ASSUME TypeOK, ReplyInv, Next
  PROVE  ReplyInv'
<1>. request \in RequestType
  BY DEF TypeOK
<1>1. CASE BootLoad \/ BootErase \/ BootProgram \/ Configure
  BY <1>1, ReplyKept, Zenon
  DEF BootLoad, BootErase, BootProgram, Configure, EraseFlash, replyVars, Booting
<1>2. CASE TickRead
  <2>1. /\ pc = "idle" /\ pc' \in {"idle", "subsystem"}
        /\ request'.response_state = 0 /\ sends' = sends
    BY <1>2 DEF TickRead, replyVars
  <2>. QED
    BY <2>1 DEF ReplyInv, Booting
<1>3. CASE FindSubsystem
  <2>1. /\ pc = "subsystem" /\ pc' \in {"command", "begin"} /\ sends' = sends
        /\ \/ request' = request
           \/ request' = [request EXCEPT !.sys = SYS_IOSTACK]
    BY <1>3 DEF FindSubsystem, SendError, Respond, replyVars
  <2>2. request'.response_state = request.response_state
    BY <2>1, RequestFields, Zenon
  <2>. QED
    BY <2>1, <2>2, ReplyKept
<1>4. CASE FindCommand
  <2>1. /\ pc = "command" /\ pc' \in {"command", "handler", "fault", "begin"}
        /\ sends' = sends
        /\ \/ request' = request
           \/ request' = [request EXCEPT !.sys = SYS_IOSTACK]
    BY <1>4 DEF FindCommand, SendError, Respond, replyVars
  <2>2. request'.response_state = request.response_state
    BY <2>1, RequestFields, Zenon
  <2>. QED
    BY <2>1, <2>2, ReplyKept
<1>5. CASE Return
  <2>1. CASE rc # OKAY
    <3>1. /\ pc = "return" /\ pc' = "begin" /\ sends' = sends
          /\ request' = [request EXCEPT !.sys = SYS_IOSTACK]
      BY <1>5, <2>1, Zenon DEF Return, SendError, Respond
    <3>2. request'.response_state = request.response_state
      BY <3>1, RequestFields, Zenon
    <3>. QED
      BY <3>1, <3>2, ReplyKept
  <2>2. CASE rc = OKAY
    <3>1. pc' = "idle" /\ sends' = 0
      BY <1>5, <2>2, Zenon DEF Return
    <3>. QED
      BY <3>1 DEF ReplyInv, Booting
  <2>. QED
    BY <2>1, <2>2
<1>6. CASE Handler
  <2>1. CASE \/ LedBuiltin \/ TestPulse \/ SetLedCurrent \/ SetPulseWidth
             \/ StartTemperature \/ ReadTemperature \/ ReadSerialNo
    <3>1. /\ pc = "handler" /\ sends' = sends /\ request' = request
          /\ \/ pc' = "begin"
             \/ pc' = "return" /\ rc' = INVALID_SIZE
      <4>1. CASE LedBuiltin \/ TestPulse
        BY <4>1, Zenon
        DEF LedBuiltin, TestPulse, FlasherHandler, InHandler, Ack, FlasherError,
            Respond, Fail, replyVars
      <4>2. CASE SetLedCurrent \/ SetPulseWidth \/ StartTemperature
        BY <4>2, Zenon
        DEF SetLedCurrent, SetPulseWidth, StartTemperature, FlasherHandler,
            InHandler, Ack, FlasherError, Respond, Fail, replyVars
      <4>3. CASE ReadTemperature
        BY <4>3, Zenon
        DEF ReadTemperature, FlasherHandler, InHandler, Answer, Respond, Fail,
            replyVars
      <4>4. CASE ReadSerialNo
        BY <4>4, Zenon
        DEF ReadSerialNo, FlasherHandler, InHandler, Answer, FlasherError,
            Respond, Fail, replyVars
      <4>. QED
        BY <2>1, <4>1, <4>2, <4>3, <4>4
    <3>2. INVALID_SIZE # OKAY
      BY DEF INVALID_SIZE, OKAY
    <3>. QED
      BY <3>1, <3>2, ReplyKept
  <2>2. CASE Ping \/ RegisterRead
    <3>1. /\ pc = "handler" /\ sends' = sends /\ request' = request
          /\ \/ pc' = "begin"
             \/ pc' = "return" /\ rc' \in {INVALID_SIZE, INVALID_REGISTER}
      BY <2>2
      DEF Ping, RegisterRead, InHandler, Respond, Fail, replyVars
    <3>2. INVALID_SIZE # OKAY /\ INVALID_REGISTER # OKAY
      BY DEF INVALID_SIZE, INVALID_REGISTER, OKAY
    <3>. QED
      BY <3>1, <3>2, ReplyKept
  <2>3. CASE RegisterWrite
    <3>1. /\ pc = "handler" /\ sends' = sends
          /\ \/ request' = request
             \/ request' = [request EXCEPT !.sys = SYS_IOSTACK]
          /\ \/ pc' \in {"begin", "erase"}
             \/ pc' = "return" /\ rc' \in {INVALID_SIZE, INVALID_REGISTER}
      BY <2>3
      DEF RegisterWrite, InHandler, SendError, Respond, Fail, replyVars
    <3>2. INVALID_SIZE # OKAY /\ INVALID_REGISTER # OKAY
      BY DEF INVALID_SIZE, INVALID_REGISTER, OKAY
    <3>3. request'.response_state = request.response_state
      BY <3>1, RequestFields, Zenon
    <3>. QED
      BY <3>1, <3>2, <3>3, ReplyKept
  <2>. QED
    BY <1>6, <2>1, <2>2, <2>3 DEF Handler
<1>7. CASE RestoreMask \/ WriteErase
  BY <1>7, ReplyKept, Zenon DEF RestoreMask, WriteErase, EraseFlash, replyVars
<1>8. CASE WriteProgram
  <2>1. /\ pc = "program" /\ pc' = "begin" /\ sends' = sends
        /\ request' = [request EXCEPT !.sys = SYS_IOSTACK]
    BY <1>8, Zenon DEF WriteProgram, SendAcknowledge, Respond, replyVars
  <2>2. request'.response_state = request.response_state
    BY <2>1, RequestFields, Zenon
  <2>. QED
    BY <2>1, <2>2, ReplyKept
\* A response that was already sent stays sent, so its second begin is refused.
<1>9. CASE ResponseBegin
  <2>1. pc = "begin" /\ pc' = "write" /\ sends' = sends
    BY <1>9 DEF ResponseBegin
  <2>2. CASE request.response_state # 0
    <3>1. request' = request
      BY <1>9, <2>2, Zenon DEF ResponseBegin
    <3>. QED
      BY <2>1, <2>2, <3>1 DEF ReplyInv, Booting
  <2>3. CASE request.response_state = 0
    <3>1. HeaderSize <= TxBufSize
      BY TxBufAssumption DEF HeaderSize, ConfigSize
    <3>2. request'.response_state = 1
      <4>1. request' = [request EXCEPT !.code = resp.code, !.response_state = 1]
        BY <1>9, <2>3, <3>1, Zenon DEF ResponseBegin
      <4>. QED
        BY <4>1 DEF RequestType
    <3>. QED
      BY <2>1, <2>3, <3>2 DEF ReplyInv, Booting
  <2>. QED
    BY <2>2, <2>3
<1>10. CASE ResponseWrite
  BY <1>10, ReplyKept, Zenon DEF ResponseWrite
<1>11. ASSUME NEW sent \in BOOLEAN, ResponseEnd(sent)
       PROVE  ReplyInv'
  <2>1. /\ pc = "end" /\ pc' \in {"restore", "return"}
        /\ request.response_state \in {1, 2}
        /\ sends = IF request.response_state = 2 THEN 1 ELSE 0
    BY <1>11 DEF ResponseEnd, AfterReply, ReplyInv, Booting
  <2>2. request'.response_state = 2 /\ sends' = 1
    <3>1. CASE request.response_state # 1
      BY <1>11, <2>1, <3>1 DEF ResponseEnd
    <3>2. CASE request.response_state = 1
      <4>1. request' = [request EXCEPT !.response_state = 2] /\ sends' = sends + 1
        BY <1>11, <3>2, Zenon DEF ResponseEnd
      <4>. QED
        BY <2>1, <3>2, <4>1, RequestFields
    <3>. QED
      BY <3>1, <3>2
  <2>. QED
    BY <2>1, <2>2 DEF ReplyInv, Booting
<1>12. CASE Environment
  <2>1. CASE PowerCycle
    BY <2>1 DEF PowerCycle, Volatile, ReplyInv, Booting
  <2>2. CASE (\E mac \in ConsoleMacs : EnterMac(mac))
              \/ (\E d \in Requests : Arrive(d)) \/ Depart
    BY <2>2, ReplyKept, Zenon DEF EnterMac, Arrive, Depart, replyVars, Booting
  <2>. QED
    BY <1>12, <2>1, <2>2 DEF Environment
<1>. QED
  BY <1>1, <1>2, <1>3, <1>4, <1>5, <1>6, <1>7, <1>8, <1>9, <1>10, <1>11, <1>12
  DEF Next, Firmware

\* The steps that leave chip, RAM and flash alone, by where they lead.
LEMMA ConfigKept ==
  ASSUME ConfigInv, UNCHANGED <<ram, chip, flash>>,
         \/ /\ pc \in {"idle", "subsystem", "command", "handler", "return", "fault"}
            /\ pc' \notin {"configure", "restore", "erase", "program"}
         \/ /\ pc \in Replying /\ pc' \in Replying
            /\ AfterReply' = AfterReply
         \/ pc' = pc /\ AfterReply' = AfterReply
         \/ pc' \in {"boot", "prompt", "bootErase", "bootProgram", "halt"}
  PROVE  ConfigInv'
  BY DEF ConfigInv, Agree, Replying

\* Every step keeps ConfigInv.
LEMMA ConfigInvNext ==
  ASSUME TypeOK, ConfigInv, Next
  PROVE  ConfigInv'
<1>. /\ request \in RequestType
     /\ flash \in [valid : BOOLEAN, cfg : Config]
     /\ ram \in Config /\ chip \in Config
  BY DEF TypeOK
<1>1. CASE BootLoad \/ BootProgram
  BY <1>1 DEF BootLoad, BootProgram, ConfigInv, Agree, Replying
<1>2. CASE BootErase \/ WriteErase
  BY <1>2 DEF BootErase, WriteErase, EraseFlash, ConfigInv, Agree, Replying
<1>3. CASE Configure
  BY <1>3 DEF Configure, ConfigInv, Agree, Replying
<1>4. CASE TickRead \/ FindSubsystem \/ FindCommand \/ Return
  <2>1. /\ pc \in {"idle", "subsystem", "command", "return"}
        /\ pc' \notin {"configure", "restore", "erase", "program"}
        /\ UNCHANGED <<ram, chip, flash>>
    BY <1>4
    DEF TickRead, FindSubsystem, FindCommand, Return, SendError, Respond, boardVars
  <2>. QED
    BY <2>1, ConfigKept
<1>5. CASE \/ LedBuiltin \/ TestPulse \/ SetLedCurrent \/ SetPulseWidth
           \/ StartTemperature \/ ReadTemperature \/ ReadSerialNo \/ Ping
  <2>1. /\ pc = "handler" /\ pc' \in {"begin", "return"}
        /\ UNCHANGED <<ram, chip, flash>>
    <3>1. CASE LedBuiltin \/ TestPulse
      BY <3>1, Zenon
      DEF LedBuiltin, TestPulse, FlasherHandler, InHandler, Ack, FlasherError,
          Respond, Fail, boardVars
    <3>2. CASE SetLedCurrent \/ SetPulseWidth \/ StartTemperature
      BY <3>2, Zenon
      DEF SetLedCurrent, SetPulseWidth, StartTemperature, FlasherHandler,
          InHandler, Ack, FlasherError, Respond, Fail, boardVars
    <3>3. CASE ReadTemperature
      BY <3>3, Zenon
      DEF ReadTemperature, FlasherHandler, InHandler, Answer, Respond, Fail,
          boardVars
    <3>4. CASE ReadSerialNo
      BY <3>4, Zenon
      DEF ReadSerialNo, FlasherHandler, InHandler, Answer, FlasherError, Respond,
          Fail, boardVars
    <3>5. CASE Ping
      BY <3>5 DEF Ping, InHandler, Respond, boardVars
    <3>. QED
      BY <1>5, <3>1, <3>2, <3>3, <3>4, <3>5
  <2>. QED
    BY <2>1, ConfigKept
\* The mask is zero while the reply is sent, and then AfterReply is "restore".
<1>6. CASE RegisterRead
  <2>1. pc = "handler" /\ Agree(chip)
    BY <1>6 DEF RegisterRead, InHandler, ConfigInv
  <2>2. CASE pc' = "return"
    <3>1. UNCHANGED <<ram, chip, flash>>
      BY <1>6, <2>2 DEF RegisterRead, Fail, Respond, boardVars
    <3>. QED
      BY <2>1, <2>2, <3>1, ConfigKept
  <2>3. CASE pc' # "return"
    <3>1. /\ pc' = "begin" /\ ram' = chip /\ flash' = flash
          /\ request' = request /\ resp'.code = request.code
          /\ request.sys = SYS_IOSTACK /\ request.code = CMD_READ_REG
      BY <1>6, <2>3 DEF RegisterRead, InHandler, Fail, Respond
    <3>2. AfterReply' = "restore"
      BY <3>1 DEF AfterReply
    <3>. QED
      BY <2>1, <3>1, <3>2 DEF ConfigInv, Agree, Replying
  <2>. QED
    BY <2>2, <2>3
<1>7. CASE RegisterWrite
  <2>1. pc = "handler" /\ Agree(chip)
    BY <1>7 DEF RegisterWrite, InHandler, ConfigInv
  <2>2. CASE pc' = "erase"
    <3>1. chip' = ram'
      BY <1>7, <2>2 DEF RegisterWrite, Fail, SendError, Respond
    <3>. QED
      BY <2>2, <3>1 DEF ConfigInv, Agree, Replying
  <2>3. CASE pc' # "erase"
    <3>1. pc' \in {"begin", "return"} /\ UNCHANGED <<ram, chip, flash>>
      BY <1>7, <2>3 DEF RegisterWrite, Fail, SendError, Respond, boardVars
    <3>. QED
      BY <2>1, <3>1, ConfigKept
  <2>. QED
    BY <2>2, <2>3
<1>8. CASE RestoreMask
  BY <1>8 DEF RestoreMask, ConfigInv, Agree, Replying
<1>9. CASE WriteProgram
  BY <1>9
  DEF WriteProgram, SendAcknowledge, Respond, ConfigInv, Agree, Replying
<1>10. CASE ResponseBegin \/ ResponseWrite
  <2>1. /\ pc \in Replying /\ pc' \in Replying /\ resp' = resp
        /\ UNCHANGED <<ram, chip, flash>>
    BY <1>10 DEF ResponseBegin, ResponseWrite, Replying, boardVars
  <2>2. request'.sys = request.sys
    <3>1. \/ request' = request
          \/ \E n : request' = [request EXCEPT !.code = resp.code,
                                               !.response_state = n]
      BY <1>10, Zenon DEF ResponseBegin, ResponseWrite
    <3>2. ASSUME NEW n,
                 request' = [request EXCEPT !.code = resp.code, !.response_state = n]
          PROVE  request'.sys = request.sys
      BY <3>2 DEF RequestType
    <3>. QED
      BY <3>1, <3>2
  <2>. QED
    BY <2>1, <2>2, ConfigKept DEF AfterReply
<1>11. ASSUME NEW sent \in BOOLEAN, ResponseEnd(sent)
       PROVE  ConfigInv'
  <2>1. /\ pc = "end" /\ pc' = AfterReply /\ UNCHANGED <<ram, chip, flash>>
    BY <1>11 DEF ResponseEnd, boardVars
  <2>2. AfterReply \in {"restore", "return"}
    BY DEF AfterReply
  <2>. QED
    BY <2>1, <2>2 DEF ConfigInv, Agree, Replying
<1>12. CASE Environment
  <2>1. CASE PowerCycle \/ \E mac \in ConsoleMacs : EnterMac(mac)
    BY <2>1 DEF PowerCycle, Volatile, EnterMac, ConfigInv, Agree, Replying
  <2>2. CASE (\E d \in Requests : Arrive(d)) \/ Depart
    BY <2>2, ConfigKept DEF Arrive, Depart, AfterReply, boardVars
  <2>. QED
    BY <1>12, <2>1, <2>2 DEF Environment
<1>. QED
  BY <1>1, <1>2, <1>3, <1>4, <1>5, <1>6, <1>7, <1>8, <1>9, <1>10, <1>11, <1>12
  DEF Next, Firmware, Handler

\* Every step keeps MacInv: only the prompt and the network write the RAM
\* configuration anew, and the network may not change its MAC address.
LEMMA MacInvNext ==
  ASSUME TypeOK, ConfigInv, MacInv, Next
  PROVE  MacInv'
<1>. /\ flash \in [valid : BOOLEAN, cfg : Config]
     /\ ram \in Config /\ chip \in Config
  BY DEF TypeOK
<1>1. CASE BootLoad \/ Configure
  BY <1>1 DEF BootLoad, Configure, MacInv, histVars
<1>2. CASE BootErase \/ BootProgram \/ WriteErase \/ WriteProgram
  BY <1>2
  DEF BootErase, BootProgram, WriteErase, WriteProgram, EraseFlash,
      SendAcknowledge, Respond, MacInv, histVars
<1>3. ASSUME NEW mac \in ConsoleMacs, EnterMac(mac)
      PROVE  MacInv'
  <2>1. Mac(WithMac(ram, mac)) = mac
    BY ConfigUpdates, ConstantsAssumption
  <2>. QED
    BY <1>3, <2>1 DEF EnterMac, MacInv
<1>4. CASE RegisterRead
  <2>1. pc = "handler" /\ chip = ram
    BY <1>4 DEF RegisterRead, InHandler, ConfigInv, Agree
  <2>. QED
    BY <1>4, <2>1
    DEF RegisterRead, Fail, Respond, MacInv, boardVars, histVars
<1>5. CASE RegisterWrite
  <2>1. pc = "handler" /\ pc' \notin {"boot", "prompt"}
    BY <1>5 DEF RegisterWrite, InHandler, Fail, SendError, Respond
  <2>2. UNCHANGED <<flash, macs>> /\ Mac(ram') = Mac(ram)
    BY <1>5
    DEF RegisterWrite, IsThisDevice, Fail, SendError, Respond, boardVars, histVars
  <2>. QED
    BY <2>1, <2>2 DEF MacInv
\* The rest leaves the configurations alone, or starts the boot anew.
<1>6. ASSUME UNCHANGED <<ram, flash, macs>>,
             pc \in {"boot", "prompt"} => pc' \in {"boot", "prompt"}
      PROVE  MacInv'
  BY <1>6 DEF MacInv
<1>7. CASE TickRead \/ FindSubsystem \/ FindCommand \/ Return \/ RestoreMask
  BY <1>6, <1>7, Zenon
  DEF TickRead, FindSubsystem, FindCommand, Return, RestoreMask, boardVars, histVars
<1>8. CASE \/ LedBuiltin \/ TestPulse \/ SetLedCurrent \/ SetPulseWidth
           \/ StartTemperature \/ ReadTemperature \/ ReadSerialNo \/ Ping
  <2>1. pc = "handler" /\ UNCHANGED <<ram, flash, macs>>
    <3>1. CASE LedBuiltin \/ TestPulse
      BY <3>1, Zenon
      DEF LedBuiltin, TestPulse, FlasherHandler, InHandler, Fail, boardVars, histVars
    <3>2. CASE SetLedCurrent \/ SetPulseWidth \/ StartTemperature
      BY <3>2, Zenon
      DEF SetLedCurrent, SetPulseWidth, StartTemperature, FlasherHandler,
          InHandler, Fail, boardVars, histVars
    <3>3. CASE ReadTemperature \/ ReadSerialNo \/ Ping
      BY <3>3, Zenon
      DEF ReadTemperature, ReadSerialNo, Ping, FlasherHandler, InHandler, Fail,
          boardVars, histVars
    <3>. QED
      BY <1>8, <3>1, <3>2, <3>3
  <2>. QED
    BY <1>6, <2>1
<1>9. CASE \/ ResponseBegin \/ ResponseWrite
           \/ \E sent \in BOOLEAN : ResponseEnd(sent)
  BY <1>6, <1>9, Zenon
  DEF ResponseBegin, ResponseWrite, ResponseEnd, boardVars, histVars
<1>10. CASE PowerCycle
  BY <1>10 DEF PowerCycle, Volatile, MacInv
<1>11. CASE (\E d \in Requests : Arrive(d)) \/ Depart
  BY <1>6, <1>11, Zenon DEF Arrive, Depart, boardVars, histVars
<1>. QED
  BY <1>1, <1>2, <1>3, <1>4, <1>5, <1>7, <1>8, <1>9, <1>10, <1>11
  DEF Next, Firmware, Handler, Environment

\* ... and every step keeps it.
LEMMA StateInvNext == StateInv /\ [Next]_vars => StateInv'
<1> SUFFICES ASSUME StateInv, [Next]_vars PROVE StateInv'
  OBVIOUS
<1>1. CASE Next
  BY <1>1, TypeNext, ReplyInvNext, ConfigInvNext, MacInvNext, Zenon DEF StateInv
<1>2. CASE UNCHANGED vars
  BY <1>2, ZenonT(40)
  DEF vars, boardVars, replyVars, histVars, StateInv, TypeOK, ReplyInv, ConfigInv,
      MacInv, Agree, AfterReply
<1>. QED
  BY <1>1, <1>2

\* So it holds throughout: response_state counts the transmissions, and chip,
\* RAM and flash differ only where the handlers say.
THEOREM StateInvariance == Spec => []StateInv
  BY StateInvInit, StateInvNext, PTL DEF Spec

\* No request is answered twice, and none that ends without an error to report
\* goes unanswered, whatever the requests, the buffer sizes and the power cuts.
THEOREM OneReply == Spec => []ExactlyOneReply
<1>1. StateInv => ExactlyOneReply
  <2> SUFFICES ASSUME StateInv PROVE ExactlyOneReply
    OBVIOUS
  <2>. request.response_state \in 0..2
    BY DEF StateInv, TypeOK, RequestType
  <2>. QED
    BY DEF StateInv, ReplyInv, ExactlyOneReply, Booting
<1>. QED
  BY <1>1, StateInvariance, PTL

\* Between ticks the chip, the RAM and the flash agree on the configuration.
THEOREM Agreement == Spec => []ConfigAgreement
<1>1. StateInv => ConfigAgreement
  BY DEF StateInv, ConfigInv, Agree, ConfigAgreement
<1>. QED
  BY <1>1, StateInvariance, PTL

\* No datagram changes the MAC address the device has.
THEOREM MacStays == Spec => []MacPinned
<1>1. StateInv => MacPinned
  BY DEF StateInv, MacInv, MacPinned, Booting
<1>. QED
  BY <1>1, StateInvariance, PTL
=============================================================================
