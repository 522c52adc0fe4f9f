------------------------ MODULE IostackServiceProofs ------------------------
(***************************************************************************)
(* Proofs about the replies of Iostack, for every choice of the constants  *)
(* that satisfies the two assumptions: what the request in service has led *)
(* to (RequestInv, WalkInv, EffectInv, ResponseInv), and from it what a    *)
(* transmitted reply says.                                                 *)
(***************************************************************************)
EXTENDS IostackProofs

\* What the response calls leave of the request.
LEMMA RequestKeeps ==
  ASSUME NEW r \in RequestType
  PROVE  /\ \A c, n : LET s == [r EXCEPT !.code = c, !.response_state = n]
                      IN  /\ s.from = r.from /\ s.id = r.id /\ s.payload = r.payload
                          /\ s.sys = r.sys /\ s.response_state = n
         /\ LET s == [r EXCEPT !.response_state = 2]
            IN  /\ s.from = r.from /\ s.id = r.id /\ s.payload = r.payload
                /\ s.sys = r.sys /\ s.response_state = 2
         /\ LET s == [r EXCEPT !.sys = SYS_IOSTACK]
            IN  /\ s.from = r.from /\ s.id = r.id /\ s.payload = r.payload
                /\ s.sys = SYS_IOSTACK /\ s.response_state = r.response_state
  BY DEF RequestType

\* What any handler of the flasher subsystem does: it touches nothing but the
\* pins, and either fails, or answers, or reports an error and leaves the pins.
LEMMA FlasherStep ==
  ASSUME \/ LedBuiltin \/ TestPulse \/ SetLedCurrent \/ SetPulseWidth
         \/ StartTemperature \/ ReadTemperature \/ ReadSerialNo
  PROVE  /\ pc = "handler" /\ request.sys = SYS_FLASHER
         /\ request.code \notin {ERR_REPORT, CMD_REPORT_FLASHERCTL_ERR}
         /\ UNCHANGED <<ram, chip, flash, request, cursor, rx, replyVars, histVars>>
         /\ \/ /\ pc' = "return" /\ rc' = INVALID_SIZE /\ UNCHANGED <<out, resp>>
            \/ /\ pc' = "begin" /\ rc' = rc
               /\ resp'.code = request.code /\ Len(resp'.data) <= 1
            \/ /\ pc' = "begin" /\ rc' = rc /\ UNCHANGED out
               /\ resp'.code = CMD_REPORT_FLASHERCTL_ERR /\ Len(resp'.data) = 1
<1> DEFINE Effect == \/ /\ pc' = "begin" /\ resp'.code = request.code
                        /\ Len(resp'.data) <= 1
                     \/ /\ pc' = "begin" /\ UNCHANGED out
                        /\ resp'.code = CMD_REPORT_FLASHERCTL_ERR
                        /\ Len(resp'.data) = 1
<1>1. ASSUME NEW newOut, Ack(newOut)
      PROVE  Effect
  BY <1>1 DEF Ack, Respond
<1>2. ASSUME NEW err, FlasherError(err)
      PROVE  Effect
  BY <1>2 DEF FlasherError, Respond
<1>3. ASSUME NEW v, Answer(<<v>>)
      PROVE  Effect
  BY <1>3 DEF Answer, Respond
<1>4. ASSUME NEW code \in 0..6, FlasherHandler(code, Effect)
      PROVE  /\ pc = "handler" /\ request.sys = SYS_FLASHER
             /\ request.code \notin {ERR_REPORT, CMD_REPORT_FLASHERCTL_ERR}
             /\ UNCHANGED <<ram, chip, flash, request, cursor, rx, replyVars, histVars>>
             /\ \/ /\ pc' = "return" /\ rc' = INVALID_SIZE /\ UNCHANGED <<out, resp>>
                \/ /\ pc' = "begin" /\ rc' = rc
                   /\ resp'.code = request.code /\ Len(resp'.data) <= 1
                \/ /\ pc' = "begin" /\ rc' = rc /\ UNCHANGED out
                   /\ resp'.code = CMD_REPORT_FLASHERCTL_ERR /\ Len(resp'.data) = 1
  BY <1>4 DEF FlasherHandler, InHandler, Fail, boardVars, ERR_REPORT,
              CMD_REPORT_FLASHERCTL_ERR
<1>5. {CMD_LED_BUILTIN, CMD_TEST_PULSE, CMD_SET_LED_CURRENT, CMD_SET_PULSE_WIDTH,
       CMD_START_TEMPERATURE, CMD_READ_TEMPERATURE, CMD_READ_SERIAL_NO} \subseteq 0..6
  BY DEF CMD_LED_BUILTIN, CMD_TEST_PULSE, CMD_SET_LED_CURRENT, CMD_SET_PULSE_WIDTH,
         CMD_START_TEMPERATURE, CMD_READ_TEMPERATURE, CMD_READ_SERIAL_NO
<1>. HIDE DEF Effect
<1>6. CASE LedBuiltin
  BY <1>1, <1>2, <1>4, <1>5, <1>6, Zenon DEF LedBuiltin, FlasherHandler
<1>7. CASE TestPulse
  BY <1>1, <1>2, <1>4, <1>5, <1>7, Zenon DEF TestPulse, FlasherHandler
<1>8. CASE SetLedCurrent
  BY <1>1, <1>2, <1>4, <1>5, <1>8, Zenon DEF SetLedCurrent, FlasherHandler
<1>9. CASE SetPulseWidth
  BY <1>1, <1>4, <1>5, <1>9, Zenon DEF SetPulseWidth, FlasherHandler
<1>10. CASE StartTemperature
  BY <1>1, <1>4, <1>5, <1>10, Zenon DEF StartTemperature, FlasherHandler
<1>11. CASE ReadTemperature
  BY <1>3, <1>4, <1>5, <1>11, Zenon DEF ReadTemperature, FlasherHandler
<1>12. CASE ReadSerialNo
  BY <1>2, <1>3, <1>4, <1>5, <1>12, Zenon DEF ReadSerialNo, FlasherHandler
<1>. QED
  BY <1>6, <1>7, <1>8, <1>9, <1>10, <1>11, <1>12
-----------------------------------------------------------------------------
(* The request and the walk.                                               *)

\* The steps that keep the request in service, or end with none.
LEMMA RequestKept ==
  ASSUME RequestInv, UNCHANGED rx,
         \/ pc' \in Booting \cup {"idle"}
         \/ /\ pc \notin Booting \cup {"idle"} /\ UNCHANGED served
            /\ request'.from = request.from /\ request'.id = request.id
            /\ request'.payload = request.payload
            /\ pc' \in Undecoded \cup Writing \cup {"fault"} =>
                 /\ pc \in Undecoded \cup Writing \cup {"fault"}
                 /\ request'.sys = request.sys /\ request'.code = request.code
  PROVE  RequestInv'
  BY DEF RequestInv, Booting, Undecoded, Writing

\* Every step keeps RequestInv: the requests in the receive buffer are requests,
\* and the one in service is told by the datagram it was taken from.
LEMMA RequestInvNext ==
  ASSUME TypeOK, RequestInv, Next
  PROVE  RequestInv'
<1>. request \in RequestType
  BY DEF TypeOK
<1>1. CASE BootLoad \/ BootErase \/ BootProgram \/ Configure
  BY <1>1, RequestKept
  DEF BootLoad, BootErase, BootProgram, Configure, EraseFlash, Booting
<1>2. CASE TickRead
  <2> DEFINE d == Head(rx)
  <2>1. d \in Requests /\ Tail(rx) \in Seq(Requests)
    BY <1>2, ConcatType DEF TickRead, RequestInv
  <2>2. d.data \in Seq(Nat) /\ Len(d.data) \in Nat
    BY <2>1, ConstantsAssumption DEF Datagram
  <2>3. CASE Len(d.data) < HeaderSize
    <3>1. pc' = "idle" /\ rx' = Tail(rx)
      BY <1>2, <2>3 DEF TickRead
    <3>. QED
      BY <2>1, <3>1 DEF RequestInv, Undecoded, Writing
  <2>4. CASE ~(Len(d.data) < HeaderSize)
    <3>1. Len(d.data) >= HeaderSize /\ HeaderSize = 3
      BY <2>2, <2>4 DEF HeaderSize
    <3>2. /\ rx' = Tail(rx) /\ served' = d
          /\ request'.from = d.from /\ request'.payload \in PayloadWords(d.data)
          /\ request'.id = Field(d.data, 1, request.id)
          /\ request'.sys = Field(d.data, 2, request.sys)
          /\ request'.code = Field(d.data, 3, request.code)
      BY <1>2, <2>4 DEF TickRead
    <3>3. /\ request'.id = d.data[1] /\ request'.sys = d.data[2]
          /\ request'.code = d.data[3]
      BY <2>2, <3>1, <3>2 DEF Field
    <3>. QED
      BY <2>1, <3>1, <3>2, <3>3 DEF RequestInv
  <2>. QED
    BY <2>3, <2>4
<1>3. CASE FindSubsystem \/ FindCommand
  <2>1. /\ pc \in Undecoded /\ UNCHANGED <<rx, served>>
        /\ \/ request' = request
           \/ request' = [request EXCEPT !.sys = SYS_IOSTACK] /\ pc' = "begin"
    BY <1>3 DEF FindSubsystem, FindCommand, SendError, Respond, histVars, Undecoded
  <2>2. "begin" \notin Undecoded \cup Writing \cup {"fault"}
    BY DEF Undecoded, Writing
  <2>3. pc \notin Booting \cup {"idle"}
    BY <2>1 DEF Undecoded, Booting
  <2>. QED
    BY <2>1, <2>2, <2>3, RequestKept, RequestKeeps, Zenon
<1>4. CASE Return
  <2>1. CASE rc # OKAY
    <3>1. /\ pc = "return" /\ pc' = "begin" /\ UNCHANGED <<rx, served>>
          /\ request' = [request EXCEPT !.sys = SYS_IOSTACK]
      BY <1>4, <2>1, Zenon DEF Return, SendError, Respond
    <3>. QED
      BY <3>1, RequestKept, RequestKeeps DEF Undecoded, Writing, Booting
  <2>2. CASE rc = OKAY
    BY <1>4, <2>2, RequestKept DEF Return
  <2>. QED
    BY <2>1, <2>2
<1>5. CASE \/ LedBuiltin \/ TestPulse \/ SetLedCurrent \/ SetPulseWidth
           \/ StartTemperature \/ ReadTemperature \/ ReadSerialNo
  BY <1>5, FlasherStep, RequestKept DEF histVars, Undecoded, Writing, Booting
<1>6. CASE \/ Ping \/ RegisterRead \/ RegisterWrite
  <2>1. /\ pc = "handler" /\ UNCHANGED <<rx, served>>
        /\ \/ request' = request
           \/ request' = [request EXCEPT !.sys = SYS_IOSTACK] /\ pc' = "begin"
    BY <1>6 DEF Ping, RegisterRead, RegisterWrite, InHandler, Fail, SendError,
                Respond, histVars
  <2>2. /\ "begin" \notin Undecoded \cup Writing \cup {"fault"}
        /\ pc \in Undecoded /\ pc \notin Booting \cup {"idle"}
    BY <2>1 DEF Undecoded, Writing, Booting
  <2>. QED
    BY <2>1, <2>2, RequestKept, RequestKeeps, Zenon
<1>7. CASE RestoreMask \/ WriteErase
  BY <1>7, RequestKept
  DEF RestoreMask, WriteErase, EraseFlash, histVars, Undecoded, Writing, Booting
<1>8. CASE WriteProgram
  <2>1. /\ pc = "program" /\ pc' = "begin" /\ UNCHANGED <<rx, served>>
        /\ request' = [request EXCEPT !.sys = SYS_IOSTACK]
    BY <1>8, Zenon DEF WriteProgram, SendAcknowledge, Respond, histVars
  <2>. QED
    BY <2>1, RequestKept, RequestKeeps DEF Undecoded, Writing, Booting
<1>9. CASE ResponseBegin \/ ResponseWrite \/ \E sent \in BOOLEAN : ResponseEnd(sent)
  <2>1. /\ pc \in Replying /\ pc' \in {"write", "end", "restore", "return"}
        /\ UNCHANGED <<rx, served>>
    BY <1>9 DEF ResponseBegin, ResponseWrite, ResponseEnd, AfterReply, Replying, histVars
  <2>2. \/ request' = request
        \/ \E c, n : request' = [request EXCEPT !.code = c, !.response_state = n]
        \/ request' = [request EXCEPT !.response_state = 2]
    BY <1>9, Zenon DEF ResponseBegin, ResponseWrite, ResponseEnd
  <2>3. /\ request'.from = request.from /\ request'.id = request.id
        /\ request'.payload = request.payload
    <3>1. ASSUME NEW c, NEW n,
                 request' = [request EXCEPT !.code = c, !.response_state = n]
          PROVE  /\ request'.from = request.from /\ request'.id = request.id
                 /\ request'.payload = request.payload
      BY <3>1 DEF RequestType
    <3>2. CASE request' = [request EXCEPT !.response_state = 2]
      BY <3>2, RequestKeeps, Zenon
    <3>. QED
      BY <2>2, <3>1, <3>2
  <2>. QED
    BY <2>1, <2>3, RequestKept DEF Undecoded, Writing, Booting, Replying
<1>10. CASE PowerCycle
  <2>1. rx' \in Seq(Requests) /\ pc' = "boot"
    BY <1>10 DEF PowerCycle, Volatile
  <2>. QED
    BY <2>1 DEF RequestInv, Booting, Undecoded, Writing
<1>11. CASE \E mac \in ConsoleMacs : EnterMac(mac)
  BY <1>11, RequestKept DEF EnterMac, Booting
<1>12. ASSUME NEW d \in Requests, Arrive(d)
       PROVE  RequestInv'
  <2>1. Append(rx, d) \in Seq(Requests)
    BY <1>12, ConcatType DEF RequestInv
  <2>. QED
    BY <1>12, <2>1 DEF Arrive, RequestInv, histVars
<1>13. CASE Depart
  BY <1>13 DEF Depart, RequestInv, histVars
<1>. QED
  BY <1>1, <1>2, <1>3, <1>4, <1>5, <1>6, <1>7, <1>8, <1>9, <1>10, <1>11, <1>12, <1>13
  DEF Next, Firmware, Handler, Environment

\* Every step keeps WalkInv: the pointer advances over other commands only.
LEMMA WalkInvNext ==
  ASSUME TypeOK, WalkInv, Next
  PROVE  WalkInv'
<1>. DEFINE n == Len(CmdsOf(request.sys))
<1>1. n \in 1..7
  BY TableLengths
<1>2. CASE FindSubsystem
  BY <1>2 DEF FindSubsystem, SendError, Respond, WalkInv, OtherCommands, NULL
<1>3. CASE FindCommand
  <2>1. pc = "command" /\ request.sys \in Subsystems
    BY <1>3 DEF FindCommand, WalkInv
  <2>2. CASE cursor \in 0..(n - 1) /\ CmdsOf(request.sys)[cursor + 1] # request.code
    <3>1. /\ pc' = "command" /\ request' = request /\ cursor' = cursor + 1
      BY <1>3, <2>2, <1>1 DEF FindCommand, CmdNext, NULL
    <3>2. OtherCommands(cursor)
      BY <2>1, <2>2 DEF WalkInv, NULL
    <3>3. \A i \in 1..(cursor + 1) : i \in 1..cursor \/ i = cursor + 1
      BY <2>2, <1>1
    <3>4. OtherCommands(cursor + 1)
      BY <2>2, <3>2, <3>3 DEF OtherCommands
    <3>5. cursor + 1 # NULL
      BY <2>2, <1>1 DEF NULL
    <3>. QED
      BY <2>1, <3>1, <3>4, <3>5 DEF WalkInv, OtherCommands
  <2>3. CASE cursor \in 0..(n - 1) /\ CmdsOf(request.sys)[cursor + 1] = request.code
    <3>1. pc' = "handler"
      BY <1>3, <2>3, <1>1 DEF FindCommand, NULL
    <3>. QED
      BY <3>1 DEF WalkInv
  <2>4. CASE cursor = n
    <3>1. OtherCommands(n)
      BY <1>1, <2>1, <2>4 DEF WalkInv, NULL
    <3>2. /\ request' = request
          /\ (pc' = "command" /\ cursor' = NULL) \/ pc' = "fault"
      BY <1>1, <1>3, <2>4 DEF FindCommand, NULL
    <3>. QED
      BY <2>1, <3>1, <3>2 DEF WalkInv, OtherCommands
  <2>5. CASE cursor = NULL
    <3>1. pc' = "begin"
      BY <1>1, <1>3, <2>5 DEF FindCommand, NULL, SendError, Respond
    <3>. QED
      BY <3>1 DEF WalkInv
  <2>. QED
    BY <1>3, <2>2, <2>3, <2>4, <2>5 DEF FindCommand
<1>4. ASSUME UNCHANGED <<pc, request, cursor>>
      PROVE  WalkInv'
  BY <1>4 DEF WalkInv, OtherCommands
<1>5. ASSUME pc' \notin {"command", "fault"}
      PROVE  WalkInv'
  BY <1>5 DEF WalkInv
<1>6. CASE (\E d \in Requests : Arrive(d)) \/ Depart
  BY <1>4, <1>6 DEF Arrive, Depart
<1>7. CASE PowerCycle \/ \E mac \in ConsoleMacs : EnterMac(mac)
  BY <1>5, <1>7 DEF PowerCycle, Volatile, EnterMac
<1>8. CASE \/ BootLoad \/ BootErase \/ BootProgram \/ Configure \/ Return
           \/ RestoreMask \/ WriteErase \/ WriteProgram
  BY <1>5, <1>8
  DEF BootLoad, BootErase, BootProgram, Configure, EraseFlash, Return, SendError,
      Respond, RestoreMask, WriteErase, WriteProgram, SendAcknowledge
<1>9. CASE TickRead
  <2>1. pc' \in {"idle", "subsystem"}
    BY <1>9 DEF TickRead
  <2>. QED
    BY <1>5, <2>1
<1>10. CASE Handler
  <2>1. CASE Ping \/ RegisterRead \/ RegisterWrite
    BY <1>5, <2>1 DEF Ping, RegisterRead, RegisterWrite, Fail, SendError, Respond
  <2>. QED
    BY <1>5, <1>10, <2>1, FlasherStep DEF Handler
<1>11. CASE ResponseBegin \/ ResponseWrite \/ \E sent \in BOOLEAN : ResponseEnd(sent)
  BY <1>5, <1>11 DEF ResponseBegin, ResponseWrite, ResponseEnd, AfterReply
<1>. QED
  BY <1>2, <1>3, <1>6, <1>7, <1>8, <1>9, <1>10, <1>11 DEF Next, Firmware, Environment
-----------------------------------------------------------------------------
(* The effects.                                                            *)

\* Every step keeps EffectInv: only a handler changes the outputs, and only a
\* configuration write, after it has compared the MAC addresses, the RAM.
LEMMA EffectInvNext ==
  ASSUME TypeOK, ConfigInv, EffectInv, Next
  PROVE  EffectInv'
<1>. /\ flash \in [valid : BOOLEAN, cfg : Config] /\ request \in RequestType
     /\ request.payload \in Seq(Nat)
  BY DEF TypeOK, RequestType
<1> DEFINE Told == Undecoded \cup Writing \cup {"prompt", "bootErase", "bootProgram"}
<1>1. ASSUME pc' \notin Told
      PROVE  EffectInv'
  BY <1>1 DEF EffectInv, Undecoded, Writing
<1>2. ASSUME UNCHANGED <<request, ram, out, flash, before>>,
             pc' = pc \/ (pc \in Undecoded /\ pc' \in Undecoded) \/ pc' \notin Told
      PROVE  EffectInv'
  BY <1>2 DEF EffectInv, Undecoded, Writing, NewConfig, Register
<1>3. CASE BootLoad
  BY <1>3 DEF BootLoad, EffectInv, Undecoded, Writing
<1>4. CASE BootErase \/ BootProgram \/ Configure
  BY <1>4 DEF BootErase, BootProgram, Configure, EraseFlash, EffectInv, Undecoded, Writing
<1>5. ASSUME NEW mac \in ConsoleMacs, EnterMac(mac)
      PROVE  EffectInv'
  BY <1>5 DEF EnterMac, EffectInv, Undecoded, Writing
<1>6. CASE TickRead
  <2>1. /\ UNCHANGED <<ram, out, flash>>
        /\ \/ pc' = "idle"
           \/ pc' = "subsystem" /\ before' = [out |-> out, ram |-> ram]
    BY <1>6 DEF TickRead, boardVars
  <2>. QED
    BY <2>1 DEF EffectInv, Undecoded, Writing
<1>7. CASE FindSubsystem \/ FindCommand
  <2>1. CASE pc' \in Undecoded
    <3>1. pc \in Undecoded /\ UNCHANGED <<request, ram, out, flash, before>>
      BY <1>7, <2>1
      DEF FindSubsystem, FindCommand, SendError, Respond, Undecoded, boardVars, histVars
    <3>. QED
      BY <1>2, <2>1, <3>1
  <2>2. CASE pc' \notin Undecoded
    <3>1. pc' \in {"begin", "fault"}
      BY <1>7, <2>2 DEF FindSubsystem, FindCommand, SendError, Respond, Undecoded
    <3>. QED
      BY <1>1, <3>1 DEF Undecoded, Writing
  <2>. QED
    BY <2>1, <2>2
<1>8. CASE Return
  <2>1. pc' \in {"begin", "idle"}
    BY <1>8 DEF Return, SendError, Respond
  <2>. QED
    BY <1>1, <2>1 DEF Undecoded, Writing
<1>9. CASE \/ LedBuiltin \/ TestPulse \/ SetLedCurrent \/ SetPulseWidth
           \/ StartTemperature \/ ReadTemperature \/ ReadSerialNo
  BY <1>1, <1>9, FlasherStep DEF Undecoded, Writing
<1>10. CASE Ping \/ RegisterRead
  <2>1. pc' \in {"begin", "return"}
    BY <1>10 DEF Ping, RegisterRead, Fail, Respond
  <2>. QED
    BY <1>1, <2>1 DEF Undecoded, Writing
<1>11. CASE RegisterWrite
  <2>1. CASE pc' = "erase"
    <3>1. /\ pc = "handler" /\ UNCHANGED <<out, flash, request, before>>
          /\ request.sys = SYS_IOSTACK /\ request.code = CMD_WRITE_REG
          /\ Len(request.payload) = 2 + ConfigSize /\ Register = REG_ETH_CFG
          /\ ram' = NewConfig /\ Mac(NewConfig) = Mac(ram)
      BY <1>11, <2>1
      DEF RegisterWrite, InHandler, Fail, SendError, Respond, IsThisDevice, histVars
    <3>2. out = before.out /\ ram = before.ram
      BY <3>1 DEF EffectInv, Undecoded
    <3>3. flash = [valid |-> TRUE, cfg |-> before.ram]
      BY <3>1, <3>2 DEF ConfigInv, Agree
    <3>. QED
      BY <2>1, <3>1, <3>2, <3>3 DEF EffectInv, Undecoded, Writing, NewConfig, Register
  <2>2. CASE pc' # "erase"
    <3>1. pc' \in {"begin", "return"}
      BY <1>11, <2>2 DEF RegisterWrite, Fail, SendError, Respond
    <3>. QED
      BY <1>1, <3>1 DEF Undecoded, Writing
  <2>. QED
    BY <2>1, <2>2
<1>12. CASE WriteErase
  <2>1. /\ pc = "erase" /\ pc' = "program" /\ UNCHANGED <<ram, out, request, before>>
        /\ flash' = [flash EXCEPT !.valid = FALSE]
    BY <1>12 DEF WriteErase, EraseFlash, histVars
  <2>2. ~flash'.valid
    BY <2>1
  <2>. QED
    BY <2>1, <2>2 DEF EffectInv, Undecoded, Writing, NewConfig, Register
<1>13. CASE \/ RestoreMask \/ WriteProgram \/ ResponseBegin \/ ResponseWrite
            \/ \E sent \in BOOLEAN : ResponseEnd(sent)
  <2>1. pc' \in {"begin", "write", "end", "restore", "return"}
    BY <1>13 DEF RestoreMask, WriteProgram, SendAcknowledge, Respond, ResponseBegin,
                 ResponseWrite, ResponseEnd, AfterReply
  <2>. QED
    BY <1>1, <2>1 DEF Undecoded, Writing
<1>14. CASE PowerCycle
  <2>1. pc' = "boot"
    BY <1>14 DEF PowerCycle, Volatile
  <2>. QED
    BY <1>1, <2>1 DEF Undecoded, Writing
<1>15. CASE (\E d \in Requests : Arrive(d)) \/ Depart
  BY <1>2, <1>15 DEF Arrive, Depart, boardVars, histVars
<1>. QED
  BY <1>3, <1>4, <1>5, <1>6, <1>7, <1>8, <1>9, <1>10, <1>11, <1>12, <1>13, <1>14, <1>15
  DEF Next, Firmware, Handler, Environment
-----------------------------------------------------------------------------
(* The replies.                                                            *)

\* Any request with a header fits into the transmit buffer when it is echoed ...
LEMMA EchoFits ==
  ASSUME NEW d \in Requests, Len(d.data) >= HeaderSize
  PROVE  /\ d.data \in Seq(Nat)
         /\ Len(Payload(d.data)) = Len(d.data) - HeaderSize
         /\ HeaderSize + Len(Payload(d.data)) <= TxBufSize
         /\ \A w \in PayloadWords(d.data) : Len(w) = Len(Payload(d.data))
<1>1. d.data \in Seq(Nat) /\ Len(d.data) \in Nat
  BY ConstantsAssumption DEF Datagram
<1>2. \A i \in (HeaderSize + 1)..Len(d.data) : d.data[i] \in Nat
  BY <1>1 DEF HeaderSize
<1>3. Len(Payload(d.data)) = Len(d.data) - HeaderSize
  BY <1>1, <1>2, SubSeqProperties DEF Payload, HeaderSize
<1>. QED
  BY <1>1, <1>3, TxBufAssumption, PayloadRead DEF HeaderSize

\* ... and so does a reply no longer than a configuration.
LEMMA ShortReplyFits ==
  \A n \in 0..ConfigSize : HeaderSize + n <= TxBufSize
  BY TxBufAssumption DEF HeaderSize, ConfigSize

\* What is in resp stays an error or an answer while it is being sent.
LEMMA ResponseSame ==
  ASSUME Refused \/ Performed, UNCHANGED <<resp, ram, out, served, before>>,
         request'.sys = request.sys, request'.payload = request.payload
  PROVE  (Refused \/ Performed)'
  BY DEF Refused, Performed, Unaffected, Asks, NewConfig

\* A new response in resp, not yet begun.
LEMMA ResponseNew ==
  ASSUME pc' = "begin", (Refused \/ Performed)',
         HeaderSize + Len(resp'.data) <= TxBufSize
  PROVE  ResponseInv'
  BY DEF ResponseInv

\* An error of subsystem 0 about the request in service.
LEMMA ErrorResponse ==
  ASSUME TypeOK, Unaffected, NEW err, SendError(err),
         UNCHANGED <<out, ram, before, served>>
  PROVE  ResponseInv'
<1>1. /\ pc' = "begin" /\ request'.sys = SYS_IOSTACK
      /\ resp'.code = ERR_REPORT /\ Len(resp'.data) = 1
  BY RequestKeeps DEF SendError, Respond, TypeOK
<1>2. Refused'
  BY <1>1 DEF Refused, Unaffected, Asks
<1>3. 1 \in 0..ConfigSize
  BY DEF ConfigSize
<1>. QED
  BY <1>1, <1>2, <1>3, ShortReplyFits, ResponseNew

\* Every step of a handler, or of the dispatch, that leads to a response.
LEMMA ResponseOfDispatch ==
  ASSUME TypeOK, ReplyInv, RequestInv, WalkInv, EffectInv, ResponseInv,
         FindSubsystem \/ FindCommand \/ Return
  PROVE  ResponseInv'
<1>1. CASE FindSubsystem
  <2>1. pc = "subsystem" /\ UNCHANGED <<out, ram, before, served>>
    BY <1>1 DEF FindSubsystem, boardVars, histVars
  <2>2. CASE request.sys \in Subsystems
    BY <1>1, <2>2 DEF FindSubsystem, ResponseInv, Replying
  <2>3. CASE request.sys \notin Subsystems
    <3>1. Unaffected
      BY <2>1, <2>3 DEF Unaffected, Asks, EffectInv, RequestInv, Undecoded, Subsystems
    <3>. QED
      BY <1>1, <2>1, <2>3, <3>1, ErrorResponse DEF FindSubsystem
  <2>. QED
    BY <2>2, <2>3
<1>2. CASE FindCommand
  <2>1. pc = "command" /\ UNCHANGED <<out, ram, before, served>>
    BY <1>2 DEF FindCommand, boardVars, histVars
  <2>2. CASE cursor # NULL
    <3>1. pc' \in {"command", "handler", "fault"}
      BY <1>2, <2>2 DEF FindCommand
    <3>. QED
      BY <3>1 DEF ResponseInv, Replying
  <2>3. CASE cursor = NULL
    <3>1. SendError(UNKNOWN_COMMAND)
      <4>1. NULL \notin 0..(Len(CmdsOf(request.sys)) - 1)
            /\ NULL # Len(CmdsOf(request.sys))
        BY TableLengths DEF NULL
      <4>. QED
        BY <1>2, <2>3, <4>1, Zenon DEF FindCommand
    <3>2. ~Asks(SYS_IOSTACK, CMD_PING)
      <4>1. OtherCommands(Len(CmdsOf(request.sys)))
        BY <2>1, <2>3 DEF WalkInv
      <4>2. /\ Len(CmdsOf(SYS_IOSTACK)) = 3 /\ CmdsOf(SYS_IOSTACK)[3] = CMD_PING
        BY DEF CmdsOf, iostack_cmds
      <4>3. request.sys = served.data[2] /\ request.code = served.data[3]
        BY <2>1 DEF RequestInv, Undecoded
      <4>. QED
        BY <4>1, <4>2, <4>3 DEF Asks, OtherCommands
    <3>3. Unaffected
      BY <2>1, <3>2 DEF Unaffected, EffectInv, Undecoded
    <3>. QED
      BY <2>1, <3>1, <3>3, ErrorResponse
  <2>. QED
    BY <2>2, <2>3
<1>3. CASE Return
  <2>1. CASE rc = OKAY
    <3>1. pc' = "idle"
      BY <1>3, <2>1 DEF Return
    <3>. QED
      BY <3>1 DEF ResponseInv, Replying
  <2>2. CASE rc # OKAY
    <3>1. /\ pc = "return" /\ pc' = "begin" /\ SendError(rc)
          /\ UNCHANGED <<out, ram, before, served>>
          /\ request'.response_state = request.response_state
      BY <1>3, <2>2, RequestKeeps DEF Return, boardVars, SendError, Respond, TypeOK
    <3>2. CASE request.response_state = 2
      BY <3>1, <3>2 DEF ResponseInv
    <3>3. CASE request.response_state = 0
      BY <3>1, <3>3, ErrorResponse DEF ResponseInv
    <3>. QED
      BY <3>1, <3>2, <3>3 DEF ReplyInv
  <2>. QED
    BY <2>1, <2>2
<1>. QED
  BY <1>1, <1>2, <1>3

\* The handlers keep the invariant of the response calls.
LEMMA ResponseOfHandlers ==
  ASSUME TypeOK, ReplyInv, RequestInv, EffectInv, ResponseInv,
         Handler \/ WriteErase \/ WriteProgram
  PROVE  ResponseInv'
<1>. /\ request \in RequestType /\ request.payload \in Seq(Nat) /\ chip \in Config
  BY DEF TypeOK, RequestType
\* A handler that fails has had no effect, and was not Ping.
<1>1. ASSUME pc = "handler", pc' = "return",
             UNCHANGED <<out, ram, before, served, request>>,
             ~(request.sys = SYS_IOSTACK /\ request.code = CMD_PING)
      PROVE  ResponseInv'
  <2>1. Unaffected'
    BY <1>1 DEF EffectInv, RequestInv, Undecoded, Unaffected, Asks
  <2>. QED
    BY <1>1, <2>1 DEF ResponseInv, Replying
<1>2. CASE \/ LedBuiltin \/ TestPulse \/ SetLedCurrent \/ SetPulseWidth
           \/ StartTemperature \/ ReadTemperature \/ ReadSerialNo
  <2>1. /\ pc = "handler" /\ request.sys = SYS_FLASHER
        /\ UNCHANGED <<ram, request, before, served>>
    BY <1>2, FlasherStep DEF histVars
  <2>2. SYS_FLASHER # SYS_IOSTACK /\ served.data[2] = SYS_FLASHER
        /\ served.data[3] = request.code
    BY <2>1 DEF RequestInv, Undecoded, SYS_FLASHER, SYS_IOSTACK
  <2>3. CASE pc' = "return" /\ UNCHANGED out
    BY <1>1, <2>1, <2>2, <2>3
  <2>4. ASSUME pc' = "begin", (Refused \/ Performed)', Len(resp'.data) <= 1
        PROVE  ResponseInv'
    BY <2>4, TxBufAssumption, ResponseNew DEF HeaderSize, ConfigSize
  <2>5. CASE pc' = "begin" /\ resp'.code = request.code /\ Len(resp'.data) <= 1
    <3>1. Performed'
      BY <1>2, <2>1, <2>2, <2>5, FlasherStep DEF Performed, Asks
    <3>. QED
      BY <2>4, <2>5, <3>1
  <2>6. CASE /\ pc' = "begin" /\ UNCHANGED out
             /\ resp'.code = CMD_REPORT_FLASHERCTL_ERR /\ Len(resp'.data) = 1
    <3>1. Refused'
      BY <2>1, <2>2, <2>6 DEF Refused, Unaffected, Asks, EffectInv, Undecoded
    <3>. QED
      BY <2>4, <2>6, <3>1
  <2>. QED
    BY <1>2, <2>3, <2>5, <2>6, FlasherStep
<1>3. CASE Ping
  <2>1. /\ pc = "handler" /\ request.sys = SYS_IOSTACK /\ request.code = CMD_PING
        /\ pc' = "begin" /\ resp' = [code |-> request.code, data |-> request.payload]
        /\ UNCHANGED <<request, ram, served>>
    BY <1>3 DEF Ping, InHandler, Respond, boardVars, histVars
  <2>2. /\ served \in Requests /\ Len(served.data) >= HeaderSize
        /\ request.payload \in PayloadWords(served.data)
        /\ served.data[2] = SYS_IOSTACK /\ served.data[3] = CMD_PING
    BY <2>1 DEF RequestInv, Undecoded, Booting
  <2>3. Performed'
    BY <2>1, <2>2 DEF Performed, Asks, CMD_PING, CMD_WRITE_REG, ERR_REPORT,
                      CMD_REPORT_FLASHERCTL_ERR
  <2>. QED
    BY <2>1, <2>2, <2>3, EchoFits, ResponseNew
<1>4. CASE RegisterRead
  <2>1. /\ pc = "handler" /\ request.sys = SYS_IOSTACK /\ request.code = CMD_READ_REG
        /\ UNCHANGED <<request, before, served>>
    BY <1>4 DEF RegisterRead, InHandler, Fail, Respond, histVars
  <2>2. CASE pc' = "return"
    <3>1. UNCHANGED <<out, ram>>
      BY <1>4, <2>2 DEF RegisterRead, Fail, Respond, boardVars
    <3>. QED
      BY <1>1, <2>1, <2>2, <3>1 DEF CMD_READ_REG, CMD_PING
  <2>3. CASE pc' # "return"
    <3>1. pc' = "begin" /\ resp' = [code |-> request.code, data |-> chip]
      BY <1>4, <2>3 DEF RegisterRead, Fail, Respond
    <3>2. Performed'
      BY <2>1, <3>1
      DEF RequestInv, Undecoded, Performed, Asks, CMD_READ_REG, CMD_PING,
          CMD_WRITE_REG, ERR_REPORT, CMD_REPORT_FLASHERCTL_ERR
    <3>3. Len(chip) \in 0..ConfigSize
      BY WordSequences DEF ConfigSize
    <3>. QED
      BY <3>1, <3>2, <3>3, ShortReplyFits, ResponseNew
  <2>. QED
    BY <2>2, <2>3
<1>5. CASE RegisterWrite
  <2>1. /\ pc = "handler" /\ request.sys = SYS_IOSTACK /\ request.code = CMD_WRITE_REG
        /\ UNCHANGED <<out, before, served>>
    BY <1>5 DEF RegisterWrite, InHandler, Fail, SendError, Respond, boardVars, histVars
  <2>2. /\ served.data[2] = SYS_IOSTACK /\ served.data[3] = CMD_WRITE_REG
        /\ CMD_WRITE_REG # CMD_PING
    BY <2>1 DEF RequestInv, Undecoded, CMD_WRITE_REG, CMD_PING
  <2>3. CASE pc' = "return"
    <3>1. UNCHANGED <<ram, request>>
      BY <1>5, <2>3 DEF RegisterWrite, Fail, SendError, Respond, boardVars
    <3>. QED
      BY <1>1, <2>1, <2>2, <2>3, <3>1
  <2>4. CASE pc' = "begin"
    <3>1. SendError(INVALID_MAC) /\ UNCHANGED ram
      BY <1>5, <2>4 DEF RegisterWrite, Fail, boardVars
    <3>2. Unaffected
      BY <2>1, <2>2 DEF Unaffected, Asks, EffectInv, Undecoded
    <3>. QED
      BY <2>1, <3>1, <3>2, ErrorResponse
  <2>5. CASE pc' = "erase"
    BY <2>5 DEF ResponseInv, Replying
  <2>. QED
    BY <1>5, <2>3, <2>4, <2>5 DEF RegisterWrite, Fail, SendError, Respond
<1>6. CASE WriteErase
  BY <1>6 DEF WriteErase, EraseFlash, ResponseInv, Replying
<1>7. CASE WriteProgram
  <2>1. /\ pc = "program" /\ pc' = "begin"
        /\ resp' = [code |-> request.code, data |-> <<OKAY>>]
        /\ request' = [request EXCEPT !.sys = SYS_IOSTACK]
        /\ UNCHANGED <<ram, out, before, served>>
    BY <1>7 DEF WriteProgram, SendAcknowledge, Respond, histVars
  <2>2. request'.sys = SYS_IOSTACK /\ request'.payload = request.payload
    BY <2>1, RequestKeeps
  <2>3. /\ request.sys = SYS_IOSTACK /\ request.code = CMD_WRITE_REG
        /\ served.data[2] = SYS_IOSTACK /\ served.data[3] = CMD_WRITE_REG
        /\ ram = NewConfig /\ Len(request.payload) = 2 + ConfigSize
    BY <2>1 DEF EffectInv, RequestInv, Writing
  <2>4. Performed'
    BY <2>1, <2>2, <2>3
    DEF Performed, Asks, NewConfig, CMD_PING, CMD_WRITE_REG, ERR_REPORT,
        CMD_REPORT_FLASHERCTL_ERR
  <2>5. Len(resp'.data) \in 0..ConfigSize
    BY <2>1 DEF ConfigSize
  <2>. QED
    BY <2>1, <2>4, <2>5, ShortReplyFits, ResponseNew
<1>. QED
  BY <1>2, <1>3, <1>4, <1>5, <1>6, <1>7 DEF Handler

\* The parts of the header of a reply are words, and so is all of it.
LEMMA ReplyWords ==
  ASSUME TypeOK
  PROVE  /\ ReplyHeader \in Seq(Nat) /\ resp.data \in Seq(Nat)
         /\ Len(ReplyHeader) = HeaderSize /\ Len(resp.data) \in Nat
         /\ ReplyHeader \o <<>> = ReplyHeader
<1>1. /\ request.id \in Nat /\ request.sys \in Nat /\ resp.code \in Nat
      /\ resp.data \in Seq(Nat)
  BY DEF TypeOK, RequestType
<1>2. ReplyHeader \in Seq(Nat) /\ Len(ReplyHeader) = 3
  BY <1>1, WordSequences DEF ReplyHeader, Header
<1>. QED
  BY <1>1, <1>2 DEF HeaderSize

\* The response calls keep ResponseInv: begin writes the header, write the rest,
\* which fits, and a response already sent is not begun again.
LEMMA ResponseOfCalls ==
  ASSUME TypeOK, ReplyInv, ResponseInv,
         ResponseBegin \/ ResponseWrite \/ \E sent \in BOOLEAN : ResponseEnd(sent)
  PROVE  ResponseInv'
<1>. request \in RequestType
  BY DEF TypeOK
<1>1. CASE ResponseBegin
  <2>1. /\ pc = "begin" /\ pc' = "write" /\ request.response_state \in {0, 2}
        /\ UNCHANGED <<resp, ram, out, served, before>>
    BY <1>1 DEF ResponseBegin, ReplyInv, boardVars, histVars
  <2>2. CASE request.response_state = 2
    <3>1. request'.response_state = 2
      BY <1>1, <2>2 DEF ResponseBegin
    <3>. QED
      BY <2>1, <3>1 DEF ResponseInv
  <2>3. CASE request.response_state = 0
    <3>1. HeaderSize <= TxBufSize
      BY TxBufAssumption DEF HeaderSize, ConfigSize
    <3>2. /\ request' = [request EXCEPT !.code = resp.code, !.response_state = 1]
          /\ dest' = request.from /\ txbuf' = ReplyHeader
          /\ free' = TxBufSize - HeaderSize
      BY <1>1, <2>3, <3>1, Zenon DEF ResponseBegin, ReplyHeader
    <3>3. /\ request'.from = request.from /\ request'.id = request.id
          /\ request'.sys = request.sys /\ request'.payload = request.payload
          /\ request'.response_state = 1
      BY <3>2 DEF RequestType
    <3>4. (Refused \/ Performed)' /\ HeaderSize + Len(resp'.data) <= TxBufSize
      BY <2>1, <2>3, <3>3, ResponseSame DEF ResponseInv, Replying
    <3>5. ReplyHeader' = ReplyHeader
      BY <2>1, <3>3 DEF ReplyHeader
    <3>. QED
      BY <2>1, <3>2, <3>3, <3>4, <3>5 DEF ResponseInv
  <2>. QED
    BY <2>1, <2>2, <2>3
<1>2. CASE ResponseWrite
  <2>1. /\ pc = "write" /\ pc' = "end" /\ request.response_state \in {1, 2}
        /\ UNCHANGED <<resp, ram, out, served, before, request, dest>>
    BY <1>2 DEF ResponseWrite, ReplyInv, boardVars, histVars
  <2>2. CASE request.response_state = 2
    BY <2>1, <2>2 DEF ResponseInv
  <2>3. CASE request.response_state = 1
    <3>1. /\ txbuf = ReplyHeader /\ free = TxBufSize - HeaderSize
          /\ HeaderSize + Len(resp.data) <= TxBufSize /\ dest = request.from
      BY <2>1, <2>3 DEF ResponseInv, Replying
    <3>2. Fits(resp.data)
      BY <3>1, ReplyWords, TxBufAssumption DEF Fits, HeaderSize
    <3>3. txbuf' = ReplyHeader \o resp.data
      <4>1. CASE resp.data = <<>>
        <5>1. txbuf' = ReplyHeader
          BY <1>2, <3>1, <4>1, Zenon DEF ResponseWrite
        <5>. QED
          BY <4>1, <5>1, ReplyWords
      <4>2. CASE resp.data # <<>>
        BY <1>2, <2>3, <3>1, <3>2, <4>2, Zenon DEF ResponseWrite
      <4>. QED
        BY <4>1, <4>2
    <3>4. (Refused \/ Performed)'
      BY <2>1, <2>3, ResponseSame DEF ResponseInv, Replying
    <3>5. ReplyHeader' = ReplyHeader
      BY <2>1 DEF ReplyHeader
    <3>. QED
      BY <2>1, <3>1, <3>3, <3>4, <3>5 DEF ResponseInv
  <2>. QED
    BY <2>1, <2>2, <2>3
<1>3. ASSUME NEW sent \in BOOLEAN, ResponseEnd(sent)
      PROVE  ResponseInv'
  <2>1. /\ pc = "end" /\ pc' \in {"restore", "return"}
        /\ request.response_state \in {1, 2}
    BY <1>3 DEF ResponseEnd, AfterReply, ReplyInv
  <2>2. request'.response_state = 2
    <3>1. CASE request.response_state = 2
      BY <1>3, <3>1 DEF ResponseEnd
    <3>2. CASE request.response_state = 1
      <4>1. request' = [request EXCEPT !.response_state = 2]
        BY <1>3, <3>2, Zenon DEF ResponseEnd
      <4>. QED
        BY <4>1, RequestKeeps
    <3>. QED
      BY <2>1, <3>1, <3>2
  <2>. QED
    BY <2>1, <2>2 DEF ResponseInv, Replying
<1>. QED
  BY <1>1, <1>2, <1>3

\* Every step keeps ResponseInv.
LEMMA ResponseInvNext ==
  ASSUME StateInv, RequestInv, WalkInv, EffectInv, ResponseInv, Next
  PROVE  ResponseInv'
<1>. TypeOK /\ ReplyInv
  BY DEF StateInv
<1>1. ASSUME pc' \notin Replying \cup {"return"}
      PROVE  ResponseInv'
  BY <1>1 DEF ResponseInv, Replying
<1>2. CASE BootLoad \/ BootErase \/ BootProgram \/ Configure
  BY <1>1, <1>2
  DEF BootLoad, BootErase, BootProgram, Configure, EraseFlash, Replying
<1>3. CASE TickRead
  <2>1. pc' \in {"idle", "subsystem"}
    BY <1>3 DEF TickRead
  <2>. QED
    BY <1>1, <2>1 DEF Replying
<1>4. CASE RestoreMask
  <2>1. /\ pc = "restore" /\ pc' = "return" /\ request' = request
    BY <1>4 DEF RestoreMask
  <2>. QED
    BY <2>1 DEF ReplyInv, ResponseInv, Replying
<1>5. CASE PowerCycle \/ \E mac \in ConsoleMacs : EnterMac(mac)
  BY <1>1, <1>5 DEF PowerCycle, Volatile, EnterMac, Replying
<1>6. CASE (\E d \in Requests : Arrive(d)) \/ Depart
  <2>1. UNCHANGED <<pc, boardVars, request, resp, txbuf, free, dest, histVars>>
    BY <1>6 DEF Arrive, Depart, replyVars
  <2>. QED
    BY <2>1, Zenon
    DEF boardVars, histVars, ResponseInv, Refused, Performed, Unaffected, Asks,
        NewConfig, ReplyHeader
<1>. QED
  BY <1>2, <1>3, <1>4, <1>5, <1>6, ResponseOfDispatch, ResponseOfHandlers,
     ResponseOfCalls
  DEF Next, Firmware, Environment

\* The invariant holds at first power-on ...
LEMMA IInvInit == Init => IInv
<1> SUFFICES ASSUME Init PROVE IInv
  OBVIOUS
<1>1. pc = "boot" /\ rx = <<>>
  BY DEF Init
<1>2. RequestInv /\ WalkInv /\ EffectInv /\ ResponseInv
  BY <1>1 DEF RequestInv, WalkInv, EffectInv, ResponseInv, Booting, Replying,
              Undecoded, Writing
<1>. QED
  BY <1>2, StateInvInit DEF IInv

\* ... and every step keeps it.
LEMMA IInvNext == IInv /\ [Next]_vars => IInv'
<1> SUFFICES ASSUME IInv, [Next]_vars PROVE IInv'
  OBVIOUS
<1>1. CASE Next
  BY <1>1, StateInvNext, RequestInvNext, WalkInvNext, EffectInvNext,
     ResponseInvNext, Zenon
  DEF IInv, StateInv
<1>2. CASE UNCHANGED vars
  <2>1. StateInv'
    BY StateInvNext DEF IInv
  <2>2. UNCHANGED <<pc, ram, out, flash, request, cursor, resp, rx, txbuf, free,
                    dest, served, before>>
    BY <1>2 DEF vars, boardVars, replyVars, histVars
  <2>3. RequestInv' /\ WalkInv'
    BY <2>2 DEF IInv, RequestInv, WalkInv, OtherCommands
  <2>4. EffectInv'
    BY <2>2 DEF IInv, EffectInv, NewConfig, Register
  <2>5. (Refused <=> Refused') /\ (Performed <=> Performed')
    BY <2>2 DEF Refused, Performed, Unaffected, Asks, NewConfig
  <2>6. ResponseInv'
    BY <2>2, <2>5 DEF IInv, ResponseInv, Unaffected, Asks, ReplyHeader
  <2>. QED
    BY <2>1, <2>3, <2>4, <2>6 DEF IInv
<1>. QED
  BY <1>1, <1>2

\* So it holds throughout: at every call of the firmware it is known what the
\* request in service has led to, in the reply and in the state of the device.
THEOREM Invariance == Spec => []IInv
  BY IInvInit, IInvNext, PTL DEF Spec
-----------------------------------------------------------------------------
(* What a transmitted reply says.                                          *)

\* Only the end of a response that was begun puts a reply on the wire.
LEMMA TransmitsAtEnd ==
  ASSUME TypeOK, Next, Transmits
  PROVE  /\ pc = "end" /\ request.response_state = 1
         /\ tx' = Append(tx, [to |-> dest, data |-> txbuf])
<1>. tx \in Seq([to : Clients, data : Seq(Nat)]) /\ Len(tx) \in Nat
  BY ConcatType DEF TypeOK
<1>1. tx' # tx /\ ~Depart
  <2>1. tx' # tx
    BY DEF Transmits
  <2>2. ASSUME Depart PROVE FALSE
    <3>1. tx # <<>> /\ tx' = Tail(tx)
      BY <2>2 DEF Depart
    <3>2. Len(Tail(tx)) < Len(tx)
      BY <3>1
    <3>. QED
      BY <3>1, <3>2 DEF Transmits
  <2>. QED
    BY <2>1, <2>2
<1>2. ~(BootLoad \/ BootErase \/ BootProgram \/ Configure)
  BY <1>1 DEF BootLoad, BootErase, BootProgram, Configure, EraseFlash, replyVars
<1>3. ~(TickRead \/ FindSubsystem \/ FindCommand \/ Return)
  BY <1>1 DEF TickRead, FindSubsystem, FindCommand, Return, replyVars
<1>4. ~(Handler \/ RestoreMask \/ WriteErase \/ WriteProgram)
  BY <1>1, FlasherStep
  DEF Handler, Ping, RegisterRead, RegisterWrite, RestoreMask, WriteErase,
      EraseFlash, WriteProgram, replyVars
<1>5. ~(ResponseBegin \/ ResponseWrite)
  BY <1>1 DEF ResponseBegin, ResponseWrite
<1>6. ~Environment
  BY <1>1 DEF Environment, EnterMac, PowerCycle, Arrive, replyVars
<1>7. PICK sent \in BOOLEAN : ResponseEnd(sent)
  BY <1>2, <1>3, <1>4, <1>5, <1>6 DEF Next, Firmware
<1>. QED
  BY <1>1, <1>7, Zenon DEF ResponseEnd

\* What it is then: resp under the header of the request, to its sender.
LEMMA Transmission ==
  ASSUME IInv, Next, Transmits
  PROVE  /\ NewReply.to = served.from
         /\ NewReply.data = ReplyHeader \o resp.data
         /\ NewReply.data[1] = served.data[1]
         /\ NewReply.data[2] = request.sys
         /\ NewReply.data[3] = resp.code
         /\ Len(NewReply.data) = HeaderSize + Len(resp.data)
         /\ Refused \/ Performed
         /\ flash = [valid |-> TRUE, cfg |-> ram]
         /\ served \in Requests /\ Len(served.data) >= HeaderSize
         /\ request.payload \in PayloadWords(served.data)
<1>. TypeOK /\ ConfigInv /\ RequestInv /\ ResponseInv
  BY DEF IInv, StateInv
<1>1. /\ pc = "end" /\ request.response_state = 1
      /\ tx' = Append(tx, [to |-> dest, data |-> txbuf])
  BY TransmitsAtEnd
<1>2. /\ dest = request.from /\ txbuf = ReplyHeader \o resp.data
      /\ Refused \/ Performed
  BY <1>1 DEF ResponseInv, Replying
<1>3. /\ served \in Requests /\ Len(served.data) >= HeaderSize
      /\ request.from = served.from /\ request.id = served.data[1]
      /\ request.payload \in PayloadWords(served.data)
  BY <1>1 DEF RequestInv, Booting
<1>4. flash = [valid |-> TRUE, cfg |-> ram]
  BY <1>1 DEF ConfigInv, Replying
<1>5. NewReply = [to |-> dest, data |-> txbuf]
  <2>1. tx \in Seq([to : Clients, data : Seq(Nat)])
    BY DEF TypeOK
  <2>. QED
    BY <1>1, <2>1 DEF NewReply
<1>6. /\ (ReplyHeader \o resp.data)[1] = request.id
      /\ (ReplyHeader \o resp.data)[2] = request.sys
      /\ (ReplyHeader \o resp.data)[3] = resp.code
      /\ Len(ReplyHeader \o resp.data) = HeaderSize + Len(resp.data)
  BY ReplyWords DEF HeaderSize, ReplyHeader, Header
<1>. QED
  BY <1>1, <1>2, <1>3, <1>4, <1>5, <1>6

\* Every reply is for the datagram in service: its sender, its id, and its
\* command or one error code, although the static request is reused and partly
\* overwritten by the response calls.
THEOREM RepliesAnswer == Spec => ReplyAnswersRequest
<1>1. ASSUME IInv, Next, Transmits
      PROVE  /\ NewReply.to = served.from
             /\ NewReply.data[1] = served.data[1]
             /\ \/ /\ NewReply.data[2] = served.data[2]
                   /\ NewReply.data[3] = served.data[3]
                \/ /\ \/ IsIostackError(NewReply)
                      \/ IsFlasherError(NewReply) /\ served.data[2] = SYS_FLASHER
                   /\ Len(NewReply.data) = HeaderSize + 1
  <2>1. CASE Performed
    BY <1>1, <2>1, Transmission DEF Performed, Asks
  <2>2. CASE Refused
    BY <1>1, <2>2, Transmission DEF Refused, IsIostackError, IsFlasherError
  <2>. QED
    BY <1>1, <2>1, <2>2, Transmission
<1>2. IInv /\ [Next]_vars =>
        [Transmits =>
           /\ NewReply.to = served.from
           /\ NewReply.data[1] = served.data[1]
           /\ \/ /\ NewReply.data[2] = served.data[2]
                 /\ NewReply.data[3] = served.data[3]
              \/ /\ \/ IsIostackError(NewReply)
                    \/ IsFlasherError(NewReply) /\ served.data[2] = SYS_FLASHER
                 /\ Len(NewReply.data) = HeaderSize + 1]_vars
  BY <1>1
<1>. QED
  BY <1>2, Invariance, PTL DEF Spec, ReplyAnswersRequest

\* A datagram is its header and its payload.
LEMMA DatagramParts ==
  ASSUME NEW data \in Seq(Nat), Len(data) >= HeaderSize
  PROVE  Header(data[1], data[2], data[3]) \o Payload(data) = data
<1> DEFINE n == Len(data)
           p == Payload(data)
           h == Header(data[1], data[2], data[3])
<1>1. n \in Nat /\ n >= 3 /\ \A i \in 1..n : data[i] \in Nat
  BY DEF HeaderSize
<1>2. p \in Seq(Nat) /\ Len(p) = n - 3 /\ \A i \in 1..(n - 3) : p[i] = data[3 + i]
  <2>1. 4 \in Int /\ n \in Int /\ \A i \in 4..n : data[i] \in Nat
    BY <1>1
  <2>2. /\ p \in Seq(Nat) /\ Len(p) = IF 4 <= n THEN n - 4 + 1 ELSE 0
        /\ \A i \in 1..(n - 4 + 1) : p[i] = data[4 + i - 1]
    BY <2>1, SubSeqProperties, SMTT(40) DEF Payload, HeaderSize
  <2>3. n - 4 + 1 = n - 3 /\ (IF 4 <= n THEN n - 4 + 1 ELSE 0) = n - 3
    <3>. HIDE DEF n
    <3>1. n \in Nat /\ n >= 3
      BY <1>1
    <3>. QED
      BY <3>1
  <2>4. ASSUME NEW i \in 1..(n - 3) PROVE p[i] = data[3 + i]
    <3>1. 4 + i - 1 = 3 + i
      BY <1>1
    <3>2. p[i] = data[4 + i - 1]
      BY <2>2, <2>3, Zenon
    <3>. QED
      BY <3>1, <3>2, Zenon
  <2>. QED
    BY <2>2, <2>3, <2>4, Zenon
<1>3. h \in Seq(Nat) /\ Len(h) = 3 /\ \A i \in 1..3 : h[i] = data[i]
  BY <1>1, WordSequences DEF Header
<1>. HIDE DEF n, p, h
<1>4. /\ h \o p \in Seq(Nat) /\ Len(h \o p) = n
      /\ \A i \in 1..n : (h \o p)[i] = IF i <= 3 THEN h[i] ELSE p[i - 3]
  <2>1. /\ h \o p \in Seq(Nat) /\ Len(h \o p) = Len(h) + Len(p)
        /\ \A i \in 1..(Len(h) + Len(p)) :
             (h \o p)[i] = IF i <= Len(h) THEN h[i] ELSE p[i - Len(h)]
    BY <1>2, <1>3, ConcatProperties, Zenon
  <2>2. Len(h) + Len(p) = n
    BY <1>1, <1>2, <1>3
  <2>. QED
    BY <1>3, <2>1, <2>2
<1>5. \A i \in 1..n : (h \o p)[i] = data[i]
  <2>1. ASSUME NEW i \in 1..n PROVE (h \o p)[i] = data[i]
    <3>1. CASE i <= 3
      <4>1. i \in 1..3
        BY <1>1, <3>1
      <4>2. (h \o p)[i] = h[i]
        BY <1>4, <3>1, Zenon
      <4>. QED
        BY <1>3, <4>1, <4>2, Zenon
    <3>2. CASE ~(i <= 3)
      <4>1. i - 3 \in 1..(n - 3) /\ 3 + (i - 3) = i
        BY <1>1, <3>2
      <4>. QED
        BY <1>2, <1>4, <3>2, <4>1, Zenon
    <3>. QED
      BY <3>1, <3>2
  <2>. QED
    BY <2>1
<1>. QED
  BY <1>4, <1>5, SeqEqual DEF n, p, h

\* A datagram differs from its header with other words only behind those that agree.
LEMMA DatagramWithWords ==
  ASSUME NEW data \in Seq(Nat), Len(data) >= HeaderSize,
         NEW w \in PayloadWords(data)
  PROVE  LET r == Header(data[1], data[2], data[3]) \o w IN
         /\ Len(r) = Len(data)
         /\ \A i \in 1..Len(data) :
              i <= HeaderSize + iostack_max_payload_size => r[i] = data[i]
<1> DEFINE p == Payload(data)
           h == Header(data[1], data[2], data[3])
           n == Len(data)
           room == iostack_max_payload_size
<1>1. h \o p = data
  BY DatagramParts
<1>2. /\ w \in Seq(Nat) /\ Len(w) = Len(p) /\ p \in Seq(Nat)
      /\ \A j \in 1..Len(p) : j <= room => w[j] = p[j]
  BY PayloadRead, PayloadType
<1>3. h \in Seq(Nat) /\ Len(h) = 3 /\ n \in Nat /\ n >= 3 /\ room \in Nat
  <2>1. data[1] \in Nat /\ data[2] \in Nat /\ data[3] \in Nat /\ n \in Nat /\ n >= 3
    BY LenProperties DEF HeaderSize
  <2>. QED
    BY <2>1, WordSequences, PayloadAssumption DEF Header
<1>. HIDE DEF p, h, n, room
<1>4. /\ Len(h \o p) = 3 + Len(p) /\ Len(h \o w) = 3 + Len(p) /\ Len(p) \in Nat
      /\ \A i \in 1..(3 + Len(p)) :
           /\ (h \o p)[i] = IF i <= 3 THEN h[i] ELSE p[i - 3]
           /\ (h \o w)[i] = IF i <= 3 THEN h[i] ELSE w[i - 3]
  <2>1. h \in Seq(Nat) /\ p \in Seq(Nat) /\ w \in Seq(Nat) /\ Len(p) \in Nat
    BY <1>2, <1>3, LenProperties
  <2>2. /\ h \o p \in Seq(Nat) /\ Len(h \o p) = Len(h) + Len(p)
        /\ \A i \in 1..(Len(h) + Len(p)) :
             (h \o p)[i] = IF i <= Len(h) THEN h[i] ELSE p[i - Len(h)]
    BY <2>1, ConcatProperties, Zenon
  <2>3. /\ h \o w \in Seq(Nat) /\ Len(h \o w) = Len(h) + Len(w)
        /\ \A i \in 1..(Len(h) + Len(w)) :
             (h \o w)[i] = IF i <= Len(h) THEN h[i] ELSE w[i - Len(h)]
    BY <2>1, ConcatProperties, Zenon
  <2>. QED
    BY <1>2, <1>3, <2>1, <2>2, <2>3
<1>5. n = 3 + Len(p)
  BY <1>1, <1>4 DEF n
<1>6. ASSUME NEW i \in 1..n, i <= 3 + room
      PROVE  (h \o w)[i] = (h \o p)[i]
  <2>1. CASE i <= 3
    BY <1>4, <1>5, <2>1
  <2>2. CASE ~(i <= 3)
    <3>1. i - 3 \in 1..Len(p) /\ i - 3 <= room
      BY <1>3, <1>4, <1>5, <1>6, <2>2
    <3>. QED
      BY <1>2, <1>4, <1>5, <2>2, <3>1
  <2>. QED
    BY <2>1, <2>2
<1>. QED
  BY <1>1, <1>4, <1>5, <1>6 DEF h, n, room, HeaderSize

\* A ping comes back with its length and all the words the static request holds, and
\* is never answered with an error.
THEOREM PingsEchoed == Spec => PingEchoed
<1>1. ASSUME IInv, Next, Transmits, Asks(SYS_IOSTACK, CMD_PING)
      PROVE  /\ Len(NewReply.data) = Len(served.data)
             /\ \A i \in 1..Len(served.data) :
                  i <= HeaderSize + iostack_max_payload_size
                    => NewReply.data[i] = served.data[i]
  <2>1. Performed
    BY <1>1, Transmission DEF Refused, Unaffected
  <2>2. NewReply.data = ReplyHeader \o request.payload
    BY <1>1, <2>1, Transmission DEF Performed
  <2>3. ReplyHeader = Header(served.data[1], served.data[2], served.data[3])
    <3>1. /\ pc \notin Booting \cup {"idle"} /\ RequestInv
      BY <1>1, TransmitsAtEnd DEF IInv, StateInv, Booting
    <3>. QED
      BY <2>1, <3>1 DEF RequestInv, Performed, Asks, ReplyHeader
  <2>. QED
    BY <1>1, <2>2, <2>3, Transmission, DatagramWithWords, EchoFits
<1>2. IInv /\ [Next]_vars =>
        [Transmits /\ served.data[2] = SYS_IOSTACK /\ served.data[3] = CMD_PING
           => /\ Len(NewReply.data) = Len(served.data)
              /\ \A i \in 1..Len(served.data) :
                   i <= HeaderSize + iostack_max_payload_size
                     => NewReply.data[i] = served.data[i]]_vars
  BY <1>1 DEF Asks
<1>. QED
  BY <1>2, Invariance, PTL DEF Spec, PingEchoed

\* An error reply means that nothing has changed, neither outputs nor addresses.
THEOREM RefusalsHaveNoEffect == Spec => RefusedWithoutEffect
<1>1. ASSUME IInv, Next, Transmits, IsIostackError(NewReply) \/ IsFlasherError(NewReply)
      PROVE  /\ out = before.out /\ ram = before.ram
             /\ flash = [valid |-> TRUE, cfg |-> before.ram]
  <2>1. Refused
    BY <1>1, Transmission DEF Performed, IsIostackError, IsFlasherError
  <2>. QED
    BY <1>1, <2>1, Transmission DEF Refused, Unaffected
<1>2. IInv /\ [Next]_vars =>
        [Transmits /\ (IsIostackError(NewReply) \/ IsFlasherError(NewReply))
           => /\ out = before.out /\ ram = before.ram
              /\ flash = [valid |-> TRUE, cfg |-> before.ram]]_vars
  BY <1>1
<1>. QED
  BY <1>2, Invariance, PTL DEF Spec, RefusedWithoutEffect

\* When the acknowledgement of a configuration write leaves, the flash holds
\* what the request asked for.
THEOREM AcksAreDurable == Spec => AckedConfigDurable
<1>1. ASSUME IInv, Next, Transmits, AcksConfigWrite
      PROVE  flash = [valid |-> TRUE, cfg |-> ConfigOf(Payload(served.data))]
  <2>1. Performed
    BY <1>1, Transmission
    DEF Refused, IsIostackError, AcksConfigWrite, SYS_FLASHER, SYS_IOSTACK
  <2>2. /\ ram = ConfigOf(request.payload) /\ Len(request.payload) = 2 + ConfigSize
        /\ request.payload \in PayloadWords(served.data) /\ served \in Requests
    BY <1>1, <2>1, Transmission DEF Performed, Asks, AcksConfigWrite, NewConfig
  <2>3. served.data \in Seq(Nat)
    BY <2>2, ConstantsAssumption DEF Datagram
  <2>4. Len(request.payload) <= 2 + ConfigSize
    BY <2>2 DEF ConfigSize
  <2>5. request.payload = Payload(served.data)
    BY <2>2, <2>3, <2>4, PayloadRead
  <2>. QED
    BY <1>1, <2>2, <2>5, Transmission
<1>2. IInv /\ [Next]_vars =>
        [Transmits /\ AcksConfigWrite
           => flash = [valid |-> TRUE, cfg |-> ConfigOf(Payload(served.data))]]_vars
  BY <1>1
<1>. QED
  BY <1>2, Invariance, PTL DEF Spec, AckedConfigDurable
=============================================================================
