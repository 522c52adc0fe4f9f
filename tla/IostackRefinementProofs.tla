---------------------- MODULE IostackRefinementProofs -----------------------
(***************************************************************************)
(* The firmware implements Device, for every choice of the constants that  *)
(* satisfies the assumptions: initial states are initial states of Device, *)
(* and every step of the firmware is one of Device or changes nothing that *)
(* Device shows.                                                           *)
(***************************************************************************)
EXTENDS IostackRefinement, IostackServiceProofs

\* How far the reply to the request in service is.
AnswerView ==
  /\ pc \notin Replying \cup {"return"} => serviceAnswer = <<>>
  /\ pc \in Replying /\ request.response_state # 2 =>
       serviceAnswer = [to |-> served.from, data |-> ReplyHeader \o resp.data]
  /\ pc = "return" /\ request.response_state = 0 =>
       serviceAnswer = [to |-> served.from,
                        data |-> Header(request.id, SYS_IOSTACK, ERR_REPORT) \o <<rc>>]
  /\ pc \in Replying \cup {"return"} /\ request.response_state = 2 =>
       serviceAnswer = <<>>

\* The reply a client is to get is settled when the request takes effect.
LEMMA AnswerSettled == IInv => AnswerView
<1> SUFFICES ASSUME IInv PROVE AnswerView
  OBVIOUS
<1>. TypeOK /\ ReplyInv /\ RequestInv /\ ResponseInv
  BY DEF IInv, StateInv
<1>1. pc \notin Replying \cup {"return"} => serviceAnswer = <<>>
  BY DEF serviceAnswer, Pending
<1>2. ASSUME pc \in Replying, request.response_state # 2
      PROVE  serviceAnswer = [to |-> served.from, data |-> ReplyHeader \o resp.data]
  <2>1. request.from = served.from
    BY <1>2 DEF RequestInv, Replying, Booting
  <2>2. PendingReply = ReplyHeader \o resp.data
    <3>1. CASE pc = "begin"
      BY <3>1 DEF PendingReply, ReplyHeader
    <3>2. CASE pc = "write"
      BY <1>2, <3>2 DEF PendingReply, ResponseInv, ReplyInv
    <3>3. CASE pc = "end"
      BY <1>2, <3>3 DEF PendingReply, ResponseInv, ReplyInv
    <3>. QED
      BY <1>2, <3>1, <3>2, <3>3 DEF Replying
  <2>. QED
    BY <1>2, <2>1, <2>2 DEF serviceAnswer, Pending
<1>3. ASSUME pc = "return", request.response_state = 0
      PROVE  serviceAnswer =
               [to |-> served.from,
                data |-> Header(request.id, SYS_IOSTACK, ERR_REPORT) \o <<rc>>]
  <2>1. request.from = served.from /\ rc # OKAY
    BY <1>3 DEF RequestInv, ReplyInv, Booting
  <2>. QED
    BY <1>3, <2>1 DEF serviceAnswer, Pending, PendingReply, Replying
<1>4. pc \in Replying \cup {"return"} /\ request.response_state = 2
        => serviceAnswer = <<>>
  BY DEF serviceAnswer, Pending
<1>. QED
  BY <1>1, <1>2, <1>3, <1>4 DEF AnswerView

\* ... and so after every step.
LEMMA AnswerSettledNext == IInv' => AnswerView'
  BY AnswerSettled, PTL

\* The device's first state.
LEMMA ServiceInit == Init => Service!Init
<1> SUFFICES ASSUME Init PROVE Service!Init
  OBVIOUS
<1>1. pc = "boot" /\ AnswerView
  BY IInvInit, AnswerSettled DEF Init
<1>2. serviceStored \in Configs \cup {<<>>}
  <2>1. serviceStored = IF flash.valid THEN flash.cfg ELSE <<>>
    BY <1>1 DEF serviceStored
  <2>2. CASE flash \in [valid : {TRUE}, cfg : Configs]
    BY <2>1, <2>2
  <2>3. CASE flash = [valid |-> FALSE, cfg |-> NoConfig]
    BY <2>1, <2>3
  <2>. QED
    BY <2>2, <2>3 DEF Init
<1>3. /\ serviceMode = "off" /\ serviceCfg = NoConfig /\ serviceInbox = <<>>
      /\ serviceAnswer = <<>>
  BY <1>1 DEF Init, serviceMode, serviceCfg, serviceInbox, AnswerView, Booting,
              Writing, Undecided, Undecoded, Replying
<1>. QED
  BY <1>2, <1>3
  DEF Init, Service!Init, Service!NoConfig, Service!DarkPins, Service!NoStored,
      Service!NoAnswer, NoConfig, DarkPins
-----------------------------------------------------------------------------
(* Boot and environment.                                                   *)

\* What Device shows is unchanged.
Unseen == UNCHANGED <<serviceMode, serviceCfg, serviceStored, out, serviceInbox,
                      serviceAnswer, tx>>

\* A device that boots takes no request and gives no reply.
LEMMA Booted ==
  ASSUME IInv, IInv', pc \in Booting, pc' \in Booting \cup {"idle"}
  PROVE  /\ serviceAnswer = <<>> /\ serviceAnswer' = <<>>
         /\ serviceInbox = rx /\ serviceInbox' = rx'
         /\ serviceMode = "off" /\ serviceMode' = IF pc' = "idle" THEN "on" ELSE "off"
         /\ serviceCfg = ram /\ serviceCfg' = ram'
         /\ serviceStored = IF flash.valid THEN flash.cfg ELSE <<>>
         /\ serviceStored' = IF flash'.valid THEN flash'.cfg ELSE <<>>
<1>1. /\ serviceAnswer = <<>> /\ serviceAnswer' = <<>>
  BY AnswerSettled, AnswerSettledNext DEF AnswerView, Booting, Replying
<1>2. /\ serviceInbox = rx /\ serviceInbox' = rx'
      /\ serviceMode = "off" /\ serviceMode' = IF pc' = "idle" THEN "on" ELSE "off"
  BY DEF serviceInbox, serviceMode, Undecided, Undecoded, Writing, Booting
<1>3. /\ serviceCfg = ram /\ serviceCfg' = ram'
      /\ serviceStored = IF flash.valid THEN flash.cfg ELSE <<>>
      /\ serviceStored' = IF flash'.valid THEN flash'.cfg ELSE <<>>
  BY DEF serviceCfg, serviceStored, Writing, Booting
<1>. QED
  BY <1>1, <1>2, <1>3

\* Boot loads a configuration, stores the one an operator has completed, and
\* starts with the one that is stored.
LEMMA BootSteps ==
  ASSUME IInv, IInv',
         \/ BootLoad \/ BootErase \/ BootProgram \/ Configure
         \/ \E mac \in ConsoleMacs : EnterMac(mac)
  PROVE  Service!Load \/ Service!Store \/ Service!Start \/ Unseen
<1>. /\ flash \in [valid : BOOLEAN, cfg : Config] /\ ConfigInv /\ EffectInv
  BY DEF IInv, StateInv, TypeOK
<1>1. /\ pc \in Booting /\ pc' \in Booting \cup {"idle"} /\ UNCHANGED <<out, tx, rx>>
  BY DEF BootLoad, BootErase, BootProgram, Configure, EnterMac, EraseFlash, Booting,
         replyVars
<1>2. \A c \in Config : c # <<>>
  <2>1. Len(<<>>) = 0
    OBVIOUS
  <2>2. \A c \in Config : Len(c) = 4
    BY WordSequences
  <2>. QED
    BY <2>1, <2>2
<1>3. flash.cfg # <<>>
  BY <1>2
<1>4. CASE BootLoad
  <2>1. /\ serviceMode' = "off" /\ flash' = flash
        /\ IF flash.valid THEN ram' = flash.cfg ELSE ram' = DefaultConfig
    BY <1>1, <1>4, Booted DEF BootLoad
  <2>. QED
    BY <1>1, <1>3, <2>1, Booted DEF Service!Load, Service!NoStored
<1>5. ASSUME NEW mac \in ConsoleMacs, EnterMac(mac)
      PROVE  Service!Load
  <2>1. /\ serviceMode' = "off" /\ flash' = flash /\ ~flash.valid
        /\ ram' = WithMac(DefaultConfig, mac)
    BY <1>1, <1>5, Booted DEF EnterMac, EffectInv
  <2>. QED
    BY <1>1, <2>1, Booted
    DEF Service!Load, Service!NoStored, Service!WithMac, WithMac
<1>6. CASE BootErase
  <2>1. /\ serviceMode' = "off" /\ ram' = ram /\ ~flash.valid /\ ~flash'.valid
    BY <1>1, <1>6, Booted DEF BootErase, EraseFlash, EffectInv
  <2>. QED
    BY <1>1, <2>1, Booted DEF Unseen
<1>7. CASE BootProgram
  <2>1. /\ serviceMode' = "off" /\ ram' = ram /\ ~flash.valid
        /\ flash' = [valid |-> TRUE, cfg |-> ram]
    BY <1>1, <1>7, Booted DEF BootProgram, EffectInv
  <2>. QED
    BY <1>1, <2>1, Booted DEF Service!Store, Service!NoStored
<1>8. CASE Configure
  <2>1. /\ UNCHANGED <<ram, flash>> /\ flash = [valid |-> TRUE, cfg |-> ram]
    BY <1>8 DEF Configure, ConfigInv
  <2>2. CASE pc' = "idle"
    BY <1>1, <2>1, <2>2, Booted DEF Service!Start
  <2>3. CASE pc' # "idle"
    BY <1>1, <2>1, <2>3, Booted DEF Unseen
  <2>. QED
    BY <2>2, <2>3
<1>. QED
  BY <1>4, <1>5, <1>6, <1>7, <1>8
-----------------------------------------------------------------------------
(* The requests, in the words of Device.                                   *)

\* Both modules speak the same protocol.
LEMMA Vocabulary ==
  /\ Service!SYS_IOSTACK = SYS_IOSTACK /\ Service!SYS_FLASHER = SYS_FLASHER
  /\ Service!CMD_READ_REG = CMD_READ_REG /\ Service!CMD_WRITE_REG = CMD_WRITE_REG
  /\ Service!CMD_PING = CMD_PING /\ Service!ERR_REPORT = ERR_REPORT
  /\ Service!CMD_REPORT_FLASHERCTL_ERR = CMD_REPORT_FLASHERCTL_ERR
  /\ Service!OKAY = OKAY /\ Service!REG_ETH_CFG = REG_ETH_CFG
  /\ Service!HeaderSize = HeaderSize /\ Service!ConfigSize = ConfigSize
  /\ Service!Subsystems = Subsystems
  /\ \A sys : Service!CmdsOf(sys) = CmdsOf(sys)
  /\ \A a, b, c : Service!Header(a, b, c) = Header(a, b, c)
  /\ \A d : Service!Payload(d) = Payload(d)
  /\ \A d : Service!Echoes(d) = PayloadWords(d)
  /\ \A p : Service!ConfigOf(p) = ConfigOf(p)
  /\ \A c : Service!Mac(c) = Mac(c)
  BY DEF Service!SYS_IOSTACK, SYS_IOSTACK, Service!SYS_FLASHER, SYS_FLASHER,
         Service!CMD_READ_REG, CMD_READ_REG, Service!CMD_WRITE_REG, CMD_WRITE_REG,
         Service!CMD_PING, CMD_PING, Service!ERR_REPORT, ERR_REPORT,
         Service!CMD_REPORT_FLASHERCTL_ERR, CMD_REPORT_FLASHERCTL_ERR,
         Service!OKAY, OKAY, Service!REG_ETH_CFG, REG_ETH_CFG,
         Service!HeaderSize, HeaderSize, Service!ConfigSize, ConfigSize,
         Service!Subsystems, Subsystems, Service!CmdsOf, CmdsOf,
         Service!iostack_cmds, iostack_cmds, Service!flasher_cmds, flasher_cmds,
         Service!CMD_LED_BUILTIN, CMD_LED_BUILTIN,
         Service!CMD_TEST_PULSE, CMD_TEST_PULSE,
         Service!CMD_SET_LED_CURRENT, CMD_SET_LED_CURRENT,
         Service!CMD_SET_PULSE_WIDTH, CMD_SET_PULSE_WIDTH,
         Service!CMD_START_TEMPERATURE, CMD_START_TEMPERATURE,
         Service!CMD_READ_TEMPERATURE, CMD_READ_TEMPERATURE,
         Service!CMD_READ_SERIAL_NO, CMD_READ_SERIAL_NO,
         Service!Header, Header, Service!Payload, Payload,
         Service!Echoes, PayloadWords, Service!Found, Found,
         Service!ConfigOf, ConfigOf, Service!Mac, Mac

\* The error replies of the two subsystems.
LEMMA ErrorReplies ==
  ASSUME NEW data
  PROVE  /\ \A e \in 1..5 : Header(data[1], SYS_IOSTACK, ERR_REPORT) \o <<e>>
                              \in Service!Errors(data)
         /\ \A e \in 1..2 :
              Header(data[1], SYS_FLASHER, CMD_REPORT_FLASHERCTL_ERR) \o <<e>>
                \in Service!FlasherErrors(data)
<1>1. \A e \in 1..5 : e \in {1, 2, 3, 4, 5}
  OBVIOUS
<1>2. \A e \in 1..2 : e \in {1, 2}
  OBVIOUS
<1>. QED
  BY <1>1, <1>2, Vocabulary, Zenon
  DEF Service!Errors, Service!FlasherErrors, Service!UNKNOWN_SUBSYSTEM,
      Service!UNKNOWN_COMMAND, Service!INVALID_SIZE, Service!INVALID_REGISTER,
      Service!INVALID_MAC, Service!FLASHER_EBVALUE, Service!FLASHER_ESERIALNO

\* A request with its payload, and the register number of a register access.
LEMMA RequestWords ==
  ASSUME NEW d \in Requests, Len(d.data) >= HeaderSize
  PROVE  /\ d.data \in Seq(Nat) /\ Payload(d.data) \in Seq(Nat)
         /\ Len(d.data) = HeaderSize + Len(Payload(d.data))
         /\ \A i \in 1..Len(Payload(d.data)) :
              /\ Payload(d.data)[i] \in Nat
              /\ Payload(d.data)[i] = d.data[HeaderSize + i]
<1> DEFINE n == Len(d.data)
           p == Payload(d.data)
<1>1. d.data \in Seq(Nat) /\ n \in Nat /\ n >= 3
  BY EchoFits DEF HeaderSize
<1>2. p \in Seq(Nat)
  BY <1>1, PayloadType
<1>3. Len(p) = n - 3
  BY EchoFits DEF HeaderSize
<1>4. \A i \in 1..(n - 3) : p[i] = d.data[3 + i]
  <2>1. 4 \in Int /\ n \in Int /\ \A i \in 4..n : d.data[i] \in Nat
    BY <1>1
  <2>2. \A i \in 1..(n - 4 + 1) : p[i] = d.data[4 + i - 1]
    BY <2>1, SubSeqProperties DEF Payload, HeaderSize
  <2>. HIDE DEF n, p
  <2>3. n - 4 + 1 = n - 3 /\ \A i \in 1..(n - 3) : 4 + i - 1 = 3 + i
    BY <1>1
  <2>. QED
    BY <2>2, <2>3, Zenon
<1>. QED
  BY <1>1, <1>2, <1>3, <1>4, SMTT(40) DEF HeaderSize

\* What the static request holds of it, which is all if a handler looks into it.
LEMMA RequestPayload ==
  ASSUME NEW d \in Requests, Len(d.data) >= HeaderSize,
         NEW w \in PayloadWords(d.data)
  PROVE  /\ w \in Seq(Nat) /\ Len(d.data) = HeaderSize + Len(w)
         /\ Len(w) = Len(Payload(d.data))
         /\ Len(w) <= 2 + ConfigSize => w = Payload(d.data)
  BY RequestWords, PayloadRead

\* It is all of a configuration write.
LEMMA WritePayload ==
  ASSUME NEW d \in Requests, Len(d.data) >= HeaderSize,
         NEW w \in PayloadWords(d.data), Len(w) = 2 + ConfigSize
  PROVE  w = Payload(d.data)
<1>1. Len(w) <= 2 + ConfigSize
  BY DEF ConfigSize
<1>. QED
  BY <1>1, RequestPayload

\* Which requests Device performs, by subsystem and command.
LEMMA ValidRequests ==
  ASSUME NEW data
  PROVE  /\ Service!Valid(data) => data[2] \in Subsystems
         /\ data[2] = SYS_IOSTACK /\ Service!Valid(data) =>
              \/ data[3] = CMD_PING
              \/ data[3] = CMD_READ_REG /\ Service!IsConfigRead(data)
              \/ /\ data[3] = CMD_WRITE_REG /\ Service!IsConfigWrite(data)
                 /\ Mac(ConfigOf(Payload(data))) = Mac(serviceCfg)
         /\ data[2] = SYS_FLASHER /\ Service!Valid(data) =>
              \/ Service!Sets(data)
              \/ data[3] \in 1..3 /\ Len(data) = HeaderSize
         /\ data[2] = SYS_IOSTACK /\ data[3] = CMD_PING => Service!Valid(data)
         /\ Service!IsConfigRead(data) \/ Service!Sets(data) => Service!Valid(data)
         /\ Service!IsConfigWrite(data)
              /\ Mac(ConfigOf(Payload(data))) = Mac(serviceCfg) => Service!Valid(data)
         /\ data[2] = SYS_FLASHER /\ data[3] \in 1..3 /\ Len(data) = HeaderSize =>
              Service!Valid(data)
<1>1. Service!Valid(data) <=>
        \/ data[2] = SYS_IOSTACK /\ data[3] = CMD_PING
        \/ Service!IsConfigRead(data)
        \/ Service!IsConfigWrite(data) /\ Mac(ConfigOf(Payload(data))) = Mac(serviceCfg)
        \/ Service!Sets(data)
        \/ data[2] = SYS_FLASHER /\ data[3] \in {1, 2, 3} /\ Len(data) = HeaderSize
  BY Vocabulary
  DEF Service!Valid, Service!Names, Service!Sys, Service!Code, Service!Bare,
      Service!CMD_START_TEMPERATURE, Service!CMD_READ_TEMPERATURE,
      Service!CMD_READ_SERIAL_NO
<1>2. /\ Service!IsConfigRead(data) => data[2] = SYS_IOSTACK /\ data[3] = CMD_READ_REG
      /\ Service!IsConfigWrite(data) => data[2] = SYS_IOSTACK /\ data[3] = CMD_WRITE_REG
      /\ Service!Sets(data) => data[2] = SYS_FLASHER
  BY Vocabulary
  DEF Service!IsConfigRead, Service!IsConfigWrite, Service!Sets, Service!Names,
      Service!Sys, Service!Code
<1>3. SYS_IOSTACK # SYS_FLASHER /\ Subsystems = {SYS_IOSTACK, SYS_FLASHER}
  BY DEF SYS_IOSTACK, SYS_FLASHER, Subsystems
<1>4. 1..3 = {1, 2, 3}
  OBVIOUS
<1>. QED
  BY <1>1, <1>2, <1>3, <1>4

\* Device performs only commands that are in a table of the firmware.
LEMMA ValidCommands ==
  ASSUME NEW data, Service!Valid(data)
  PROVE  \E i \in 1..Len(CmdsOf(data[2])) : CmdsOf(data[2])[i] = data[3]
<1>1. CASE data[2] = SYS_IOSTACK
  <2>1. /\ Len(CmdsOf(SYS_IOSTACK)) = 3 /\ CmdsOf(SYS_IOSTACK)[1] = CMD_READ_REG
        /\ CmdsOf(SYS_IOSTACK)[2] = CMD_WRITE_REG /\ CmdsOf(SYS_IOSTACK)[3] = CMD_PING
    BY DEF CmdsOf, iostack_cmds
  <2>. QED
    BY <1>1, <2>1, ValidRequests
<1>2. CASE data[2] = SYS_FLASHER
  <2>1. Len(CmdsOf(SYS_FLASHER)) = 7 /\ \A i \in 1..7 : CmdsOf(SYS_FLASHER)[i] = i - 1
    BY DEF CmdsOf, flasher_cmds, SYS_FLASHER, SYS_IOSTACK, CMD_LED_BUILTIN,
           CMD_TEST_PULSE, CMD_SET_LED_CURRENT, CMD_SET_PULSE_WIDTH,
           CMD_START_TEMPERATURE, CMD_READ_TEMPERATURE, CMD_READ_SERIAL_NO
  <2>2. data[3] \in 0..6
    BY <1>2, ValidRequests
    DEF Service!Sets, Service!Setters, Service!Code, Service!CMD_LED_BUILTIN,
        Service!CMD_TEST_PULSE, Service!CMD_SET_LED_CURRENT,
        Service!CMD_SET_PULSE_WIDTH
  <2>3. PICK i \in 1..7 : i - 1 = data[3]
    <3>1. \A k \in 0..6 : k + 1 \in 1..7 /\ (k + 1) - 1 = k
      OBVIOUS
    <3>. QED
      BY <2>2, <3>1, Zenon
  <2>4. i \in 1..Len(CmdsOf(data[2])) /\ CmdsOf(data[2])[i] = data[3]
    BY <1>2, <2>1, <2>3, Zenon
  <2>. QED
    BY <2>4
<1>. QED
  BY <1>1, <1>2, ValidRequests DEF Subsystems
-----------------------------------------------------------------------------
(* The request takes effect.                                               *)

\* The request in hand is the first of those the device still has to serve.
LEMMA InboxParts ==
  ASSUME served \in Datagram, rx \in Seq(Datagram)
  PROVE  /\ Head(<<served>> \o rx) = served /\ Tail(<<served>> \o rx) = rx
         /\ <<served>> \o rx # <<>>
<1>1. <<served>> \in Seq(Datagram) /\ Len(<<served>>) = 1 /\ <<served>>[1] = served
  OBVIOUS
<1>. QED
  BY <1>1

\* While a request is undecided it is the first in the inbox of the device; the
\* step that decides it answers, or leaves the answer to the response calls.
LEMMA Decides ==
  ASSUME IInv, IInv', pc \in Undecoded \cup {"program"}, NEW reply,
         UNCHANGED <<rx, tx, served>>,
         request'.response_state = 0,
         \/ /\ pc' = "begin"
            /\ reply = Header(served.data[1], request'.sys, resp'.code) \o resp'.data
         \/ /\ pc' = "return"
            /\ reply = Header(served.data[1], SYS_IOSTACK, ERR_REPORT) \o <<rc'>>
  PROVE  /\ Service!Serving
         /\ Head(serviceInbox) = served
         /\ serviceInbox' = Tail(serviceInbox)
         /\ UNCHANGED <<serviceMode, tx>>
         /\ serviceAnswer' = [to |-> served.from, data |-> reply]
<1>. TypeOK /\ ReplyInv /\ RequestInv /\ RequestInv'
  BY DEF IInv, StateInv
<1>1. /\ serviceMode = "on" /\ serviceMode' = "on"
      /\ serviceInbox = <<served>> \o rx /\ serviceInbox' = rx
  BY DEF serviceMode, serviceInbox, Undecided, Undecoded, Writing, Booting
<1>2. serviceAnswer = <<>>
  BY AnswerSettled DEF AnswerView, Undecoded, Replying
<1>3. /\ Head(<<served>> \o rx) = served /\ Tail(<<served>> \o rx) = rx
      /\ <<served>> \o rx # <<>>
  BY InboxParts DEF TypeOK
<1>4. request'.id = served.data[1]
  BY DEF RequestInv, Booting
<1>5. serviceAnswer' = [to |-> served.from, data |-> reply]
  <2>1. AnswerView' /\ served' = served
    BY AnswerSettledNext
  <2>2. CASE pc' = "begin"
    <3>1. serviceAnswer' = [to |-> served'.from, data |-> ReplyHeader' \o resp'.data]
      BY <2>1, <2>2 DEF AnswerView, Replying
    <3>2. ReplyHeader' = Header(served.data[1], request'.sys, resp'.code)
      BY <1>4 DEF ReplyHeader
    <3>. QED
      BY <2>1, <2>2, <3>1, <3>2
  <2>3. CASE pc' = "return"
    BY <1>4, <2>1, <2>3 DEF AnswerView
  <2>. QED
    BY <2>2, <2>3
<1>. QED
  BY <1>1, <1>2, <1>3, <1>5 DEF Service!Serving, Service!NoAnswer

\* A refusal: an error of subsystem 0, or one of the flasher subsystem.
LEMMA Refuses ==
  ASSUME IInv, IInv', pc \in Undecoded, NEW reply,
         UNCHANGED <<ram, flash, out, rx, tx, served>>,
         request'.response_state = 0,
         \/ /\ pc' = "begin"
            /\ reply = Header(served.data[1], request'.sys, resp'.code) \o resp'.data
         \/ /\ pc' = "return"
            /\ reply = Header(served.data[1], SYS_IOSTACK, ERR_REPORT) \o <<rc'>>,
         \/ /\ ~Service!Valid(served.data)
            /\ \/ reply \in Service!Errors(served.data)
               \/ /\ served.data[2] = SYS_FLASHER
                  /\ reply \in Service!FlasherErrors(served.data)
         \/ /\ served.data[2] = SYS_FLASHER /\ served.data[3] = CMD_READ_SERIAL_NO
            /\ Len(served.data) = HeaderSize
            /\ reply \in Service!FlasherErrors(served.data)
  PROVE  Service!Execute
<1> DEFINE data == served.data
<1>1. Len(data) >= HeaderSize
  BY DEF IInv, RequestInv, Booting, Undecoded
<1>2. UNCHANGED <<serviceCfg, serviceStored, out>>
  BY DEF serviceCfg, serviceStored, Undecoded, Writing
<1>3. \/ Service!Refuse(data, reply)
      \/ /\ Service!Bare(data, Service!CMD_READ_SERIAL_NO)
         /\ reply \in Service!FlasherErrors(data)
         /\ Service!Keep
  BY <1>2, Vocabulary
  DEF Service!Refuse, Service!Keep, Service!Bare, Service!Names, Service!Sys,
      Service!Code, Service!CMD_READ_SERIAL_NO, CMD_READ_SERIAL_NO
<1>. HIDE DEF data
<1>. QED
  BY <1>1, <1>3, Decides, Vocabulary, Zenon
  DEF Service!Execute, Service!AnswerWith, data

\* A request performed, with the words of its reply after the header.
LEMMA Performs ==
  ASSUME IInv, IInv', pc \in Undecoded \cup {"program"},
         UNCHANGED <<rx, tx, served>>,
         request'.response_state = 0, pc' = "begin",
         request'.sys = served.data[2], resp'.code = served.data[3],
         resp'.data \in Service!Payloads(served.data),
         Service!Perform(served.data, resp'.data)
  PROVE  Service!Execute
<1> DEFINE reply == Header(served.data[1], request'.sys, resp'.code) \o resp'.data
<1>1. Len(served.data) >= HeaderSize
  BY DEF IInv, RequestInv, Booting, Undecoded
<1>2. /\ Service!Serving /\ Head(serviceInbox) = served
      /\ serviceInbox' = Tail(serviceInbox) /\ UNCHANGED <<serviceMode, tx>>
      /\ serviceAnswer' = [to |-> served.from, data |-> reply]
  BY Decides
<1>. QED
  BY <1>1, <1>2, Vocabulary, Zenon DEF Service!Execute, Service!AnswerWith

\* An error of subsystem 0 sent, or returned to be sent, before any response.
LEMMA Errs ==
  ASSUME IInv, IInv', pc \in Undecoded, ~Service!Valid(served.data), NEW err \in 1..5,
         UNCHANGED <<ram, flash, out, rx, tx, served>>,
         \/ SendError(err)
         \/ pc' = "return" /\ rc' = err /\ request' = request
  PROVE  Service!Execute
<1> DEFINE reply == Header(served.data[1], SYS_IOSTACK, ERR_REPORT) \o <<err>>
<1>. TypeOK /\ request.response_state = 0
  BY DEF IInv, StateInv, ReplyInv, Undecoded
<1>1. reply \in Service!Errors(served.data)
  BY ErrorReplies
<1>2. CASE SendError(err)
  <2>1. /\ pc' = "begin" /\ request'.sys = SYS_IOSTACK /\ request'.response_state = 0
        /\ resp'.code = ERR_REPORT /\ resp'.data = <<err>>
    BY <1>2, RequestKeeps DEF SendError, Respond, TypeOK
  <2>2. reply = Header(served.data[1], request'.sys, resp'.code) \o resp'.data
    BY <2>1
  <2>. QED
    BY <1>1, <2>1, <2>2, Refuses
<1>3. CASE pc' = "return" /\ rc' = err /\ request' = request
  <2>1. reply = Header(served.data[1], SYS_IOSTACK, ERR_REPORT) \o <<rc'>>
    BY <1>3
  <2>. QED
    BY <1>1, <1>3, <2>1, Refuses
<1>. QED
  BY <1>2, <1>3

\* A request of the walk is not shown to have moved while it is undecided.
LEMMA StillUndecided ==
  ASSUME IInv, IInv', pc \in Undecoded, pc' \in Undecoded,
         UNCHANGED <<ram, flash, out, rx, tx, served>>
  PROVE  Unseen
<1>1. serviceAnswer = <<>> /\ serviceAnswer' = <<>>
  BY AnswerSettled, AnswerSettledNext DEF AnswerView, Undecoded, Replying
<1>2. UNCHANGED <<serviceMode, serviceCfg, serviceStored, serviceInbox>>
  BY DEF serviceMode, serviceCfg, serviceStored, serviceInbox, Undecided, Undecoded,
         Writing, Booting
<1>. QED
  BY <1>1, <1>2 DEF Unseen

\* Dispatch: an unknown subsystem and an unknown command are refused, and an
\* unknown command may make the device fail.
LEMMA DispatchSteps ==
  ASSUME IInv, IInv', FindSubsystem \/ FindCommand
  PROVE  Service!Execute \/ Service!Fail \/ Unseen
<1>. TypeOK /\ RequestInv /\ WalkInv
  BY DEF IInv, StateInv
<1>1. /\ pc \in Undecoded /\ UNCHANGED <<ram, flash, out, rx, tx, served>>
  BY DEF FindSubsystem, FindCommand, boardVars, replyVars, histVars, Undecoded
<1>2. /\ served \in Requests /\ Len(served.data) >= HeaderSize
      /\ request.sys = served.data[2] /\ request.code = served.data[3]
  BY <1>1 DEF RequestInv, Undecoded, Booting
<1>3. CASE pc' \in Undecoded
  BY <1>1, <1>3, StillUndecided
<1>4. CASE FindSubsystem /\ pc' \notin Undecoded
  <2>1. request.sys \notin Subsystems /\ SendError(UNKNOWN_SUBSYSTEM)
    BY <1>4 DEF FindSubsystem, Undecoded
  <2>2. UNKNOWN_SUBSYSTEM \in 1..5
    BY DEF UNKNOWN_SUBSYSTEM
  <2>. QED
    BY <1>1, <1>2, <2>1, <2>2, ValidRequests, Errs
<1>5. CASE FindCommand /\ pc' \notin Undecoded /\ pc' # "fault"
  <2>1. cursor = NULL /\ SendError(UNKNOWN_COMMAND) /\ pc = "command"
    BY <1>5 DEF FindCommand, Undecoded
  <2>2. request.sys \in Subsystems /\ OtherCommands(Len(CmdsOf(request.sys)))
    BY <2>1 DEF WalkInv
  <2>3. ~Service!Valid(served.data)
    BY <1>2, <2>2, ValidCommands DEF OtherCommands
  <2>4. UNKNOWN_COMMAND \in 1..5
    BY DEF UNKNOWN_COMMAND
  <2>. QED
    BY <1>1, <2>1, <2>3, <2>4, Errs
<1>6. CASE FindCommand /\ pc' = "fault"
  <2>1. pc = "command" /\ request' = request
    BY <1>6 DEF FindCommand, SendError, Respond
  <2>2. request.sys \in Subsystems /\ OtherCommands(Len(CmdsOf(request.sys)))
    BY <1>6, <2>1 DEF IInv, WalkInv, OtherCommands
  <2>3. ~Service!KnownCommand(served.data)
    BY <1>2, <2>2, Vocabulary
    DEF OtherCommands, Service!KnownCommand, Service!Sys, Service!Code
  <2>4. /\ serviceInbox = <<served>> \o rx /\ serviceInbox' = serviceInbox
        /\ serviceMode = "on" /\ serviceMode' = "failed"
        /\ UNCHANGED <<serviceCfg, serviceStored>>
    BY <1>1, <1>6, <2>1
    DEF serviceMode, serviceCfg, serviceStored, serviceInbox, Undecided, Undecoded,
        Writing, Booting
  <2>5. serviceAnswer = <<>> /\ serviceAnswer' = <<>>
    BY <1>6, <2>1, AnswerSettled, AnswerSettledNext DEF AnswerView, Replying
  <2>6. serviceInbox # <<>> /\ Head(serviceInbox) = served
    BY <2>4, InboxParts DEF TypeOK
  <2>. QED
    BY <1>1, <1>2, <2>3, <2>4, <2>5, <2>6, Vocabulary
    DEF Service!Fail, Service!Serving, Service!NoAnswer
<1>. QED
  BY <1>3, <1>4, <1>5, <1>6

\* What a flasher command may answer and do: a payload of the wrong size is
\* refused, and so is a value out of range; everything else is performed.
LEMMA FlasherRequest ==
  ASSUME IInv, NEW code \in 0..6, InHandler(SYS_FLASHER, code)
  PROVE  /\ pc \in Undecoded /\ served \in Requests /\ Len(served.data) >= HeaderSize
         /\ served.data[2] = SYS_FLASHER /\ served.data[3] = code
         /\ request.sys = SYS_FLASHER /\ request.response_state = 0
         /\ Len(served.data) = HeaderSize + Len(request.payload)
         /\ Len(request.payload) <= 1 => request.payload = Payload(served.data)
         /\ request.payload \in Seq(Nat)
<1>1. /\ pc \in Undecoded /\ served \in Requests /\ Len(served.data) >= HeaderSize
      /\ served.data[2] = SYS_FLASHER /\ served.data[3] = code
      /\ request.sys = SYS_FLASHER /\ request.response_state = 0
      /\ request.payload \in PayloadWords(served.data)
  BY DEF InHandler, IInv, StateInv, RequestInv, ReplyInv, Undecoded, Booting
<1>2. /\ Len(served.data) = HeaderSize + Len(request.payload)
      /\ Len(request.payload) <= 2 + ConfigSize => request.payload = Payload(served.data)
      /\ request.payload \in Seq(Nat)
  BY <1>1, RequestPayload
<1>. QED
  BY <1>1, <1>2, LenProperties DEF ConfigSize

\* The setters of Device, by their codes.
LEMMA SetterCodes ==
  /\ Service!Setters = {0, 4, 5, 6}
  /\ Service!Largest(0) = 1 /\ Service!Largest(4) = 15
  /\ Service!Largest(5) = 255 /\ Service!Largest(6) = 2
  /\ \A v : /\ Service!Applied(0, v) = [out EXCEPT !.led = v]
            /\ Service!Applied(4, v) = [out EXCEPT !.current = v]
            /\ Service!Applied(5, v) = [out EXCEPT !.width = v]
            /\ Service!Applied(6, v) = [out EXCEPT !.test = IF v = 1 THEN 1 ELSE 0]
  BY DEF Service!Setters, Service!Largest, Service!Applied, Service!CMD_LED_BUILTIN,
         Service!CMD_TEST_PULSE, Service!CMD_SET_LED_CURRENT,
         Service!CMD_SET_PULSE_WIDTH

\* A request of the wrong size is refused by the abstract device too.
LEMMA WrongSize ==
  ASSUME NEW data, data[2] = SYS_FLASHER, data[3] \in 0..6,
         Len(data) # HeaderSize + FlasherPayloadSize(data[3])
  PROVE  ~Service!Valid(data)
<1>1. ~Service!Sets(data)
  BY SetterCodes, Vocabulary
  DEF Service!Sets, Service!Code, FlasherPayloadSize, CMD_START_TEMPERATURE,
      CMD_READ_TEMPERATURE, CMD_READ_SERIAL_NO, HeaderSize
<1>2. data[3] \in 1..3 => Len(data) # HeaderSize
  BY DEF FlasherPayloadSize, CMD_START_TEMPERATURE,
         CMD_READ_TEMPERATURE, CMD_READ_SERIAL_NO, HeaderSize
<1>. QED
  BY <1>1, <1>2, ValidRequests

\* The setters: in range the output is set and acknowledged, else it is an error.
LEMMA Setting ==
  ASSUME IInv, IInv', NEW code \in Service!Setters, InHandler(SYS_FLASHER, code),
         Len(request.payload) = 1,
         UNCHANGED <<ram, chip, flash, request, rc, rx, replyVars, histVars>>,
         \/ Arg <= Service!Largest(code) /\ Ack(Service!Applied(code, Arg))
         \/ ~(Arg <= Service!Largest(code)) /\ FlasherError(FLASHER_EBVALUE)
  PROVE  Service!Execute
<1> DEFINE data == served.data
<1>1. code \in 0..6
  BY SetterCodes
<1>2. /\ pc \in Undecoded /\ UNCHANGED <<rx, tx, served, request>>
      /\ data[2] = SYS_FLASHER /\ data[3] = code
      /\ Len(data) = HeaderSize + 1 /\ Payload(data)[1] = Arg
      /\ request.sys = SYS_FLASHER /\ request.response_state = 0
      /\ request.code = code
  BY <1>1, FlasherRequest DEF Arg, replyVars, histVars, InHandler
<1>3. CASE Arg <= Service!Largest(code) /\ Ack(Service!Applied(code, Arg))
  <2>1. Service!Sets(data)
    BY <1>2, <1>3, Vocabulary DEF Service!Sets, Service!Sys, Service!Code
  <2>2. /\ pc' = "begin" /\ resp'.code = code /\ resp'.data = <<>>
        /\ out' = Service!Applied(code, Arg)
    BY <1>2, <1>3 DEF Ack, Respond
  <2>3. UNCHANGED <<serviceCfg, serviceStored>>
    BY <1>2, <2>2 DEF serviceCfg, serviceStored, Undecoded, Writing
  <2>4. Service!Perform(data, resp'.data)
    BY <1>2, <2>1, <2>2, <2>3, ValidRequests, Vocabulary
    DEF Service!Perform, Service!Code
  <2>5. resp'.data \in Service!Payloads(data)
    BY <2>2 DEF Service!Payloads
  <2>. QED
    BY <1>2, <2>2, <2>4, <2>5, Performs
<1>4. CASE ~(Arg <= Service!Largest(code)) /\ FlasherError(FLASHER_EBVALUE)
  <2>1. ~Service!Valid(data)
    <3>1. ~Service!Sets(data)
      BY <1>2, <1>4, Vocabulary DEF Service!Sets, Service!Code
    <3>2. code \notin 1..3
      BY SetterCodes
    <3>. QED
      BY <1>2, <3>1, <3>2, ValidRequests
  <2>2. /\ pc' = "begin" /\ resp'.code = CMD_REPORT_FLASHERCTL_ERR
        /\ resp'.data = <<1>> /\ UNCHANGED out
    BY <1>4 DEF FlasherError, Respond, FLASHER_EBVALUE
  <2>3. Header(data[1], SYS_FLASHER, CMD_REPORT_FLASHERCTL_ERR) \o <<1>>
          \in Service!FlasherErrors(data)
    BY ErrorReplies
  <2>. QED
    BY <1>2, <2>1, <2>2, <2>3, Refuses
<1>. QED
  BY <1>3, <1>4

\* The other flasher commands answer with one reading, or with nothing.
LEMMA Reading ==
  ASSUME IInv, IInv', NEW code \in 1..3, InHandler(SYS_FLASHER, code),
         Len(request.payload) = 0,
         UNCHANGED <<ram, chip, flash, request, rc, rx, replyVars, histVars>>,
         UNCHANGED out, pc' = "begin",
         \/ /\ resp'.code = code
            /\ \/ code = CMD_START_TEMPERATURE /\ resp'.data = <<>>
               \/ code = CMD_READ_TEMPERATURE /\ \E t \in Temperatures : resp'.data = <<t>>
               \/ code = CMD_READ_SERIAL_NO /\ \E s \in Serials : resp'.data = <<s>>
         \/ /\ code = CMD_READ_SERIAL_NO
            /\ resp'.code = CMD_REPORT_FLASHERCTL_ERR
            /\ resp'.data = <<FLASHER_ESERIALNO>>
  PROVE  Service!Execute
<1> DEFINE data == served.data
<1>1. code \in 0..6
  OBVIOUS
<1>2. /\ pc \in Undecoded /\ UNCHANGED <<rx, tx, served, request>>
      /\ data[2] = SYS_FLASHER /\ data[3] = code /\ Len(data) = HeaderSize
      /\ request.sys = SYS_FLASHER /\ request.response_state = 0
  BY <1>1, FlasherRequest DEF replyVars, histVars, HeaderSize
<1>3. CASE resp'.code = code
  <2>1. Service!Valid(data)
    BY <1>2, ValidRequests
  <2>2. Service!Keep
    BY <1>2 DEF serviceCfg, serviceStored, Undecoded, Writing, Service!Keep
  <2>3. \/ code = 1 /\ resp'.data = <<>>
        \/ code = 2 /\ \E t \in Temperatures : resp'.data = <<t>>
        \/ code = 3 /\ \E s \in Serials : resp'.data = <<s>>
    BY <1>2, <1>3
    DEF CMD_START_TEMPERATURE, CMD_READ_TEMPERATURE, CMD_READ_SERIAL_NO,
        CMD_REPORT_FLASHERCTL_ERR
  <2>4. Service!Perform(data, resp'.data)
    BY <1>2, <2>1, <2>2, <2>3, Vocabulary
    DEF Service!Perform, Service!Bare, Service!Names, Service!Sys, Service!Code,
        Service!CMD_START_TEMPERATURE, Service!CMD_READ_TEMPERATURE,
        Service!CMD_READ_SERIAL_NO
  <2>5. resp'.data \in Service!Payloads(data)
    BY <2>3 DEF Service!Payloads
  <2>. QED
    BY <1>2, <1>3, <2>4, <2>5, Performs
<1>4. CASE resp'.code # code
  <2>1. /\ code = CMD_READ_SERIAL_NO /\ resp'.code = CMD_REPORT_FLASHERCTL_ERR
        /\ resp'.data = <<2>>
    BY <1>4 DEF FLASHER_ESERIALNO
  <2>2. Header(data[1], SYS_FLASHER, CMD_REPORT_FLASHERCTL_ERR) \o <<2>>
          \in Service!FlasherErrors(data)
    BY ErrorReplies
  <2>. QED
    BY <1>2, <2>1, <2>2, Refuses
<1>. QED
  BY <1>3, <1>4

\* The handlers of the flasher subsystem.
LEMMA FlasherSteps ==
  ASSUME IInv, IInv',
         \/ LedBuiltin \/ TestPulse \/ SetLedCurrent \/ SetPulseWidth
         \/ StartTemperature \/ ReadTemperature \/ ReadSerialNo
  PROVE  Service!Execute
<1> DEFINE Kept == UNCHANGED <<ram, chip, flash, request, rc, rx, replyVars, histVars>>
<1>1. ASSUME NEW code \in 0..6, FlasherHandler(code, TRUE),
             Len(request.payload) # FlasherPayloadSize(code)
      PROVE  Service!Execute
  <2>1. /\ InHandler(SYS_FLASHER, code) /\ pc' = "return" /\ rc' = INVALID_SIZE
        /\ request' = request /\ UNCHANGED <<ram, flash, out, rx, tx, served>>
    BY <1>1 DEF FlasherHandler, Fail, boardVars, replyVars, histVars
  <2>2. /\ pc \in Undecoded /\ served.data[2] = SYS_FLASHER /\ served.data[3] = code
        /\ Len(served.data) = HeaderSize + Len(request.payload)
        /\ request.payload \in Seq(Nat)
    BY <2>1, FlasherRequest
  <2>3. Len(served.data) # HeaderSize + FlasherPayloadSize(code)
    BY <1>1, <2>2 DEF HeaderSize, FlasherPayloadSize
  <2>4. ~Service!Valid(served.data)
    BY <2>2, <2>3, WrongSize
  <2>5. INVALID_SIZE \in 1..5
    BY DEF INVALID_SIZE
  <2>. QED
    BY <2>1, <2>2, <2>4, <2>5, Errs
<1>2. /\ CMD_LED_BUILTIN = 0 /\ CMD_TEST_PULSE = 6 /\ CMD_SET_LED_CURRENT = 4
      /\ CMD_SET_PULSE_WIDTH = 5 /\ CMD_START_TEMPERATURE = 1
      /\ CMD_READ_TEMPERATURE = 2 /\ CMD_READ_SERIAL_NO = 3
  BY DEF CMD_LED_BUILTIN, CMD_TEST_PULSE, CMD_SET_LED_CURRENT, CMD_SET_PULSE_WIDTH,
         CMD_START_TEMPERATURE, CMD_READ_TEMPERATURE, CMD_READ_SERIAL_NO
<1>3. /\ 0 \in 0..6 /\ 4 \in 0..6 /\ 5 \in 0..6 /\ 6 \in 0..6
      /\ \A code \in {0, 4, 5, 6} : FlasherPayloadSize(code) = 1
      /\ \A code \in 1..3 : FlasherPayloadSize(code) = 0
  BY <1>2 DEF FlasherPayloadSize
<1>4. ASSUME NEW code \in {0, 4, 5, 6}, InHandler(SYS_FLASHER, code),
             Len(request.payload) = 1
      PROVE  Arg \in Nat /\ Arg <= 255
  <2>1. /\ served \in Requests /\ request.payload = Payload(served.data)
        /\ Len(served.data) = HeaderSize + 1 /\ Len(served.data) >= HeaderSize
    BY <1>4, FlasherRequest
  <2>2. Arg \in Nat /\ Arg = served.data[HeaderSize + 1]
    BY <1>4, <2>1, RequestWords DEF Arg
  <2>. QED
    BY <2>1, <2>2, ByteAssumption
<1>5. CASE LedBuiltin
  <2>1. CASE Len(request.payload) # 1
    <3>1. Len(request.payload) # FlasherPayloadSize(0)
      BY <1>3, <2>1
    <3>2. FlasherHandler(0, TRUE)
      BY <1>2, <1>5, <3>1, Zenon DEF LedBuiltin, FlasherHandler
    <3>. QED
      BY <1>1, <1>3, <3>1, <3>2, Zenon
  <2>2. CASE Len(request.payload) = 1
    <3>1. /\ InHandler(SYS_FLASHER, 0) /\ Kept
          /\ IF Arg \in {0, 1} THEN Ack([out EXCEPT !.led = Arg])
                               ELSE FlasherError(FLASHER_EBVALUE)
      BY <1>2, <1>3, <1>5, <2>2, Zenon DEF LedBuiltin, FlasherHandler
    <3>2. Arg \in {0, 1} <=> Arg <= 1
      BY <1>4, <2>2, <3>1
    <3>. QED
      BY <2>2, <3>1, <3>2, SetterCodes, Setting
  <2>. QED
    BY <2>1, <2>2
<1>6. CASE TestPulse
  <2>1. CASE Len(request.payload) # 1
    <3>1. Len(request.payload) # FlasherPayloadSize(6)
      BY <1>3, <2>1
    <3>2. FlasherHandler(6, TRUE)
      BY <1>2, <1>6, <3>1, Zenon DEF TestPulse, FlasherHandler
    <3>. QED
      BY <1>1, <1>3, <3>1, <3>2, Zenon
  <2>2. CASE Len(request.payload) = 1
    <3>1. /\ InHandler(SYS_FLASHER, 6) /\ Kept
          /\ IF Arg \in {0, 1, 2} THEN Ack([out EXCEPT !.test = IF Arg = 1 THEN 1 ELSE 0])
                                  ELSE FlasherError(FLASHER_EBVALUE)
      BY <1>2, <1>3, <1>6, <2>2, Zenon DEF TestPulse, FlasherHandler
    <3>2. Arg \in {0, 1, 2} <=> Arg <= 2
      BY <1>4, <2>2, <3>1
    <3>. QED
      BY <2>2, <3>1, <3>2, SetterCodes, Setting
  <2>. QED
    BY <2>1, <2>2
<1>7. CASE SetLedCurrent
  <2>1. CASE Len(request.payload) # 1
    <3>1. Len(request.payload) # FlasherPayloadSize(4)
      BY <1>3, <2>1
    <3>2. FlasherHandler(4, TRUE)
      BY <1>2, <1>7, <3>1, Zenon DEF SetLedCurrent, FlasherHandler
    <3>. QED
      BY <1>1, <1>3, <3>1, <3>2, Zenon
  <2>2. CASE Len(request.payload) = 1
    <3>1. /\ InHandler(SYS_FLASHER, 4) /\ Kept
          /\ IF Arg > 15 THEN FlasherError(FLASHER_EBVALUE)
                         ELSE Ack([out EXCEPT !.current = Arg])
      BY <1>2, <1>3, <1>7, <2>2, Zenon DEF SetLedCurrent, FlasherHandler
    <3>2. Arg > 15 <=> ~(Arg <= 15)
      BY <1>4, <2>2, <3>1
    <3>. QED
      BY <2>2, <3>1, <3>2, SetterCodes, Setting
  <2>. QED
    BY <2>1, <2>2
<1>8. CASE SetPulseWidth
  <2>1. CASE Len(request.payload) # 1
    <3>1. Len(request.payload) # FlasherPayloadSize(5)
      BY <1>3, <2>1
    <3>2. FlasherHandler(5, TRUE)
      BY <1>2, <1>8, <3>1, Zenon DEF SetPulseWidth, FlasherHandler
    <3>. QED
      BY <1>1, <1>3, <3>1, <3>2, Zenon
  <2>2. CASE Len(request.payload) = 1
    <3>1. /\ InHandler(SYS_FLASHER, 5) /\ Kept
          /\ Ack([out EXCEPT !.width = Arg])
      BY <1>2, <1>3, <1>8, <2>2, Zenon DEF SetPulseWidth, FlasherHandler
    <3>2. Arg <= 255
      BY <1>4, <2>2, <3>1
    <3>. QED
      BY <2>2, <3>1, <3>2, SetterCodes, Setting
  <2>. QED
    BY <2>1, <2>2
<1>9. CASE StartTemperature
  <2>1. CASE Len(request.payload) # 0
    BY <1>1, <1>2, <1>3, <1>9, <2>1 DEF StartTemperature, FlasherHandler
  <2>2. CASE Len(request.payload) = 0
    <3>1. InHandler(SYS_FLASHER, 1) /\ Kept /\ Ack(out)
      BY <1>2, <1>3, <1>9, <2>2 DEF StartTemperature, FlasherHandler
    <3>2. /\ pc' = "begin" /\ UNCHANGED out /\ resp'.code = 1 /\ resp'.data = <<>>
      BY <3>1 DEF Ack, Respond, InHandler
    <3>. QED
      BY <1>2, <2>2, <3>1, <3>2, Reading
  <2>. QED
    BY <2>1, <2>2
<1>10. CASE ReadTemperature
  <2>1. CASE Len(request.payload) # 0
    BY <1>1, <1>2, <1>3, <1>10, <2>1 DEF ReadTemperature, FlasherHandler
  <2>2. CASE Len(request.payload) = 0
    <3>1. InHandler(SYS_FLASHER, 2) /\ Kept /\ \E t \in Temperatures : Answer(<<t>>)
      BY <1>2, <1>3, <1>10, <2>2 DEF ReadTemperature, FlasherHandler
    <3>2. /\ pc' = "begin" /\ UNCHANGED out /\ resp'.code = 2
          /\ \E t \in Temperatures : resp'.data = <<t>>
      BY <3>1 DEF Answer, Respond, InHandler
    <3>. QED
      BY <1>2, <2>2, <3>1, <3>2, Reading
  <2>. QED
    BY <2>1, <2>2
<1>11. CASE ReadSerialNo
  <2>1. CASE Len(request.payload) # 0
    BY <1>1, <1>2, <1>3, <1>11, <2>1 DEF ReadSerialNo, FlasherHandler
  <2>2. CASE Len(request.payload) = 0
    <3>1. /\ InHandler(SYS_FLASHER, 3) /\ Kept
          /\ (\E s \in Serials : Answer(<<s>>)) \/ FlasherError(FLASHER_ESERIALNO)
      BY <1>2, <1>3, <1>11, <2>2 DEF ReadSerialNo, FlasherHandler
    <3>2. /\ pc' = "begin" /\ UNCHANGED out
          /\ \/ resp'.code = 3 /\ \E s \in Serials : resp'.data = <<s>>
             \/ /\ resp'.code = CMD_REPORT_FLASHERCTL_ERR
                /\ resp'.data = <<FLASHER_ESERIALNO>>
      BY <3>1 DEF Answer, FlasherError, Respond, InHandler
    <3>. QED
      BY <1>2, <2>2, <3>1, <3>2, Reading
  <2>. QED
    BY <2>1, <2>2
<1>. QED
  BY <1>5, <1>6, <1>7, <1>8, <1>9, <1>10, <1>11

\* A request of subsystem 0 in its handler.
LEMMA IostackRequest ==
  ASSUME IInv, NEW code, InHandler(SYS_IOSTACK, code)
  PROVE  /\ pc \in Undecoded /\ served \in Requests /\ Len(served.data) >= HeaderSize
         /\ served.data[2] = SYS_IOSTACK /\ served.data[3] = code
         /\ request.sys = SYS_IOSTACK /\ request.response_state = 0
         /\ Len(served.data) = HeaderSize + Len(request.payload)
         /\ request.payload \in PayloadWords(served.data)
         /\ Len(request.payload) = Len(Payload(served.data))
         /\ Len(request.payload) <= 2 + ConfigSize => request.payload = Payload(served.data)
         /\ request.payload \in Seq(Nat)
         /\ chip = ram /\ serviceCfg = ram
         /\ flash = [valid |-> TRUE, cfg |-> ram] /\ ram = before.ram
<1>1. /\ pc \in Undecoded /\ served \in Requests /\ Len(served.data) >= HeaderSize
      /\ served.data[2] = SYS_IOSTACK /\ served.data[3] = code
      /\ request.sys = SYS_IOSTACK /\ request.response_state = 0
      /\ request.payload \in PayloadWords(served.data)
  BY DEF InHandler, IInv, StateInv, RequestInv, ReplyInv, Undecoded, Booting
<1>2. chip = ram /\ flash = [valid |-> TRUE, cfg |-> ram]
  BY DEF InHandler, IInv, StateInv, ConfigInv, Agree
<1>3. serviceCfg = ram /\ ram = before.ram
  BY <1>1 DEF serviceCfg, Undecoded, Writing, IInv, EffectInv
<1>. QED
  BY <1>1, <1>2, <1>3, RequestPayload

\* A ping is executed when its handler has the echo ready.
LEMMA PingSteps ==
  ASSUME IInv, IInv', Ping
  PROVE  Service!Execute
<1> DEFINE data == served.data
<1>1. InHandler(SYS_IOSTACK, CMD_PING)
  BY DEF Ping
<1>2. /\ pc' = "begin" /\ resp'.code = CMD_PING /\ resp'.data = request.payload
      /\ UNCHANGED <<ram, flash, out, request, rx, tx, served>>
  BY DEF Ping, InHandler, Respond, boardVars, replyVars, histVars
<1>3. /\ pc \in Undecoded /\ data[2] = SYS_IOSTACK /\ data[3] = CMD_PING
      /\ request.sys = SYS_IOSTACK /\ request.response_state = 0
      /\ request.payload \in PayloadWords(data)
  BY <1>1, IostackRequest
<1>4. Service!Keep
  BY <1>2, <1>3 DEF serviceCfg, serviceStored, Undecoded, Writing, Service!Keep
<1>5. Service!Perform(data, resp'.data)
  BY <1>2, <1>3, <1>4, ValidRequests, Vocabulary
  DEF Service!Perform, Service!Names, Service!Sys, Service!Code
<1>6. resp'.data \in Service!Payloads(data)
  BY <1>2, <1>3, Vocabulary DEF Service!Payloads
<1>. QED
  BY <1>2, <1>3, <1>5, <1>6, Performs

\* A register read is performed when it names the one register there is.
LEMMA RegisterReadSteps ==
  ASSUME IInv, IInv', RegisterRead
  PROVE  Service!Execute
<1> DEFINE data == served.data
           p == request.payload
<1>1. InHandler(SYS_IOSTACK, CMD_READ_REG)
  BY DEF RegisterRead
<1>2. /\ pc \in Undecoded /\ data[2] = SYS_IOSTACK /\ data[3] = CMD_READ_REG
      /\ request.sys = SYS_IOSTACK /\ request.response_state = 0
      /\ Len(p) = Len(Payload(data)) /\ p \in Seq(Nat)
      /\ Len(p) <= 2 + ConfigSize => p = Payload(data)
      /\ chip = ram /\ serviceCfg = ram /\ flash = [valid |-> TRUE, cfg |-> ram]
  BY <1>1, IostackRequest
<1>3. UNCHANGED <<rx, tx, served>>
  BY DEF RegisterRead, replyVars, histVars
<1>4. Service!IsConfigRead(data) <=> p = <<0, 0>>
  <2>1. Payload(data) = <<0, 0>> <=> p = <<0, 0>>
    <3>. DEFINE q == Payload(data)
    <3>1. (q = <<0, 0>> => Len(q) = 2) /\ (p = <<0, 0>> => Len(p) = 2)
      OBVIOUS
    <3>2. 2 <= 2 + ConfigSize
      BY DEF ConfigSize
    <3>3. Len(p) = Len(q) /\ (Len(p) <= 2 + ConfigSize => p = q)
      BY <1>2
    <3>. HIDE DEF q, p
    <3>. QED
      BY <3>1, <3>2, <3>3 DEF q, p
  <2>. QED
    BY <1>2, <2>1, Vocabulary
    DEF Service!IsConfigRead, Service!Names, Service!Sys, Service!Code, REG_ETH_CFG
<1>5. p = <<0, 0>> <=> Len(p) = 2 /\ Register = 0
  <2>1. p = <<0, 0>> => Len(p) = 2 /\ p[1] = 0 /\ p[2] = 0
    OBVIOUS
  <2>2. ASSUME Len(p) = 2, Register = 0 PROVE p = <<0, 0>>
    <3>1. p[1] \in Nat /\ p[2] \in Nat /\ p = <<p[1], p[2]>>
      BY <1>2, <2>2
    <3>2. p[1] = 0 /\ p[2] = 0
      BY <2>2, <3>1 DEF Register
    <3>. QED
      BY <3>1, <3>2
  <2>. QED
    BY <2>1, <2>2 DEF Register
<1>6. ASSUME NEW err \in {INVALID_SIZE, INVALID_REGISTER}, Fail(err), p # <<0, 0>>
      PROVE  Service!Execute
  <2>1. /\ pc' = "return" /\ rc' = err /\ request' = request
        /\ UNCHANGED <<ram, flash, out>> /\ err \in 1..5
    BY <1>6 DEF Fail, boardVars, INVALID_SIZE, INVALID_REGISTER
  <2>2. ~Service!Valid(data)
    BY <1>2, <1>4, <1>6, ValidRequests DEF CMD_READ_REG, CMD_WRITE_REG, CMD_PING
  <2>. QED
    BY <1>2, <1>3, <2>1, <2>2, Errs
<1>7. CASE Len(p) # 2
  BY <1>5, <1>6, <1>7 DEF RegisterRead
<1>8. CASE Len(p) = 2 /\ Register # REG_ETH_CFG
  BY <1>5, <1>6, <1>8 DEF RegisterRead, REG_ETH_CFG
<1>9. CASE Len(p) = 2 /\ Register = REG_ETH_CFG
  <2>1. /\ pc' = "begin" /\ resp'.code = CMD_READ_REG /\ resp'.data = chip
        /\ ram' = chip /\ UNCHANGED <<flash, out, request>>
    BY <1>9 DEF RegisterRead, InHandler, Respond
  <2>2. Service!Keep
    BY <1>2, <2>1 DEF serviceCfg, serviceStored, Undecoded, Writing, Service!Keep
  <2>3. Service!IsConfigRead(data)
    BY <1>4, <1>5, <1>9 DEF REG_ETH_CFG
  <2>4. Service!Perform(data, resp'.data)
    BY <1>2, <2>1, <2>2, <2>3, ValidRequests DEF Service!Perform
  <2>5. resp'.data \in Service!Payloads(data)
    BY <1>2, <2>1 DEF Service!Payloads
  <2>. QED
    BY <1>2, <1>3, <2>1, <2>4, <2>5, Performs
<1>. QED
  BY <1>7, <1>8, <1>9

\* Which register writes are configuration writes.
LEMMA ConfigWrites ==
  ASSUME NEW d \in Requests, Len(d.data) >= HeaderSize,
         d.data[2] = SYS_IOSTACK, d.data[3] = CMD_WRITE_REG
  PROVE  LET p == Payload(d.data)
         IN  Service!IsConfigWrite(d.data) <=>
               Len(p) = 2 + ConfigSize /\ p[1] * 256 + p[2] = REG_ETH_CFG
<1> DEFINE p == Payload(d.data)
<1>1. p \in Seq(Nat) /\ Len(d.data) = HeaderSize + Len(p)
  BY RequestWords
<1>2. Service!IsConfigWrite(d.data) <=>
        Len(d.data) = HeaderSize + 2 + ConfigSize /\ p[1] = 0 /\ p[2] = 0
  BY Vocabulary
  DEF Service!IsConfigWrite, Service!Names, Service!Sys, Service!Code, REG_ETH_CFG
<1>3. Len(d.data) = HeaderSize + 2 + ConfigSize <=> Len(p) = 2 + ConfigSize
  <2>1. Len(p) \in Nat
    BY <1>1
  <2>2. \A n \in Nat : HeaderSize + n = HeaderSize + 2 + ConfigSize <=> n = 2 + ConfigSize
    BY DEF HeaderSize, ConfigSize
  <2>. QED
    BY <1>1, <2>1, <2>2, Zenon
<1>4. Len(p) = 2 + ConfigSize => (p[1] = 0 /\ p[2] = 0 <=> p[1] * 256 + p[2] = 0)
  <2>1. Len(p) = 2 + ConfigSize => p[1] \in Nat /\ p[2] \in Nat
    BY <1>1 DEF ConfigSize
  <2>2. \A a, b \in Nat : a = 0 /\ b = 0 <=> a * 256 + b = 0
    OBVIOUS
  <2>. HIDE DEF p
  <2>. QED
    BY <2>1, <2>2
<1>. QED
  BY <1>2, <1>3, <1>4 DEF REG_ETH_CFG

\* A register write is refused, or becomes a configuration write in progress,
\* which the device does not show yet.
LEMMA RegisterWriteSteps ==
  ASSUME IInv, IInv', RegisterWrite
  PROVE  Service!Execute \/ Unseen
<1> DEFINE data == served.data
           p == request.payload
<1>1. InHandler(SYS_IOSTACK, CMD_WRITE_REG)
  BY DEF RegisterWrite
<1>2. /\ pc \in Undecoded /\ data[2] = SYS_IOSTACK /\ data[3] = CMD_WRITE_REG
      /\ served \in Requests /\ Len(data) >= HeaderSize
      /\ Len(p) = Len(Payload(data)) /\ p \in Seq(Nat) /\ serviceCfg = ram
      /\ Len(p) = 2 + ConfigSize => p = Payload(data)
      /\ flash = [valid |-> TRUE, cfg |-> ram] /\ ram = before.ram
  BY <1>1, IostackRequest
<1>3. UNCHANGED <<rx, tx, served, before, out, flash>>
  BY DEF RegisterWrite, Fail, SendError, boardVars, replyVars, histVars
<1>4. Service!Valid(data) =>
        Len(p) = 2 + ConfigSize /\ Register = REG_ETH_CFG /\ IsThisDevice
  BY <1>2, ValidRequests, ConfigWrites
  DEF Register, IsThisDevice, NewConfig, CMD_READ_REG, CMD_WRITE_REG, CMD_PING
<1>5. ASSUME NEW err \in {INVALID_SIZE, INVALID_REGISTER}, Fail(err),
             ~Service!Valid(data)
      PROVE  Service!Execute
  <2>1. /\ pc' = "return" /\ rc' = err /\ request' = request
        /\ UNCHANGED <<ram, flash, out>> /\ err \in 1..5
    BY <1>5 DEF Fail, boardVars, INVALID_SIZE, INVALID_REGISTER
  <2>. QED
    BY <1>2, <1>3, <1>5, <2>1, Errs
<1>6. CASE pc' = "return"
  <2>1. \/ Fail(INVALID_SIZE) /\ Len(p) # 2 + ConfigSize
        \/ Fail(INVALID_REGISTER) /\ Register # REG_ETH_CFG
    BY <1>6, SMTT(40) DEF RegisterWrite, SendError, Respond, ConfigSize
  <2>. QED
    BY <1>4, <1>5, <2>1
<1>7. CASE pc' = "begin"
  <2>1. SendError(INVALID_MAC) /\ ~IsThisDevice /\ UNCHANGED ram
    BY <1>7 DEF RegisterWrite, Fail, boardVars
  <2>2. INVALID_MAC \in 1..5
    BY DEF INVALID_MAC
  <2>. QED
    BY <1>2, <1>3, <1>4, <2>1, <2>2, Errs
<1>8. CASE pc' = "erase"
  <2>1. serviceAnswer = <<>> /\ serviceAnswer' = <<>>
    BY <1>2, <1>8, AnswerSettled, AnswerSettledNext DEF AnswerView, Undecoded, Replying
  <2>2. serviceCfg' = serviceCfg /\ serviceStored' = serviceStored
    BY <1>2, <1>3, <1>8 DEF serviceCfg, serviceStored, Undecoded, Writing
  <2>3. UNCHANGED <<serviceMode, serviceInbox>>
    BY <1>2, <1>3, <1>8
    DEF serviceMode, serviceInbox, Undecided, Undecoded, Writing, Booting
  <2>. QED
    BY <1>3, <2>1, <2>2, <2>3 DEF Unseen
<1>. QED
  BY <1>6, <1>7, <1>8 DEF RegisterWrite, Fail, SendError, Respond

\* The flash is erased unseen; a configuration write takes effect when the flash
\* has been programmed, although chip and RAM have long been changed.
LEMMA WriteSteps ==
  ASSUME IInv, IInv', WriteErase \/ WriteProgram
  PROVE  Service!Execute \/ Unseen
<1>. TypeOK /\ ReplyInv /\ RequestInv /\ EffectInv
  BY DEF IInv, StateInv
<1>1. /\ pc \in Writing /\ UNCHANGED <<ram, out, rx, tx, served, before>>
  BY DEF WriteErase, WriteProgram, EraseFlash, Writing, replyVars, histVars
<1>2. serviceCfg = before.ram /\ serviceStored = before.ram
  BY <1>1 DEF serviceCfg, serviceStored, EffectInv, Writing
<1>3. CASE WriteErase
  <2>1. pc = "erase" /\ pc' = "program"
    BY <1>3 DEF WriteErase, EraseFlash
  <2>2. serviceAnswer = <<>> /\ serviceAnswer' = <<>>
    BY <2>1, AnswerSettled, AnswerSettledNext DEF AnswerView, Replying
  <2>3. UNCHANGED <<serviceMode, serviceInbox, serviceCfg, serviceStored>>
    BY <1>1, <1>2, <2>1
    DEF serviceMode, serviceInbox, serviceCfg, serviceStored, Undecided, Undecoded,
        Writing, Booting
  <2>. QED
    BY <1>1, <2>2, <2>3 DEF Unseen
<1>4. CASE WriteProgram
  <2> DEFINE data == served.data
  <2>1. /\ pc = "program" /\ pc' = "begin" /\ flash' = [valid |-> TRUE, cfg |-> ram]
        /\ request'.sys = SYS_IOSTACK /\ request'.response_state = 0
        /\ resp'.code = request.code /\ resp'.data = <<OKAY>>
    BY <1>4, RequestKeeps
    DEF WriteProgram, SendAcknowledge, Respond, TypeOK, ReplyInv
  <2>2. /\ served \in Requests /\ Len(data) >= HeaderSize
        /\ data[2] = SYS_IOSTACK /\ data[3] = CMD_WRITE_REG
        /\ request.code = CMD_WRITE_REG
        /\ request.payload \in PayloadWords(data)
        /\ Len(request.payload) = 2 + ConfigSize /\ Register = REG_ETH_CFG
        /\ ram = NewConfig /\ Mac(ram) = Mac(before.ram)
    BY <2>1 DEF EffectInv, RequestInv, Writing, Booting
  <2>8. request.payload = Payload(data)
    BY <2>2, WritePayload
  <2>3. Service!IsConfigWrite(data)
    BY <2>8, <2>2, ConfigWrites DEF Register
  <2>4. Service!Valid(data)
    BY <1>2, <2>8, <2>2, <2>3, ValidRequests DEF NewConfig
  <2>5. serviceCfg' = ram /\ serviceStored' = ram
    BY <1>1, <2>1 DEF serviceCfg, serviceStored, Writing
  <2>6. Service!Perform(data, resp'.data)
    BY <1>1, <2>8, <2>1, <2>2, <2>3, <2>4, <2>5, Vocabulary DEF Service!Perform, NewConfig
  <2>7. resp'.data \in Service!Payloads(data)
    BY <2>1, Vocabulary DEF Service!Payloads
  <2>. QED
    BY <1>1, <2>1, <2>2, <2>6, <2>7, Performs
<1>. QED
  BY <1>3, <1>4
-----------------------------------------------------------------------------
(* The reply leaves.                                                       *)

\* What Device shows between the decision and the end of the tick.
LEMMA Decided ==
  ASSUME pc \in Replying \cup {"restore", "return", "idle"}
  PROVE  /\ serviceMode = "on" /\ serviceCfg = ram /\ serviceInbox = rx
         /\ serviceStored = IF flash.valid THEN flash.cfg ELSE <<>>
  BY DEF serviceMode, serviceCfg, serviceInbox, serviceStored, Undecided, Undecoded,
         Writing, Booting, Replying

\* The same of the next state.
LEMMA DecidedNext ==
  ASSUME pc' \in Replying \cup {"restore", "return", "idle"}
  PROVE  /\ serviceMode' = "on" /\ serviceCfg' = ram' /\ serviceInbox' = rx'
         /\ serviceStored' = IF flash'.valid THEN flash'.cfg ELSE <<>>
  BY DEF serviceMode, serviceCfg, serviceInbox, serviceStored, Undecided, Undecoded,
         Writing, Booting, Replying

\* The response calls do not show, until one that was begun is ended; sending
\* an error that was sent already, the subnet mask and the end of the tick do
\* not show at all.
LEMMA ReplySteps ==
  ASSUME IInv, IInv',
         \/ ResponseBegin \/ ResponseWrite \/ RestoreMask \/ Return
         \/ \E sent \in BOOLEAN : ResponseEnd(sent)
  PROVE  (\E sent \in BOOLEAN : Service!Reply(sent)) \/ Unseen
<1>. TypeOK /\ ReplyInv /\ ResponseInv
  BY DEF IInv, StateInv
<1>. request \in RequestType
  BY DEF TypeOK
<1>1. /\ pc \in Replying \cup {"restore", "return"}
      /\ pc' \in Replying \cup {"restore", "return", "idle"}
      /\ UNCHANGED <<ram, flash, out, rx>>
  BY DEF ResponseBegin, ResponseWrite, RestoreMask, Return, SendError, Respond,
         ResponseEnd, AfterReply, Replying, boardVars
<1>2. UNCHANGED <<serviceMode, serviceCfg, serviceStored, serviceInbox, out>>
  BY <1>1, Decided, DecidedNext
<1>3. ASSUME UNCHANGED <<serviceAnswer, tx>>
      PROVE  Unseen
  BY <1>2, <1>3 DEF Unseen
<1>4. CASE ResponseBegin \/ ResponseWrite
  <2>1. /\ pc \in {"begin", "write"} /\ pc' \in {"write", "end"}
        /\ UNCHANGED <<tx, served, resp>>
    BY <1>4 DEF ResponseBegin, ResponseWrite, histVars
  <2>2. /\ request.response_state = 2 <=> request'.response_state = 2
        /\ request'.id = request.id /\ request'.sys = request.sys
    <3>1. CASE ResponseWrite
      BY <3>1 DEF ResponseWrite
    <3>2. CASE ResponseBegin /\ request.response_state # 0
      BY <3>2 DEF ResponseBegin
    <3>3. CASE ResponseBegin /\ request.response_state = 0
      <4>1. PICK n \in {0, 1} :
              request' = [request EXCEPT !.code = resp.code, !.response_state = n]
        BY <3>3, Zenon DEF ResponseBegin
      <4>2. /\ request'.response_state = n /\ request'.id = request.id
            /\ request'.sys = request.sys
        BY <4>1 DEF RequestType
      <4>. QED
        BY <3>3, <4>1, <4>2
    <3>. QED
      BY <1>4, <3>1, <3>2, <3>3
  <2>3. serviceAnswer' = serviceAnswer
    <3>1. pc \in Replying /\ pc' \in Replying
      BY <2>1 DEF Replying
    <3>2. ReplyHeader' = ReplyHeader
      BY <2>1, <2>2 DEF ReplyHeader
    <3>. QED
      BY <2>1, <2>2, <3>1, <3>2, AnswerSettled, AnswerSettledNext, Zenon DEF AnswerView
  <2>. QED
    BY <1>3, <2>1, <2>3
<1>5. CASE RestoreMask
  <2>1. /\ pc = "restore" /\ pc' = "return" /\ request.response_state = 2
        /\ UNCHANGED <<request, tx>>
    BY <1>5 DEF RestoreMask, ReplyInv, replyVars
  <2>2. serviceAnswer = <<>> /\ serviceAnswer' = <<>>
    BY <2>1, AnswerSettled, AnswerSettledNext DEF AnswerView, Replying
  <2>. QED
    BY <1>3, <2>1, <2>2
<1>6. CASE Return /\ rc = OKAY
  <2>1. /\ pc = "return" /\ pc' = "idle" /\ request.response_state = 2 /\ tx' = tx
    BY <1>6 DEF Return, ReplyInv
  <2>2. serviceAnswer = <<>> /\ serviceAnswer' = <<>>
    BY <2>1, AnswerSettled, AnswerSettledNext DEF AnswerView, Replying
  <2>. QED
    BY <1>3, <2>1, <2>2
<1>7. CASE Return /\ rc # OKAY
  <2>1. /\ pc = "return" /\ SendError(rc) /\ UNCHANGED <<tx, served>>
    BY <1>7 DEF Return
  <2>2. /\ pc' = "begin" /\ request'.sys = SYS_IOSTACK /\ request'.id = request.id
        /\ request'.response_state = request.response_state
        /\ resp'.code = ERR_REPORT /\ resp'.data = <<rc>>
    BY <2>1, RequestKeeps DEF SendError, Respond
  <2>3. ReplyHeader' = Header(request.id, SYS_IOSTACK, ERR_REPORT)
    BY <2>2 DEF ReplyHeader
  <2>4. serviceAnswer' = serviceAnswer
    <3>1. CASE request.response_state = 2
      BY <2>1, <2>2, <3>1, AnswerSettled, AnswerSettledNext DEF AnswerView, Replying
    <3>2. CASE request.response_state = 0
      <4>1. serviceAnswer = [to |-> served.from,
                             data |-> Header(request.id, SYS_IOSTACK, ERR_REPORT) \o <<rc>>]
        BY <2>1, <3>2, AnswerSettled DEF AnswerView
      <4>2. serviceAnswer' = [to |-> served'.from, data |-> ReplyHeader' \o resp'.data]
        BY <2>2, <3>2, AnswerSettledNext DEF AnswerView, Replying
      <4>. QED
        BY <2>1, <2>2, <2>3, <4>1, <4>2
    <3>. QED
      BY <2>1, <3>1, <3>2 DEF ReplyInv
  <2>. QED
    BY <1>3, <2>1, <2>4
<1>8. ASSUME NEW sent \in BOOLEAN, ResponseEnd(sent)
      PROVE  Service!Reply(sent) \/ Unseen
  <2>1. /\ pc = "end" /\ pc' \in {"restore", "return"}
        /\ request.response_state \in {1, 2} /\ request'.response_state = 2
    <3>1. request.response_state # 1 => request' = request
      BY <1>8 DEF ResponseEnd
    <3>2. request.response_state = 1 => request'.response_state = 2
      BY <1>8, RequestKeeps DEF ResponseEnd
    <3>. QED
      BY <1>8, <3>1, <3>2 DEF ResponseEnd, AfterReply, ReplyInv
  <2>2. serviceAnswer' = <<>>
    BY <2>1, AnswerSettledNext DEF AnswerView, Replying
  <2>3. CASE request.response_state = 2
    <3>1. serviceAnswer = <<>> /\ tx' = tx
      BY <1>8, <2>1, <2>3, AnswerSettled DEF AnswerView, Replying, ResponseEnd
    <3>. QED
      BY <1>3, <2>2, <3>1
  <2>4. CASE request.response_state = 1
    <3>1. serviceAnswer = [to |-> dest, data |-> txbuf]
      <4>1. /\ dest = request.from /\ txbuf = ReplyHeader \o resp.data
            /\ request.from = served.from
        BY <2>1, <2>4 DEF ResponseInv, IInv, RequestInv, Booting
      <4>. QED
        BY <2>1, <2>4, <4>1, AnswerSettled DEF AnswerView, Replying
    <3>2. tx' = IF sent THEN Append(tx, serviceAnswer) ELSE tx
      BY <1>8, <2>4, <3>1 DEF ResponseEnd
    <3>3. serviceAnswer # <<>>
      BY <3>1
    <3>. QED
      BY <1>2, <2>2, <3>2, <3>3 DEF Service!Reply, Service!NoAnswer
  <2>. QED
    BY <2>1, <2>3, <2>4
<1>. QED
  BY <1>4, <1>5, <1>6, <1>7, <1>8
-----------------------------------------------------------------------------
(* The request is taken, and what goes on around the firmware.             *)

\* A datagram with a header goes from the chip to the tick without a trace; one
\* without is dropped.
LEMMA TickSteps ==
  ASSUME IInv, IInv', TickRead
  PROVE  Service!Drop \/ Unseen
<1> DEFINE d == Head(rx)
<1>. rx \in Seq(Datagram)
  BY DEF IInv, StateInv, TypeOK
<1>1. /\ pc = "idle" /\ rx # <<>> /\ rx' = Tail(rx)
      /\ UNCHANGED <<ram, flash, out, tx>>
  BY DEF TickRead, boardVars, replyVars
<1>2. serviceAnswer = <<>>
  BY <1>1, AnswerSettled DEF AnswerView, Replying
<1>3. CASE Len(d.data) < HeaderSize
  <2>1. pc' = "idle"
    BY <1>1, <1>3 DEF TickRead
  <2>2. serviceAnswer' = <<>>
    BY <2>1, AnswerSettledNext DEF AnswerView, Replying
  <2>. QED
    BY <1>1, <1>2, <1>3, <2>1, <2>2, Decided, DecidedNext, Vocabulary
    DEF Service!Drop, Service!Serving, Service!NoAnswer
<1>4. CASE ~(Len(d.data) < HeaderSize)
  <2>1. pc' = "subsystem" /\ served' = d
    BY <1>4 DEF TickRead
  <2>2. serviceAnswer' = <<>>
    BY <2>1, AnswerSettledNext DEF AnswerView, Replying
  <2>3. <<d>> \o Tail(rx) = rx
    BY <1>1, HeadTailProperties
  <2>4. UNCHANGED <<serviceMode, serviceCfg, serviceStored, serviceInbox>>
    BY <1>1, <2>1, <2>3
    DEF serviceMode, serviceCfg, serviceStored, serviceInbox, Undecided, Undecoded,
        Writing, Booting
  <2>. QED
    BY <1>1, <1>2, <2>2, <2>4 DEF Unseen
<1>. QED
  BY <1>3, <1>4

\* Power cuts, datagrams that arrive and replies the network takes.
LEMMA AroundSteps ==
  ASSUME IInv, IInv', PowerCycle \/ (\E d \in Requests : Arrive(d)) \/ Depart
  PROVE  Service!PowerCut \/ (\E d \in Requests : Service!Arrive(d)) \/ Service!Depart
<1>. TypeOK /\ RequestInv /\ EffectInv
  BY DEF IInv, StateInv
<1>1. CASE PowerCycle
  <2>1. /\ pc' = "boot" /\ ram' = NoConfig /\ out' = DarkPins /\ rx' = <<>>
        /\ UNCHANGED <<flash, tx>>
    BY <1>1 DEF PowerCycle, Volatile
  <2>2. serviceAnswer' = <<>>
    BY <2>1, AnswerSettledNext DEF AnswerView, Replying
  <2>3. /\ serviceMode' = "off" /\ serviceCfg' = NoConfig /\ serviceInbox' = <<>>
        /\ serviceStored' = IF flash.valid THEN flash.cfg ELSE <<>>
    BY <2>1
    DEF serviceMode, serviceCfg, serviceStored, serviceInbox, Undecided, Undecoded,
        Writing, Booting
  <2>4. \/ serviceStored' = serviceStored
        \/ /\ Service!Serving /\ Service!IsConfigWrite(Head(serviceInbox).data)
           /\ serviceStored' = <<>>
    <3>1. CASE pc # "program"
      BY <2>3, <3>1 DEF serviceStored
    <3>2. CASE pc = "program"
      <4>1. serviceAnswer = <<>>
        BY <3>2, AnswerSettled DEF AnswerView, Replying
      <4>2. serviceMode = "on" /\ serviceInbox = <<served>> \o rx
        BY <3>2
        DEF serviceMode, serviceInbox, Undecided, Undecoded, Writing, Booting
      <4>3. serviceInbox # <<>> /\ Head(serviceInbox) = served
        BY <4>2, InboxParts DEF TypeOK
      <4>4. Service!IsConfigWrite(served.data)
        <5>1. /\ served \in Requests /\ Len(served.data) >= HeaderSize
              /\ served.data[2] = SYS_IOSTACK /\ served.data[3] = CMD_WRITE_REG
              /\ request.payload \in PayloadWords(served.data)
              /\ Len(request.payload) = 2 + ConfigSize /\ Register = REG_ETH_CFG
          BY <3>2 DEF RequestInv, EffectInv, Writing, Booting
        <5>2. request.payload = Payload(served.data)
          BY <5>1, WritePayload
        <5>. QED
          BY <5>1, <5>2, ConfigWrites DEF Register
      <4>5. serviceStored' = <<>>
        BY <2>3, <3>2 DEF EffectInv
      <4>. QED
        BY <4>1, <4>2, <4>3, <4>4, <4>5 DEF Service!Serving, Service!NoAnswer
    <3>. QED
      BY <3>1, <3>2
  <2>. QED
    BY <2>1, <2>2, <2>3, <2>4
    DEF Service!PowerCut, Service!NoConfig, Service!DarkPins, Service!NoAnswer,
        Service!NoStored, NoConfig, DarkPins
<1>2. ASSUME NEW d \in Requests, Arrive(d)
      PROVE  Service!Arrive(d)
  <2>1. /\ pc \notin Booting /\ rx' = Append(rx, d)
        /\ UNCHANGED <<pc, ram, flash, out, request, resp, rc, txbuf, tx, served, before>>
    BY <1>2 DEF Arrive, boardVars, replyVars, histVars
  <2>2. UNCHANGED <<serviceMode, serviceCfg, serviceStored, serviceAnswer>>
    BY <2>1
    DEF serviceMode, serviceCfg, serviceStored, serviceAnswer, Pending, PendingReply
  <2>3. serviceInbox' = Append(serviceInbox, d)
    <3>1. <<served>> \o Append(rx, d) = Append(<<served>> \o rx, d)
      <4>1. /\ <<served>> \in Seq(Datagram) /\ rx \in Seq(Datagram)
            /\ <<d>> \in Seq(Datagram) /\ d \in Datagram
        BY ConstantsAssumption DEF TypeOK
      <4>2. /\ Append(rx, d) = rx \o <<d>>
            /\ Append(<<served>> \o rx, d) = (<<served>> \o rx) \o <<d>>
        BY <4>1, AppendIsConcat, ConcatType, Zenon
      <4>3. (<<served>> \o rx) \o <<d>> = <<served>> \o (rx \o <<d>>)
        BY <4>1, ConcatAssociative
      <4>. QED
        BY <4>2, <4>3, Zenon
    <3>. QED
      BY <2>1, <3>1 DEF serviceInbox
  <2>4. serviceMode # "off"
    BY <2>1 DEF serviceMode
  <2>. QED
    BY <2>1, <2>2, <2>3, <2>4 DEF Service!Arrive
<1>3. CASE Depart
  <2>1. /\ tx # <<>> /\ tx' = Tail(tx)
        /\ UNCHANGED <<pc, ram, flash, out, request, resp, rc, rx, txbuf, served, before>>
    BY <1>3 DEF Depart, boardVars, histVars
  <2>2. UNCHANGED <<serviceMode, serviceCfg, serviceStored, serviceAnswer, serviceInbox>>
    BY <2>1
    DEF serviceMode, serviceCfg, serviceStored, serviceAnswer, serviceInbox, Pending,
        PendingReply
  <2>. QED
    BY <2>1, <2>2 DEF Service!Depart
<1>. QED
  BY <1>1, <1>2, <1>3
-----------------------------------------------------------------------------
\* Every step of the firmware is one of Device, or shows nothing.
LEMMA ServiceStep ==
  ASSUME IInv, IInv', [Next]_vars
  PROVE  [Service!Next]_(Service!vars)
<1>1. ASSUME Unseen
      PROVE  UNCHANGED Service!vars
  BY <1>1 DEF Unseen, Service!vars
<1>2. CASE Firmware
  <2>1. \/ BootLoad \/ BootErase \/ BootProgram \/ Configure
        \/ TickRead
        \/ FindSubsystem \/ FindCommand
        \/ LedBuiltin \/ TestPulse \/ SetLedCurrent \/ SetPulseWidth
        \/ StartTemperature \/ ReadTemperature \/ ReadSerialNo
        \/ Ping \/ RegisterRead \/ RegisterWrite \/ WriteErase \/ WriteProgram
        \/ ResponseBegin \/ ResponseWrite \/ RestoreMask \/ Return
        \/ \E sent \in BOOLEAN : ResponseEnd(sent)
    BY <1>2, Zenon DEF Firmware, Handler
  <2>. QED
    BY <1>1, <2>1, BootSteps, TickSteps, DispatchSteps, FlasherSteps, PingSteps,
       RegisterReadSteps, RegisterWriteSteps, WriteSteps, ReplySteps, Zenon
    DEF Service!Next
<1>3. CASE Environment
  BY <1>1, <1>3, BootSteps, AroundSteps, Zenon DEF Environment, Service!Next
<1>4. CASE UNCHANGED vars
  <2>1. Unseen
    BY <1>4
    DEF vars, boardVars, replyVars, histVars, Unseen, serviceMode, serviceCfg,
        serviceStored, serviceAnswer, serviceInbox, Pending, PendingReply
  <2>. QED
    BY <1>1, <2>1
<1>. QED
  BY <1>2, <1>3, <1>4 DEF Next

\* The firmware implements Device: whatever interleaves with its calls, requests
\* take effect one at a time, completely and in order, with one reply each, and
\* only a power cut during a configuration write loses the configuration.
THEOREM Refinement == Spec => ImplementsDevice
<1>1. IInv /\ IInv' /\ [Next]_vars => [Service!Next]_(Service!vars)
  BY ServiceStep
<1>. QED
  BY <1>1, ServiceInit, Invariance, PTL DEF Spec, ImplementsDevice, Service!Spec
=============================================================================
