------------------------------- MODULE Device -------------------------------
(***************************************************************************)
(* What one flasher promises to the network, whatever happens inside it:   *)
(* it takes requests in order of arrival, each of them takes effect at     *)
(* once and gives at most one reply; a request that is not valid gives an  *)
(* error and has no effect; a power cut may lose requests and replies, and *)
(* loses the stored configuration only while one is being written.         *)
(***************************************************************************)
EXTENDS Protocol

CONSTANTS
  Clients, Requests, Configs, DefaultConfig, ConsoleMacs, Temperatures, Serials,
  iostack_max_payload_size,   \* words of a payload that the device keeps
  MemoryWords                 \* words it may echo in the place of the others

VARIABLES
  mode,      \* "off" while it boots, "on", or "failed"
  cfg,       \* the configuration in use
  stored,    \* the configuration in flash, or NoStored
  out,       \* pins and delay line
  inbox,     \* requests not yet executed
  answer,    \* the reply to the last one, or NoAnswer
  outbox     \* replies put on the wire, not yet taken by the network

vars == <<mode, cfg, stored, out, inbox, answer, outbox>>

NoStored == <<>>
NoAnswer == <<>>
NoConfig == <<0, 0, 0, 0>>
DarkPins == [led |-> 0, test |-> 0, current |-> 0, width |-> 0]

Init ==
  /\ mode = "off" /\ cfg = NoConfig /\ out = DarkPins
  /\ stored \in Configs \cup {NoStored}
  /\ inbox = <<>> /\ answer = NoAnswer /\ outbox = <<>>
-----------------------------------------------------------------------------
(* The requests.                                                           *)

Sys(data)  == data[2]
Code(data) == data[3]
Names(data, sys, code) == Sys(data) = sys /\ Code(data) = code

\* A write of the Ethernet configuration of the right size.
IsConfigWrite(data) ==
  /\ Len(data) = HeaderSize + 2 + ConfigSize
  /\ Names(data, SYS_IOSTACK, CMD_WRITE_REG)
  /\ Payload(data)[1] = 0 /\ Payload(data)[2] = REG_ETH_CFG

IsConfigRead(data) ==
  Names(data, SYS_IOSTACK, CMD_READ_REG) /\ Payload(data) = <<0, REG_ETH_CFG>>

\* Commands that set an output, and the largest value each takes.
Setters ==
  {CMD_LED_BUILTIN, CMD_TEST_PULSE, CMD_SET_LED_CURRENT, CMD_SET_PULSE_WIDTH}
Largest(code) ==
  CASE code = CMD_LED_BUILTIN     -> 1
    [] code = CMD_TEST_PULSE      -> 2
    [] code = CMD_SET_LED_CURRENT -> 15
    [] code = CMD_SET_PULSE_WIDTH -> 255

Sets(data) ==
  /\ Sys(data) = SYS_FLASHER /\ Code(data) \in Setters
  /\ Len(data) = HeaderSize + 1
  /\ Payload(data)[1] <= Largest(Code(data))

Bare(data, code) == Names(data, SYS_FLASHER, code) /\ Len(data) = HeaderSize

\* The requests the device performs; it refuses all others.
Valid(data) ==
  \/ Names(data, SYS_IOSTACK, CMD_PING)
  \/ IsConfigRead(data)
  \/ IsConfigWrite(data) /\ Mac(ConfigOf(Payload(data))) = Mac(cfg)
  \/ Sets(data)
  \/ \E code \in {CMD_START_TEMPERATURE, CMD_READ_TEMPERATURE, CMD_READ_SERIAL_NO} :
       Bare(data, code)

KnownCommand(data) ==
  \/ Sys(data) \notin Subsystems
  \/ \E i \in 1..Len(CmdsOf(Sys(data))) : CmdsOf(Sys(data))[i] = Code(data)

\* The outputs after a command that sets a value.
Applied(code, v) ==
  CASE code = CMD_LED_BUILTIN     -> [out EXCEPT !.led = v]
    [] code = CMD_TEST_PULSE      -> [out EXCEPT !.test = IF v = 1 THEN 1 ELSE 0]
    [] code = CMD_SET_LED_CURRENT -> [out EXCEPT !.current = v]
    [] code = CMD_SET_PULSE_WIDTH -> [out EXCEPT !.width = v]

\* An error goes out in the name of subsystem 0, or of the flasher subsystem.
Errors(data) ==
  { Header(data[1], SYS_IOSTACK, ERR_REPORT) \o <<e>> :
      e \in {UNKNOWN_SUBSYSTEM, UNKNOWN_COMMAND, INVALID_SIZE, INVALID_REGISTER,
             INVALID_MAC} }
FlasherErrors(data) ==
  { Header(data[1], SYS_FLASHER, CMD_REPORT_FLASHERCTL_ERR) \o <<e>> :
      e \in {FLASHER_EBVALUE, FLASHER_ESERIALNO} }
-----------------------------------------------------------------------------
Keep == UNCHANGED <<cfg, stored, out>>

\* The request at hand: its effect and the words of its reply.
Refuse(data, reply) ==
  /\ ~Valid(data)
  /\ reply \in Errors(data) \/ (Sys(data) = SYS_FLASHER /\ reply \in FlasherErrors(data))
  /\ Keep

\* What a ping is answered with: it has the length of the ping.
Echoes(data) == Found(Payload(data), iostack_max_payload_size, MemoryWords)

Perform(data, payload) ==
  /\ Valid(data)
  /\ \/ Names(data, SYS_IOSTACK, CMD_PING) /\ payload \in Echoes(data) /\ Keep
     \/ IsConfigRead(data) /\ payload = cfg /\ Keep
     \/ /\ IsConfigWrite(data)
        /\ payload = <<OKAY>>
        /\ cfg' = ConfigOf(Payload(data)) /\ stored' = cfg'
        /\ UNCHANGED out
     \/ /\ Sets(data)
        /\ payload = <<>>
        /\ out' = Applied(Code(data), Payload(data)[1])
        /\ UNCHANGED <<cfg, stored>>
     \/ Bare(data, CMD_START_TEMPERATURE) /\ payload = <<>> /\ Keep
     \/ Bare(data, CMD_READ_TEMPERATURE)
        /\ payload \in {<<t>> : t \in Temperatures} /\ Keep
     \/ Bare(data, CMD_READ_SERIAL_NO)
        /\ payload \in {<<s>> : s \in Serials} /\ Keep

Serving == mode = "on" /\ answer = NoAnswer /\ inbox # <<>>

AnswerWith(reply) == answer' = [to |-> Head(inbox).from, data |-> reply]

\* The words a reply may carry after its header.
Payloads(data) ==
  Echoes(data) \cup {cfg, <<OKAY>>, <<>>}
    \cup {<<v>> : v \in Temperatures \cup Serials}

Execute ==
  /\ Serving
  /\ LET data == Head(inbox).data IN
     /\ Len(data) >= HeaderSize
     /\ \/ \E reply \in Errors(data) \cup FlasherErrors(data) :
             /\ \/ Refuse(data, reply)
                \* The serial number chip did not answer.
                \/ /\ Bare(data, CMD_READ_SERIAL_NO)
                   /\ reply \in FlasherErrors(data) /\ Keep
             /\ AnswerWith(reply)
        \/ \E payload \in Payloads(data) :
             /\ Perform(data, payload)
             /\ AnswerWith(Header(data[1], data[2], data[3]) \o payload)
  /\ inbox' = Tail(inbox)
  /\ UNCHANGED <<mode, outbox>>

\* A datagram without a whole header is not answered.
Drop ==
  /\ Serving
  /\ Len(Head(inbox).data) < HeaderSize
  /\ inbox' = Tail(inbox)
  /\ UNCHANGED <<mode, cfg, stored, out, answer, outbox>>

\* A command that is in no table may be the end until the next power cycle.
Fail ==
  /\ Serving
  /\ Len(Head(inbox).data) >= HeaderSize
  /\ ~KnownCommand(Head(inbox).data)
  /\ mode' = "failed"
  /\ UNCHANGED <<cfg, stored, out, inbox, answer, outbox>>

\* The reply leaves, or its destination could not be found.
Reply(sent) ==
  /\ answer # NoAnswer
  /\ outbox' = IF sent THEN Append(outbox, answer) ELSE outbox
  /\ answer' = NoAnswer
  /\ UNCHANGED <<mode, cfg, stored, out, inbox>>

\* A device with a stored configuration starts with it, another one with the
\* default addresses and the MAC address an operator gives it.
Load ==
  /\ mode = "off"
  /\ \/ stored # NoStored /\ cfg' = stored
     \/ /\ stored = NoStored
        /\ cfg' \in {DefaultConfig} \cup {WithMac(DefaultConfig, m) : m \in ConsoleMacs}
  /\ UNCHANGED <<mode, stored, out, inbox, answer, outbox>>

Store ==
  /\ mode = "off" /\ stored = NoStored
  /\ stored' = cfg
  /\ UNCHANGED <<mode, cfg, out, inbox, answer, outbox>>

Start ==
  /\ mode = "off"
  /\ cfg = stored
  /\ mode' = "on"
  /\ UNCHANGED <<cfg, stored, out, inbox, answer, outbox>>

PowerCut ==
  /\ mode' = "off" /\ cfg' = NoConfig /\ out' = DarkPins
  /\ inbox' = <<>> /\ answer' = NoAnswer
  /\ \/ stored' = stored
     \/ Serving /\ IsConfigWrite(Head(inbox).data) /\ stored' = NoStored
  /\ UNCHANGED outbox

Arrive(d) ==
  /\ mode # "off"
  /\ inbox' = Append(inbox, d)
  /\ UNCHANGED <<mode, cfg, stored, out, answer, outbox>>

Depart ==
  /\ outbox # <<>>
  /\ outbox' = Tail(outbox)
  /\ UNCHANGED <<mode, cfg, stored, out, inbox, answer>>

Next ==
  \/ Execute \/ Drop \/ Fail
  \/ \E sent \in BOOLEAN : Reply(sent)
  \/ Load \/ Store \/ Start \/ PowerCut
  \/ \E d \in Requests : Arrive(d)
  \/ Depart

Spec == Init /\ [][Next]_vars
=============================================================================
