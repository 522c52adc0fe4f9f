---------------------------- MODULE IOStackClient ----------------------------
(***************************************************************************)
(* The Python client: the methods of IOStack and FlasherCtl, each a request *)
(* that IOStack.multi_request sends, repeats, and finds the response to.   *)
(* The socket, a connected UDP one, keeps what arrives between calls.      *)
(* multi_request is a generator: a call that waits for the answers of      *)
(* several devices is suspended while the application looks at each.       *)
(***************************************************************************)
EXTENDS Protocol, Bags

CONSTANTS
  Me,          \* address of the socket
  IdMod,       \* number of request ids, 65536 in the code
  MaxRetries,  \* self.max_retries
  MaxPayload,  \* what max_packet_size leaves for a payload, in words
  Verbosity,   \* self.verbosity
  Nesting      \* whether the application makes calls while one is suspended

ASSUME ClientAssumption ==
  /\ IdMod \in Nat \ {0} /\ MaxRetries \in Nat /\ MaxPayload \in Nat
  /\ Verbosity \in Nat /\ Nesting \in BOOLEAN

VARIABLES
  state,        \* "idle", or "waiting" in recv
  request_id,
  op,           \* the call in progress, or the last one
  request,      \* its datagram, packed once
  trials_left,
  suspended,    \* the suspended call, in a sequence of at most one
  socket,       \* datagrams in the receive buffer of the socket
  requests,     \* bag of requests handed to the network
  yielded,      \* responses the call has produced
  result        \* what became of the call, "none" while it waits

frame == <<op, request, trials_left, yielded>>
clientVars ==
  <<state, request_id, frame, suspended, socket, requests, result>>
-----------------------------------------------------------------------------
(* The calls: the request of each method, the method that evaluates the    *)
(* response, whether it waits for several answers, and its retries.        *)

Op == [sys : Nat, code : Nat, payload : Seq(Int),
       method : {"request", "flasher", "register", "ping"},
       broadcast : BOOLEAN, max_retries : Nat]

CallOf(sys, code, payload, max_retries) ==
  [sys |-> sys, code |-> code, payload |-> payload, method |-> "request",
   broadcast |-> FALSE, max_retries |-> max_retries]

\* The register number goes low byte first.
PackRegister(register) == <<register % 256, register \div 256>>

read_register(register, max_retries) ==
  [CallOf(SYS_IOSTACK, CMD_READ_REG, PackRegister(register), max_retries)
     EXCEPT !.method = "register"]
multiread_register(register, max_retries) ==
  [read_register(register, max_retries) EXCEPT !.broadcast = TRUE]
write_register(register, value, max_retries) ==
  [CallOf(SYS_IOSTACK, CMD_WRITE_REG, PackRegister(register) \o value, max_retries)
     EXCEPT !.method = "register"]

\* Faulty: a long payload is sent whole.
PingWhole(payload) ==
  [CallOf(SYS_IOSTACK, CMD_PING, payload, 0) EXCEPT !.method = "ping"]

\* A payload that is too long for a reply is cut; no retries.
ping(payload) ==
  [CallOf(SYS_IOSTACK, CMD_PING,
          IF Len(payload) > MaxPayload THEN SubSeq(payload, 1, MaxPayload) ELSE payload,
          0)
     EXCEPT !.method = "ping"]

FlasherCall(code, payload) ==
  [CallOf(SYS_FLASHER, code, payload, MaxRetries) EXCEPT !.method = "flasher"]

LED_BUILTIN(value)       == FlasherCall(CMD_LED_BUILTIN, <<value>>)
START_TEMPERATURE        == FlasherCall(CMD_START_TEMPERATURE, <<>>)
READ_TEMPERATURE         == FlasherCall(CMD_READ_TEMPERATURE, <<>>)
SET_LED_CURRENT(current) == FlasherCall(CMD_SET_LED_CURRENT, <<current>>)
SET_PULSE_WIDTH(width)   == FlasherCall(CMD_SET_PULSE_WIDTH, <<width>>)
TEST_PULSE(on_off)       == FlasherCall(CMD_TEST_PULSE, <<on_off>>)
READ_SERIAL_NO           == FlasherCall(CMD_READ_SERIAL_NO, <<>>)

\* struct.pack("<B", value) takes a byte.
Packs(o) == o.method = "flasher" => \A i \in DOMAIN o.payload : o.payload[i] \in 0..255

Datagram(id, o) ==
  [from |-> Me, data |-> Header(id, o.sys, o.code) \o o.payload]

NoOp == CallOf(0, 0, <<>>, 0)

ClientInit ==
  /\ state = "idle"
  /\ request_id \in 0..(IdMod - 1)
  /\ op = NoOp /\ request = Datagram(0, NoOp) /\ trials_left = 0 /\ yielded = 0
  /\ suspended = <<>>
  /\ socket = <<>>
  /\ requests = EmptyBag
  /\ result = "none"
-----------------------------------------------------------------------------
(* What a reply means.                                                     *)

\* Command.lookup, Status.lookup and FlasherError.lookup.
IostackStatus == 0..6
FlasherStatus == {1, 2, 128, 256, 512, 1024, 32768}

\* Faulty: the error code of the firmware is not among the commands.
IostackCommandsOnly == {CMD_READ_REG, CMD_WRITE_REG, CMD_PING}

IostackCommands == {CMD_READ_REG, CMD_WRITE_REG, CMD_PING, ERR_REPORT}

Id(reply)   == reply[1]
Sys(reply)  == reply[2]
Code(reply) == reply[3]

\* Faulty: every reply counts.
NeverStale(reply) == FALSE

IsStale(reply) == Id(reply) # request_id

\* multi_request: a reply to another request is skipped, and with a verbosity
\* announced by a statement that Python 3 does not have; one in the name of
\* subsystem 0 may report an error.
Judge(reply) ==
  IF Len(reply) < HeaderSize THEN "ResponseError"
  ELSE IF IsStale(reply)
  THEN IF Verbosity > 0 THEN "TypeError" ELSE "skip"
  ELSE IF Sys(reply) = SYS_IOSTACK /\ Code(reply) \notin IostackCommands
  THEN "ResponseError"
  ELSE IF Sys(reply) = SYS_IOSTACK /\ Code(reply) = ERR_REPORT
  THEN IF Len(reply) = HeaderSize + 1 /\ Payload(reply)[1] \in IostackStatus
       THEN "RequestError" ELSE "ResponseError"
  ELSE IF Sys(reply) # op.sys THEN "ResponseError" ELSE "response"

\* The sizes struct.unpack insists on in the methods that decode a payload.
Decodes(payload) ==
  CASE op.code = CMD_READ_REG /\ op.method = "register" -> Len(payload) = ConfigSize
    [] op.code \in {CMD_READ_TEMPERATURE, CMD_READ_SERIAL_NO}
         /\ op.method = "flasher" -> Len(payload) = 1
    [] OTHER -> TRUE

\* Faulty: a response is not looked at.
AnyCode(reply) == TRUE

IsOwnCode(reply) == Code(reply) = op.code

\* The method that called request: ping compares the payload, a FlasherCtl
\* method looks for its own code or an error, a register access returns.
Evaluate(reply) ==
  IF op.method = "ping"
  THEN IF Payload(reply) = op.payload THEN "value" ELSE "ResponseError"
  ELSE IF op.method = "flasher" /\ ~IsOwnCode(reply)
  THEN IF /\ Code(reply) = CMD_REPORT_FLASHERCTL_ERR
          /\ Len(reply) = HeaderSize + 1
          /\ Payload(reply)[1] \in FlasherStatus
       THEN "RequestError" ELSE "ResponseError"
  ELSE IF Decodes(Payload(reply)) THEN "value" ELSE "ResponseError"
-----------------------------------------------------------------------------
Send(d) == requests' = requests (+) SetToBag({d})

Finish(r) == state' = "idle" /\ result' = r

MayCall(o) == state = "idle" /\ (suspended = <<>> \/ (Nesting /\ ~o.broadcast))

\* A call begins: a new id, the request is packed and sent.
Request(o) ==
  /\ MayCall(o) /\ Packs(o)
  /\ request_id' = (request_id + 1) % IdMod
  /\ request' = Datagram(request_id', o)
  /\ Send(request')
  /\ op' = o /\ trials_left' = o.max_retries /\ yielded' = 0
  /\ state' = "waiting" /\ result' = "none"
  /\ UNCHANGED <<suspended, socket>>

\* A method cannot pack its argument and raises before it calls request.
PackingFails(o) ==
  /\ MayCall(o) /\ ~Packs(o)
  /\ result' = "struct.error"
  /\ UNCHANGED <<state, request_id, frame, suspended, socket, requests>>

\* Faulty: one retry too many; no end after the last one.
TimeoutOnceMore ==
  /\ state = "waiting" /\ socket = <<>>
  /\ IF trials_left >= 0
     THEN /\ trials_left' = trials_left - 1
          /\ Send(request)
          /\ UNCHANGED <<state, result>>
     ELSE Finish("TimeoutError") /\ UNCHANGED <<trials_left, requests>>
  /\ UNCHANGED <<request_id, op, request, suspended, socket, yielded>>

TimeoutWithoutEnd ==
  /\ state = "waiting" /\ socket = <<>> /\ trials_left > 0
  /\ trials_left' = trials_left - 1
  /\ Send(request)
  /\ UNCHANGED <<state, result, request_id, op, request, suspended, socket, yielded>>

\* recv times out with nothing in the buffer: the same request again, with the
\* same id, or the end of the call.
Timeout ==
  /\ state = "waiting" /\ socket = <<>>
  /\ IF trials_left > 0
     THEN /\ trials_left' = trials_left - 1
          /\ Send(request)
          /\ UNCHANGED <<state, result>>
     ELSE Finish("TimeoutError") /\ UNCHANGED <<trials_left, requests>>
  /\ UNCHANGED <<request_id, op, request, suspended, socket, yielded>>

\* recv cuts a datagram to max_packet_size.
Received(d) ==
  IF Len(d) > HeaderSize + MaxPayload THEN SubSeq(d, 1, HeaderSize + MaxPayload) ELSE d

\* recv returns a datagram.  A response ends the call, or is yielded: the call
\* is suspended until the application asks for the next one.
Recv ==
  /\ state = "waiting" /\ socket # <<>>
  /\ LET reply == Received(Head(socket))
         verdict == Judge(reply) IN
     CASE verdict = "skip" -> UNCHANGED <<state, result, yielded, suspended>>
       [] verdict = "response" ->
            /\ yielded' = yielded + 1
            /\ IF op.broadcast /\ Decodes(Payload(reply))
               THEN /\ Finish("yield")
                    /\ suspended' = <<[op |-> op, request |-> request,
                                      trials_left |-> trials_left,
                                      yielded |-> yielded']>>
               ELSE Finish(Evaluate(reply)) /\ UNCHANGED suspended
       [] OTHER -> Finish(verdict) /\ UNCHANGED <<yielded, suspended>>
  /\ socket' = Tail(socket)
  /\ UNCHANGED <<request_id, op, request, trials_left, requests>>

\* The application asks the suspended call for the next response, or drops it.
Resume ==
  /\ state = "idle" /\ suspended # <<>>
  /\ LET f == Head(suspended) IN
       op' = f.op /\ request' = f.request /\ trials_left' = f.trials_left
         /\ yielded' = f.yielded
  /\ suspended' = <<>>
  /\ state' = "waiting" /\ result' = "none"
  /\ UNCHANGED <<request_id, socket, requests>>
Close ==
  /\ state = "idle" /\ suspended # <<>>
  /\ suspended' = <<>>
  /\ UNCHANGED <<state, request_id, frame, socket, requests, result>>

\* The network hands a reply to the socket.
Deliver(reply) ==
  /\ socket' = Append(socket, reply)
  /\ UNCHANGED <<state, request_id, frame, suspended, requests, result>>

\* The network takes a request.
Take(d) ==
  /\ BagIn(d, requests)
  /\ requests' = requests (-) SetToBag({d})
  /\ UNCHANGED <<state, request_id, frame, suspended, socket, result>>
=============================================================================
