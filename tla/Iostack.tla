------------------------------- MODULE Iostack -------------------------------
(***************************************************************************)
(* The firmware of one flasher: boot (setup, iostack_init), the tick loop  *)
(* (iostack_tick) with its dispatch, the handlers of the iostack and the   *)
(* flasher subsystem, and the response calls they share.                   *)
(*                                                                         *)
(* The program is one thread.  What interleaves with it is the W5500       *)
(* (datagrams arrive while a request is handled, a transmission succeeds   *)
(* or times out), the operator at the serial console, and a power cut at   *)
(* any point.  One action is one call with an effect outside the program:  *)
(* an access to the chip, to the flash or to the pins.                     *)
(***************************************************************************)
EXTENDS Protocol

CONSTANTS
  Clients,        \* addresses (IP and port) requests come from
  Requests,       \* datagrams the clients may send: [from, data]
  Configs,        \* configurations the flash may hold when first powered
  DefaultConfig,  \* iostack_default_config, MAC still zero
  ConsoleMacs,    \* MAC addresses an operator may type in
  Temperatures,   \* readings the ADT7310 may return
  Serials,        \* serial numbers the DS28CM00 may return
  TxBufSize,      \* words in the chip's transmit buffer
  RxCap,          \* datagrams the chip's receive buffer holds
  iostack_max_payload_size, \* words of payload the static request holds
  MemoryWords,    \* words the memory behind the static request may hold
  MaxInFlight     \* bound: datagrams in rx and tx and in service together

NULL == -1        \* the null pointer of the command list walk

Datagram == [from : Clients, data : Seq(Nat)]

ASSUME ConstantsAssumption ==
  /\ Requests \subseteq Datagram
  /\ Configs \subseteq Config
  /\ DefaultConfig \in Config
  /\ ConsoleMacs \subseteq Nat
  /\ Temperatures \subseteq Nat
  /\ Serials \subseteq Nat
  /\ Clients # {}
  /\ RxCap \in Nat
  /\ MemoryWords \subseteq Nat /\ MemoryWords # {}
  /\ MaxInFlight \in Nat

\* The longest payload a handler looks into is that of a configuration write.
ASSUME PayloadAssumption ==
  /\ iostack_max_payload_size \in Nat
  /\ iostack_max_payload_size >= 2 + ConfigSize

\* The chip's transmit buffer (2 KB) takes a reply to any request: an echo is as
\* long as its request, the longest other reply is a configuration.
ASSUME TxBufAssumption ==
  /\ TxBufSize \in Nat
  /\ TxBufSize >= HeaderSize + ConfigSize
  /\ \A r \in Requests : Len(r.data) <= TxBufSize
-----------------------------------------------------------------------------
VARIABLES
  pc,        \* the call the firmware is about to make
  ram,       \* iostack_config.static_ethernet_config
  chip,      \* the address registers of the W5500
  flash,     \* emulated EEPROM: [valid (magic and CRC match), cfg]
  out,       \* pins and delay line: [led, test, current, width]
  request,   \* the static struct iostack_request of iostack_tick
  cursor,    \* the cmd pointer of the walk, an index into the table
  resp,      \* arguments of the response calls: [code, data]
  rc,        \* return value of the handler
  rx,        \* datagrams in the chip's receive buffer
  txbuf,     \* words written to the transmit buffer since w55_udp_begin
  free,      \* get_free_size[socket]
  dest,      \* destination registers of the socket
  tx,        \* replies put on the wire, not yet taken by the network
  \* History, read by no action:
  served,    \* the datagram in service
  before,    \* [out, ram] when it was taken
  sends,     \* replies transmitted for it
  macs       \* MAC addresses the flash was given outside the network

boardVars == <<ram, chip, flash, out>>
replyVars == <<txbuf, free, dest, tx, sends>>
histVars  == <<served, before, macs>>
vars == <<pc, boardVars, request, cursor, resp, rc, rx, replyVars, histVars>>

Booting == {"boot", "prompt", "bootErase", "bootProgram", "configure", "halt"}
Replying == {"begin", "write", "end"}

DarkPins == [led |-> 0, test |-> 0, current |-> 0, width |-> 0]
NoRequest == [id |-> 0, sys |-> 0, code |-> 0, payload |-> <<>>,
              response_state |-> 0, from |-> CHOOSE c \in Clients : TRUE]
NoConfig == <<0, 0, 0, 0>>
NoReply == [code |-> 0, data |-> <<>>]
NoDatagram == [from |-> NoRequest.from, data |-> <<>>]
NoBefore == [out |-> DarkPins, ram |-> NoConfig]

Volatile(firstPc) ==
  /\ pc' = firstPc
  /\ ram' = NoConfig /\ chip' = NoConfig /\ out' = DarkPins
  /\ request' = NoRequest /\ cursor' = NULL
  /\ resp' = NoReply /\ rc' = OKAY
  /\ rx' = <<>> /\ txbuf' = <<>> /\ free' = 0 /\ dest' = NoRequest.from
  /\ served' = NoDatagram /\ sends' = 0
  /\ before' = NoBefore

Init ==
  /\ pc = "boot"
  /\ ram = NoConfig /\ chip = NoConfig /\ out = DarkPins
  /\ \/ flash \in [valid : {TRUE}, cfg : Configs]
     \/ flash = [valid |-> FALSE, cfg |-> NoConfig]
  /\ request = NoRequest /\ cursor = NULL
  /\ resp = NoReply /\ rc = OKAY
  /\ rx = <<>> /\ txbuf = <<>> /\ free = 0 /\ dest = NoRequest.from
  /\ tx = <<>>
  /\ served = NoDatagram /\ sends = 0
  /\ before = NoBefore
  /\ macs = IF flash.valid THEN {Mac(flash.cfg)} ELSE {}
-----------------------------------------------------------------------------
(* Boot: setup() and iostack_init().                                       *)

\* The configuration is read from flash; magic and checksum decide.
BootLoad ==
  /\ pc = "boot"
  /\ IF flash.valid
     THEN ram' = flash.cfg /\ pc' = "configure"
     ELSE ram' = DefaultConfig /\ pc' = "prompt"
  /\ UNCHANGED <<chip, flash, out, request, cursor, resp, rc, rx, replyVars,
                 histVars>>

\* iostack_query_mac_address blocks until an operator has typed an address.
EnterMac(mac) ==
  /\ pc = "prompt"
  /\ ram' = WithMac(ram, mac)
  /\ macs' = macs \cup {mac}
  /\ pc' = "bootErase"
  /\ UNCHANGED <<chip, flash, out, request, cursor, resp, rc, rx, replyVars,
                 served, before>>

\* EEPROM.commit erases the flash rows, then programs them.
EraseFlash(from, to) ==
  /\ pc = from
  /\ flash' = [flash EXCEPT !.valid = FALSE]
  /\ pc' = to
  /\ UNCHANGED <<ram, chip, out, request, cursor, resp, rc, rx, replyVars,
                 histVars>>

\* Faulty: the configuration typed in is erased but not programmed.
BootEraseOnly == EraseFlash("bootErase", "configure")

BootErase == EraseFlash("bootErase", "bootProgram")

BootProgram ==
  /\ pc = "bootProgram"
  /\ flash' = [valid |-> TRUE, cfg |-> ram]
  /\ pc' = "configure"
  /\ UNCHANGED <<ram, chip, out, request, cursor, resp, rc, rx, replyVars,
                 histVars>>

\* w55_init resets the chip, w55_config writes the addresses and reads them
\* back, w55_udp_open opens the socket; a mismatch or no socket is the end.
Configure ==
  /\ pc = "configure"
  /\ \/ chip' = ram /\ pc' = "idle"
     \/ chip' \in {ram, NoConfig} /\ pc' = "halt"
  /\ UNCHANGED <<ram, flash, out, request, cursor, resp, rc, rx, replyVars,
                 histVars>>
-----------------------------------------------------------------------------
(* The response calls.  A handler that replies sets resp and goes through  *)
(* begin, write and end; none of the callers looks at what they return.    *)

Respond(code, data) ==
  /\ resp' = [code |-> code, data |-> data]
  /\ pc' = "begin"

\* Faulty: the error keeps the subsystem of the request.
SendErrorAsIs(err) ==
  /\ UNCHANGED request
  /\ Respond(ERR_REPORT, <<err>>)

\* iostack_send_error and iostack_send_acknowledge answer as subsystem 0.
SendError(err) ==
  /\ request' = [request EXCEPT !.sys = SYS_IOSTACK]
  /\ Respond(ERR_REPORT, <<err>>)

SendAcknowledge(code) ==
  /\ request' = [request EXCEPT !.sys = SYS_IOSTACK]
  /\ Respond(request.code, <<code>>)

Fits(words) == Len(words) <= free

\* Faulty: a second response to one request is begun like the first.
ResponseBeginAgain ==
  /\ pc = "begin"
  /\ pc' = "write"
  /\ dest' = request.from
  /\ request' = [request EXCEPT !.code = resp.code, !.response_state = 1]
  /\ txbuf' = Header(request.id, request.sys, resp.code)
  /\ free' = TxBufSize - HeaderSize
  /\ UNCHANGED <<boardVars, cursor, resp, rc, rx, tx, sends, histVars>>

\* iostack_response_begin: refused unless no response was begun; then the
\* destination is set, the free size read and the header written.
ResponseBegin ==
  /\ pc = "begin"
  /\ pc' = "write"
  /\ IF request.response_state # 0
     THEN UNCHANGED <<request, dest, txbuf, free>>
     ELSE LET fits == HeaderSize <= TxBufSize IN
          /\ dest' = request.from
          /\ request' = [request EXCEPT !.code = resp.code,
                                        !.response_state = IF fits THEN 1 ELSE 0]
          /\ txbuf' = IF fits THEN Header(request.id, request.sys, resp.code)
                              ELSE <<>>
          /\ free' = IF fits THEN TxBufSize - HeaderSize ELSE 0
  /\ UNCHANGED <<boardVars, cursor, resp, rc, rx, tx, sends, histVars>>

\* iostack_response_write; a write that does not fit stops all further ones.
ResponseWrite ==
  /\ pc = "write"
  /\ pc' = "end"
  /\ IF request.response_state # 1 \/ resp.data = <<>>
     THEN UNCHANGED <<txbuf, free>>
     ELSE /\ txbuf' = IF Fits(resp.data) THEN txbuf \o resp.data ELSE txbuf
          /\ free' = IF Fits(resp.data) THEN free - Len(resp.data) ELSE 0
  /\ UNCHANGED <<boardVars, request, cursor, resp, rc, rx, dest, tx, sends,
                 histVars>>

\* Faulty: the mask is left zero; the wait for the chip never ends.
AfterReplyReturn == "return"
AfterReplyWaits == "end"

\* A configuration read still has to restore the subnet mask; every other
\* caller returns.  No other reply has code 0 and comes from subsystem 0.
AfterReply ==
  IF request.sys = SYS_IOSTACK /\ resp.code = CMD_READ_REG
  THEN "restore" ELSE "return"

\* iostack_response_end: SEND, then wait for the chip to report that the
\* datagram left (sent) or that the destination did not answer (timeout).
ResponseEnd(sent) ==
  /\ pc = "end"
  /\ pc' = AfterReply
  /\ IF request.response_state # 1
     THEN UNCHANGED <<request, free, tx, sends>>
     ELSE /\ request' = [request EXCEPT !.response_state = 2]
          /\ tx' = IF sent THEN Append(tx, [to |-> dest, data |-> txbuf]) ELSE tx
          /\ free' = 0
          /\ sends' = sends + 1
  /\ txbuf' = <<>>
  /\ UNCHANGED <<boardVars, cursor, resp, rc, rx, dest, histVars>>
-----------------------------------------------------------------------------
(* iostack_tick: receive and dispatch.                                     *)

Field(data, i, old) == IF i <= Len(data) THEN data[i] ELSE old

\* What the request's size and payload stand for: w55_udp_read copies no more of a
\* datagram than the request holds, and returns the size its header tells, from
\* which iostack_tick computes request.size.  The request.size words that begin at
\* request.payload may thus end with words of the memory behind the request.
PayloadWords(data) == Found(Payload(data), iostack_max_payload_size, MemoryWords)

\* One datagram is taken from the chip into the static request; one shorter
\* than a header has overwritten a part of it and is dropped.
TickRead ==
  /\ pc = "idle"
  /\ rx # <<>>
  /\ LET d == Head(rx) IN
     /\ \E words \in PayloadWords(d.data) :
          request' = [id      |-> Field(d.data, 1, request.id),
                      sys     |-> Field(d.data, 2, request.sys),
                      code    |-> Field(d.data, 3, request.code),
                      payload |-> words,
                      response_state |-> 0,
                      from    |-> d.from]
     /\ IF Len(d.data) < HeaderSize
        THEN UNCHANGED <<pc, served, before>>
        ELSE /\ pc' = "subsystem"
             /\ served' = d
             /\ before' = [out |-> out, ram |-> ram]
  /\ rx' = Tail(rx)
  /\ UNCHANGED <<boardVars, cursor, resp, rc, replyVars, macs>>

FindSubsystem ==
  /\ pc = "subsystem"
  /\ \/ /\ request.sys \in Subsystems
        /\ cursor' = 0
        /\ pc' = "command"
        /\ UNCHANGED <<request, resp>>
     \/ /\ request.sys \notin Subsystems
        /\ SendError(UNKNOWN_SUBSYSTEM)
        /\ UNCHANGED cursor
  /\ UNCHANGED <<boardVars, rc, rx, replyVars, histVars>>

\* Faulty: the pointer does not advance.
CmdNextSame(i, ncmds) == i

\* The next pointer iostack_register_commands gives to entry i of a table of
\* ncmds: its test is on i itself, which is always below ncmds, so the last
\* entry points one past the end of the table.
CmdNext(i, ncmds) == IF i < ncmds THEN i + 1 ELSE NULL

\* One step of the walk along the command list of the subsystem.
FindCommand ==
  /\ pc = "command"
  /\ LET cmds == CmdsOf(request.sys) IN
     \/ /\ cursor \in 0..(Len(cmds) - 1)
        /\ IF cmds[cursor + 1] = request.code
           THEN pc' = "handler" /\ UNCHANGED cursor
           ELSE pc' = pc /\ cursor' = CmdNext(cursor, Len(cmds))
        /\ UNCHANGED <<request, resp>>
     \* Past the end the walk reads whatever the build placed there: a null
     \* next pointer ends it, any other one makes the firmware fail.
     \/ /\ cursor = Len(cmds)
        /\ \/ cursor' = NULL /\ pc' = pc
           \/ pc' = "fault" /\ UNCHANGED cursor
        /\ UNCHANGED <<request, resp>>
     \/ /\ cursor = NULL
        /\ SendError(UNKNOWN_COMMAND)
        /\ UNCHANGED cursor
  /\ UNCHANGED <<boardVars, rc, rx, replyVars, histVars>>

\* The end of the tick: an error code returned by the handler is reported.
Return ==
  /\ pc = "return"
  /\ rc' = OKAY
  /\ IF rc # OKAY
     THEN SendError(rc) /\ UNCHANGED <<cursor, served, before, sends>>
     ELSE /\ pc' = "idle"
          /\ cursor' = NULL /\ resp' = NoReply
          /\ served' = NoDatagram /\ before' = NoBefore /\ sends' = 0
          /\ UNCHANGED request
  /\ UNCHANGED <<boardVars, rx, txbuf, free, dest, tx, macs>>
-----------------------------------------------------------------------------
(* Handlers.                                                               *)

InHandler(sys, code) ==
  /\ pc = "handler"
  /\ request.sys = sys
  /\ request.code = code

\* The handler returns an error code without having replied.
Fail(err) ==
  /\ rc' = err
  /\ pc' = "return"
  /\ UNCHANGED <<boardVars, request, resp>>

\* What a flasher handler does with a value: new outputs and an
\* acknowledgement, or flasherctl_send_error with the error of the call.
Ack(newOut) ==
  /\ out' = newOut
  /\ Respond(request.code, <<>>)
FlasherError(err) ==
  /\ UNCHANGED out
  /\ Respond(CMD_REPORT_FLASHERCTL_ERR, <<err>>)
Answer(data) ==
  /\ UNCHANGED out
  /\ Respond(request.code, data)

\* A flasher handler: refuse a payload of the wrong size, else Call.
FlasherHandler(code, Call) ==
  /\ InHandler(SYS_FLASHER, code)
  /\ IF Len(request.payload) # FlasherPayloadSize(code)
     THEN Fail(INVALID_SIZE)
     ELSE Call /\ UNCHANGED <<ram, chip, flash, request, rc>>
  /\ UNCHANGED <<cursor, rx, replyVars, histVars>>

Arg == request.payload[1]

\* Faulty: the pin is written before the value is checked.
LedBuiltinFirst ==
  FlasherHandler(CMD_LED_BUILTIN,
    /\ out' = [out EXCEPT !.led = IF Arg = 0 THEN 0 ELSE 1]
    /\ IF Arg \in {0, 1} THEN Respond(request.code, <<>>)
                         ELSE Respond(CMD_REPORT_FLASHERCTL_ERR, <<FLASHER_EBVALUE>>))

LedBuiltin ==
  FlasherHandler(CMD_LED_BUILTIN,
    IF Arg \in {0, 1} THEN Ack([out EXCEPT !.led = Arg])
                      ELSE FlasherError(FLASHER_EBVALUE))

\* Faulty: a pulse leaves the line high.
TestPulseStaysHigh ==
  FlasherHandler(CMD_TEST_PULSE,
    IF Arg \in {0, 1, 2} THEN Ack([out EXCEPT !.test = IF Arg = 0 THEN 0 ELSE 1])
                         ELSE FlasherError(FLASHER_EBVALUE))

\* 2 raises the line and lowers it again.
TestPulse ==
  FlasherHandler(CMD_TEST_PULSE,
    IF Arg \in {0, 1, 2} THEN Ack([out EXCEPT !.test = IF Arg = 1 THEN 1 ELSE 0])
                         ELSE FlasherError(FLASHER_EBVALUE))

\* Faulty: more than the four photorelays can take.
SetLedCurrentUnchecked ==
  FlasherHandler(CMD_SET_LED_CURRENT, Ack([out EXCEPT !.current = Arg]))

SetLedCurrent ==
  FlasherHandler(CMD_SET_LED_CURRENT,
    IF Arg > 15 THEN FlasherError(FLASHER_EBVALUE)
                ELSE Ack([out EXCEPT !.current = Arg]))

SetPulseWidth ==
  FlasherHandler(CMD_SET_PULSE_WIDTH, Ack([out EXCEPT !.width = Arg]))

StartTemperature == FlasherHandler(CMD_START_TEMPERATURE, Ack(out))

ReadTemperature ==
  FlasherHandler(CMD_READ_TEMPERATURE, \E t \in Temperatures : Answer(<<t>>))

ReadSerialNo ==
  FlasherHandler(CMD_READ_SERIAL_NO,
    \/ \E s \in Serials : Answer(<<s>>)
    \/ FlasherError(FLASHER_ESERIALNO))

Ping ==
  /\ InHandler(SYS_IOSTACK, CMD_PING)
  /\ Respond(request.code, request.payload)
  /\ UNCHANGED <<boardVars, request, cursor, rc, rx, replyVars, histVars>>

\* Register number: the first byte is the high one.
Register == request.payload[1] * 256 + request.payload[2]

\* iostack_handle_register_read: the configuration is read from the chip; the
\* chip's subnet mask is zero while the reply is sent.
RegisterRead ==
  /\ InHandler(SYS_IOSTACK, CMD_READ_REG)
  /\ IF Len(request.payload) # 2
     THEN Fail(INVALID_SIZE)
     ELSE IF Register # REG_ETH_CFG
     THEN Fail(INVALID_REGISTER)
     ELSE /\ ram' = chip
          /\ chip' = WithMask(chip, 0)
          /\ Respond(request.code, chip)
          /\ UNCHANGED <<flash, out, request, rc>>
  /\ UNCHANGED <<cursor, rx, replyVars, histVars>>

RestoreMask ==
  /\ pc = "restore"
  /\ chip' = ram
  /\ pc' = "return"
  /\ UNCHANGED <<ram, flash, out, request, cursor, resp, rc, rx, replyVars,
                 histVars>>

NewConfig == ConfigOf(request.payload)

\* Faulty: the configuration of any device is taken.
IsAnyDevice == TRUE

IsThisDevice == Mac(NewConfig) = Mac(ram)

\* iostack_handle_register_write: a configuration whose MAC address is not
\* this device's is answered with an error and returned as one.
RegisterWrite ==
  /\ InHandler(SYS_IOSTACK, CMD_WRITE_REG)
  /\ IF Len(request.payload) < 3
     THEN Fail(INVALID_SIZE)
     ELSE IF Register # REG_ETH_CFG
     THEN Fail(INVALID_REGISTER)
     ELSE IF Len(request.payload) # 2 + ConfigSize
     THEN Fail(INVALID_SIZE)
     ELSE IF ~IsThisDevice
     THEN /\ SendError(INVALID_MAC)
          /\ rc' = INVALID_MAC
          /\ UNCHANGED boardVars
     ELSE /\ chip' = NewConfig
          /\ ram' = NewConfig
          /\ pc' = "erase"
          /\ UNCHANGED <<flash, out, request, resp, rc>>
  /\ UNCHANGED <<cursor, rx, replyVars, histVars>>

WriteErase == EraseFlash("erase", "program")

\* Faulty: acknowledged, but not programmed.
WriteProgramForgotten ==
  /\ pc = "program"
  /\ SendAcknowledge(OKAY)
  /\ UNCHANGED <<boardVars, cursor, rc, rx, replyVars, histVars>>

WriteProgram ==
  /\ pc = "program"
  /\ flash' = [valid |-> TRUE, cfg |-> ram]
  /\ SendAcknowledge(OKAY)
  /\ UNCHANGED <<ram, chip, out, cursor, rc, rx, replyVars, histVars>>
-----------------------------------------------------------------------------
(* Environment.                                                            *)

PowerCycle ==
  /\ Volatile("boot")
  /\ UNCHANGED <<flash, tx, macs>>

\* The chip stores a datagram if the socket is open and there is room.
Arrive(d) ==
  /\ pc \notin Booting
  /\ Len(rx) < RxCap
  /\ Len(rx) + Len(tx) + (IF pc = "idle" THEN 0 ELSE 1) < MaxInFlight
  /\ rx' = Append(rx, d)
  /\ UNCHANGED <<pc, boardVars, request, cursor, resp, rc, replyVars, histVars>>

\* The network takes the oldest reply.
Depart ==
  /\ tx # <<>>
  /\ tx' = Tail(tx)
  /\ UNCHANGED <<pc, boardVars, request, cursor, resp, rc, rx, txbuf, free, dest,
                 sends, histVars>>
-----------------------------------------------------------------------------
Handler ==
  \/ LedBuiltin \/ TestPulse \/ SetLedCurrent \/ SetPulseWidth
  \/ StartTemperature \/ ReadTemperature \/ ReadSerialNo
  \/ Ping \/ RegisterRead \/ RegisterWrite

\* Everything the firmware does by itself.
Firmware ==
  \/ BootLoad \/ BootErase \/ BootProgram \/ Configure
  \/ TickRead \/ FindSubsystem \/ FindCommand \/ Handler \/ Return
  \/ RestoreMask \/ WriteErase \/ WriteProgram
  \/ ResponseBegin \/ ResponseWrite
  \/ \E sent \in BOOLEAN : ResponseEnd(sent)

Environment ==
  \/ \E mac \in ConsoleMacs : EnterMac(mac)
  \/ PowerCycle
  \/ \E d \in Requests : Arrive(d)
  \/ Depart

Next == Firmware \/ Environment

Spec == Init /\ [][Next]_vars

\* The processor keeps running and the chip completes every command it is
\* given (w55_command, w55_udp_end and w55_init wait for it without a timeout).
Fairness == WF_vars(Firmware)

FairSpec == Spec /\ Fairness
-----------------------------------------------------------------------------
(* Properties.                                                             *)

PcValues == Booting \cup Replying \cup
  {"idle", "subsystem", "command", "handler", "return", "restore", "erase",
   "program", "fault"}

RequestType == [id : Nat, sys : Nat, code : Nat, payload : Seq(Nat),
                response_state : 0..2, from : Clients]
OutType == [led : 0..1, test : 0..1, current : 0..15, width : Nat]

\* The shape of the firmware's state, including that the walk of FindCommand
\* never gets more than one entry past a table.
TypeOK ==
  /\ pc \in PcValues
  /\ ram \in Config /\ chip \in Config
  /\ flash \in [valid : BOOLEAN, cfg : Config]
  /\ out \in OutType
  /\ request \in RequestType
  /\ cursor \in -1..7
  /\ resp \in [code : Nat, data : Seq(Nat)]
  /\ rc \in OKAY..INVALID_MAC
  /\ rx \in Seq(Datagram)
  /\ txbuf \in Seq(Nat) /\ free \in 0..TxBufSize /\ dest \in Clients
  /\ tx \in Seq([to : Clients, data : Seq(Nat)])
  /\ served \in Datagram
  /\ before \in [out : OutType, ram : Config]
  /\ sends \in Nat
  /\ macs \subseteq Nat

\* Never two transmissions for one request, though a refused configuration
\* write is reported by its handler and again by iostack_tick; and a tick that
\* ends has transmitted one, whatever the datagram with a header asked for.
ExactlyOneReply ==
  /\ sends <= 1
  /\ pc = "return" /\ rc = OKAY => sends = 1

\* Between ticks the chip, the copy in RAM and the flash hold the same
\* configuration: the zero mask of a register read is gone, a written
\* configuration has reached the flash, whatever power cuts came before.
ConfigAgreement ==
  pc = "idle" => chip = ram /\ flash = [valid |-> TRUE, cfg |-> ram]

\* No request changes the device's identity: every valid configuration in
\* flash, and the one in use, has a MAC address that came from the console or
\* from the initial flash.
MacPinned ==
  /\ flash.valid => Mac(flash.cfg) \in macs
  /\ pc \notin Booting => Mac(ram) \in macs

\* A step that puts a reply on the wire, and that reply.
Transmits == Len(tx') > Len(tx)
NewReply == tx'[Len(tx')]

IsIostackError(r) == r.data[2] = SYS_IOSTACK /\ r.data[3] = ERR_REPORT
IsFlasherError(r) ==
  r.data[2] = SYS_FLASHER /\ r.data[3] = CMD_REPORT_FLASHERCTL_ERR

\* A reply goes to the sender of the datagram in service, with its id, in the
\* name of its command or as an error with one error code: although the static
\* request is reused, its code shares storage with the response code and its
\* subsystem is overwritten, nothing of another request gets into a reply.
ReplyAnswersRequest ==
  [][Transmits =>
       /\ NewReply.to = served.from
       /\ NewReply.data[1] = served.data[1]
       /\ \/ /\ NewReply.data[2] = served.data[2]
             /\ NewReply.data[3] = served.data[3]
          \/ /\ \/ IsIostackError(NewReply)
                \/ IsFlasherError(NewReply) /\ served.data[2] = SYS_FLASHER
             /\ Len(NewReply.data) = HeaderSize + 1]_vars

\* A ping comes back with its own length and, as far as the static request holds
\* it, unchanged: what comes behind, in the echo of a longer ping, is not the
\* client's.  A ping that fits is transmitted as it came.
PingEchoed ==
  [][Transmits /\ served.data[2] = SYS_IOSTACK /\ served.data[3] = CMD_PING
       => /\ Len(NewReply.data) = Len(served.data)
          /\ \A i \in 1..Len(served.data) :
               i <= HeaderSize + iostack_max_payload_size
                 => NewReply.data[i] = served.data[i]]_vars

\* An error reply means the request had no effect: pins, delay line, RAM
\* configuration and flash are what they were when it was taken.
RefusedWithoutEffect ==
  [][Transmits /\ (IsIostackError(NewReply) \/ IsFlasherError(NewReply))
       => /\ out = before.out /\ ram = before.ram
          /\ flash = [valid |-> TRUE, cfg |-> before.ram]]_vars

AcksConfigWrite ==
  /\ served.data[2] = SYS_IOSTACK /\ served.data[3] = CMD_WRITE_REG
  /\ ~IsIostackError(NewReply)

\* An acknowledged configuration write is durable: when the reply leaves, the
\* flash already holds exactly the configuration of the request.
AckedConfigDurable ==
  [][Transmits /\ AcksConfigWrite
       => flash = [valid |-> TRUE, cfg |-> ConfigOf(Payload(served.data))]]_vars

\* Once the firmware has taken a datagram it finishes with it, unless the
\* power is cut or the walk of an unknown command has failed.
TickEnds == pc = "subsystem" ~> pc \in {"idle", "boot", "fault"}

\* A full receive buffer is relieved (a power cycle empties it), unless the
\* firmware has failed.
RxRelieved == Len(rx) = RxCap ~> Len(rx) < RxCap \/ pc = "fault"

\* What the error reply for an unknown command promises: the firmware never
\* fails on a request.
UnknownCommandReported == pc # "fault"
-----------------------------------------------------------------------------
(* The inductive invariant behind ExactlyOneReply, ConfigAgreement and     *)
(* MacPinned, one part per call the firmware may be about to make.         *)

Agree(c) == c = ram /\ flash = [valid |-> TRUE, cfg |-> ram]

\* Where response_state and the transmissions counted stand at each call.
ReplyInv ==
  /\ pc \in Booting \cup {"idle"} => sends = 0
  /\ pc \notin Booting \cup {"idle"} =>
        sends = IF request.response_state = 2 THEN 1 ELSE 0
  /\ pc \in {"subsystem", "command", "handler", "erase", "program"} =>
        request.response_state = 0
  /\ pc = "begin" => request.response_state \in {0, 2}
  /\ pc \in {"write", "end"} => request.response_state \in {1, 2}
  /\ pc = "restore" => request.response_state = 2
  /\ pc = "return" => \/ request.response_state = 2
                      \/ request.response_state = 0 /\ rc # OKAY

\* Where chip, RAM and flash stand at each call.
ConfigInv ==
  /\ pc \in {"idle", "subsystem", "command", "handler", "return", "fault"} =>
        Agree(chip)
  /\ pc \in Replying => /\ flash = [valid |-> TRUE, cfg |-> ram]
                        /\ chip # ram => AfterReply = "restore"
  /\ pc = "restore" => flash = [valid |-> TRUE, cfg |-> ram]
  /\ pc \in {"erase", "program"} => chip = ram
  /\ pc = "configure" => flash = [valid |-> TRUE, cfg |-> ram]

\* The MAC address in RAM is a legitimate one from the moment it is loaded.
MacInv ==
  /\ flash.valid => Mac(flash.cfg) \in macs
  /\ pc \notin {"boot", "prompt"} => Mac(ram) \in macs

StateInv == TypeOK /\ ReplyInv /\ ConfigInv /\ MacInv
-----------------------------------------------------------------------------
(* What the request in service has led to so far: with StateInv, the       *)
(* inductive invariant behind the properties of the replies and behind the *)
(* refinement of Device.                                                   *)

Undecoded == {"subsystem", "command", "handler"}
Writing == {"erase", "program"}      \* a configuration write, in progress

Asks(sys, code) == served.data[2] = sys /\ served.data[3] = code

\* The static request is the datagram in service; what the responses overwrite
\* of it is overwritten only once the request has been decided.
RequestInv ==
  /\ rx \in Seq(Requests)
  /\ pc \notin Booting \cup {"idle"} =>
        /\ served \in Requests /\ Len(served.data) >= HeaderSize
        /\ request.from = served.from /\ request.id = served.data[1]
        /\ request.payload \in PayloadWords(served.data)
  /\ pc \in Undecoded \cup Writing \cup {"fault"} =>
        request.sys = served.data[2] /\ request.code = served.data[3]

\* The first n entries of the table are other commands than the one requested.
OtherCommands(n) == \A i \in 1..n : CmdsOf(request.sys)[i] # request.code

\* The walk has passed only other commands; off the list, it has passed them all.
WalkInv ==
  /\ pc \in {"command", "fault"} => request.sys \in Subsystems
  /\ pc = "command" =>
        OtherCommands(IF cursor = NULL THEN Len(CmdsOf(request.sys)) ELSE cursor)
  /\ pc = "fault" => OtherCommands(Len(CmdsOf(request.sys)))

\* What has changed since the request was taken, and since power-on.
EffectInv ==
  /\ pc \in Undecoded => out = before.out /\ ram = before.ram
  /\ pc \in Writing =>
        /\ out = before.out
        /\ request.sys = SYS_IOSTACK /\ request.code = CMD_WRITE_REG
        /\ Len(request.payload) = 2 + ConfigSize /\ Register = REG_ETH_CFG
        /\ ram = NewConfig /\ Mac(ram) = Mac(before.ram)
  /\ pc = "erase" => flash = [valid |-> TRUE, cfg |-> before.ram]
  /\ pc \in {"program", "prompt", "bootErase", "bootProgram"} => ~flash.valid
  /\ pc = "prompt" => ram = DefaultConfig

Unaffected == out = before.out /\ ram = before.ram /\ ~Asks(SYS_IOSTACK, CMD_PING)

\* The response in resp is an error ...
Refused ==
  /\ \/ request.sys = SYS_IOSTACK /\ resp.code = ERR_REPORT
     \/ /\ request.sys = SYS_FLASHER /\ resp.code = CMD_REPORT_FLASHERCTL_ERR
        /\ served.data[2] = SYS_FLASHER
  /\ Len(resp.data) = 1
  /\ Unaffected

\* ... or the answer to the command requested.
Performed ==
  /\ Asks(request.sys, resp.code)
  /\ resp.code \notin {ERR_REPORT, CMD_REPORT_FLASHERCTL_ERR}
  /\ Asks(SYS_IOSTACK, CMD_PING) => resp.data = request.payload
  /\ Asks(SYS_IOSTACK, CMD_WRITE_REG) =>
       ram = NewConfig /\ Len(request.payload) = 2 + ConfigSize

ReplyHeader == Header(request.id, request.sys, resp.code)

\* The response calls turn resp into a datagram for the sender of the request.
ResponseInv ==
  /\ pc = "return" /\ request.response_state = 0 => Unaffected
  /\ pc \in Replying /\ request.response_state # 2 =>
        /\ Refused \/ Performed
        /\ HeaderSize + Len(resp.data) <= TxBufSize
  /\ pc \in {"write", "end"} /\ request.response_state = 1 => dest = request.from
  /\ pc = "write" /\ request.response_state = 1 =>
        txbuf = ReplyHeader /\ free = TxBufSize - HeaderSize
  /\ pc = "end" /\ request.response_state = 1 => txbuf = ReplyHeader \o resp.data

IInv == StateInv /\ RequestInv /\ WalkInv /\ EffectInv /\ ResponseInv
=============================================================================
