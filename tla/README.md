# A TLA+ model of FlasherCtl

FlasherCtl is the control software of the CTA calibration flasher: an Arduino
program (`src/flasherctl`) that serves requests over UDP through a W5500 Ethernet
chip, and Python code (`src/utils`) that sends them. This directory holds a model
of both, TLC runs that check it on small instances, and proofs that hold for all
values of its constants.

## The system

| Component | State it keeps | Operations |
|---|---|---|
| I/O stack of the firmware (`iostack.cpp`, `iostack.h`) | one static `iostack_request` (id, subsystem, code, payload, `response_state`, sender); `iostack_config` in RAM; its copy in flash; command lists | boot (`iostack_init`), `iostack_tick`, ping, register read and write, error and acknowledge replies, `iostack_response_begin/write/end` |
| Flasher subsystem (`flasherctl.ino`, `flasher.cpp`) | pins (LED, test pulse, four LED current bits), delay in the DS1023 | seven command handlers |
| W5500 driver (`w5500.cpp`) and chip | address registers, receive and transmit ring buffers with their pointers, interrupt flags, `get_free_size`, `txwr` | open, read, begin, write, end, `w55_read16`, `w55_config` |
| Chips of the flasher board | shift register and delay of the DS1023, conversion and result of the ADT7310, register pointer of the DS28CM00 | below three of the handlers |
| MAC entry (`iostack_query_mac_address`) | six bytes, number of digits | digit, backspace, return |
| Flash (FlashAsEEPROM) | configuration with magic and CRC | read, write, commit |
| Python client (`iostack.py`, `flasherctl.py`) | `request_id`, socket, retries left | `multi_request` and the calls built on it |
| Discovery (`flasherctl_discover.py`) | command line, interfaces left, list of answers | per interface a broadcast read, a list, a broadcast configuration write |
| Scripts (`utils/*.py`) | the call at hand, counts of pings sent and received | sequences and loops of calls, ended by the first exception not caught or by the operator |

The firmware is one thread: `loop` calls `iostack_tick` for ever. A tick takes one
datagram from the chip, finds the subsystem and the command in linked lists and
calls the handler, which replies through the three response calls. Handlers
return an error code, which the tick turns into an error reply. Around that
thread the chip receives and sends, an operator may type, and the power may be
cut. The client sends one datagram per call, repeats it after a timeout, and
tells replies apart by a 16 bit id only.

What is hard about it:

- a reply is begun, written and ended by calls that nobody checks; the only guard
  against two replies to one request is `response_state`;
- the request is static, and its code shares a union with the response's code;
- the configuration exists three times (chip, RAM, flash), and is changed in one
  place after the other, with a power cut possible in between;
- the chip's registers change while they are read byte by byte;
- pointers into the chip's rings wrap, datagrams arrive while one is taken out, and
  interrupt flags outlive the transmission they belong to;
- the network loses, delays and reorders, the client repeats, replies go stale;
- a thermometer is restarted by a repeated request while it measures;
- the discovery tool waits for no acknowledgement and looks at no id;
- a datagram may be longer than the request it is copied into, and its size is taken
  from its header;
- a bus transfer fails and nobody looks at the result, nor at the CRC.

What makes each component correct: the I/O stack answers every request once, with
its own data, keeps the three configurations equal and the MAC address fixed, and
refuses without effect; the flasher handlers have the effect they acknowledge;
`w55_read16` returns a value the register held; the driver delivers datagrams whole
and in order and sends what was written; the chips get and give the values of
the call; the MAC prompt stores what was typed; the client never takes another
request's reply for its own, comes to an end, and understands every reply the
firmware can give; discovery changes one device, and that only as it was asked to; a
script that ends well has done what it says.

## Modules

| Module | Models |
|---|---|
| `Protocol` | codes, command tables and the layout of datagrams, for all others |
| `Iostack` | the firmware, call by call |
| `Device` | abstract specification: what one flasher promises to the network |
| `IostackRefinement` | the mapping from `Iostack` to `Device` |
| `IostackProofs` | theorems about `Iostack`: its states |
| `IostackServiceProofs` | theorems about `Iostack`: its replies |
| `IostackRefinementProofs` | the theorem that `Iostack` implements `Device` |
| `Read16` | `w55_read16` against a changing register |
| `UdpPort` | abstract specification: what `w55_udp_read` promises to its callers |
| `UdpReceive` | `w55_udp_read` against the receive ring; implements `UdpPort` |
| `UdpTransmit` | `w55_udp_begin`, `_write`, `_end` against the transmit ring and the flags |
| `Driver` | `Read16`, `UdpReceive` and `UdpTransmit` together |
| `DriverProofs` | theorems about `Read16`, `UdpReceive`, `UdpTransmit` and `Driver` |
| `MacEntry` | the MAC prompt with the bits of each digit |
| `DelayLine` | `flasher_SET_PULSE_WIDTH`, pin by pin |
| `SerialNo` | `flasher_READ_SERIAL_NO`, byte by byte |
| `Thermometer` | the temperature scripts, network and sensor in time |
| `Peripherals` | `MacEntry`, `DelayLine`, `SerialNo` and `Thermometer` together |
| `PeripheralsProofs` | theorems about these four, and of `Peripherals` |
| `IOStackClient` | the Python client |
| `System` | `IOStackClient` and `Device` with a network between them |
| `SystemProofs` | theorems about `System` |
| `Scripts` | the thirteen command line scripts on top of `System` |
| `ScriptsProofs` | theorems about `Scripts` |
| `Discovery` | runs of the discovery tool, several devices and interfaces |
| `DiscoveryProofs` | theorems about `Discovery` |
| `MCIostack`, `MCDriver`, `MCSystem`, `MCScripts`, `MCDiscovery` | requests, datagrams, calls, scripts and command lines for TLC |

`System` uses `Device` where the real system has the firmware; run
`IostackRefines` is what allows that. `Driver` and `Peripherals` compose parts that
share no state: the firmware has one thread and is in one call at a time, so a
behaviour exercises one part, chosen at the beginning. An interleaving of two would
be no behaviour of the code.

Definitions whose comment begins with "Faulty" are wrong variants of the one below
them. They are part of no specification; they exist to show that a property
notices the mistake, with the pairs listed under `mutants` in `PROJECT.json`.

### How state and actions correspond to the code

`Iostack`: `pc` names the call the firmware is about to make. One action is the
code from one access to the outside (chip, flash, pins) to the next.

| Variables | Code |
|---|---|
| `ram`, `chip`, `flash` | `iostack_config.static_ethernet_config`, W5500 registers `GAR..SIPR`, the EEPROM image (`valid`: magic and CRC match) |
| `request`, `cursor`, `rc` | the static request of `iostack_tick`, the `cmd` pointer as an index, the handler's result |
| `resp` | the arguments on their way to the response calls |
| `rx`, `txbuf`, `free`, `dest`, `tx` | the chip's receive buffer, the transmit buffer since `w55_udp_begin`, `get_free_size[socket]`, the socket's destination, datagrams on the wire |
| `out` | pins and delay line |
| `served`, `before`, `sends`, `macs` | history for the properties, read by no action |

| Actions | Code |
|---|---|
| `BootLoad`, `EnterMac`, `BootErase`, `BootProgram`, `Configure` | `iostack_init`: read and validate, prompt, `EEPROM.commit` in two steps, configure the chip and open the socket (or stop) |
| `TickRead`, `FindSubsystem`, `FindCommand`, `Return` | the parts of `iostack_tick`; `FindCommand` is one step of the list walk |
| `LedBuiltin` ... `ReadSerialNo`, `Ping`, `RegisterRead`, `RegisterWrite` | the handlers up to their first response call or flash commit |
| `WriteErase`, `WriteProgram` | `iostack_update_eeprom` in a configuration write |
| `ResponseBegin`, `ResponseWrite`, `ResponseEnd` | the response calls with the driver calls under them |
| `RestoreMask` | the end of a configuration read, after its reply |
| `PowerCycle`, `Arrive`, `Depart` | power cut, datagram in, datagram out |

A datagram is a sequence of words, one per field. Sizes are in words: header 3,
configuration 4. A walk past the end of a command table reads whatever lies there;
the model lets it find a null pointer, which ends it, or anything else, which
stands for the failure of the firmware (`pc = "fault"`, until the next power
cycle): what else it does depends on the memory layout of the build.
The static request holds `iostack_max_payload_size` words of payload. `w55_udp_read`
copies no more than fits and returns the size in the datagram's header, so of a longer
one `request.payload` (the `request.size` words that begin there) ends with words of
the memory behind the request, any of `MemoryWords` (`PayloadWords`). Only a ping gets
through with such a size; every other handler insists on one that fits.
A register read keeps the chip's zero mask over the whole reply, up to
`RestoreMask`; accesses to the chip with nothing observable between them are one
step.

`Device`: a request takes effect and gets its reply in one step (`Execute`); a
power cut keeps the stored configuration unless the request at hand is a
configuration write. The refinement maps `cfg` to the old configuration while a
write is under way, and `answer` to the reply the response calls have yet to send.

`Read16`: a register is its two bytes. The two transfers of a read are two steps
with the chip's between them. The registers the driver reads this way under
traffic only grow until the driver's next command. The source leaves the order of
the two transfers in `(w55_exchange(0) << 8) + w55_exchange(0)` to the compiler;
the model takes left to right, without which no read would be right.

`MacEntry`: a digit is the set of its bits, so `|=` is union. `typed` are the digits
that the operator typed and did not take back. The prompt is printed anew from `mac`
after every character, so the operator sees `mac`.

`UdpReceive`: `receive_pc` is the driver's next access to the chip: size, pointer,
header, data, the pointer written back, RECV. `queue` is the history of accepted
datagrams, which the ring has to hold framed; it is also the state of `UdpPort`, so
the refinement mapping is the identity on `queue` and `got`. A 16 bit register is
read at once here, which `Read16` allows.

`UdpTransmit`: the four calls in any order, as nothing in the driver keeps callers
from it. `Transmit` is the chip's end of a transmission, good (SEND_OK) or not
(TIMEOUT, when no host answers to the address).

`DelayLine`: one action per `digitalWrite` that the chip can tell (`SetPulseWidth`
combines the two that only bring the pins into their idle state). The DS1023 takes
a bit at a rising clock edge while LE is high and takes over its shift register
when LE falls.

`SerialNo`: `Point` is the transmission that sets the chip's register pointer, which
stays where it was if it is not acknowledged; `RequestFrom` fills the buffer of the
Wire library with up to eight bytes of any value, and remembers in `garbled` which of
them are not those of the registers; `FamilyCode`, `CopyByte`, `ReadCrc` take them
out. The pointer after a transfer is arbitrary.

`Thermometer`: a tick is 20 ms. `Timeout`, `Recv`, `Skipped` and `Returned` are what
`multi_request` does with its socket and its timeout, `Pause` and `Awake` the
`time.sleep` of the script. A reply goes into `socket` when it arrives (`ReplyArrives`),
also while the script sleeps; it waits there until the `recv` of the next call takes
it out. `recv` does not wait while the socket holds a packet, so skipping one takes
no time, and it restarts the timeout. `read_temperature.py`, which sets verbosity, may
end there with a TypeError (see run `SystemVerbose`). Whether a start during a conversion restarts the ADT7310 is left open.

`IOStackClient`: `Judge` is the checking in `multi_request`, `Evaluate` what the
calling method makes of the response. `suspended` holds the generator of
`multiread_register` between two answers, with the request it was called for;
the application resumes it, drops it or, where `Nesting` says so, makes another call
meanwhile. `struct.error` from a decode of the wrong size counts as `ResponseError`;
from an argument that cannot be packed it ends the call before anything is sent
(`PackingFails`). `System` adds a bag of requests and a bag of replies under way,
and `execs`, the number of times the device executed the call's request;
`reorders` is the kind of network, which stays.

`Scripts`: a script is the sequence of its calls, once and in the loop, with the
exceptions it catches. `at` is its current call; `nsent` and `nrecvd` count as in the
ping tools. `Returned`, `Raised` and `Interrupt` are the ways on after a call.

`Discovery`: `pc` is where the tool is in its loop over the interfaces; `devices` is
the list of `query_interface`, the fields of each entry cut out of a datagram
without looking at its id, code or length. A run begins when the operator likes,
whatever is still under way of earlier ones; `quiet` is the history of whether nothing
was, `past` of the configurations each device has had, `asked` of the command lines.

## Runs

| Run | Properties | Distinct states |
|---|---|---|
| `Iostack` | `TypeOK`, `ExactlyOneReply`, `ConfigAgreement`, `MacPinned`, `IInv`, `ReplyAnswersRequest`, `PingEchoed`, `RefusedWithoutEffect`, `AckedConfigDurable` | 755 655 |
| `IostackRefines` | `ImplementsDevice`, `TickEnds`, `RxRelieved` | 166 639 |
| `IostackWalk` | `UnknownCommandReported`, violated | |
| `Driver` | `IInv`, `NotTorn`, `RingHoldsQueue`, `CallReturns`, `ImplementsPort`, `FullRelieved`, `SentAsWritten`, `EndReportsOwn` | 555 029 |
| `Peripherals` | `IInv`, `NoDigitLost`, `NumberIsChips`, `FreshReading`, `CallsAreShort`, `DelayIsWidth` | 182 779 |
| `MacEntryBackspace` | `AcceptedAsTyped`, violated | |
| `System` | `IInv`, `ResponsesExecuted`, `NoResponseError`, `VerdictFits`, `CallEnds` | 772 218 |
| `SystemNested` | `OwnRepliesYielded`, violated | |
| `SystemVerbose` | `SkippingGoesOn`, violated | |
| `Scripts` | `ScriptInv`, `PingsGoOn`, `DoneIsSet`, `CurrentSetWhileLow`, `SettingStays` | 589 422 |
| `Discovery` | `IInv`, `ChangesAreAskedFor`, `ChangesAsAsked`, `ToolEnds` | 1 001 821 |
| `DiscoveryLate` | `ListedIsCurrent`, violated | |

What they show:

- `Iostack`: every request with a header is answered exactly once, although a
  refused configuration write is reported twice; the reply has the sender, id and
  name of the request; a ping is echoed with its length and as far as the static request
  holds it (251 bytes; a longer one ends with whatever lies behind); an error reply means no effect; an
  acknowledged configuration is in flash; chip, RAM and flash agree between
  ticks; the MAC address never changes over the network.
- `IostackRefines`: a client cannot tell the firmware, with its power cuts between
  any two calls, from a device with atomic requests; every tick ends, and a full
  receive buffer is relieved.
- `Driver`: two equal reads are enough, and the loop without a timeout ends;
  whatever arrives while `w55_udp_read` takes a datagram out, what it returns are
  the accepted datagrams, whole and in order, also with truncation by a short buffer
  and over every wrap; no remainder blocks the socket; what is sent are the parts
  written since `w55_udp_begin` up to the first that did not fit; and the result of
  `w55_udp_end` belongs to its own datagram.
- `Peripherals`: at the MAC prompt a digit stored is the one typed, except the low
  digit of a byte whose low digit was taken back, which can only have too many bits;
  the delay goes from one width to the next with none in between; a serial number
  from the wrong registers is kept out by the family code, unless another register
  holds its value or the code itself was garbled, and what is yielded differs from the
  chip's number in garbled bytes only, which nothing keeps out since the CRC is not
  checked; a printed temperature was measured after it was asked for, also
  when a repeated start arrives late, which 240 ms of pause instead of 500 would not
  give; and a call ends in the time its retries take, although each stale reply that
  it finds in the socket restarts the timeout: the pause before the call is long enough
  for all of them to be there when it begins.
- `System`: a response is always the fruit of an execution of the same call, and a
  call is executed at most once per copy sent; no reply of the firmware looks
  malformed to the client; its verdict fits the request; every call ends.
- `Scripts`: a ping tool is never ended by the late answer to a ping it gave up; a
  setting script that ends without an exception has set a legal value. Over a
  network that keeps the order of requests, a setting reported as made stays, and
  the LED test never changes the current while the pulse line is high; where requests
  overtake each other neither holds, for retries leave copies of settings behind.
- `Discovery`: whatever is under way of an earlier run, a device only ever gets a
  configuration that it had at some time with the fields replaced that a command line
  naming it gave: never another device's, never an acknowledgement, never a mixture. In
  a run that begins with nothing under way only the device that was named is changed,
  from what it is at that moment, and only in the fields that were given, over two
  interfaces that reach the same device; the tool ends.
- `DiscoveryLate`: what is listed need not be current, or a configuration at all, if
  datagrams of an earlier run are still under way.

The five violations are explained under `findings` in `PROJECT.json`: the last entry
of a command table does not end the list (`iostack.cpp:190`); a corrected low digit of
the MAC address is or-ed into the one taken back (`iostack.cpp:165`), so the address
stored, and shown, is not the one that was typed; a call made
between two answers to a broadcast makes the client skip the others
(`utils/iostack.py:187`); with a verbosity above zero a stale reply ends the call with
a TypeError instead of being skipped (`utils/iostack.py:189`); and the discovery tool
lists a late acknowledgement of an earlier run's write as a device's current configuration
(`utils/flasherctl_discover.py:69`).

Also seen: `iostack.cpp:42` declares the report code as `0xffff`, `iostack_send_error`
sends `0xff`, which is what the client expects (`iostack.py:29`). Four lines of
`iostack.py` are Python 2 only (116, 120, 189, 327); they run with a verbosity above
zero, an interface address, or a ping without payload. The client packs the
register number low byte first (`iostack.py:258`), the firmware takes the first
byte as the high one (`iostack.cpp:326`); register 0, the only one, hides this.
The serial number comes with its least significant byte first, as the comment at
`flasher.cpp:159` says; the docstring of the client says big endian
(`utils/flasherctl.py:191`). A ping of more than 251 bytes is answered with bytes from
behind the static request (`w5500.cpp:229`, `iostack.cpp:312`); the client cuts its own
to that length (`iostack.py:328`), unless it is given a larger `max_packet_size`.

### Bounds

- Requests: 25 in `Iostack`, one per handler and per reason for refusal and a ping of 8
  words where the request holds 6 (`iostack_max_payload_size`; `MemoryWords` = {0, 9}), from two
  clients with different ids, so a mix-up of two requests shows. Payload values are
  at the boundaries (1 and 2, 15 and 16, 255). Only the class of a request matters
  to the control flow, so further values of a class add no behaviour.
- `MaxInFlight` = 2, `RxCap` = 1: one datagram in service while another arrives or
  a reply leaves. The firmware looks at one datagram at a time, so a second one
  waiting is enough for what is left behind by the first.
- One configuration in flash (or a blank flash), one address at the console, one
  reading of each sensor: the model only copies them. The requests carry a second
  configuration of the same device and one of another device.
- `IostackRefines` leaves out requests that differ from another one only in the
  reason of the refusal or the output set.
- `Driver`: registers of 3 by 4 byte values instead of 256 by 256: carries, several
  changes within one read, and changes between reads all happen. The receive ring has
  7 cells, which no frame (2 to 5 cells) divides, and pointers modulo 14: frames wrap
  at every place, the ring is exactly full and one short of it. The transmit ring has
  4 cells and pointers modulo 8, parts of 0 to 3 cells, at most 3 (`MaxWrites`)
  between begin and end: a part that fits can follow one that does not.
- `Peripherals`: two bytes and two bits per digit, so a byte can be wrong while
  another is right; 4 bits of width, any contents of the shift register; serial
  numbers of 2 bytes over 3 values, one of them the family code; times as in the code
  in ticks of 20 ms, a datagram at most `MaxDelay` = 9 ticks under way, 4 ids.
- `System`: two request ids and nine calls, of which two, the register reads, are
  repeated once; ids wrap at once. Requests in flight are bounded by the calls and retries.
- `Scripts`: fourteen scripts with up to 3 calls (`MaxCalls`; one that ends by itself
  makes at most 2), and on the network that keeps the order the two that
  drive outputs, with up to 6 (`MaxCallsInOrder`), so the LED test gets through its
  first round and into the second; one retry.
- `Discovery`: two devices, two interfaces that share one of them, four command lines
  that change different fields, 2 runs (`MaxRuns`), so a run can follow one that changed
  a device and whose datagrams are still under way.

### Assumptions

- No datagram outlives 65 536 calls of a client (`Around` in `System`, with `IdMod`
  calls): ids are the only thing that tells replies apart, so the property is
  false without it.
- The network may duplicate nothing on its own; the client's retries give
  duplicates enough. It loses, delays and reorders.
- A reply fits into the chip's transmit buffer (`TxBufAssumption`). The static request
  holds a register write with a configuration (`PayloadAssumption`); pings may be longer.
- The client's pings fit into it, as the default `max_packet_size` ensures (`IsCall` of
  `SystemProofs`, which the theorems about client and device assume): a longer one would
  come back with an end that is not its own.
- SPI transfers are exact after boot; at boot `Configure` may find a mismatch, since
  there the code acts on one.
- Two configurations never have the same CRC by accident; a half-written one is
  seen as invalid.
- A datagram is under way for less than the receive timeout (`TimesAssumption` of
  `Thermometer`), or copies of a request could pile up; `System`, which has no time,
  assumes nothing of this kind.
- A transmission that ends in TIMEOUT discards its datagram.
- The chips work as their data sheets say, as far as the handlers use them: see above
  for the DS1023, ADT7310 and DS28CM00.

### Fairness

- `Iostack`: `WF_vars(Firmware)`. The processor runs whenever it is powered, and
  the chip completes commands (the code waits for it without a timeout, so nothing
  else could be claimed). Nothing is assumed of the network, the operator or the
  power; `TickEnds` therefore has the boot as one of its ends.
- `Driver`: weak fairness of `Reading` and of `Receiving`: the driver's loop goes on
  exchanging bytes, the firmware goes on polling the socket. Nothing is assumed of the
  chip but that a register it works on only grows, nor of arrivals.
- `System`: `WF_vars(Client)`: `recv` returns, with a datagram if there is one, and
  with a timeout otherwise; `WF_vars(GoesOn)`: the application asks a suspended
  generator for the next answer or drops it. Neither network nor device has any.
- `Discovery`: `WF_vars(Tool)`: the tool is not stopped. Neither devices nor network have any.

Deadlock is checked except in `Peripherals` and `MacEntryBackspace` (the prompt ends with
return, a script with an exception) and in `Discovery` and `DiscoveryLate`, where the runs are counted.

## Proofs

TLC checks instances; the theorems hold for all values of the constants that satisfy
the modules' assumptions. The `IInv` of each run (`ScriptInv` in `Scripts`) is the inductive
invariant that the proofs of its component use, so TLC has checked it as well. A proof that a step keeps an
invariant has a lemma or a named step per action.

| Module | Theorems | Property |
|---|---|---|
| `IostackProofs` | `TypeCorrect`, `OneReply`, `Agreement`, `MacStays` | `TypeOK`, `ExactlyOneReply`, `ConfigAgreement`, `MacPinned` |
| `IostackServiceProofs` | `Invariance`, `RepliesAnswer`, `PingsEchoed`, `RefusalsHaveNoEffect`, `AcksAreDurable` | `IInv`, `ReplyAnswersRequest`, `PingEchoed`, `RefusedWithoutEffect`, `AckedConfigDurable` |
| `IostackRefinementProofs` | `Refinement` | `ImplementsDevice` |
| `DriverProofs` | `ReadsAreNotTorn` (of `ReadSpec`) | `NotTorn` |
| | `Invariance`, `TypeCorrect`, `RingHolds`, `NeverTorn`, `ReceiveImplementsPort`, `WrittenIsSent`, `EndReports` | `IInv`, `TypeOK`, `RingHoldsQueue`, `NotTorn`, `ImplementsPort`, `SentAsWritten`, `EndReportsOwn` |
| `PeripheralsProofs` | `Invariance`, `TypeCorrect`, `DigitsKept`, `WidthIsSet`, `NumberRead`, `FreshTemperature`, `CallsEnd` | `IInv`, `TypeOK`, `NoDigitLost`, `DelayIsWidth`, `NumberIsChips`, `FreshReading`, `CallsAreShort` |
| `DiscoveryProofs` | `Invariance`, `TypeCorrect`, `ChangesComeFromRequests`, `ConfiguresAsAsked` | `IInv`, `TypeOK`, `ChangesAreAskedFor`, `ChangesAsAsked` |
| `SystemProofs` | `Invariance`, `TypeCorrect`, `ResponsesAreFruits`, `FormatsAgree`, `VerdictsFit`, `SettingsStay` | `IInv`, `TypeOK`, `ResponsesExecuted`, `NoResponseError`, `VerdictFits`, `SettingStays` |
| `ScriptsProofs` | `ScriptSafety`, `ScriptInvariance` | `IInv`, `AnyNetworkInv`, `ScriptInv` |
| | `ScriptsRunTheSystem` | `ScriptSpec => Spec`, the specification of `System` |
| | `PingToolsGoOn`, `SettingsAreDone`, `CurrentIsSetWhileLow` | `PingsGoOn`, `DoneIsSet`, `CurrentSetWhileLow` |
| | `TestScriptsLower`, `RepositoryScriptsFit` | the scripts of the repository meet the hypotheses |

**The firmware, its states** (`StateInv`). That a request is not answered twice at
`ResponseEnd` depends on what `response_state` is at every call before it, so
`ReplyInv` says, for each `pc`, which values it may have and that `sends` counts what
it claims. That the three configurations agree when a tick ends depends on which of
them are ahead at which call: `ConfigInv` says that only a register read lets the chip
differ from RAM while it replies, and only a configuration write lets the flash lag.
The MAC address in flash can only be shown to be a legitimate one if the one in RAM is
from the moment it is loaded (`MacInv`), since the flash is programmed from RAM.

**The firmware, its replies** (`IInv`). What a reply says depends on the whole service
of a request. `RequestInv` keeps the static request tied to the datagram that was
served (as far as it was copied), `WalkInv` says which commands the walk has ruled out, `EffectInv` what has
changed since the request was taken (nothing before it is decoded; a configuration
write has changed RAM, and the flash at the call that is named), and `ResponseInv`
that the response on its way is either an error without effect or the answer to the
command requested, and how much of it the transmit buffer holds. The four action
properties about replies follow at `ResponseEnd`, the only step that transmits.

**The firmware implements `Device`.** Initial states map to initial states. Most steps
map to a step of `Device` that changes nothing, some to boot steps; the step at which a
handler makes its first response call maps to `Execute`, the last response call to
`Reply`, and a power cut to `PowerCut` whatever it interrupts. `AnswerView` says how the reply that
the mapping already shows as `answer` relates to the response calls still to be made.

**The driver** (`ReadInv /\ ReceiveInv /\ TransmitInv`). `ReadInv`: a value whose high
byte is still that of the register must have been in the register when its low byte was
read, so a second read that is equal confirms the first. `ReceiveInv`: the unread cells of
the ring are the queue's frames, concatenated (`RingHoldsQueue`), and what the driver knows
so far is a part of the first of them (`TakingInv`). A datagram that arrives goes into free
cells behind the others (`PutFollows`); the header and the data are read where the first
frame lies (`FirstInRing`); RECV moves the pointer on by exactly that frame. `TransmitInv`:
between the chip's and the driver's pointer lie the parts that fitted (`PartsInv`), no flag
is set at a call's beginning, and one that is set during a call is that of the last outcome
(`FlagsInv`). That only the parts up to the first misfit are taken rests on `FitAppend`:
one part more is taken if all before it fitted and it does, and changes nothing
otherwise. Underneath are lemmas on pointers that count modulo a multiple of the ring's size
(`Wraps`, `Distances`, `Offsets`) and on concatenation. The latter is defined by recursion
over positions; what is needed of it follows from looking at the first position where it would
fail (`First`), in place of an induction.

**The board** (`MacInv /\ DelayInv /\ SerialInv /\ ThermoInv`). `MacInv`: a digit not yet
typed has no bits, except where one was taken back. `DelayInv`: the bits that have gone into
the shift register are the upper ones of the width. `SerialInv`: a transfer that begins with
the family code came from register 0, unless that byte was garbled, and what is in the
buffer is what is still to be copied. `ThermoInv` is about time: `QuietInv` bounds the age
of what a call leaves under way, so that it has arrived, or was lost, when the next call
begins; `SocketInv` says that replies to the call before lie ahead of those to the call,
and that no time of the call passes while there are any; `MeasureInv` says that during the pause any
conversion, also one that a late copy of the request is still to start, ends before the pause
does; `CallInv` that the time of a call and the retries left add up to a constant. It
needs `PauseAssumption`, that the pause of 500 ms is as long as a conversion (240 ms) and a
timeout (200 ms) together and as two timeouts. `CallsAreShort` can be so sharp because of
`SocketInv`: a stale reply is met before the first wait of the call, when the timeout
that it restarts has not begun to run.

**The discovery tool** (`IInv`). `RequestsInv`: what is under way are reads, and writes that
say what some command line made of some configuration that the device it names once had;
`RepliesInv`: what comes back are configurations devices have had, and acknowledgements.
With `PastInv`, that a device had the same MAC address in all of them, `ChangesAreAskedFor`
follows, for a write is taken by the device whose address it carries. `QuietInv` says more
of a run that began with nothing under way. `InterfaceInv`: on interfaces still to come
nothing is under way, and while the tool listens on one it is only reads and the
configurations `held` since the query. `HeldInv`: such a configuration, with the fields
replaced, is what the device's own would become, so writing it changes only the fields
asked for. Names of interfaces are assumed to differ, and so are MAC addresses.

**The client and a device** (`IInv`). A datagram with the current id is in one of six places:
requests under way, the device's inbox, its answer, its outbox, replies under way, the client's socket.
`RequestsInv` and `RepliesInv` say that a datagram with the current id, wherever it is, is the
current request or a reply `Device` gives to it; that a new call finds no datagram with its id is where
`Around` is needed. `ResultInv`, that a call never ends in `ResponseError`
and that its result fits its request, follows from this at `Judge` and `Evaluate`.
`CountInv` counts the copies: those not yet executed and the executions together are at most the
copies sent, and replies and answers taken are at most the executions. `OrderInv` is about the network that
keeps the order: requests under way are as old as their ids say, and none is older than
one already executed. `SettingStays` follows from it, because a copy that changes
the outputs after a call has returned can only be a copy of that call. The
theorems assume `Application`: the calls are ones that methods of the client make
(`IsCall`: with room for a configuration in a datagram where registers are read, and
pings that fit into the device's request), and no call is made between two answers of another
one (`Nesting`; run `SystemNested` shows what happens then).

**The scripts** (`AnyNetworkInv /\ LineInv`). `AnyNetworkInv` holds over any network.
`CallingInv`: a call in progress is the script's call at that place, and a script that
is done got a value from its last one. `PingInv`: the only exception a ping gives is
the timeout that the tools catch. `OnceInv`: a script of one call has no other request under
way, so what it set is seen at the outputs until a power cut. `ScriptsRunTheSystem` shows that
a step of a script is a step of `System` or leaves it alone, so all theorems about `System` hold of the
scripts too. `LineInv` is about the network that keeps the order. A script `LowersFirst`
if between a call that may raise the pulse line and one that selects a current there
is always one that lowers it, also around the loop (`LowBefore`); then the line
`StaysLow` from the call that lowers it to the selection, because its execution comes
after that of every copy that could still raise it. `Lowering` assumes this of the
scripts; `TestScriptsLower` shows that the LED and the
pulse test satisfy it, and `RepositoryScriptsFit` that all scripts of the
repository are such as `ScriptsAssumption` wants, as long as a ping of the client
(`MaxPayload`) fits into the device's request. `PingToolsGoOn` assumes `Verbosity = 0`,
which is what the ping tools set; `SystemVerbose` shows why.

Assumptions are named and stated in the module that declares the constants; each is what
the code or a data sheet gives: `ConstantsAssumption`, `TxBufAssumption`, `PayloadAssumption` and `ByteAssumption`
(the requests and configurations are such, a reply fits, the request holds a
configuration, words are bytes), `RxAssumption` and
`TxAssumption` (ring sizes divide the range of the pointers), `TimesAssumption` and
`PauseAssumption`, `SerialAssumption`, `DiscoveryAssumption`; `ClientAssumption`,
`SystemAssumption` and `ScriptsAssumption` (calls, configurations and scripts are such, the bounds
are numbers).

Only checked by TLC is liveness (`TickEnds`, `RxRelieved`, `CallReturns`, `FullRelieved`,
`CallEnds`, `ToolEnds`): fairness and ENABLED are beyond TLAPS. Every other property of the passing
runs is proved.

No module has a RECURSIVE operator.

## Not modelled, and why

- Reset and configuration of the W5500 and opening its socket, transfer by transfer:
  they run once, alone and in a fixed order; `Iostack` has their outcomes.
- How the command and subsystem lists are built: setup makes each call once with
  constant arguments, so there is one outcome, which `Protocol` and `Iostack` have.
- Binding the client to an interface (`iostack.py:114-128`): it cannot be reached in
  Python 3, which has no `xrange`.
- Two operators who configure a device at the same time: each of them reads, changes
  and writes the whole configuration, and nothing in the code could tell.
- The statistics of the ping tools (floating point), parsing of command lines, serial
  output and formatting: no property is about them.

## Plan

1. Done: all modules above, with their runs; the theorems listed, which cover every
   invariant, every action property and every refinement that a passing run checks.
2. Left to TLC: liveness, see above.
3. Not covered by a property: the four hazards in `PROJECT.json` that have a note in
   its place. Each would need the source to do something it does not do (look at a
   result, have a timeout, detect a concurrent change, use another formula).
