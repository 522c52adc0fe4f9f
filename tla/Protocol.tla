------------------------------ MODULE Protocol ------------------------------
(***************************************************************************)
(* The vocabulary of the UDP request/response protocol shared by the       *)
(* firmware (flasherctl/*.h, iostack.cpp, flasherctl.ino) and the Python   *)
(* client (utils/iostack.py, utils/flasherctl.py).                         *)
(*                                                                         *)
(* A datagram is a sequence of words, one word per field of the packed     *)
(* structs: <<id, subsystem, code>> is the 5 byte header, the rest is the  *)
(* payload.  A field the code takes apart byte by byte (the register       *)
(* number of a register access) is one word per byte; an Ethernet          *)
(* configuration is its four fields.                                       *)
(***************************************************************************)
EXTENDS Integers, Sequences

SYS_IOSTACK == 0
SYS_FLASHER == 2

CMD_READ_REG  == 0
CMD_WRITE_REG == 1
CMD_PING      == 2
ERR_REPORT    == 255          \* what iostack_send_error puts in the code field

CMD_LED_BUILTIN           == 0
CMD_START_TEMPERATURE     == 1
CMD_READ_TEMPERATURE      == 2
CMD_READ_SERIAL_NO        == 3
CMD_SET_LED_CURRENT       == 4
CMD_SET_PULSE_WIDTH       == 5
CMD_TEST_PULSE            == 6
CMD_REPORT_FLASHERCTL_ERR == 65535

OKAY              == 0
UNKNOWN_SUBSYSTEM == 1
UNKNOWN_COMMAND   == 2
INVALID_SIZE      == 3
INVALID_REGISTER  == 4
INVALID_MAC       == 5

FLASHER_EBVALUE   == 1
FLASHER_ESERIALNO == 2

REG_ETH_CFG == 0

\* Words of the header, and of a struct w5500_config.
HeaderSize == 3
ConfigSize == 4

\* The command tables, in the order of their initialisers.
iostack_cmds == <<CMD_READ_REG, CMD_WRITE_REG, CMD_PING>>
flasher_cmds == <<CMD_LED_BUILTIN, CMD_START_TEMPERATURE, CMD_READ_TEMPERATURE,
                  CMD_READ_SERIAL_NO, CMD_SET_LED_CURRENT, CMD_SET_PULSE_WIDTH,
                  CMD_TEST_PULSE>>

\* The registered subsystems and the table of each.
Subsystems == {SYS_IOSTACK, SYS_FLASHER}
CmdsOf(sys) == IF sys = SYS_IOSTACK THEN iostack_cmds ELSE flasher_cmds

\* The payload size each flasher handler insists on.
FlasherPayloadSize(code) ==
  IF code \in {CMD_START_TEMPERATURE, CMD_READ_TEMPERATURE, CMD_READ_SERIAL_NO}
  THEN 0 ELSE 1

\* A struct w5500_config: gateway, subnet mask, MAC address, IP address.
Config == Nat \X Nat \X Nat \X Nat
Mac(cfg) == cfg[3]
WithMask(cfg, mask) == <<cfg[1], mask, cfg[3], cfg[4]>>
WithMac(cfg, mac)   == <<cfg[1], cfg[2], mac, cfg[4]>>

\* The configuration in the payload of a register write, after the register.
ConfigOf(payload) == <<payload[3], payload[4], payload[5], payload[6]>>

Header(id, sys, code) == <<id, sys, code>>

\* Faulty: one word too early, the payload starts with the command code.
PayloadFromCode(data) == SubSeq(data, HeaderSize, Len(data))

Payload(data) == SubSeq(data, HeaderSize + 1, Len(data))

\* Faulty: the last word that fits is left out.
FoundButOne(p, room, memory) ==
  IF Len(p) < room THEN {p}
  ELSE {SubSeq(p, 1, room - 1) \o m : m \in [1..(Len(p) - room + 1) -> memory]}

\* The Len(p) words found where p was copied to a place with room for that many:
\* after those that fit comes whatever the memory behind the place holds.
Found(p, room, memory) ==
  IF Len(p) <= room THEN {p}
  ELSE {SubSeq(p, 1, room) \o m : m \in [1..(Len(p) - room) -> memory]}
=============================================================================
