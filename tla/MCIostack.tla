----------------------------- MODULE MCIostack -----------------------------
(* Instance of Iostack and its refinement for TLC.                         *)
EXTENDS IostackRefinement

CONSTANTS c1, c2

MCClients == {c1, c2}
OldConfig == <<1, 255, 7, 200>>
AltConfig == <<1, 255, 7, 201>>      \* same device, new IP address
ForeignConfig == <<1, 255, 8, 202>>  \* another device's MAC address
MCDefaultConfig == <<1, 255, 0, 200>>

Req(c, id, sys, code, payload) ==
  [from |-> c, data |-> Header(id, sys, code) \o payload]

\* One request per handler, and per reason for which it refuses; and a ping that
\* is longer than the static request.
MCRequests ==
  { [from |-> c2, data |-> <<9>>],
    Req(c2, 9, 1, 0, <<>>),
    Req(c2, 9, SYS_IOSTACK, 9, <<>>),
    Req(c1, 5, SYS_IOSTACK, CMD_PING, <<3, 4>>),
    Req(c2, 6, SYS_IOSTACK, CMD_PING, <<>>),
    Req(c1, 5, SYS_IOSTACK, CMD_PING, <<3, 4, 3, 4, 3, 4, 3, 4>>),
    Req(c1, 5, SYS_IOSTACK, CMD_READ_REG, <<0, 0>>),
    Req(c2, 6, SYS_IOSTACK, CMD_READ_REG, <<0>>),
    Req(c2, 6, SYS_IOSTACK, CMD_READ_REG, <<0, 1>>),
    Req(c1, 5, SYS_IOSTACK, CMD_WRITE_REG, <<0, 0>> \o AltConfig),
    Req(c1, 5, SYS_IOSTACK, CMD_WRITE_REG, <<0, 0>> \o ForeignConfig),
    Req(c2, 6, SYS_IOSTACK, CMD_WRITE_REG, <<0, 0>>),
    Req(c2, 6, SYS_IOSTACK, CMD_WRITE_REG, <<1, 0, 0>>),
    Req(c2, 6, SYS_IOSTACK, CMD_WRITE_REG, <<0, 0, 0>>),
    Req(c1, 5, SYS_FLASHER, CMD_LED_BUILTIN, <<1>>),
    Req(c2, 6, SYS_FLASHER, CMD_LED_BUILTIN, <<2>>),
    Req(c1, 5, SYS_FLASHER, CMD_START_TEMPERATURE, <<>>),
    Req(c1, 5, SYS_FLASHER, CMD_READ_TEMPERATURE, <<>>),
    Req(c2, 6, SYS_FLASHER, CMD_READ_TEMPERATURE, <<1>>),
    Req(c1, 5, SYS_FLASHER, CMD_READ_SERIAL_NO, <<>>),
    Req(c1, 5, SYS_FLASHER, CMD_SET_LED_CURRENT, <<15>>),
    Req(c2, 6, SYS_FLASHER, CMD_SET_LED_CURRENT, <<16>>),
    Req(c1, 5, SYS_FLASHER, CMD_SET_PULSE_WIDTH, <<255>>),
    Req(c1, 5, SYS_FLASHER, CMD_TEST_PULSE, <<2>>),
    Req(c2, 6, SYS_FLASHER, CMD_TEST_PULSE, <<3>>) }

\* For the refinement: without the requests that only differ from another one
\* by the reason for which they are refused, or by which output they set.
MCServiceRequests == MCRequests \
  { Req(c2, 6, SYS_IOSTACK, CMD_PING, <<>>),
    Req(c2, 6, SYS_IOSTACK, CMD_READ_REG, <<0, 1>>),
    Req(c2, 6, SYS_IOSTACK, CMD_WRITE_REG, <<1, 0, 0>>),
    Req(c2, 6, SYS_IOSTACK, CMD_WRITE_REG, <<0, 0, 0>>),
    Req(c1, 5, SYS_FLASHER, CMD_START_TEMPERATURE, <<>>),
    Req(c2, 6, SYS_FLASHER, CMD_READ_TEMPERATURE, <<1>>),
    Req(c2, 6, SYS_FLASHER, CMD_SET_LED_CURRENT, <<16>>),
    Req(c1, 5, SYS_FLASHER, CMD_SET_PULSE_WIDTH, <<255>>),
    Req(c2, 6, SYS_FLASHER, CMD_TEST_PULSE, <<3>>) }

\* A few requests, one of them with an unknown command.
MCFewRequests ==
  { [from |-> c2, data |-> <<9>>],
    Req(c2, 9, SYS_IOSTACK, 9, <<>>),
    Req(c1, 5, SYS_IOSTACK, CMD_READ_REG, <<0, 0>>),
    Req(c1, 5, SYS_IOSTACK, CMD_WRITE_REG, <<0, 0>> \o ForeignConfig) }

MCConfigs == {OldConfig}
=============================================================================
