------------------------------ MODULE MCSystem ------------------------------
(* Instance of System for TLC.                                             *)
EXTENDS System

CONSTANT c1

\* The device has the MAC address 7.
MCConfig == <<1, 255, 7, 200>>
MCConfigs == {MCConfig}
ForeignConfig == <<1, 255, 8, 202>>

\* A call of each method, calls the device refuses in the name of each subsystem,
\* one for a command it does not have, one that cannot be packed, and one that
\* waits for the answers of several devices.  (With MaxRetries = 0: two are repeated.)
MCOps ==
  { LED_BUILTIN(1), LED_BUILTIN(2), LED_BUILTIN(256), READ_SERIAL_NO,
    CallOf(SYS_FLASHER, 9, <<>>, 0),
    ping(<<3, 4, 5, 6, 7>>),
    write_register(0, ForeignConfig, 0),
    read_register(0, 1), multiread_register(0, 1) }

\* A setting, and a call that waits for several answers.
MCFewOps == {LED_BUILTIN(1), multiread_register(0, 1)}

\* A broadcast read and a read for each device found.
MCNested == {multiread_register(0, 1), read_register(0, 0)}
=============================================================================
