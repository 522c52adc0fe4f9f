----------------------------- MODULE MCScripts ------------------------------
(* Instance of Scripts for TLC.                                            *)
EXTENDS Scripts, Functions

CONSTANT c1

MCConfig == <<1, 255, 7, 200>>
MCConfigs == {MCConfig}

\* Scripts that end by themselves, with legal and illegal values and one that is
\* no byte; scripts that read for ever; and the ping tool.
MCScripts ==
  { flasherctl_set_LED_current(15), flasherctl_set_LED_current(16),
    flasherctl_set_LED_current(256), flasherctl_blink(1), flasherctl_test_pulse(2),
    flasherctl_set_pulse_width(255), flasherctl_read_serial_no,
    flasherctl_read_temperature, blink, read_temperature, read_serial_number,
    flasherctl_ping(-1), flasherctl_ping(1), flasherctl_ping(9) }

\* The scripts that drive the outputs for ever.
MCPulseScripts == {test_LED, test_pulses}

MCScriptOps ==
  UNION {UNION Range(s.first \o s.loop) : s \in MCScripts \cup MCPulseScripts}
=============================================================================
