----------------------------- MODULE Peripherals -----------------------------
(***************************************************************************)
(* The operator's prompt and the chips of the flasher board: MAC address,  *)
(* delay line, serial number chip, thermometer.  They share no state, and  *)
(* the firmware is in one handler at a time, so a behaviour exercises one  *)
(* of them, chosen at the beginning.                                       *)
(***************************************************************************)
EXTENDS MacEntry, DelayLine, SerialNo, Thermometer

VARIABLE part

vars == <<part, macVars, delayVars, serialVars, thermoVars>>

\* What a part that is not exercised starts from is not varied.
Init ==
  /\ part \in {"mac", "delay", "serial", "thermo"}
  /\ MacInit
  /\ DelayInit /\ (part # "delay" => shift = [b \in Bits |-> 0] /\ delay = shift)
  /\ SerialInit
  /\ part # "serial" => /\ rom = [r \in Registers |-> Family] /\ pointer = 0
  /\ ThermoInit

In(p, others) == part = p /\ UNCHANGED part /\ UNCHANGED others

Next ==
  \/ MacNext /\ In("mac", <<delayVars, serialVars, thermoVars>>)
  \/ DelayNext /\ In("delay", <<macVars, serialVars, thermoVars>>)
  \/ SerialNext /\ In("serial", <<macVars, delayVars, thermoVars>>)
  \/ ThermoNext /\ In("thermo", <<macVars, delayVars, serialVars>>)

Spec == Init /\ [][Next]_vars
-----------------------------------------------------------------------------
\* Positions, counters and buffers stay in their ranges.
TypeOK == MacTypeOK /\ DelayTypeOK /\ SerialTypeOK /\ ThermoTypeOK

\* The inductive invariants of the parts, each with the type invariant of its own.
IInv == MacInv /\ DelayInv /\ SerialInv /\ ThermoInv
=============================================================================
