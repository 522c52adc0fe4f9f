---------------------------- MODULE MCDiscovery ----------------------------
(* Instance of Discovery for TLC.                                          *)
EXTENDS Discovery, TLC

CONSTANTS d1, d2

\* Two devices with different addresses in every field, except that both have
\* the default subnet mask.
MCDevices == {d1, d2}
MCFactoryConfig == (d1 :> <<1, 255, 7, 201>>) @@ (d2 :> <<2, 255, 8, 202>>)

\* Both interfaces reach the first device.
MCInterfaces == <<"eth0", "eth1">>
MCReach == [eth0 |-> {d1, d2}, eth1 |-> {d1}]

Args(interface, mac, ip, subnet, gateway) ==
  [interface |-> interface, mac |-> mac, ip |-> ip, subnet |-> subnet,
   gateway |-> gateway]

\* Discover only; new addresses, of different fields, for a device that both interfaces
\* reach, and for the other.
MCArguments ==
  { Args("eth1", NoArg, NoArg, NoArg, NoArg),
    Args(NoArg, 7, 203, NoArg, NoArg),
    Args("eth1", 7, NoArg, 254, 3),
    Args("eth0", 8, 204, NoArg, 4) }
=============================================================================
