------------------------- MODULE IostackRefinement -------------------------
(***************************************************************************)
(* The firmware implements Device.  A request takes effect, for a client,  *)
(* at the call that makes it irrevocable: a configuration write when the   *)
(* flash has been programmed, any other request when its handler runs.     *)
(* The reply exists from then on, however far the response calls are.      *)
(***************************************************************************)
EXTENDS Iostack

\* A payload of one word is one byte.
ASSUME ByteAssumption ==
  \A r \in Requests : Len(r.data) = HeaderSize + 1 => r.data[HeaderSize + 1] <= 255

\* The request has been taken from the chip and not taken effect.
Undecided == Undecoded \cup Writing \cup {"fault"}

\* The reply the response calls are about to send, given how far they are.
PendingReply ==
  CASE pc = "begin" -> Header(request.id, request.sys, resp.code) \o resp.data
    [] pc = "write" -> txbuf \o resp.data
    [] pc = "end"   -> txbuf
    [] pc = "return" -> Header(request.id, SYS_IOSTACK, ERR_REPORT) \o <<rc>>

\* An error that RegisterWrite has sent is returned, but not sent again.
Pending ==
  \/ pc \in Replying /\ request.response_state # 2
  \/ pc = "return" /\ rc # OKAY /\ request.response_state # 2

\* The state of the device, as the firmware has it.
serviceMode == IF pc \in Booting THEN "off" ELSE IF pc = "fault" THEN "failed" ELSE "on"
serviceCfg == IF pc \in Writing THEN before.ram ELSE ram
serviceStored ==
  IF pc = "program" THEN before.ram ELSE IF flash.valid THEN flash.cfg ELSE <<>>
serviceInbox == IF pc \in Undecided THEN <<served>> \o rx ELSE rx
serviceAnswer ==
  IF Pending THEN [to |-> request.from, data |-> PendingReply] ELSE <<>>

Service == INSTANCE Device WITH
  mode <- serviceMode, cfg <- serviceCfg, stored <- serviceStored, out <- out,
  inbox <- serviceInbox, answer <- serviceAnswer, outbox <- tx

\* Every behaviour of the firmware is one of Device: requests take effect one
\* at a time and completely, in the order they arrived, with one reply each.
ImplementsDevice == Service!Spec
=============================================================================
