------------------------------- MODULE System -------------------------------
(***************************************************************************)
(* A client and a device with a network between them that delays, reorders *)
(* and loses datagrams of both directions.  The device is the abstract one *)
(* of module Device, which the firmware implements.                        *)
(***************************************************************************)
EXTENDS IOStackClient, FiniteSets

CONSTANTS
  Ops,         \* calls the application makes
  Reorders,    \* kinds of network: whether requests overtake each other
  Configs, DefaultConfig, ConsoleMacs, Temperatures, Serials,
  iostack_max_payload_size, MemoryWords   \* of the device, see module Device

VARIABLES
  mode, cfg, stored, out, inbox, answer, outbox,   \* of the device
  replies,   \* bag of replies under way
  reorders,  \* the kind of network, which stays
  execs      \* history: times the device executed the request of this call

deviceVars == <<mode, cfg, stored, out, inbox, answer, outbox>>
othersVars == <<deviceVars, replies, reorders, execs>>
vars == <<clientVars, othersVars>>

Flasher == INSTANCE Device WITH
  Clients <- {Me},
  Requests <- {Datagram(id, o) : id \in 0..(IdMod - 1), o \in Ops}

ASSUME SystemAssumption ==
  /\ Ops \subseteq Op /\ Reorders \subseteq BOOLEAN
  /\ Configs \subseteq Config /\ DefaultConfig \in Config
  /\ ConsoleMacs \cup Temperatures \cup Serials \cup MemoryWords \subseteq Int
  /\ iostack_max_payload_size \in Nat

Init ==
  /\ ClientInit /\ Flasher!Init
  /\ replies = EmptyBag /\ reorders \in Reorders /\ execs = 0

\* Datagrams that carry an id and are still somewhere.
Around(id) ==
  \/ \E d \in BagToSet(requests) : d.data[1] = id
  \/ \E r \in BagToSet(replies) : r.data[1] = id
  \/ \E i \in DOMAIN inbox : inbox[i].data[1] = id
  \/ \E i \in DOMAIN outbox : outbox[i].data[1] = id
  \/ \E i \in DOMAIN socket : socket[i][1] = id
  \/ answer # Flasher!NoAnswer /\ answer.data[1] = id

\* The application makes a call.  No datagram outlives IdMod calls: an id comes
\* into use again only when nothing carries it any more.
Call(o) ==
  \/ /\ ~Around((request_id + 1) % IdMod)
     /\ Request(o)
     /\ execs' = 0
     /\ UNCHANGED <<deviceVars, replies, reorders>>
  \/ PackingFails(o) /\ UNCHANGED othersVars

Client == (Timeout \/ Recv) /\ UNCHANGED othersVars
GoesOn == Resume /\ UNCHANGED othersVars
GivesUp == Close /\ UNCHANGED othersVars

\* The number of calls since the one that sent a datagram; copies of one request
\* are equal, so a network that keeps the order delivers the oldest call's first.
Age(d) == (request_id - d.data[1]) % IdMod
Oldest(d) == \A e \in BagToSet(requests) : Age(e) <= Age(d)

\* A request reaches the device, or is lost.
RequestArrives(d) ==
  /\ reorders \/ Oldest(d)
  /\ Take(d)
  /\ Flasher!Arrive(d)
  /\ UNCHANGED <<replies, execs>>
RequestLost(d) == Take(d) /\ UNCHANGED <<deviceVars, replies, execs>>

Executes ==
  /\ Flasher!Execute
  /\ execs' = IF Head(inbox).data[1] = request_id THEN execs + 1 ELSE execs
  /\ UNCHANGED <<clientVars, replies>>

\* The client sends no datagram shorter than a header, so Flasher!Drop has no part.
DeviceRuns ==
  /\ \/ Flasher!Fail
     \/ \E sent \in BOOLEAN : Flasher!Reply(sent)
     \/ Flasher!Load \/ Flasher!Store \/ Flasher!Start \/ Flasher!PowerCut
  /\ UNCHANGED <<clientVars, replies, execs>>

\* A reply leaves the device, and reaches the socket or is lost.
ReplyLeaves ==
  /\ Flasher!Depart
  /\ replies' = replies (+) SetToBag({Head(outbox)})
  /\ UNCHANGED <<clientVars, execs>>
ReplyArrives(r) ==
  /\ replies' = replies (-) SetToBag({r})
  /\ Deliver(r.data)
  /\ UNCHANGED <<deviceVars, execs>>
ReplyLost(r) ==
  /\ replies' = replies (-) SetToBag({r})
  /\ UNCHANGED <<clientVars, deviceVars, execs>>

\* Network and device.
Outside ==
  /\ \/ \E d \in BagToSet(requests) : RequestArrives(d) \/ RequestLost(d)
     \/ Executes \/ DeviceRuns
     \/ ReplyLeaves
     \/ \E r \in BagToSet(replies) : ReplyArrives(r) \/ ReplyLost(r)
  /\ UNCHANGED reorders

Next == (\E o \in Ops : Call(o)) \/ Client \/ GoesOn \/ GivesUp \/ Outside

Spec == Init /\ [][Next]_vars

\* recv returns: with a datagram if there is one, else after the timeout.  The
\* application asks a suspended call for the next response, or drops it.
FairSpec == Spec /\ WF_vars(Client) /\ WF_vars(GoesOn)
-----------------------------------------------------------------------------
TypeOK ==
  /\ state \in {"idle", "waiting"}
  /\ request_id \in 0..(IdMod - 1)
  /\ op \in Ops \cup {NoOp}
  /\ trials_left \in 0..op.max_retries
  /\ yielded \in Nat /\ execs \in Nat
  /\ Len(suspended) <= 1 /\ (suspended # <<>> => state = "idle" \/ Nesting)
  /\ result \in {"none", "value", "yield", "TimeoutError", "RequestError",
                  "ResponseError", "struct.error", "TypeError"}

\* A call takes effect at most once per time it was sent, and every response it
\* hands to the application is the fruit of an execution of its own: no late
\* reply to an earlier call is taken for one, and none is used twice.
ResponsesExecuted ==
  /\ yielded <= execs
  /\ execs <= 1 + op.max_retries - trials_left

\* Client and firmware agree on the formats: whatever replies are lost, late or
\* out of order, no call ends because a response looks malformed.
NoResponseError == result # "ResponseError"

IsValid == Flasher!Valid(Datagram(request_id, op).data)
WritesConfig == op.sys = SYS_IOSTACK /\ op.code = CMD_WRITE_REG

\* A call that the device can perform is not reported as an invalid request
\* (reading the serial number may fail), one that it cannot is not reported as
\* done.  (request itself returns any response.  Whether a configuration may be
\* written depends on the device.)
VerdictFits ==
  ~WritesConfig =>
    /\ result = "RequestError" => ~IsValid \/ op.code = CMD_READ_SERIAL_NO
    /\ result = "value" => IsValid \/ op.method = "request"

\* A setting that the client reports as made stays: until the next call nothing
\* changes the outputs but a power cut, and a copy of the same request that
\* arrives after one.  Retries leave copies of earlier settings under way, so
\* this is so if the network keeps the order.
SettingStays ==
  [][ ~reorders /\ result = "value" /\ op.method = "flasher" /\ op.code \in Flasher!Setters
        /\ UNCHANGED <<request_id, result>>
      => out' \in {out, Flasher!DarkPins, Flasher!Applied(op.code, op.payload[1])} ]_vars

\* What the docstring of multiread_register promises: a reply to the request of
\* a call that waits for several answers is yielded, not skipped.
OwnRepliesYielded ==
  [][ state = "waiting" /\ state' = "waiting" /\ socket # <<>> /\ socket' = Tail(socket)
      => Id(Head(socket)) # Id(request.data) ]_vars

\* What the message at a skipped packet says: the client goes on without it.
SkippingGoesOn == result # "TypeError"

\* Every call ends, also one that waits for several answers, and although each
\* skipped reply and each response starts the timeout anew.
CallEnds == state = "waiting" ~> (state = "idle" /\ suspended = <<>>)
-----------------------------------------------------------------------------
(* The inductive invariant behind these properties, for an application that *)
(* makes no call while another one is suspended.                           *)

\* While a call waits nothing has become of it; a suspended call is the current
\* one, as it was left; and a value was a response.
CallInv ==
  /\ state = "waiting" => result = "none" /\ suspended = <<>>
  /\ suspended # <<>> =>
       suspended = << [op |-> op, request |-> request,
                       trials_left |-> trials_left, yielded |-> yielded] >>
  /\ state = "waiting" \/ suspended # <<>> =>
       op \in Ops /\ request = Datagram(request_id, op)
  /\ result = "value" => yielded > 0

\* What was sent, until it is executed: each is the request of some call, and one
\* that carries the current id is the request of the current call.
AllRequests == {Datagram(id, o) : id \in 0..(IdMod - 1), o \in Ops}
IsRequest(d) ==
  /\ d \in AllRequests
  /\ d.data[1] = request_id => d = Datagram(request_id, op)
RequestsInv ==
  /\ IsABag(requests) /\ inbox \in Seq(AllRequests)
  /\ \A d \in BagToSet(requests) : IsRequest(d)
  /\ \A i \in DOMAIN inbox : IsRequest(inbox[i])

\* The requests that the device performs in every state, and what the reply to one
\* it performs carries; and whether w is a reply it may give to a request.
Performs(data) ==
  \/ Flasher!Names(data, SYS_IOSTACK, CMD_PING)
  \/ Flasher!IsConfigRead(data)
  \/ Flasher!Sets(data)
  \/ \E code \in {CMD_START_TEMPERATURE, CMD_READ_TEMPERATURE, CMD_READ_SERIAL_NO} :
       Flasher!Bare(data, code)
Fruit(data, payload) ==
  \/ /\ Flasher!Names(data, SYS_IOSTACK, CMD_PING)
     /\ Len(Payload(data)) <= iostack_max_payload_size => payload = Payload(data)
  \/ Flasher!IsConfigRead(data) /\ Len(payload) = ConfigSize
  \/ Flasher!IsConfigWrite(data)
  \/ Flasher!Sets(data)
  \/ Flasher!Bare(data, CMD_START_TEMPERATURE)
  \/ /\ \E code \in {CMD_READ_TEMPERATURE, CMD_READ_SERIAL_NO} : Flasher!Bare(data, code)
     /\ Len(payload) = 1
Answers(w, data) ==
  \/ w \in Flasher!Errors(data) /\ ~Performs(data)
  \/ /\ w \in Flasher!FlasherErrors(data) /\ data[2] = SYS_FLASHER
     /\ ~Performs(data) \/ Flasher!Bare(data, CMD_READ_SERIAL_NO)
  \/ /\ w[2] = data[2] /\ w[3] = data[3]
     /\ Fruit(data, Payload(w))

\* What the device answered, until the client looks at it: a reply that carries the
\* current id is one the device gives to the request of the current call.
IsReply(w) ==
  /\ w \in Seq(Int) /\ Len(w) >= HeaderSize
  /\ w[1] = request_id => Answers(w, Datagram(request_id, op).data)
AllReplies == [to : {Me}, data : Seq(Int)]
RepliesInv ==
  /\ answer # Flasher!NoAnswer => answer \in AllReplies /\ IsReply(answer.data)
  /\ outbox \in Seq(AllReplies)
  /\ \A i \in DOMAIN outbox : IsReply(outbox[i].data)
  /\ IsABag(replies) /\ \A r \in BagToSet(replies) : IsReply(r.data)
  /\ socket \in Seq(Seq(Int)) /\ \A i \in DOMAIN socket : IsReply(socket[i])

\* Configurations have their size.
IsConfig(c) == c \in Seq(Int) /\ Len(c) = ConfigSize
ConfigInv == IsConfig(cfg) /\ (stored # Flasher!NoStored => IsConfig(stored))

\* What the result of a call says of its request.
ResultInv ==
  LET data == Datagram(request_id, op).data IN
  /\ result # "ResponseError"
  /\ result = "RequestError" => ~Performs(data) \/ op.code = CMD_READ_SERIAL_NO
  /\ result = "value" =>
       op.method = "request" \/ Performs(data) \/ Flasher!IsConfigWrite(data)

\* The copies of the current request and of replies to it, each counted once.
Copies(bag, id) ==
  UNION {{d} \X (1..bag[d]) : d \in {e \in BagToSet(bag) : e.data[1] = id}}
Untaken    == Copies(requests, request_id)
Unserved   == {i \in DOMAIN inbox : inbox[i].data[1] = request_id}
Unsent     == {i \in DOMAIN outbox : outbox[i].data[1] = request_id}
Travelling == Copies(replies, request_id)
Unread     == {i \in DOMAIN socket : socket[i][1] = request_id}
Answered   == IF answer # Flasher!NoAnswer /\ answer.data[1] = request_id THEN 1 ELSE 0

\* A copy of the request is sent once for the call and once for each retry, each
\* copy is executed at most once, and each execution gives at most one response.
CountInv ==
  /\ IsFiniteSet(Untaken) /\ IsFiniteSet(Travelling)
  /\ execs + Cardinality(Untaken) + Cardinality(Unserved)
       <= 1 + op.max_retries - trials_left
  /\ yielded + Answered + Cardinality(Unsent) + Cardinality(Travelling)
       + Cardinality(Unread) <= execs

\* If the network keeps the order, requests are executed in the order of their
\* calls, and after the current one no earlier one.
OrderInv ==
  ~reorders =>
    /\ \A d \in BagToSet(requests), i \in DOMAIN inbox : Age(d) <= Age(inbox[i])
    /\ \A i, j \in DOMAIN inbox : i < j => Age(inbox[j]) <= Age(inbox[i])
    /\ execs > 0 =>
         /\ \A d \in BagToSet(requests) : d.data[1] = request_id
         /\ \A i \in DOMAIN inbox : inbox[i].data[1] = request_id

IInv ==
  /\ TypeOK /\ CallInv /\ RequestsInv /\ RepliesInv /\ ConfigInv /\ ResultInv
  /\ CountInv /\ OrderInv
=============================================================================
