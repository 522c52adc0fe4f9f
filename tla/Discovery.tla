------------------------------ MODULE Discovery ------------------------------
(***************************************************************************)
(* flasherctl_discover.py: on each interface of the host the tool asks all *)
(* devices for their configuration, lists what arrives until nothing does  *)
(* for a second, and sends the device that the operator named its          *)
(* configuration with the requested fields replaced.  It waits for no      *)
(* answer to that and looks at no id.  Devices are those of module Device, *)
(* as far as they read and write configurations.                           *)
(***************************************************************************)
EXTENDS Protocol, Bags

CONSTANTS
  Devices,
  FactoryConfig,   \* the configuration of each device at the beginning
  Interfaces,      \* the host's broadcast-enabled interfaces, a sequence
  Reach,           \* the devices behind each
  Arguments,       \* command lines the operator uses
  NoArg,           \* an argument left out
  MaxRuns          \* bound: runs of the tool

Names == {Interfaces[i] : i \in DOMAIN Interfaces}

\* An operator's command line; fields are those of a configuration.
Argument == [interface : Names \cup {NoArg},
             mac : Nat \cup {NoArg}, ip : Nat \cup {NoArg},
             subnet : Nat \cup {NoArg}, gateway : Nat \cup {NoArg}]

ASSUME DiscoveryAssumption ==
  /\ FactoryConfig \in [Devices -> Config]
  /\ \A d, e \in Devices : Mac(FactoryConfig[d]) = Mac(FactoryConfig[e]) => d = e
  /\ Interfaces \in Seq(Names)
  /\ \A i, j \in DOMAIN Interfaces : Interfaces[i] = Interfaces[j] => i = j
  /\ Reach \in [Names -> SUBSET Devices]
  /\ Arguments \subseteq Argument
  /\ MaxRuns \in Nat

VARIABLES
  pc,        \* of the tool: "off", "query", "listen" or "configure"
  args,      \* of this run, or the last one
  left,      \* interfaces still to visit, the current one first
  devices,   \* the list query_interface builds
  socket,    \* datagrams in the socket's receive buffer
  cfg,       \* of each device
  requests,  \* bag of requests under way, each with its destination
  replies,   \* bag of replies under way, each with the interface it is for
  runs,
  held,      \* history: configurations devices had since the current query
  past,      \* history: all configurations each device has had
  asked,     \* history: the command lines so far
  quiet      \* history: nothing of an earlier run was under way when this one began

toolVars == <<pc, args, left, devices, socket, runs, asked, quiet>>
vars == <<toolVars, cfg, requests, replies, held, past>>

Init ==
  /\ pc = "off" /\ left = <<>> /\ devices = <<>> /\ socket = <<>> /\ runs = 0
  /\ args = [interface |-> NoArg, mac |-> NoArg, ip |-> NoArg,
             subnet |-> NoArg, gateway |-> NoArg]
  /\ cfg = FactoryConfig
  /\ requests = EmptyBag /\ replies = EmptyBag
  /\ held = {} /\ past = [d \in Devices |-> {cfg[d]}] /\ asked = {} /\ quiet = TRUE
-----------------------------------------------------------------------------
\* The four slices of a datagram, whatever it is: of a short one what is there.
unpack_ethernet_configuration(data) == SubSeq(data, HeaderSize + 1, Len(data))

\* A slice past the end is empty.
Field(reply, i) == IF i \in DOMAIN reply THEN reply[i] ELSE NoArg

Given(arg, old) == IF arg = NoArg THEN old ELSE arg

\* The arguments of a command line put into a configuration.
With(a, c) == <<Given(a.gateway, c[1]), Given(a.subnet, c[2]), c[3], Given(a.ip, c[4])>>

\* Faulty: two fields change places.
UpdatedCrosswise(c) == With([args EXCEPT !.gateway = args.subnet, !.subnet = args.gateway], c)

Updated(c) == With(args, c)

\* Faulty: the first device of the list is taken.
FirstOfAll(c) == TRUE

IsNamed(c) == Field(c, 3) = args.mac

\* The first device in the list that has the address the operator named.
HasNamed == \E i \in DOMAIN devices : IsNamed(devices[i])
Named == devices[CHOOSE i \in DOMAIN devices :
                   IsNamed(devices[i]) /\ \A j \in 1..(i - 1) : ~IsNamed(devices[j])]

Read == Header(0, SYS_IOSTACK, CMD_READ_REG) \o <<REG_ETH_CFG, 0>>
Write(c) == Header(0, SYS_IOSTACK, CMD_WRITE_REG) \o <<REG_ETH_CFG, 0>> \o c

\* A broadcast on the current interface.
Broadcast(data) ==
  requests' = requests (+)
    SetToBag({[to |-> d, interface |-> Head(left), data |-> data] :
                d \in Reach[Head(left)]})
-----------------------------------------------------------------------------
(* The tool.                                                               *)

\* The operator starts a run, whatever is still under way of the earlier ones.
Start(a) ==
  /\ pc = "off" /\ runs < MaxRuns
  /\ args' = a /\ asked' = asked \cup {a}
  /\ quiet' = (requests = EmptyBag /\ replies = EmptyBag)
  /\ left' = Interfaces
  /\ pc' = IF left' = <<>> THEN "off" ELSE "query"
  /\ runs' = runs + 1
  /\ devices' = <<>>
  /\ UNCHANGED <<socket, cfg, requests, replies, held, past>>

Exit == pc' = "off" /\ UNCHANGED <<left, devices, socket>>

\* Only the interface that the operator asked for is queried.
Chosen == args.interface \in {NoArg, Head(left)}

\* prepare_socket finds no free port: the tool ends with an exception.
NoPort ==
  /\ (pc = "query" /\ Chosen) \/ pc = "configure"
  /\ Exit
  /\ UNCHANGED <<args, runs, asked, quiet, cfg, requests, replies, held, past>>

\* Faulty: the list is not cleared.
QueryKeepsList ==
  /\ pc = "query" /\ Chosen
  /\ Broadcast(Read)
  /\ socket' = <<>>
  /\ held' = {cfg[d] : d \in Devices}
  /\ pc' = "listen"
  /\ UNCHANGED <<args, left, devices, runs, asked, quiet, cfg, replies, past>>

\* query_interface: a new socket, the request.
Query ==
  /\ pc = "query" /\ Chosen
  /\ Broadcast(Read)
  /\ socket' = <<>> /\ devices' = <<>>
  /\ held' = {cfg[d] : d \in Devices}
  /\ pc' = "listen"
  /\ UNCHANGED <<args, left, runs, asked, quiet, cfg, replies, past>>

\* recv returns a datagram.
Listed ==
  /\ pc = "listen" /\ socket # <<>>
  /\ devices' = Append(devices, unpack_ethernet_configuration(Head(socket)))
  /\ socket' = Tail(socket)
  /\ UNCHANGED <<pc, args, left, runs, asked, quiet, cfg, requests, replies, held, past>>

\* On to the next interface, or the end.
NextInterface ==
  /\ left' = Tail(left)
  /\ pc' = IF Len(left) > 1 THEN "query" ELSE "off"

\* An interface is skipped.
Continue ==
  /\ pc = "query" /\ ~Chosen
  /\ NextInterface
  /\ UNCHANGED <<args, devices, socket, runs, asked, quiet, cfg, requests, replies, held, past>>

\* Faulty: asks again until the device is there.
SilenceAsksAgain ==
  /\ pc = "listen"
  /\ IF args.mac = NoArg \/ (HasNamed /\ {args.ip, args.subnet, args.gateway} = {NoArg})
     THEN NextInterface
     ELSE pc' = (IF HasNamed THEN "configure" ELSE "query") /\ UNCHANGED left
  /\ socket' = <<>>
  /\ UNCHANGED <<args, devices, runs, asked, quiet, cfg, requests, replies, held, past>>

\* recv raises: nothing came for a second, or the operator interrupts, which the
\* tool takes for the same.
Silence ==
  /\ pc = "listen"
  /\ IF /\ args.mac # NoArg /\ HasNamed
        /\ {args.ip, args.subnet, args.gateway} # {NoArg}
     THEN pc' = "configure" /\ UNCHANGED left
     ELSE NextInterface
  /\ socket' = <<>>
  /\ UNCHANGED <<args, devices, runs, asked, quiet, cfg, requests, replies, held, past>>

\* configure_device: a socket that is closed at once, one datagram.
Configure ==
  /\ pc = "configure"
  /\ Broadcast(Write(Updated(Named)))
  /\ NextInterface
  /\ UNCHANGED <<args, devices, socket, runs, asked, quiet, cfg, replies, held, past>>
-----------------------------------------------------------------------------
(* Devices and network.                                                    *)

Without(bag, e) == bag (-) SetToBag({e})

\* A device takes a request: it tells its configuration, or takes one that has
\* its own MAC address and refuses any other.
Execute(r) ==
  LET d == r.to
      c == ConfigOf(Payload(r.data))
      Reply(code, payload) ==
        replies' = replies (+) SetToBag({[interface |-> r.interface,
                     data |-> Header(r.data[1], SYS_IOSTACK, code) \o payload]}) IN
  /\ \/ /\ r.data[3] = CMD_READ_REG
        /\ Reply(CMD_READ_REG, cfg[d])
        /\ UNCHANGED cfg
     \/ /\ r.data[3] = CMD_WRITE_REG /\ Mac(c) = Mac(cfg[d])
        /\ cfg' = [cfg EXCEPT ![d] = c]
        /\ Reply(CMD_WRITE_REG, <<OKAY>>)
     \/ /\ r.data[3] = CMD_WRITE_REG /\ Mac(c) # Mac(cfg[d])
        /\ Reply(ERR_REPORT, <<INVALID_MAC>>)
        /\ UNCHANGED cfg
  /\ requests' = Without(requests, r)
  /\ held' = held \cup {cfg'[d]} /\ past' = [past EXCEPT ![d] = @ \cup {cfg'[d]}]
  /\ UNCHANGED toolVars

RequestLost(r) ==
  /\ requests' = Without(requests, r)
  /\ UNCHANGED <<toolVars, cfg, replies, held, past>>

\* A reply reaches the tool if it listens on that interface (the port is the
\* first free one, in general the same each time), or is lost.
ReplyArrives(r) ==
  /\ pc = "listen" /\ r.interface = Head(left)
  /\ socket' = Append(socket, r.data)
  /\ replies' = Without(replies, r)
  /\ UNCHANGED <<pc, args, left, devices, runs, asked, quiet, cfg, requests, held, past>>

ReplyLost(r) ==
  /\ replies' = Without(replies, r)
  /\ UNCHANGED <<toolVars, cfg, requests, held, past>>

Tool == NoPort \/ Query \/ Continue \/ Listed \/ Silence \/ Configure

Next ==
  \/ \E a \in Arguments : Start(a)
  \/ Tool
  \/ \E r \in BagToSet(requests) : Execute(r) \/ RequestLost(r)
  \/ \E r \in BagToSet(replies) : ReplyArrives(r) \/ ReplyLost(r)

Spec == Init /\ [][Next]_vars

\* The tool is not stopped.
FairSpec == Spec /\ WF_vars(Tool)
-----------------------------------------------------------------------------
\* The configuration read from a device that has c.
Answer(c) == Header(0, SYS_IOSTACK, CMD_READ_REG) \o c

\* What a device answers to a write.
Receipts == {Header(0, SYS_IOSTACK, CMD_WRITE_REG) \o <<OKAY>>,
             Header(0, SYS_IOSTACK, ERR_REPORT) \o <<INVALID_MAC>>}

\* Everything a device ever was, and every answer it may have given.
Pasts == UNION {past[d] : d \in Devices}
Answers == {Answer(c) : c \in Pasts} \cup Receipts

TypeOK ==
  /\ pc \in {"off", "query", "listen", "configure"}
  /\ args \in Argument /\ asked \subseteq Argument /\ quiet \in BOOLEAN
  /\ left \in Seq(Names) /\ (pc # "off" => left # <<>>)
  /\ \A i, j \in DOMAIN left : left[i] = left[j] => i = j
  /\ cfg \in [Devices -> Config] /\ held \subseteq Config
  /\ past \in [Devices -> SUBSET Config]
  /\ devices \in Seq({unpack_ethernet_configuration(a) : a \in Answers})
  /\ socket \in Seq(Answers) /\ (pc # "listen" => socket = <<>>)
  /\ runs \in 0..MaxRuns

\* A device's configuration only ever changes into one that it had with the fields
\* replaced that a command line naming it asked for.  So whatever is under way from
\* earlier runs, lost, late or listed by a later run, no device gets another's
\* addresses, an acknowledgement for a configuration, or in any field a value that it
\* never had and nobody asked for.
ChangesAreAskedFor ==
  [][\A d \in Devices : cfg'[d] # cfg[d] =>
       \E a \in asked, c \in past[d] : a.mac = Mac(cfg[d]) /\ cfg'[d] = With(a, c)]_vars

\* In a run that began when nothing was under way, it changes only if this command
\* line names the device, and into the one it has with exactly the requested fields
\* replaced, although interfaces may reach the same device and an earlier one's
\* datagrams arrive late.  (An old answer listed by a later run would undo a change.)
ChangesAsAsked ==
  [][quiet => \A d \in Devices :
       cfg'[d] # cfg[d] => Mac(cfg[d]) = args.mac /\ cfg'[d] = With(args, cfg[d])]_vars

\* Everything listed is the configuration of a device since the query began, as
\* the comment on the query has it.
ListedIsCurrent == \A i \in DOMAIN devices : devices[i] \in held

\* A device keeps its MAC address in all it ever was, and a write under way says
\* what some command line made of something that the device it names once was.
PastInv ==
  /\ pc # "off" => args \in asked
  /\ pc = "configure" => args.mac # NoArg /\ HasNamed
  /\ \A d \in Devices : /\ cfg[d] \in past[d]
                        /\ \A c \in past[d] : Mac(c) = Mac(FactoryConfig[d])

MadeOf(w, a, c) == a.mac = Mac(c) /\ w = With(a, c)

RequestsInv ==
  \A r \in BagToSet(requests) :
    /\ r.to \in Devices
    /\ LET w == ConfigOf(Payload(r.data))
       IN  \/ r.data = Read
           \/ /\ r.data = Write(w)
              /\ \E a \in asked, c \in Pasts : MadeOf(w, a, c)

RepliesInv == \A r \in BagToSet(replies) : r.data \in Answers

\* A write of this run sets, in the device it is meant for, the fields asked for.
IsWrite(c) ==
  /\ Mac(c) = args.mac
  /\ \A d \in Devices : Mac(cfg[d]) = Mac(c) => c = Updated(cfg[d])

\* While the tool listens, an interface carries only what the query asked for;
\* the ones it will query still carry nothing.
Later == {left[i] : i \in (IF pc = "query" THEN 1 ELSE 2)..Len(left)}

InterfaceInv ==
  pc # "off" =>
    /\ \A r \in BagToSet(requests) \cup BagToSet(replies) : r.interface \notin Later
    /\ pc = "listen" =>
         /\ \A r \in BagToSet(requests) : r.interface = Head(left) => r.data = Read
         /\ \A r \in BagToSet(replies) :
              r.interface = Head(left) => \E c \in held : r.data = Answer(c)

\* What a device had since the query began differs from what it has in no other
\* field than the ones asked for.
HeldInv ==
  pc \in {"listen", "configure"} =>
    \A c \in held, d \in Devices : Mac(c) = Mac(cfg[d]) => Updated(c) = Updated(cfg[d])

\* A run that began when nothing was under way lists only what is current.
QuietInv ==
  /\ devices \in Seq(held) /\ socket \in Seq({Answer(c) : c \in held})
  /\ \A r \in BagToSet(requests) : r.data = Read \/ IsWrite(ConfigOf(Payload(r.data)))
  /\ InterfaceInv /\ HeldInv

\* The inductive invariant.
IInv == TypeOK /\ PastInv /\ RequestsInv /\ RepliesInv /\ (quiet => QuietInv)

\* The tool comes to its end, although each datagram starts the timeout anew.
ToolEnds == pc # "off" ~> pc = "off"
=============================================================================
