----------------------------- MODULE Thermometer -----------------------------
(***************************************************************************)
(* Reading the temperature, in time: the scripts start a conversion of the *)
(* ADT7310, sleep half a second, and read its register, over a network of  *)
(* bounded delay that loses datagrams.  The clock ticks every 20 ms; an    *)
(* id tells replies apart, as module System has it.                        *)
(***************************************************************************)
EXTENDS Integers, Sequences

CONSTANTS
  Repeats,      \* read_temperature.py repeats, flasherctl_read_temperature.py does not
  RecvTimeout,  \* timeout of the socket, 200 ms
  Sleep,        \* time.sleep(0.5)
  Conversion,   \* the ADT7310 takes 240 ms
  max_retries,
  MaxDelay,     \* bound: of a datagram under way
  IdMod         \* bound: ids

ASSUME TimesAssumption ==
  /\ {RecvTimeout, Sleep, Conversion, MaxDelay, max_retries} \subseteq Nat
  /\ RecvTimeout > MaxDelay   \* no two copies of a request are under way
  /\ IdMod \in Nat \ {0, 1} /\ Repeats \in BOOLEAN

\* 500 ms are more than 240 ms and 200 ms, and than twice 200 ms.
ASSUME PauseAssumption ==
  /\ Conversion > 0
  /\ Sleep >= Conversion + RecvTimeout /\ Sleep >= 2 * RecvTimeout

VARIABLES
  script_pc,    \* "start", "read": about to call; "starting", "reading": in recv;
                \* "sleep", "rest": in time.sleep; "ended"
  request_id, trials_left,
  timer,        \* ticks until recv or sleep returns
  elapsed,      \* history: ticks since the call began
  requests, replies,   \* under way, with their ages
  socket,       \* replies in the client's UDP socket, in the order of arrival
  busy,         \* ticks until the conversion is over, 0 when there is none
  current,      \* history: it began after _START_TEMPERATURE of this round was called
  fresh,        \* history: so did the one whose result the register holds
  reading       \* history: what the script got in this round

clientVars == <<script_pc, request_id, trials_left, timer, elapsed>>
sensorVars == <<busy, current, fresh>>
thermoVars == <<clientVars, requests, replies, socket, sensorVars, reading>>

ThermoInit ==
  /\ script_pc = "start" /\ request_id = 0 /\ trials_left = 0 /\ timer = 0 /\ elapsed = 0
  /\ requests = {} /\ replies = {} /\ socket = <<>>
  /\ busy = 0 /\ current = FALSE /\ fresh = FALSE
  /\ reading = "none"
-----------------------------------------------------------------------------
(* The script.                                                             *)

InCall == script_pc \in {"starting", "reading"}

Send(id) ==
  requests' = requests \cup
    {[id |-> id, cmd |-> IF script_pc \in {"start", "starting"} THEN "START" ELSE "READ",
      age |-> 0]}

Begin(next) ==
  /\ request_id' = (request_id + 1) % IdMod
  /\ Send(request_id')
  /\ trials_left' = max_retries /\ timer' = RecvTimeout /\ elapsed' = 0
  /\ script_pc' = next
  /\ UNCHANGED <<replies, socket, busy>>

\* A round begins: no measurement of it has been made yet.
START_TEMPERATURE ==
  /\ script_pc = "start"
  /\ Begin("starting")
  /\ current' = FALSE /\ fresh' = FALSE /\ reading' = "none"

READ_TEMPERATURE ==
  /\ script_pc = "read"
  /\ Begin("reading")
  /\ UNCHANGED <<current, fresh, reading>>

\* Faulty: a request is repeated as long as there is no answer.
TimeoutForEver ==
  /\ InCall /\ socket = <<>> /\ timer = 0
  /\ Send(request_id) /\ timer' = RecvTimeout
  /\ UNCHANGED <<script_pc, request_id, trials_left, elapsed, replies, socket, sensorVars,
                 reading>>

\* recv has found nothing in the socket until its time was over.
Timeout ==
  /\ InCall /\ socket = <<>> /\ timer = 0
  /\ IF trials_left > 0
     THEN Send(request_id) /\ trials_left' = trials_left - 1 /\ timer' = RecvTimeout
            /\ UNCHANGED script_pc
     ELSE script_pc' = "ended" /\ UNCHANGED <<requests, trials_left, timer>>
  /\ UNCHANGED <<request_id, elapsed, replies, socket, sensorVars, reading>>

\* Faulty: the conversion time is thought to be enough.
PauseOfConversion == Conversion

Pause == Sleep

\* After the pause the script reads, or begins again.
Awake ==
  /\ script_pc \in {"sleep", "rest"} /\ timer = 0
  /\ script_pc' = IF script_pc = "sleep" THEN "read" ELSE "start"
  /\ UNCHANGED <<request_id, trials_left, timer, elapsed, requests, replies, socket,
                 sensorVars, reading>>

\* A reply that the call does not wait for is skipped, and recv starts anew; with
\* verbosity, which read_temperature.py sets, Python 3 fails to announce it (see
\* SkippingGoesOn of System) and the script ends.
Skipped ==
  /\ \/ timer' = RecvTimeout /\ UNCHANGED script_pc
     \/ Repeats /\ script_pc' = "ended" /\ UNCHANGED timer
  /\ UNCHANGED reading

Returned(r) ==
  IF script_pc = "starting"
  THEN script_pc' = "sleep" /\ timer' = Pause /\ UNCHANGED reading
  ELSE /\ reading' = IF r.fresh THEN "fresh" ELSE "stale"
       /\ IF Repeats THEN script_pc' = "rest" /\ timer' = Sleep
                     ELSE script_pc' = "ended" /\ UNCHANGED timer

\* Faulty: whatever the socket holds is taken for the reply.
RecvAny ==
  /\ InCall /\ socket # <<>>
  /\ Returned(Head(socket))
  /\ socket' = Tail(socket)
  /\ UNCHANGED <<request_id, trials_left, elapsed, requests, replies, sensorVars>>

\* recv returns the oldest packet of the socket, at once if there is one: also one
\* that came while the script slept, when nothing reads the socket.
Recv ==
  /\ InCall /\ socket # <<>>
  /\ IF Head(socket).id = request_id THEN Returned(Head(socket)) ELSE Skipped
  /\ socket' = Tail(socket)
  /\ UNCHANGED <<request_id, trials_left, elapsed, requests, replies, sensorVars>>
-----------------------------------------------------------------------------
(* The sensor and the network.                                             *)

\* Whether a start during a conversion restarts it is left open.
RequestArrives(r) ==
  /\ requests' = requests \ {r}
  /\ replies' = replies \cup {[id |-> r.id, age |-> 0, fresh |-> r.cmd = "READ" /\ fresh]}
  /\ \/ /\ r.cmd = "START"
        /\ busy' = Conversion /\ current' = TRUE
     \/ /\ r.cmd = "READ" \/ busy > 0
        /\ UNCHANGED <<busy, current>>
  /\ UNCHANGED <<clientVars, socket, fresh, reading>>

\* A reply reaches the socket, whatever the script is doing.
ReplyArrives(r) ==
  /\ replies' = replies \ {r}
  /\ socket' = Append(socket, [id |-> r.id, fresh |-> r.fresh])
  /\ UNCHANGED <<clientVars, requests, sensorVars, reading>>

Lost ==
  /\ \/ \E r \in requests : requests' = requests \ {r} /\ UNCHANGED replies
     \/ \E r \in replies : replies' = replies \ {r} /\ UNCHANGED requests
  /\ UNCHANGED <<clientVars, socket, sensorVars, reading>>

Older(packets) == {[p EXCEPT !.age = @ + 1] : p \in packets}

\* Time passes unless something is due: recv does not wait while the socket holds
\* a packet.
Tick ==
  /\ timer > 0 /\ script_pc # "ended"
  /\ InCall => socket = <<>>
  /\ \A p \in requests \cup replies : p.age < MaxDelay
  /\ timer' = timer - 1
  /\ elapsed' = IF InCall THEN elapsed + 1 ELSE 0
  /\ requests' = Older(requests) /\ replies' = Older(replies)
  /\ busy' = IF busy > 0 THEN busy - 1 ELSE 0
  /\ fresh' = IF busy = 1 THEN current ELSE fresh
  /\ UNCHANGED <<script_pc, request_id, trials_left, socket, current, reading>>

ThermoNext ==
  \/ START_TEMPERATURE \/ READ_TEMPERATURE \/ Timeout \/ Recv \/ Awake
  \/ \E r \in requests : RequestArrives(r)
  \/ \E r \in replies : ReplyArrives(r)
  \/ Lost \/ Tick

ThermoSpec == ThermoInit /\ [][ThermoNext]_thermoVars
-----------------------------------------------------------------------------
Ages == 0..MaxDelay
Ids == 0..(IdMod - 1)

ThermoTypeOK ==
  /\ script_pc \in {"start", "starting", "sleep", "read", "reading", "rest", "ended"}
  /\ request_id \in Ids /\ trials_left \in 0..max_retries
  /\ timer \in 0..Sleep /\ elapsed \in Nat
  /\ requests \subseteq [id : Ids, cmd : {"START", "READ"}, age : Ages]
  /\ replies \subseteq [id : Ids, age : Ages, fresh : BOOLEAN]
  /\ socket \in Seq([id : Ids, fresh : BOOLEAN])
  /\ busy \in 0..Conversion /\ current \in BOOLEAN /\ fresh \in BOOLEAN
  /\ reading \in {"none", "fresh", "stale"}

\* The temperature that a script prints was measured after it asked for a
\* measurement: the pause covers the conversion also when a retry, still under
\* way when the first answer came, starts it anew.
FreshReading == reading # "stale"

\* A call is over in the time its retries take, although each reply to an earlier
\* call that it meets starts the timeout anew: the pause is long enough for all of
\* them to be in the socket before the call begins, so they take it no time.
CallsAreShort == elapsed <= (1 + max_retries) * RecvTimeout

\* What the network holds belongs to the last call: what was under way in the pause
\* has arrived, or was lost, by its end.
QuietInv ==
  /\ \A p \in requests \cup replies : p.id = request_id
  /\ script_pc \in {"sleep", "rest"} =>
       /\ \A p \in requests : 2 * MaxDelay < timer + p.age
       /\ \A p \in replies : MaxDelay < timer + p.age
  /\ script_pc \in {"start", "read"} => requests = {} /\ replies = {}

\* The replies to the call before wait in the socket, ahead of those to the call;
\* while it holds one of them no time of the call has passed.
SocketInv ==
  /\ ~InCall /\ script_pc # "ended" =>
       \A i \in DOMAIN socket : socket[i].id = request_id
  /\ \A i, j \in DOMAIN socket :
       i < j /\ socket[i].id = request_id => socket[j].id = request_id
  /\ InCall /\ (\E i \in DOMAIN socket : socket[i].id # request_id)
       => timer = RecvTimeout /\ trials_left = max_retries

\* The time of a call is the timeouts it has used up.
CallInv ==
  InCall => elapsed + timer + trials_left * RecvTimeout = (1 + max_retries) * RecvTimeout

\* An answered start has begun a conversion, and one that a copy under way may
\* begin anew is over before the pause is.
MeasureInv ==
  /\ script_pc = "start" => busy = 0
  /\ script_pc = "starting" =>
       /\ \A p \in requests : p.cmd = "START"
       /\ replies # {} \/ (\E i \in DOMAIN socket : socket[i].id = request_id) => current
       /\ current => fresh \/ busy > 0
       /\ busy > 0 => current
  /\ script_pc \in {"sleep", "rest"} =>
       /\ busy <= timer
       /\ \A p \in requests : MaxDelay + Conversion <= timer + p.age
  /\ script_pc = "sleep" => current /\ (fresh \/ busy > 0)
  /\ script_pc \in {"read", "reading"} => current /\ fresh
  /\ script_pc = "reading" => /\ \A p \in requests : p.cmd = "READ"
                              /\ \A p \in replies : p.fresh
                              /\ \A i \in DOMAIN socket :
                                   socket[i].id = request_id => socket[i].fresh

\* The inductive invariant.
ThermoInv ==
  /\ ThermoTypeOK /\ FreshReading /\ CallsAreShort
  /\ QuietInv /\ SocketInv /\ CallInv /\ MeasureInv
=============================================================================
