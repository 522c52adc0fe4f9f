------------------------------- MODULE Scripts -------------------------------
(***************************************************************************)
(* The command line scripts on top of the client: each makes its calls one *)
(* after the other, once or for ever, and is ended by the first exception  *)
(* it does not catch, or by the operator.                                  *)
(***************************************************************************)
EXTENDS System

CONSTANTS
  ScriptsRun,        \* the scripts to run, one of them per behaviour
  ScriptsInOrder,    \* those to run over a network that keeps the order
  PingWords,         \* words of a ping's random payload
  MaxCalls,          \* bound: calls of a script
  MaxCallsInOrder    \* and of one over a network that keeps the order

\* A script: calls made once, calls repeated for ever (each chosen from a set,
\* where it is random), and exceptions after which it starts the loop anew.
Script(first, loop, caught) == [first |-> first, loop |-> loop, caught |-> caught]

Once(o) == <<{o}>>

blink == Script(<<>>, Once(LED_BUILTIN(1)) \o Once(LED_BUILTIN(0)), {})
read_temperature ==
  Script(<<>>, Once(START_TEMPERATURE) \o Once(READ_TEMPERATURE), {})
read_serial_number == Script(<<>>, Once(READ_SERIAL_NO), {})
test_LED ==
  Script(Once(TEST_PULSE(0)) \o Once(SET_PULSE_WIDTH(255)),
         [i \in 1..48 |-> CASE i % 3 = 1 -> {SET_LED_CURRENT(i \div 3)}
                            [] i % 3 = 2 -> {TEST_PULSE(1)}
                            [] i % 3 = 0 -> {TEST_PULSE(0)}],
         {})
test_pulses == Script(<<>>, Once(TEST_PULSE(0)) \o Once(TEST_PULSE(1)), {})

flasherctl_blink(on_off)          == Script(Once(LED_BUILTIN(on_off)), <<>>, {})
flasherctl_test_pulse(on_off)     == Script(Once(TEST_PULSE(on_off)), <<>>, {})
flasherctl_set_LED_current(value) == Script(Once(SET_LED_CURRENT(value)), <<>>, {})
flasherctl_set_pulse_width(width) == Script(Once(SET_PULSE_WIDTH(width)), <<>>, {})
flasherctl_read_serial_no         == Script(Once(READ_SERIAL_NO), <<>>, {})
flasherctl_read_temperature ==
  Script(Once(START_TEMPERATURE) \o Once(READ_TEMPERATURE), <<>>, {})

\* The ping tools: a payload of the given length, random for each ping.
ping_tool(length) ==
  Script(<<>>, <<{ping(payload) : payload \in [1..length -> PingWords]}>>, {"TimeoutError"})
\* The length from the command line is brought into the range a reply can have.
flasherctl_ping(s) ==
  ping_tool(IF s < 0 THEN 0 ELSE IF s > MaxPayload THEN MaxPayload ELSE s)

CallsOf(s) == s.first \o s.loop

\* What is common to the scripts: only the ping tools, which make no other call, go
\* on after an exception; and one that ends with a setting makes that call only.
IsScript(s) ==
  LET calls == CallsOf(s) IN
  /\ calls # <<>>
  /\ s.caught # {} =>
       /\ s.loop # <<>> /\ "TimeoutError" \in s.caught
       /\ \A i \in DOMAIN calls : \A o \in calls[i] : o.method = "ping" /\ ~o.broadcast
  /\ s.loop = <<>> => \A o \in calls[Len(calls)] :
       o.code \in Flasher!Setters => Len(calls) = 1 /\ o.method = "flasher"

ASSUME ScriptsAssumption ==
  /\ MaxCalls \in Nat /\ MaxCallsInOrder \in Nat
  /\ \A s \in ScriptsRun \cup ScriptsInOrder :
       s.first \in Seq(SUBSET Ops) /\ s.loop \in Seq(SUBSET Ops) /\ IsScript(s)
-----------------------------------------------------------------------------
VARIABLES
  script,    \* the script that runs
  at,        \* its current call
  calling,   \* between the start of that call and the look at its result
  nsent,     \* calls begun
  nrecvd,    \* calls that returned
  ended      \* "no", "done", "exception" or "interrupt"

scriptVars == <<script, at, calling, nsent, nrecvd, ended>>
allVars == <<vars, scriptVars>>

Calls == CallsOf(script)

ScriptInit ==
  /\ Init
  /\ script \in (IF reorders THEN ScriptsRun ELSE ScriptsInOrder) /\ at = 1 /\ calling = FALSE
  /\ nsent = 0 /\ nrecvd = 0 /\ ended = "no"

MostCalls == IF reorders THEN MaxCalls ELSE MaxCallsInOrder

NextCall ==
  /\ ended = "no" /\ ~calling /\ nsent < MostCalls
  /\ \E o \in Calls[at] : Call(o)
  /\ calling' = TRUE /\ nsent' = nsent + 1
  /\ UNCHANGED <<script, at, nrecvd, ended>>

\* After the last call a script is done, or begins its loop again.
Returned ==
  /\ nrecvd' = nrecvd + 1
  /\ IF at < Len(Calls) THEN at' = at + 1 /\ UNCHANGED ended
     ELSE IF script.loop = <<>> THEN ended' = "done" /\ UNCHANGED at
     ELSE at' = Len(script.first) + 1 /\ UNCHANGED ended

Raised ==
  /\ IF result \in script.caught
     THEN at' = Len(script.first) + 1 /\ UNCHANGED ended
     ELSE ended' = "exception" /\ UNCHANGED at
  /\ UNCHANGED nrecvd

CallReturns ==
  /\ ended = "no" /\ calling /\ state = "idle"
  /\ calling' = FALSE
  /\ IF result = "value" THEN Returned ELSE Raised
  /\ UNCHANGED <<vars, script, nsent>>

\* The operator ends it, in a call or between two.
Interrupt ==
  /\ ended = "no"
  /\ ended' = "interrupt"
  /\ UNCHANGED <<vars, script, at, calling, nsent, nrecvd>>

ScriptNext ==
  \/ NextCall \/ CallReturns \/ Interrupt
  \/ ended = "no" /\ Client /\ UNCHANGED scriptVars
  \/ Outside /\ UNCHANGED scriptVars

ScriptSpec == ScriptInit /\ [][ScriptNext]_allVars
-----------------------------------------------------------------------------
\* A ping tool counts lost pings and goes on: no late answer to a ping that it
\* gave up, whose payload differs, ends it with an exception.
PingsGoOn == script.caught # {} => ended # "exception"

\* A setting script that ends without an exception has set its value, which is a
\* legal one; only a power cut takes it away.
DoneIsSet ==
  ended = "done" /\ op.code \in Flasher!Setters =>
    /\ op.payload[1] \in 0..Flasher!Largest(op.code)
    /\ out \in {Flasher!DarkPins, Flasher!Applied(op.code, op.payload[1])}

\* test_LED lowers the test pulse line before it selects the next LED current:
\* the current never changes while the line is high, whatever is repeated or
\* lost, if the network keeps the order.
CurrentSetWhileLow ==
  [][~reorders /\ out.test = 1 => out'.current \in {out.current, 0}]_allVars
-----------------------------------------------------------------------------
(* The inductive invariant behind these properties, together with IInv.    *)

\* The position in the script, and the counts of its calls.
ScriptTypeOK ==
  /\ script \in (IF reorders THEN ScriptsRun ELSE ScriptsInOrder)
  /\ at \in DOMAIN Calls /\ calling \in BOOLEAN
  /\ nsent \in 0..MostCalls /\ nrecvd \in Nat
  /\ nrecvd + (IF calling THEN 1 ELSE 0) <= nsent
  /\ ended \in {"no", "done", "exception", "interrupt"}

\* The call in progress, or the last one, is one that the script makes there.
Made == op \in Calls[at] /\ Packs(op)
CallingInv ==
  /\ ~calling => state = "idle"
  /\ calling /\ state = "idle" => result # "none"
  /\ calling /\ result # "struct.error" => Made
  /\ ended = "done" =>
       state = "idle" /\ result = "value" /\ script.loop = <<>> /\ at = Len(Calls) /\ Made

\* Nothing ends a ping tool, which sets no verbosity, but the operator.
PingInv ==
  script.caught # {} /\ Verbosity = 0 =>
    /\ calling => result \in {"none", "value", "TimeoutError"}
    /\ ended # "exception"

\* What is sent and not yet executed.
UnderWay == BagToSet(requests) \cup {inbox[i] : i \in DOMAIN inbox}
CurrentOnly == \A d \in UnderWay : d.data[1] = request_id

\* Pings do not touch the outputs.
PingsOnly ==
  script.caught # {} => \A d \in UnderWay : d.data[2] # SYS_FLASHER

OutputsInv == out \in [led : Int, test : {0, 1}, current : Int, width : Int]

\* A script of one call has no other request under way; a setting that was
\* executed is seen at the outputs until a power cut.
OnceInv ==
  script.loop = <<>> /\ Len(Calls) = 1 =>
    /\ ~calling /\ ended = "no" => nsent = 0
    /\ nsent = 0 => UnderWay = {}
    /\ CurrentOnly
    /\ execs > 0 /\ Flasher!Sets(Datagram(request_id, op).data) =>
         out \in {Flasher!DarkPins, Flasher!Applied(op.code, op.payload[1])}

\* Calls that select a current, and those that raise or lower the test pulse line.
SetsCurrent(o) == o.sys = SYS_FLASHER /\ o.code = CMD_SET_LED_CURRENT
Raises(o) == o.sys = SYS_FLASHER /\ o.code = CMD_TEST_PULSE /\ o.payload = <<1>>
Lowers(o) == o.sys = SYS_FLASHER /\ o.code = CMD_TEST_PULSE /\ o.payload = <<0>>
Content(d) == [sys |-> d.data[2], code |-> d.data[3], payload |-> Payload(d.data)]

\* The line is low before call i of a script: after each call that may raise it,
\* also after those of the previous round of a loop, one lowers it.
MayRaise(calls, i) == \E o \in calls[i] : Raises(o)
MustLower(calls, i) == \A o \in calls[i] : Lowers(o)
LowBefore(s, i) ==
  LET calls == CallsOf(s)
      begin == Len(s.first) + 1 IN
  \A r \in DOMAIN calls : MayRaise(calls, r) =>
    /\ r < i => \E j \in (r + 1)..(i - 1) : MustLower(calls, j)
    /\ begin <= i /\ i <= r =>
         \E j \in (r + 1)..Len(calls) \cup begin..(i - 1) : MustLower(calls, j)
LowersFirst(s) ==
  \A i \in DOMAIN CallsOf(s) :
    (\E o \in CallsOf(s)[i] : SetsCurrent(o)) => LowBefore(s, i)

\* The line is low, and nothing under way raises it.
StaysLow == out.test = 0 /\ \A d \in UnderWay : ~Raises(Content(d))

\* With a network that keeps the order: while a selection is under way the line is
\* low, and only the call after it may raise it; and where a script has lowered the
\* line, it stays low.
LineInv ==
  ~reorders /\ script.caught = {} =>
    /\ \A d \in UnderWay : SetsCurrent(Content(d)) =>
         /\ out.test = 0
         /\ \A e \in UnderWay : Raises(Content(e)) =>
              e.data[1] = request_id /\ d.data[1] # request_id
    /\ ~calling /\ ended = "no" => CurrentOnly /\ (LowBefore(script, at) => StaysLow)
    /\ calling /\ result # "struct.error" =>
         /\ LowBefore(script, at) /\ ~Raises(op) => StaysLow
         /\ Lowers(op) /\ execs > 0 => out.test = 0

AnyNetworkInv ==
  ScriptTypeOK /\ CallingInv /\ PingInv /\ PingsOnly /\ OutputsInv /\ OnceInv
ScriptInv == AnyNetworkInv /\ LineInv
=============================================================================
