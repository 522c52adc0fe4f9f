---------------------------- MODULE ScriptsProofs ----------------------------
(***************************************************************************)
(* Proofs about the command line scripts, for any of them, any calls and   *)
(* any number of calls.                                                    *)
(***************************************************************************)
EXTENDS Scripts, SystemProofs

(* The scripts.                                                            *)

\* The calls of the script that runs are calls of the application.
LEMMA CallsOfScript ==
  ASSUME ScriptTypeOK
  PROVE  /\ script.first \in Seq(SUBSET Ops) /\ script.loop \in Seq(SUBSET Ops)
         /\ Calls \in Seq(SUBSET Ops) /\ Len(Calls) = Len(script.first) + Len(script.loop)
         /\ DOMAIN Calls = 1..Len(Calls) /\ at \in 1..Len(Calls) /\ Calls[at] \subseteq Ops
         /\ IsScript(script)
         /\ script.loop # <<>> => Len(script.loop) >= 1
         /\ ~reorders => script \in ScriptsInOrder
<1>1. script \in ScriptsRun \cup ScriptsInOrder
  BY DEF ScriptTypeOK
<1>2. /\ script.first \in Seq(SUBSET Ops) /\ script.loop \in Seq(SUBSET Ops)
      /\ IsScript(script)
  BY <1>1, ScriptsAssumption
<1>3. ASSUME NEW T, NEW s \in Seq(T), NEW t \in Seq(T)
      PROVE  /\ s \o t \in Seq(T) /\ Len(s \o t) = Len(s) + Len(t)
             /\ t # <<>> => Len(t) >= 1
  OBVIOUS
<1>4. Calls \in Seq(SUBSET Ops) /\ Len(Calls) = Len(script.first) + Len(script.loop)
  BY <1>2, <1>3 DEF Calls, CallsOf
<1>5. at \in DOMAIN Calls
  BY DEF ScriptTypeOK
<1>6. DOMAIN Calls = 1..Len(Calls) /\ Calls[at] \in SUBSET Ops
  <2>1. ASSUME NEW T, NEW s \in Seq(T), NEW i \in DOMAIN s
        PROVE  DOMAIN s = 1..Len(s) /\ s[i] \in T
    OBVIOUS
  <2>. QED
    BY <1>4, <1>5, <2>1
<1>. QED
  BY <1>2, <1>3, <1>4, <1>5, <1>6 DEF ScriptTypeOK

\* Where the line must be low before the next call, the present one does not raise
\* it, and lowers it or finds it low.
LEMMA LowBeforeNext ==
  ASSUME NEW s, NEW i \in DOMAIN CallsOf(s), NEW next,
         NEW n \in Nat, Len(CallsOf(s)) = n, DOMAIN CallsOf(s) = 1..n,
         Len(s.first) \in Nat,
         \/ i < n /\ next = i + 1
         \/ i = n /\ Len(s.first) < n /\ next = Len(s.first) + 1,
         LowBefore(s, next)
  PROVE  /\ ~MayRaise(CallsOf(s), i)
         /\ MustLower(CallsOf(s), i) \/ LowBefore(s, i)
<1>. DEFINE calls == CallsOf(s)
            begin == Len(s.first) + 1
            Means(k) == \A r \in 1..n : MayRaise(calls, r) =>
              /\ r < k => \E j \in (r + 1)..(k - 1) : MustLower(calls, j)
              /\ begin <= k /\ k <= r =>
                   \E j \in (r + 1)..n \cup begin..(k - 1) : MustLower(calls, j)
<1>1. \A k : LowBefore(s, k) <=> Means(k)
  BY DEF LowBefore
<1>2. Means(next)
  BY <1>1
<1>3. ~MayRaise(calls, i)
  <2>. HIDE DEF calls
  <2>. QED
    BY <1>2 DEF calls
<1>4. ASSUME ~MustLower(calls, i)
      PROVE  Means(i)
  <2>. TAKE r \in 1..n
  <2>. HAVE MayRaise(calls, r)
  <2>. HIDE DEF calls
  <2>1. ASSUME r < i
        PROVE  \E j \in (r + 1)..(i - 1) : MustLower(calls, j)
    <3>1. CASE i < n
      <4>1. PICK j \in (r + 1)..(next - 1) : MustLower(calls, j)
        BY <1>2, <2>1, <3>1 DEF calls
      <4>. QED
        BY <1>4, <2>1, <3>1, <4>1 DEF calls
    <3>2. CASE i = n /\ r < begin
      <4>1. PICK j \in (r + 1)..(next - 1) : MustLower(calls, j)
        BY <1>2, <2>1, <3>2 DEF calls
      <4>. QED
        BY <1>4, <2>1, <3>2, <4>1 DEF calls
    <3>3. CASE i = n /\ r >= begin
      <4>1. PICK j \in (r + 1)..n \cup begin..(next - 1) : MustLower(calls, j)
        BY <1>2, <2>1, <3>3 DEF calls
      <4>. QED
        BY <1>4, <2>1, <3>3, <4>1 DEF calls
    <3>. QED
      BY <3>1, <3>2, <3>3 DEF calls
  <2>2. ASSUME begin <= i, i <= r
        PROVE  \E j \in (r + 1)..n \cup begin..(i - 1) : MustLower(calls, j)
    <3>1. r # i
      BY <1>3
    <3>2. i < n /\ next = i + 1
      BY <2>2, <3>1 DEF calls
    <3>3. PICK j \in (r + 1)..n \cup begin..(next - 1) : MustLower(calls, j)
      BY <1>2, <2>2, <3>1, <3>2 DEF calls
    <3>. QED
      BY <1>4, <2>2, <3>2, <3>3 DEF calls
  <2>. QED
    BY <2>1, <2>2
<1>. QED
  BY <1>1, <1>3, <1>4
-----------------------------------------------------------------------------
(* The steps, seen from the scripts.                                       *)

\* A step of a script is a step of the system.
LEMMA StepOfSystem ==
  ASSUME ScriptTypeOK, [ScriptNext]_allVars
  PROVE  [Next]_vars
<1>1. CASE NextCall
  BY <1>1, CallsOfScript DEF NextCall, Next
<1>2. CASE CallReturns \/ Interrupt \/ UNCHANGED allVars
  BY <1>2 DEF CallReturns, Interrupt, allVars
<1>3. CASE (ended = "no" /\ Client) \/ Outside
  BY <1>3 DEF Next
<1>. QED
  BY <1>1, <1>2, <1>3 DEF ScriptNext

\* What becomes of a call when recv returns.
LEMMA ResultOfRecv ==
  ASSUME Recv
  PROVE  \/ UNCHANGED <<state, result>>
         \/ /\ state' = "idle"
            /\ \/ result' \in {"value", "RequestError", "ResponseError"}
               \/ result' = "TypeError" /\ Verbosity > 0
               \/ result' = "yield" /\ op.broadcast
<1>. DEFINE reply == Received(Head(socket))
<1>1. ASSUME NEW v
      PROVE  Evaluate(v) \in {"value", "RequestError", "ResponseError"}
  BY DEF Evaluate
<1>2. ASSUME NEW v
      PROVE  \/ Judge(v) \in {"skip", "response", "RequestError", "ResponseError"}
             \/ Judge(v) = "TypeError" /\ Verbosity > 0
  BY DEF Judge
<1>3. CASE Judge(reply) = "skip"
  BY <1>3 DEF Recv
<1>4. CASE Judge(reply) = "response"
  BY <1>1, <1>4 DEF Recv, Finish
<1>5. CASE Judge(reply) \notin {"skip", "response"}
  BY <1>2, <1>5 DEF Recv, Finish
<1>. QED
  BY <1>3, <1>4, <1>5

\* The requests under way are requests of the application; those with the current
\* id have what the current call asks for.
LEMMA UnderWayWords ==
  ASSUME IInv
  PROVE  /\ UnderWay \subseteq AllRequests
         /\ \A d \in UnderWay : d.data[1] = request_id => d = Datagram(request_id, op)
<1>. USE DEF IInv
<1>1. ASSUME NEW i \in DOMAIN inbox
      PROVE  inbox[i] \in AllRequests /\ IsRequest(inbox[i])
  BY <1>1 DEF RequestsInv, IsRequest
<1>. QED
  BY <1>1 DEF RequestsInv, IsRequest, UnderWay

\* A step of the network or the device puts no request under way and leaves the
\* call as it is.
LEMMA OutsideStep ==
  ASSUME IInv, Outside
  PROVE  /\ UnderWay' \subseteq UnderWay
         /\ UNCHANGED <<state, request_id, op, result, reorders>>
<1>. USE DEF IInv
<1>1. /\ IsABag(requests) /\ inbox \in Seq(AllRequests)
  BY DEF RequestsInv
<1>2. ASSUME BagToSet(requests') \subseteq BagToSet(requests),
             \A i \in DOMAIN inbox' : inbox'[i] \in UnderWay
      PROVE  UnderWay' \subseteq UnderWay
  BY <1>2 DEF UnderWay
<1>3. \A i \in DOMAIN inbox : inbox[i] \in UnderWay
  BY DEF UnderWay
<1>4. CASE \E d \in BagToSet(requests) : RequestArrives(d) \/ RequestLost(d)
  <2>1. PICK d \in BagToSet(requests) : RequestArrives(d) \/ RequestLost(d)
    BY <1>4
  <2>2. /\ BagToSet(requests') \subseteq BagToSet(requests) /\ d \in AllRequests
        /\ UNCHANGED <<state, request_id, op, result>>
    BY <2>1, RequestTaken DEF RequestArrives, RequestLost
  <2>3. inbox' = inbox \/ inbox' = Append(inbox, d)
    BY <2>1 DEF RequestArrives, RequestLost, Flasher!Arrive, deviceVars
  <2>4. \A i \in DOMAIN inbox' : inbox'[i] \in UnderWay
    <3>. DEFINE new == Append(inbox, d)
    <3>1. \A i \in DOMAIN new : \/ i \in DOMAIN inbox /\ new[i] = inbox[i]
                                \/ new[i] = d
      BY <1>1, <2>2, Elements
    <3>2. d \in UnderWay
      BY DEF UnderWay
    <3>. HIDE DEF new
    <3>. QED
      BY <1>3, <2>3, <3>1, <3>2 DEF new
  <2>. QED
    BY <1>2, <2>2, <2>4 DEF Outside
<1>5. CASE Executes
  <2>1. inbox # <<>> /\ inbox' = Tail(inbox)
    BY <1>5 DEF Executes, Flasher!Execute, Flasher!Serving
  <2>2. \A i \in DOMAIN inbox' : inbox'[i] \in UnderWay
    BY <1>1, <1>3, <2>1, Elements
  <2>3. UNCHANGED <<state, request_id, op, result, requests>>
    BY <1>5 DEF Executes, clientVars, frame
  <2>. QED
    BY <1>2, <2>2, <2>3 DEF Outside
<1>6. CASE DeviceRuns
  <2>1. inbox' = inbox \/ inbox' = <<>>
    BY <1>6 DEF DeviceRuns, Flasher!Fail, Flasher!Reply, Flasher!Load, Flasher!Store,
                Flasher!Start, Flasher!PowerCut
  <2>2. \A i \in DOMAIN inbox' : inbox'[i] \in UnderWay
    BY <1>3, <2>1
  <2>3. UNCHANGED <<state, request_id, op, result, requests>>
    BY <1>6 DEF DeviceRuns, clientVars, frame
  <2>. QED
    BY <1>2, <2>2, <2>3 DEF Outside
<1>7. CASE ReplyLeaves \/ \E r \in BagToSet(replies) : ReplyArrives(r) \/ ReplyLost(r)
  <2>1. UNCHANGED <<state, request_id, op, result, requests, inbox>>
    BY <1>7 DEF ReplyLeaves, ReplyArrives, ReplyLost, Flasher!Depart, Deliver,
                clientVars, frame, deviceVars
  <2>. QED
    BY <1>2, <1>3, <2>1 DEF Outside
<1>. QED
  BY <1>4, <1>5, <1>6, <1>7 DEF Outside
-----------------------------------------------------------------------------
(* The outputs.                                                            *)

\* What the execution of a request does to the outputs.
Effect(d) ==
  IF Flasher!Sets(d.data) THEN out' = Flasher!Applied(d.data[3], Payload(d.data)[1])
  ELSE out' = out

\* A request that is executed has its effect.
LEMMA EffectOfExecution ==
  ASSUME Flasher!Execute
  PROVE  Effect(Head(inbox))
<1>. DEFINE data == Head(inbox).data
<1>1. ASSUME NEW reply, Flasher!Refuse(data, reply)
      PROVE  Effect(Head(inbox))
  BY <1>1 DEF Flasher!Refuse, Flasher!Valid, Flasher!Keep, Effect
<1>2. ASSUME NEW code, Flasher!Bare(data, code), Flasher!Keep
      PROVE  Effect(Head(inbox))
  BY <1>2, Kinds DEF Flasher!Keep, Effect
<1>3. ASSUME NEW payload, Flasher!Perform(data, payload)
      PROVE  Effect(Head(inbox))
  <2>1. CASE Flasher!Sets(data) /\ out' = Flasher!Applied(Flasher!Code(data), Flasher!Payload(data)[1])
    BY <2>1, Formats DEF Effect
  <2>2. CASE data[2] = 0 /\ out' = out
    BY <2>2, Kinds DEF Effect
  <2>3. CASE Len(data) = 3 /\ out' = out
    BY <2>3, Kinds DEF Effect
  <2>. QED
    BY <1>3, <2>1, <2>2, <2>3, Kinds, Formats, Numbers DEF Flasher!Perform, Flasher!Keep
<1>. QED
  BY <1>1, <1>2, <1>3 DEF Flasher!Execute

\* A step of the network or the device darkens the outputs, executes a request that
\* is under way, or leaves them alone.
LEMMA OutputsOutside ==
  ASSUME IInv, Outside
  PROVE  \/ out' \in {out, Flasher!DarkPins} /\ execs' = execs
         \/ \E d \in UnderWay :
              /\ Effect(d)
              /\ execs' = IF d.data[1] = request_id THEN execs + 1 ELSE execs
<1>1. CASE Executes
  <2>1. inbox # <<>> /\ inbox \in Seq(AllRequests)
    BY <1>1 DEF Executes, Flasher!Execute, Flasher!Serving, IInv, RequestsInv
  <2>2. Head(inbox) \in UnderWay
    BY <2>1, Elements DEF UnderWay
  <2>. QED
    BY <1>1, <2>2, EffectOfExecution DEF Executes
<1>2. CASE ~Executes
  <2>1. execs' = execs
    BY <1>2 DEF Outside, RequestArrives, RequestLost, DeviceRuns, ReplyLeaves,
                ReplyArrives, ReplyLost
  <2>2. [Next]_vars
    BY DEF Next
  <2>. QED
    BY <1>2, <2>1, <2>2, OutputsStep
<1>. QED
  BY <1>1, <1>2

\* The words of a datagram are those of its call.
LEMMA ContentOf ==
  ASSUME NEW id \in Int, NEW o \in Op
  PROVE  LET d == Datagram(id, o) IN
         /\ d.data[1] = id /\ d.data[2] = o.sys /\ d.data[3] = o.code
         /\ SetsCurrent(Content(d)) <=> SetsCurrent(o)
         /\ Raises(Content(d)) <=> Raises(o)
         /\ Lowers(Content(d)) <=> Lowers(o)
BY DatagramWords DEF Content, SetsCurrent, Raises, Lowers

\* No call does two of these.
LEMMA Exclusive ==
  \A o : /\ Raises(o) => ~SetsCurrent(o) /\ ~Lowers(o)
         /\ Lowers(o) => ~SetsCurrent(o)
<1>1. <<0>> # <<1>>
  OBVIOUS
<1>2. CMD_TEST_PULSE # CMD_SET_LED_CURRENT
  BY DEF CMD_TEST_PULSE, CMD_SET_LED_CURRENT
<1>. QED
  BY <1>1, <1>2 DEF Raises, SetsCurrent, Lowers

\* The outputs of a device after the power is back.
LEMMA Dark ==
  /\ Flasher!DarkPins \in [led : Int, test : {0, 1}, current : Int, width : Int]
  /\ Flasher!DarkPins.test = 0 /\ Flasher!DarkPins.current = 0
BY DEF Flasher!DarkPins

\* A sequence of one word is that word.
LEMMA OneWord ==
  ASSUME NEW p \in Seq(Int), Len(p) = 1
  PROVE  p[1] \in Int /\ p = <<p[1]>>
<1>1. p[1] \in Int
  OBVIOUS
<1>2. <<p[1]>> \in Seq(Int) /\ Len(<<p[1]>>) = 1 /\ <<p[1]>>[1] = p[1]
  BY <1>1
<1>3. \A i \in 1..1 : p[i] = <<p[1]>>[i]
  BY <1>2
<1>. QED
  BY <1>1, <1>2, <1>3, SeqEqual

\* What the effect of a request is on the line and on the current.
LEMMA EffectMeans ==
  ASSUME OutputsInv, NEW d \in AllRequests, Effect(d)
  PROVE  /\ OutputsInv'
         /\ out.test = 0 /\ ~Raises(Content(d)) => out'.test = 0
         /\ Lowers(Content(d)) => out'.test = 0
         /\ ~SetsCurrent(Content(d)) => out'.current = out.current
         /\ d.data[2] # SYS_FLASHER => out' = out
<1>. DEFINE c == d.data[3]
            v == Payload(d.data)[1]
<1>1. /\ SYS_FLASHER = 2 /\ CMD_TEST_PULSE = 6 /\ CMD_SET_LED_CURRENT = 4
      /\ Flasher!CMD_TEST_PULSE = 6 /\ Flasher!CMD_SET_LED_CURRENT = 4
      /\ Flasher!CMD_LED_BUILTIN = 0 /\ Flasher!CMD_SET_PULSE_WIDTH = 5
  BY DEF SYS_FLASHER, CMD_TEST_PULSE, CMD_SET_LED_CURRENT, Flasher!CMD_TEST_PULSE,
         Flasher!CMD_SET_LED_CURRENT, Flasher!CMD_LED_BUILTIN, Flasher!CMD_SET_PULSE_WIDTH
<1>2. /\ d.data \in Seq(Int) /\ Len(d.data) >= 3
      /\ Payload(d.data) \in Seq(Int) /\ Len(Payload(d.data)) = Len(d.data) - 3
  <2>1. d.data \in Seq(Int) /\ Len(d.data) >= 3
    BY RequestWords
  <2>. QED
    BY <2>1, Rest
<1>3. CASE ~Flasher!Sets(d.data)
  <2>1. out' = out
    BY <1>3 DEF Effect
  <2>2. ~Lowers(Content(d))
    <3>1. ASSUME Lowers(Content(d))
          PROVE  Flasher!Sets(d.data)
      <4>1. d.data[2] = 2 /\ d.data[3] = 6 /\ Payload(d.data) = <<0>>
        BY <1>1, <3>1 DEF Lowers, Content
      <4>2. Len(d.data) = 4
        <5>1. Len(Payload(d.data)) = 1
          BY <4>1
        <5>2. Len(d.data) \in Nat
          BY <1>2
        <5>3. \A n \in Nat : 1 = n - 3 => n = 4
          OBVIOUS
        <5>. QED
          BY <1>2, <5>1, <5>2, <5>3
      <4>3. Flasher!Largest(6) = 2
        BY <1>1 DEF Flasher!Largest
      <4>. QED
        BY <4>1, <4>2, <4>3, Kinds
    <3>. QED
      BY <1>3, <3>1
  <2>. QED
    BY <2>1, <2>2 DEF OutputsInv
<1>4. CASE Flasher!Sets(d.data)
  <2>1. d.data[2] = 2 /\ c \in {0, 4, 5, 6} /\ Len(d.data) = 4
    BY <1>4, Kinds
  <2>2. v \in Int /\ Payload(d.data) = <<v>>
    <3>1. \A p \in Seq(Int) : Len(p) = 1 => p[1] \in Int /\ p = <<p[1]>>
      BY OneWord
    <3>2. Len(Payload(d.data)) = 1
      BY <1>2, <2>1
    <3>. QED
      BY <1>2, <3>1, <3>2
  <2>3. out' = CASE c = 0 -> [out EXCEPT !.led = v]
                 [] c = 6 -> [out EXCEPT !.test = IF v = 1 THEN 1 ELSE 0]
                 [] c = 4 -> [out EXCEPT !.current = v]
                 [] c = 5 -> [out EXCEPT !.width = v]
    BY <1>1, <1>4 DEF Effect, Flasher!Applied
  <2>4. /\ Raises(Content(d)) <=> c = 6 /\ v = 1
        /\ Lowers(Content(d)) => c = 6 /\ v = 0
        /\ SetsCurrent(Content(d)) <=> c = 4
    BY <1>1, <2>1, <2>2 DEF Raises, Lowers, SetsCurrent, Content
  <2>. HIDE DEF c, v
  <2>5. CASE c = 0
    BY <1>1, <2>1, <2>2, <2>3, <2>4, <2>5 DEF OutputsInv
  <2>6. CASE c = 6
    BY <1>1, <2>1, <2>2, <2>3, <2>4, <2>6 DEF OutputsInv
  <2>7. CASE c = 4
    BY <1>1, <2>1, <2>2, <2>3, <2>4, <2>7 DEF OutputsInv
  <2>8. CASE c = 5
    BY <1>1, <2>1, <2>2, <2>3, <2>4, <2>8 DEF OutputsInv
  <2>. QED
    BY <2>1, <2>5, <2>6, <2>7, <2>8
<1>. QED
  BY <1>3, <1>4
-----------------------------------------------------------------------------
(* The invariant of scripts over any network.                              *)

\* What a bag holds after one more.
LEMMA BagGrows ==
  \A B, d : BagToSet(B (+) SetToBag({d})) = BagToSet(B) \cup {d}
BY DEF BagToSet, SetToBag, (+)

\* A script begins a call: it is sent, or cannot be packed.
LEMMA CallBegins ==
  ASSUME ScriptTypeOK, NextCall
  PROVE  /\ ended = "no" /\ ~calling /\ calling' = TRUE
         /\ nsent < MostCalls /\ nsent' = nsent + 1
         /\ UNCHANGED <<script, at, nrecvd, ended, out, reorders>>
         /\ \E o \in Calls[at] :
              /\ o \in Ops
              /\ \/ /\ Packs(o) /\ op' = o /\ state' = "waiting" /\ result' = "none"
                    /\ execs' = 0
                    /\ UnderWay' = UnderWay \cup {Datagram(request_id', o)}
                    /\ \A d \in UnderWay : d.data[1] # request_id'
                 \/ /\ ~Packs(o) /\ state' = "idle" /\ result' = "struct.error"
                    /\ UNCHANGED <<op, request_id, execs, requests, inbox>>
                    /\ UnderWay' = UnderWay
<1>1. PICK o \in Calls[at] : Call(o)
  BY DEF NextCall
<1>2. o \in Ops
  BY <1>1, CallsOfScript
<1>3. CASE ~Around((request_id + 1) % IdMod) /\ Request(o) /\ execs' = 0
             /\ UNCHANGED <<deviceVars, replies, reorders>>
  <2>1. /\ request_id' = (request_id + 1) % IdMod /\ request' = Datagram(request_id', o)
        /\ requests' = requests (+) SetToBag({request'}) /\ inbox' = inbox
        /\ Packs(o) /\ op' = o /\ state' = "waiting" /\ result' = "none" /\ out' = out
    BY <1>3 DEF Request, Send, deviceVars
  <2>2. BagToSet(requests') = BagToSet(requests) \cup {request'}
    BY <2>1, BagGrows
  <2>3. UnderWay' = UnderWay \cup {Datagram(request_id', o)}
    BY <2>1, <2>2 DEF UnderWay
  <2>4. \A d \in UnderWay : d.data[1] # request_id'
    BY <1>3, <2>1 DEF UnderWay, Around
  <2>. QED
    BY <1>1, <1>2, <1>3, <2>1, <2>3, <2>4 DEF NextCall
<1>4. CASE PackingFails(o) /\ UNCHANGED othersVars
  <2>1. /\ ~Packs(o) /\ state' = "idle" /\ result' = "struct.error" /\ out' = out
        /\ UNCHANGED <<op, request_id, execs, requests, inbox, reorders>>
    BY <1>4 DEF PackingFails, MayCall, frame, othersVars, deviceVars
  <2>2. UnderWay' = UnderWay
    BY <2>1 DEF UnderWay
  <2>. QED
    BY <1>1, <1>2, <2>1, <2>2 DEF NextCall
<1>. QED
  BY <1>1, <1>3, <1>4 DEF Call

\* While it waits a script's call goes on, which may repeat its request, or ends.
LEMMA CallGoesOn ==
  ASSUME IInv, CallingInv, ended = "no", Client
  PROVE  /\ state = "waiting" /\ result = "none" /\ calling /\ Made
         /\ UNCHANGED <<request_id, op, execs, out, reorders>>
         /\ UnderWay' \subseteq UnderWay \cup {Datagram(request_id, op)}
         /\ \/ state' = "waiting" /\ result' = "none"
            \/ /\ state' = "idle"
               /\ \/ result' \in {"TimeoutError", "value", "RequestError", "ResponseError"}
                  \/ result' = "TypeError" /\ Verbosity > 0
                  \/ result' = "yield" /\ op.broadcast
<1>1. state = "waiting"
  BY DEF Client, Timeout, Recv
<1>2. /\ result = "none" /\ calling /\ Made
      /\ request = Datagram(request_id, op) /\ IsABag(requests)
  BY <1>1 DEF CallingInv, IInv, CallInv, RequestsInv
<1>3. UNCHANGED <<execs, out, reorders, inbox>>
  BY DEF Client, othersVars, deviceVars
<1>4. CASE Timeout
  <2>1. /\ UNCHANGED <<request_id, op>>
        /\ \/ requests' = requests (+) SetToBag({request}) /\ UNCHANGED <<state, result>>
           \/ /\ UNCHANGED requests /\ state' = "idle" /\ result' = "TimeoutError"
    BY <1>4 DEF Timeout, Send, Finish
  <2>2. BagToSet(requests') \subseteq BagToSet(requests) \cup {request}
    BY <2>1, BagGrows
  <2>3. UnderWay' \subseteq UnderWay \cup {Datagram(request_id, op)}
    BY <1>2, <1>3, <2>2 DEF UnderWay
  <2>. QED
    BY <1>1, <1>2, <1>3, <2>1, <2>3
<1>5. CASE Recv
  <2>1. UNCHANGED <<request_id, op, requests>>
    BY <1>5 DEF Recv
  <2>2. UnderWay' = UnderWay
    BY <1>3, <2>1 DEF UnderWay
  <2>. QED
    BY <1>1, <1>2, <1>3, <1>5, <2>1, <2>2, ResultOfRecv
<1>. QED
  BY <1>4, <1>5 DEF Client

\* Before the first call nothing is under way.
LEMMA AnyNetworkInit ==
  ASSUME ScriptInit
  PROVE  AnyNetworkInv /\ UnderWay = {} /\ out.test = 0
<1>1. /\ script \in (IF reorders THEN ScriptsRun ELSE ScriptsInOrder)
      /\ at = 1 /\ calling = FALSE /\ nsent = 0 /\ nrecvd = 0 /\ ended = "no"
      /\ state = "idle" /\ requests = EmptyBag /\ inbox = <<>> /\ execs = 0
      /\ out = Flasher!DarkPins /\ reorders \in BOOLEAN
  BY SystemAssumption DEF ScriptInit, Init, ClientInit, Flasher!Init
<1>2. UnderWay = {}
  BY <1>1 DEF UnderWay, EmptyBag, SetToBag, BagToSet
<1>3. ScriptTypeOK
  <2>1. MostCalls \in Nat
    BY ScriptsAssumption DEF MostCalls
  <2>2. 1 \in DOMAIN Calls
    <3>1. /\ script.first \in Seq(SUBSET Ops) /\ script.loop \in Seq(SUBSET Ops)
          /\ Calls # <<>>
      BY <1>1, ScriptsAssumption DEF IsScript, Calls
    <3>2. Calls \in Seq(SUBSET Ops)
      BY <3>1 DEF Calls, CallsOf
    <3>. QED
      BY <3>1, <3>2
  <2>3. calling \in BOOLEAN /\ (IF calling THEN 1 ELSE 0) = 0
    BY <1>1
  <2>. HIDE DEF MostCalls
  <2>. QED
    BY <1>1, <2>1, <2>2, <2>3 DEF ScriptTypeOK
<1>4. OutputsInv /\ out.test = 0
  BY <1>1, Dark DEF OutputsInv
<1>. QED
  BY <1>1, <1>2, <1>3, <1>4
  DEF AnyNetworkInv, CallingInv, PingInv, PingsOnly, OnceInv, CurrentOnly

\* The calls of a ping tool are pings.
LEMMA Pings ==
  ASSUME Application, ScriptTypeOK, script.caught # {}, NEW o \in Calls[at]
  PROVE  /\ o.method = "ping" /\ ~o.broadcast /\ Packs(o) /\ o \in Op
         /\ o.sys = SYS_IOSTACK /\ o.code = CMD_PING
<1>1. IsScript(script) /\ at \in DOMAIN Calls /\ o \in Ops
  BY CallsOfScript
<1>2. o.method = "ping" /\ ~o.broadcast
  BY <1>1 DEF IsScript, Calls
<1>. QED
  BY <1>1, <1>2, SystemAssumption DEF Application, IsCall, Packs

\* A call begins.
LEMMA AnyNetworkCall ==
  ASSUME Application, IInv, AnyNetworkInv, NextCall
  PROVE  AnyNetworkInv'
<1>. USE DEF AnyNetworkInv
<1>1. /\ ended = "no" /\ ~calling /\ calling' = TRUE
      /\ nsent < MostCalls /\ nsent' = nsent + 1
      /\ UNCHANGED <<script, at, nrecvd, ended, out, reorders>>
  BY CallBegins
<1>2. PICK o \in Calls[at] :
        /\ o \in Ops
        /\ \/ /\ Packs(o) /\ op' = o /\ state' = "waiting" /\ result' = "none"
              /\ execs' = 0
              /\ UnderWay' = UnderWay \cup {Datagram(request_id', o)}
           \/ /\ ~Packs(o) /\ state' = "idle" /\ result' = "struct.error"
              /\ UNCHANGED <<op, request_id, execs>>
              /\ UnderWay' = UnderWay
  BY CallBegins
<1>3. o \in Op /\ request_id' \in Int
  <2>1. IInv'
    <3>1. [ScriptNext]_allVars
      BY DEF ScriptNext
    <3>. QED
      BY <3>1, StepOfSystem, InvariantStep
  <2>. QED
    BY <1>2, <2>1, SystemAssumption DEF IInv, TypeOK
<1>4. ScriptTypeOK'
  <2>1. MostCalls \in Nat /\ MostCalls' = MostCalls
    BY <1>1, ScriptsAssumption DEF MostCalls
  <2>. QED
    BY <1>1, <2>1 DEF ScriptTypeOK, Calls
<1>5. CallingInv'
  BY <1>1, <1>2 DEF CallingInv, Made, Calls
<1>6. PingInv' /\ PingsOnly'
  <2>1. ASSUME script.caught # {}
        PROVE  Packs(o) /\ o.sys = SYS_IOSTACK
    BY <1>2, <2>1, Pings
  <2>2. ASSUME script.caught # {}
        PROVE  result' = "none" /\ \A d \in UnderWay' : d.data[2] # SYS_FLASHER
    BY <1>2, <1>3, <2>1, <2>2, ContentOf, Numbers DEF PingsOnly
  <2>. QED
    BY <1>1, <2>2 DEF PingInv, PingsOnly
<1>7. OutputsInv'
  BY <1>1 DEF OutputsInv
<1>8. OnceInv'
  <2>1. ASSUME script.loop = <<>>, Len(Calls) = 1
        PROVE  /\ CurrentOnly'
               /\ execs' > 0 => UNCHANGED <<op, request_id, execs>>
    <3>1. nsent = 0 /\ UnderWay = {}
      BY <1>1, <2>1 DEF OnceInv
    <3>2. Datagram(request_id', o).data[1] = request_id'
      BY <1>3, ContentOf
    <3>. QED
      BY <1>2, <3>1, <3>2 DEF CurrentOnly
  <2>2. nsent' # 0
    BY <1>1 DEF ScriptTypeOK
  <2>. QED
    BY <1>1, <2>1, <2>2 DEF OnceInv, Calls, Flasher!Applied, Flasher!DarkPins
<1>. QED
  BY <1>4, <1>5, <1>6, <1>7, <1>8

\* A call in progress is repeated, or ends.
LEMMA AnyNetworkClient ==
  ASSUME Application, IInv, AnyNetworkInv, ended = "no", Client, UNCHANGED scriptVars
  PROVE  AnyNetworkInv'
<1>. USE DEF AnyNetworkInv
<1>1. UNCHANGED <<script, at, calling, nsent, nrecvd, ended>>
  BY DEF scriptVars
<1>2. /\ state = "waiting" /\ result = "none" /\ calling /\ Made
      /\ UNCHANGED <<request_id, op, execs, out, reorders>>
      /\ UnderWay' \subseteq UnderWay \cup {Datagram(request_id, op)}
      /\ \/ state' = "waiting" /\ result' = "none"
         \/ /\ state' = "idle"
            /\ \/ result' \in {"TimeoutError", "value", "RequestError", "ResponseError"}
               \/ result' = "TypeError" /\ Verbosity > 0
               \/ result' = "yield" /\ op.broadcast
  BY CallGoesOn
<1>3. op \in Op /\ request_id \in Int
  BY CurrentCall
<1>4. IInv'
  BY InvariantStep DEF Next
<1>5. ScriptTypeOK' /\ CallingInv' /\ OutputsInv'
  BY <1>1, <1>2 DEF ScriptTypeOK, CallingInv, OutputsInv, MostCalls, Calls, Made
<1>6. PingInv' /\ PingsOnly'
  <2>1. ASSUME script.caught # {}
        PROVE  /\ ~op.broadcast /\ op.sys = SYS_IOSTACK /\ op.code = CMD_PING
    BY <1>2, <2>1, Pings DEF Made
  <2>2. ASSUME script.caught # {}
        PROVE  result' \notin {"RequestError", "ResponseError"}
    <3>. DEFINE data == Datagram(request_id, op).data
    <3>1. data[2] = 0 /\ data[3] = 2
      BY <1>3, <2>1, <2>2, ContentOf, Numbers
    <3>2. Performs(data)
      BY <3>1, Formats, Numbers DEF Performs
    <3>3. Performs(Datagram(request_id, op).data)' <=> Performs(data)
      BY <1>2 DEF Performs
    <3>4. /\ result' # "ResponseError"
          /\ result' = "RequestError" =>
               ~Performs(Datagram(request_id, op).data)' \/ op'.code = CMD_READ_SERIAL_NO
      BY <1>4 DEF IInv, ResultInv
    <3>5. op'.code # CMD_READ_SERIAL_NO
      BY <1>2, <2>1, <2>2, Numbers
    <3>. QED
      BY <3>2, <3>3, <3>4, <3>5
  <2>3. PingInv'
    BY <1>1, <1>2, <2>1, <2>2 DEF PingInv
  <2>4. PingsOnly'
    BY <1>1, <1>2, <1>3, <2>1, ContentOf, Numbers DEF PingsOnly
  <2>. QED
    BY <2>3, <2>4
<1>7. OnceInv'
  <2>1. Datagram(request_id, op).data[1] = request_id
    BY <1>3, ContentOf
  <2>2. nsent # 0
    BY <1>2 DEF ScriptTypeOK
  <2>3. CurrentOnly => CurrentOnly'
    BY <1>2, <2>1 DEF CurrentOnly
  <2>. QED
    BY <1>1, <1>2, <2>2, <2>3 DEF OnceInv, Calls, Flasher!Applied, Flasher!DarkPins
<1>. QED
  BY <1>5, <1>6, <1>7

\* A call that ended is looked at: the script goes on, or ends.
LEMMA AnyNetworkReturn ==
  ASSUME Application, IInv, AnyNetworkInv, CallReturns
  PROVE  AnyNetworkInv'
<1>. USE DEF AnyNetworkInv
<1>1. /\ ended = "no" /\ calling /\ state = "idle" /\ calling' = FALSE
      /\ UNCHANGED <<script, nsent, reorders, state, result, op, request_id, requests, inbox,
                     execs, out>>
      /\ \/ result = "value" /\ Returned
         \/ result # "value" /\ Raised
  BY DEF CallReturns, vars, clientVars, frame, othersVars, deviceVars
<1>2. /\ nsent # 0 /\ UnderWay' = UnderWay /\ Calls' = Calls /\ MostCalls' = MostCalls
  BY <1>1 DEF ScriptTypeOK, UnderWay, Calls, MostCalls
<1>3. /\ Len(Calls) = Len(script.first) + Len(script.loop)
      /\ Len(script.first) \in Nat /\ Len(script.loop) \in Nat
      /\ DOMAIN Calls = 1..Len(Calls) /\ at \in 1..Len(Calls)
      /\ script.loop # <<>> => Len(script.loop) >= 1
      /\ script.caught # {} => script.loop # <<>> /\ "TimeoutError" \in script.caught
  <2>1. script.first \in Seq(SUBSET Ops) /\ script.loop \in Seq(SUBSET Ops)
    BY CallsOfScript
  <2>2. Len(script.first) \in Nat /\ Len(script.loop) \in Nat
    BY <2>1
  <2>3. IsScript(script)
    BY CallsOfScript
  <2>4. script.caught # {} => script.loop # <<>> /\ "TimeoutError" \in script.caught
    BY <2>3 DEF IsScript
  <2>. QED
    BY <2>2, <2>4, CallsOfScript
<1>4. /\ at < Len(Calls) => at + 1 \in 1..Len(Calls)
      /\ at < Len(Calls) \/ at = Len(Calls)
      /\ script.loop # <<>> => Len(script.first) + 1 \in 1..Len(Calls)
      /\ Len(Calls) = 1 => ~(at < Len(Calls))
  <2>1. \A n, f, l \in Nat : \A i \in 1..n :
          /\ i < n => i + 1 \in 1..n
          /\ i < n \/ i = n
          /\ n = f + l /\ l >= 1 => f + 1 \in 1..n
          /\ n = 1 => ~(i < n)
    OBVIOUS
  <2>2. Len(Calls) \in Nat
    <3>1. Calls \in Seq(SUBSET Ops)
      BY CallsOfScript
    <3>. QED
      BY <3>1
  <2>. QED
    BY <1>3, <2>1, <2>2, Zenon
<1>5. \/ /\ result = "value" /\ nrecvd' = nrecvd + 1
         /\ \/ at < Len(Calls) /\ at' = at + 1 /\ ended' = "no"
            \/ at = Len(Calls) /\ script.loop = <<>> /\ at' = at /\ ended' = "done"
            \/ script.loop # <<>> /\ at' = Len(script.first) + 1 /\ ended' = "no"
      \/ /\ result # "value" /\ nrecvd' = nrecvd
         /\ \/ result \in script.caught /\ at' = Len(script.first) + 1 /\ ended' = "no"
            \/ result \notin script.caught /\ at' = at /\ ended' = "exception"
  BY <1>1, <1>4 DEF Returned, Raised
<1>6. ScriptTypeOK'
  <2>1. at' \in 1..Len(Calls)
    BY <1>3, <1>5, <1>4, Zenon
  <2>2. nrecvd' \in Nat /\ nrecvd' <= nsent
    <3>1. nrecvd \in Nat /\ nsent \in Nat /\ nrecvd + 1 <= nsent
      BY <1>1 DEF ScriptTypeOK
    <3>. QED
      BY <1>5, <3>1
  <2>3. ended' \in {"no", "done", "exception"}
    BY <1>1 DEF Returned, Raised
  <2>4. calling' \in BOOLEAN /\ (IF calling' THEN 1 ELSE 0) = 0
    BY <1>1
  <2>. QED
    <3>1. nsent \in 0..MostCalls /\ script \in (IF reorders THEN ScriptsRun ELSE ScriptsInOrder)
      BY DEF ScriptTypeOK
    <3>2. nrecvd' + (IF calling' THEN 1 ELSE 0) <= nsent'
      BY <1>1, <2>2, <2>4
    <3>3. at' \in DOMAIN Calls' /\ nsent' \in 0..MostCalls'
      BY <1>1, <1>2, <1>3, <2>1, <3>1
    <3>. QED
      BY <1>1, <2>2, <2>3, <2>4, <3>1, <3>2, <3>3 DEF ScriptTypeOK
<1>7. CallingInv'
  <2>1. ended' = "done" =>
          result = "value" /\ script.loop = <<>> /\ at' = at /\ at = Len(Calls)
    BY <1>5
  <2>2. result = "value" => Made
    BY <1>1 DEF CallingInv
  <2>. QED
    BY <1>1, <1>2, <2>1, <2>2 DEF CallingInv, Made
<1>8. PingInv'
  <2>1. ASSUME script.caught # {}, Verbosity = 0
        PROVE  result \in {"value", "TimeoutError"}
    BY <1>1, <2>1 DEF PingInv, CallingInv
  <2>. QED
    BY <1>1, <1>3, <1>5, <2>1 DEF PingInv
<1>9. PingsOnly' /\ OutputsInv'
  BY <1>1, <1>2 DEF PingsOnly, OutputsInv
<1>10. OnceInv'
  <2>1. ASSUME script.loop = <<>>, Len(Calls) = 1, ended' = "no"
        PROVE  FALSE
    BY <1>3, <1>5, <1>4, <2>1
  <2>. QED
    BY <1>1, <1>2, <2>1
    DEF OnceInv, CurrentOnly, Flasher!Applied, Flasher!DarkPins
<1>. QED
  BY <1>6, <1>7, <1>8, <1>9, <1>10

\* A setting that is applied twice is applied.
LEMMA AppliedTwice ==
  ASSUME op' = op, op.code \in {0, 4, 5, 6},
         out' = Flasher!Applied(op.code, op.payload[1])
  PROVE  out' = Flasher!Applied(op.code, op.payload[1])'
<1>1. /\ Flasher!CMD_TEST_PULSE = 6 /\ Flasher!CMD_SET_LED_CURRENT = 4
      /\ Flasher!CMD_LED_BUILTIN = 0 /\ Flasher!CMD_SET_PULSE_WIDTH = 5
  BY DEF Flasher!CMD_TEST_PULSE, Flasher!CMD_SET_LED_CURRENT, Flasher!CMD_LED_BUILTIN,
         Flasher!CMD_SET_PULSE_WIDTH
<1>. DEFINE t == IF op.payload[1] = 1 THEN 1 ELSE 0
<1>2. CASE op.code = 0
  <2>1. out' = [out EXCEPT !.led = op.payload[1]]
    BY <1>1, <1>2 DEF Flasher!Applied
  <2>2. Flasher!Applied(op.code, op.payload[1])' = [out' EXCEPT !.led = op.payload[1]]
    BY <1>1, <1>2 DEF Flasher!Applied
  <2>3. [out' EXCEPT !.led = op.payload[1]] = out'
    BY <2>1
  <2>. QED
    BY <2>2, <2>3
<1>3. CASE op.code = 6
  <2>1. out' = [out EXCEPT !.test = t]
    BY <1>1, <1>3 DEF Flasher!Applied
  <2>2. Flasher!Applied(op.code, op.payload[1])' = [out' EXCEPT !.test = t]
    BY <1>1, <1>3 DEF Flasher!Applied
  <2>3. [out' EXCEPT !.test = t] = out'
    BY <2>1
  <2>. QED
    BY <2>2, <2>3
<1>4. CASE op.code = 4
  <2>1. out' = [out EXCEPT !.current = op.payload[1]]
    BY <1>1, <1>4 DEF Flasher!Applied
  <2>2. Flasher!Applied(op.code, op.payload[1])' = [out' EXCEPT !.current = op.payload[1]]
    BY <1>1, <1>4 DEF Flasher!Applied
  <2>3. [out' EXCEPT !.current = op.payload[1]] = out'
    BY <2>1
  <2>. QED
    BY <2>2, <2>3
<1>5. CASE op.code = 5
  <2>1. out' = [out EXCEPT !.width = op.payload[1]]
    BY <1>1, <1>5 DEF Flasher!Applied
  <2>2. Flasher!Applied(op.code, op.payload[1])' = [out' EXCEPT !.width = op.payload[1]]
    BY <1>1, <1>5 DEF Flasher!Applied
  <2>3. [out' EXCEPT !.width = op.payload[1]] = out'
    BY <2>1
  <2>. QED
    BY <2>2, <2>3
<1>. QED
  BY <1>2, <1>3, <1>4, <1>5

\* The network and the device go on.
LEMMA AnyNetworkOutside ==
  ASSUME Application, IInv, AnyNetworkInv, Outside, UNCHANGED scriptVars
  PROVE  AnyNetworkInv'
<1>. USE DEF AnyNetworkInv
<1>1. /\ UNCHANGED <<script, at, calling, nsent, nrecvd, ended>>
      /\ UNCHANGED <<state, request_id, op, result, reorders>>
      /\ UnderWay' \subseteq UnderWay
  BY OutsideStep DEF scriptVars
<1>2. ScriptTypeOK' /\ CallingInv' /\ PingInv' /\ PingsOnly'
  BY <1>1 DEF ScriptTypeOK, CallingInv, PingInv, PingsOnly, MostCalls, Calls, Made
<1>3. OutputsInv'
  <2>1. ASSUME NEW d \in UnderWay, Effect(d)
        PROVE  OutputsInv'
    BY <2>1, UnderWayWords, EffectMeans
  <2>. QED
    BY <2>1, OutputsOutside, Dark DEF OutputsInv
<1>4. OnceInv'
  <2>1. CurrentOnly => CurrentOnly'
    BY <1>1 DEF CurrentOnly
  <2>2. ASSUME script.loop = <<>>, Len(Calls) = 1, execs' > 0,
               Flasher!Sets(Datagram(request_id, op).data)
        PROVE  out' = Flasher!DarkPins \/ out' = Flasher!Applied(op.code, op.payload[1])'
    <3>1. CASE execs' = execs /\ out' = Flasher!DarkPins
      BY <3>1
    <3>2. CASE execs' = execs /\ out' = out
      BY <1>1, <2>2, <3>2 DEF OnceInv, Flasher!Applied, Flasher!DarkPins
    <3>3. ASSUME NEW d \in UnderWay, Effect(d)
          PROVE  out' = Flasher!Applied(op.code, op.payload[1])'
      <4>1. d = Datagram(request_id, op)
        BY <2>2, UnderWayWords DEF OnceInv, CurrentOnly
      <4>2. d.data[3] = op.code /\ Payload(d.data) = op.payload
        BY <4>1, CurrentCall, DatagramWords
      <4>3. out' = Flasher!Applied(op.code, op.payload[1])
        BY <2>2, <3>3, <4>1, <4>2 DEF Effect
      <4>4. op.code \in {0, 4, 5, 6}
        BY <2>2, <4>1, <4>2, Kinds
      <4>. QED
        BY <1>1, <4>3, <4>4, AppliedTwice
    <3>. QED
      BY <3>1, <3>2, <3>3, OutputsOutside
  <2>3. Flasher!Sets(Datagram(request_id, op).data)' <=>
          Flasher!Sets(Datagram(request_id, op).data)
    BY <1>1
  <2>. QED
    BY <1>1, <2>1, <2>2, <2>3 DEF OnceInv, Calls, Flasher!DarkPins
<1>. QED
  BY <1>2, <1>3, <1>4

\* Every step preserves the invariant.
LEMMA AnyNetworkStep ==
  ASSUME Application, IInv, AnyNetworkInv, [ScriptNext]_allVars
  PROVE  AnyNetworkInv'
<1>1. CASE Interrupt \/ UNCHANGED allVars
  <2>1. /\ UNCHANGED <<script, at, calling, nsent, nrecvd, state, request_id, op, result,
                       reorders, out, execs, requests, inbox>>
        /\ ended' = ended \/ ended' = "interrupt"
    BY <1>1 DEF Interrupt, allVars, scriptVars, vars, clientVars, frame, othersVars,
                deviceVars
  <2>2. UNCHANGED <<UnderWay, Calls, MostCalls>>
    BY <2>1 DEF UnderWay, Calls, MostCalls
  <2>. QED
    BY <2>1, <2>2, ZenonT(40)
    DEF AnyNetworkInv, ScriptTypeOK, CallingInv, Made, PingInv, PingsOnly, OutputsInv,
        OnceInv, CurrentOnly, Flasher!Applied, Flasher!DarkPins
<1>. QED
  BY <1>1, AnyNetworkCall, AnyNetworkReturn, AnyNetworkClient, AnyNetworkOutside DEF ScriptNext
-----------------------------------------------------------------------------
(* The test pulse line, over a network that keeps the order.               *)

\* The scripts lower the line before they select a current.
Lowering == \A s \in ScriptsInOrder : LowersFirst(s)

\* While a current is selected by a request under way, the line is low, and only
\* the current call, a later one, may raise it.
SelectsLow ==
  \A d \in UnderWay : SetsCurrent(Content(d)) =>
    /\ out.test = 0
    /\ \A e \in UnderWay : Raises(Content(e)) =>
         e.data[1] = request_id /\ d.data[1] # request_id

\* Where a current is selected, the line was lowered before.
LEMMA SelectedLow ==
  ASSUME Lowering, ScriptTypeOK, ~reorders, NEW o \in Calls[at], SetsCurrent(o)
  PROVE  LowBefore(script, at) /\ ~Raises(o) /\ ~Lowers(o)
<1>1. script \in ScriptsInOrder /\ at \in DOMAIN CallsOf(script)
  BY DEF ScriptTypeOK, Calls
<1>2. LowBefore(script, at)
  BY <1>1 DEF Lowering, LowersFirst, Calls
<1>. QED
  BY <1>2, Exclusive

\* After an execution only copies of the current request are under way.
LEMMA OnlyCurrent ==
  ASSUME IInv, ~reorders, execs > 0
  PROVE  CurrentOnly
BY DEF IInv, OrderInv, CurrentOnly, UnderWay

\* Before the first call.
LEMMA LineInit ==
  ASSUME ScriptInit
  PROVE  LineInv
<1>1. UnderWay = {} /\ out.test = 0 /\ calling = FALSE
  BY AnyNetworkInit DEF ScriptInit
<1>. QED
  BY <1>1 DEF LineInv, CurrentOnly, StaysLow

\* A call begins.
LEMMA LineCall ==
  ASSUME Application, Lowering, IInv, AnyNetworkInv, LineInv, NextCall
  PROVE  LineInv'
<1>1. /\ ended = "no" /\ ~calling /\ calling' = TRUE
      /\ UNCHANGED <<script, at, ended, out, reorders>>
  BY CallBegins DEF AnyNetworkInv
<1>2. PICK o \in Calls[at] :
        /\ o \in Ops
        /\ \/ /\ Packs(o) /\ op' = o /\ state' = "waiting" /\ result' = "none"
              /\ execs' = 0
              /\ UnderWay' = UnderWay \cup {Datagram(request_id', o)}
              /\ \A d \in UnderWay : d.data[1] # request_id'
           \/ /\ ~Packs(o) /\ state' = "idle" /\ result' = "struct.error"
              /\ UNCHANGED <<op, request_id, execs, requests, inbox>>
              /\ UnderWay' = UnderWay
  BY CallBegins DEF AnyNetworkInv
<1>. SUFFICES ASSUME ~reorders, script.caught = {}
              PROVE  LineInv'
  BY <1>1 DEF LineInv
<1>3. /\ SelectsLow /\ CurrentOnly
      /\ LowBefore(script, at) => StaysLow
  BY <1>1 DEF LineInv, SelectsLow
<1>4. CASE ~Packs(o)
  <2>1. SelectsLow'
    BY <1>1, <1>2, <1>3, <1>4 DEF SelectsLow
  <2>. QED
    BY <1>1, <1>2, <1>4, <2>1 DEF LineInv, SelectsLow
<1>5. CASE Packs(o)
  <2>. DEFINE n == Datagram(request_id', o)
  <2>1. o \in Op /\ request_id' \in Int
    <3>1. IInv'
      <4>1. [ScriptNext]_allVars
        BY DEF ScriptNext
      <4>. QED
        BY <4>1, StepOfSystem, InvariantStep DEF AnyNetworkInv
    <3>. QED
      BY <1>2, <3>1, SystemAssumption DEF IInv, TypeOK
  <2>2. /\ n.data[1] = request_id'
        /\ SetsCurrent(Content(n)) <=> SetsCurrent(o)
        /\ Raises(Content(n)) <=> Raises(o)
    BY <2>1, ContentOf
  <2>3. UnderWay' = UnderWay \cup {n} /\ \A d \in UnderWay : d.data[1] # request_id'
    BY <1>2, <1>5
  <2>. HIDE DEF n
  <2>4. ASSUME NEW d \in UnderWay', SetsCurrent(Content(d))
        PROVE  /\ out'.test = 0
               /\ \A e \in UnderWay' : Raises(Content(e)) =>
                    e.data[1] = request_id' /\ d.data[1] # request_id'
    <3>1. CASE d = n
      <4>1. StaysLow /\ ~Raises(o)
        BY <1>3, <2>2, <2>4, <3>1, SelectedLow DEF AnyNetworkInv
      <4>. QED
        BY <1>1, <2>2, <2>3, <4>1 DEF StaysLow
    <3>2. CASE d \in UnderWay
      <4>1. out.test = 0 /\ \A e \in UnderWay : ~Raises(Content(e))
        BY <1>3, <2>4, <3>2 DEF SelectsLow, CurrentOnly
      <4>. QED
        BY <1>1, <2>2, <2>3, <3>2, <4>1
    <3>. QED
      BY <2>3, <3>1, <3>2
  <2>5. LowBefore(script, at) /\ ~Raises(o) => StaysLow'
    BY <1>1, <1>3, <2>2, <2>3 DEF StaysLow
  <2>6. SelectsLow'
    BY <2>4 DEF SelectsLow
  <2>7. op' = o /\ execs' = 0
    BY <1>2, <1>5
  <2>. QED
    BY <1>1, <2>5, <2>6, <2>7 DEF LineInv, SelectsLow
<1>. QED
  BY <1>4, <1>5

\* A call in progress is repeated, or ends.
LEMMA LineClient ==
  ASSUME Application, Lowering, IInv, AnyNetworkInv, LineInv, ended = "no", Client,
         UNCHANGED scriptVars
  PROVE  LineInv'
<1>1. UNCHANGED <<script, at, calling, ended>>
  BY DEF scriptVars
<1>2. /\ result = "none" /\ calling /\ Made
      /\ UNCHANGED <<request_id, op, execs, out, reorders>>
      /\ UnderWay' \subseteq UnderWay \cup {Datagram(request_id, op)}
  BY CallGoesOn DEF AnyNetworkInv
<1>. SUFFICES ASSUME ~reorders, script.caught = {}
              PROVE  LineInv'
  BY <1>1, <1>2 DEF LineInv
<1>3. /\ SelectsLow
      /\ LowBefore(script, at) /\ ~Raises(op) => StaysLow
      /\ Lowers(op) /\ execs > 0 => out.test = 0
  BY <1>2 DEF LineInv, SelectsLow
<1>. DEFINE n == Datagram(request_id, op)
<1>4. /\ n.data[1] = request_id
      /\ SetsCurrent(Content(n)) <=> SetsCurrent(op)
      /\ Raises(Content(n)) <=> Raises(op)
  BY CurrentCall, ContentOf
<1>5. \A d \in UnderWay : d.data[1] = request_id => d = n
  BY UnderWayWords
<1>6. UnderWay' \subseteq UnderWay \cup {n}
  BY <1>2
<1>. HIDE DEF n
<1>7. ASSUME NEW d \in UnderWay', SetsCurrent(Content(d))
      PROVE  /\ out.test = 0
             /\ \A e \in UnderWay' : Raises(Content(e)) =>
                  e.data[1] = request_id /\ d.data[1] # request_id
  <2>1. CASE d = n
    <3>1. StaysLow /\ ~Raises(op)
      BY <1>2, <1>3, <1>4, <1>7, <2>1, SelectedLow DEF Made, AnyNetworkInv
    <3>. QED
      BY <1>4, <1>6, <3>1 DEF StaysLow
  <2>2. CASE d # n
    <3>1. d \in UnderWay /\ d.data[1] # request_id
      BY <1>5, <1>6, <2>2
    <3>. QED
      BY <1>3, <1>4, <1>6, <1>7, <3>1 DEF SelectsLow
  <2>. QED
    BY <2>1, <2>2
<1>8. SelectsLow'
  BY <1>2, <1>7 DEF SelectsLow
<1>9. LowBefore(script, at) /\ ~Raises(op) => StaysLow'
  BY <1>2, <1>3, <1>4, <1>6 DEF StaysLow
<1>. QED
  BY <1>1, <1>2, <1>3, <1>8, <1>9 DEF LineInv, SelectsLow

\* A call that ended is looked at.  Where the line must be low before the next one,
\* this one was executed, so that nothing older is under way, and it lowered the
\* line, or found it low.
LEMMA LineReturn ==
  ASSUME Application, IInv, AnyNetworkInv, LineInv, CallReturns
  PROVE  LineInv'
<1>1. /\ calling /\ calling' = FALSE
      /\ UNCHANGED <<script, reorders, result, op, request_id, requests, inbox, execs, out>>
      /\ \/ result = "value" /\ Returned
         \/ result # "value" /\ Raised
  BY DEF CallReturns, vars, clientVars, frame, othersVars, deviceVars
<1>. SUFFICES ASSUME ~reorders, script.caught = {}
              PROVE  LineInv'
  BY <1>1 DEF LineInv
<1>2. UnderWay' = UnderWay
  BY <1>1 DEF UnderWay
<1>3. SelectsLow'
  <2>1. SelectsLow
    BY DEF LineInv, SelectsLow
  <2>. QED
    BY <1>1, <1>2, <2>1 DEF SelectsLow
<1>4. ASSUME ended' = "no"
      PROVE  CurrentOnly' /\ (LowBefore(script, at') => StaysLow')
  <2>1. result = "value" /\ Returned
    BY <1>1, <1>4 DEF Raised
  <2>2. execs > 0
    BY <2>1, ValueExecuted
  <2>3. CurrentOnly
    BY <2>2, OnlyCurrent
  <2>4. ASSUME LowBefore(script, at')
        PROVE  StaysLow
    <3>1. /\ Len(Calls) = Len(script.first) + Len(script.loop)
          /\ DOMAIN Calls = 1..Len(Calls) /\ at \in 1..Len(Calls)
          /\ script.loop # <<>> => Len(script.loop) >= 1
      BY CallsOfScript DEF AnyNetworkInv
    <3>2. Len(script.first) \in Nat /\ Len(script.loop) \in Nat /\ Len(Calls) \in Nat
      <4>1. /\ script.first \in Seq(SUBSET Ops) /\ script.loop \in Seq(SUBSET Ops)
            /\ Calls \in Seq(SUBSET Ops)
        BY CallsOfScript DEF AnyNetworkInv
      <4>. QED
        BY <4>1
    <3>3. \/ at < Len(Calls) /\ at' = at + 1
          \/ /\ at = Len(Calls) /\ Len(script.first) < Len(Calls)
             /\ at' = Len(script.first) + 1
      <4>1. \A n, f, l \in Nat : \A i \in 1..n : n = f + l =>
              /\ i < n \/ i = n
              /\ l >= 1 => f < n
        OBVIOUS
      <4>2. /\ at < Len(Calls) \/ at = Len(Calls)
            /\ script.loop # <<>> => Len(script.first) < Len(Calls)
        BY <3>1, <3>2, <4>1
      <4>. QED
        BY <1>4, <2>1, <4>2 DEF Returned
    <3>4. /\ ~MayRaise(Calls, at)
          /\ MustLower(Calls, at) \/ LowBefore(script, at)
      BY <2>4, <3>1, <3>2, <3>3, LowBeforeNext DEF Calls
    <3>5. op \in Calls[at]
      BY <1>1, <2>1 DEF AnyNetworkInv, CallingInv, CallReturns, Made
    <3>6. ~Raises(op) /\ (Lowers(op) \/ LowBefore(script, at))
      BY <3>4, <3>5 DEF MayRaise, MustLower
    <3>7. out.test = 0
      BY <1>1, <2>1, <2>2, <3>6 DEF LineInv, StaysLow
    <3>8. ASSUME NEW d \in UnderWay
          PROVE  ~Raises(Content(d))
      <4>1. d = Datagram(request_id, op)
        BY <2>3, UnderWayWords DEF CurrentOnly
      <4>. QED
        BY <3>6, <4>1, CurrentCall, ContentOf
    <3>. QED
      BY <3>7, <3>8 DEF StaysLow
  <2>. QED
    BY <1>1, <1>2, <2>3, <2>4 DEF CurrentOnly, StaysLow
<1>. QED
  BY <1>1, <1>3, <1>4 DEF LineInv, SelectsLow

\* The network and the device go on.  A request that raises the line is the current
\* one, and after its execution no selection of an earlier call is under way.
LEMMA LineOutside ==
  ASSUME Application, IInv, AnyNetworkInv, LineInv, Outside, UNCHANGED scriptVars
  PROVE  LineInv'
<1>1. /\ UNCHANGED <<script, at, calling, ended>>
      /\ UNCHANGED <<request_id, op, result, reorders>>
      /\ UnderWay' \subseteq UnderWay
  BY OutsideStep DEF scriptVars
<1>. SUFFICES ASSUME ~reorders, script.caught = {}
              PROVE  LineInv'
  BY <1>1 DEF LineInv
<1>2. IInv'
  BY InvariantStep DEF Next
<1>3. execs \in Nat /\ execs' \in Nat
  BY <1>2 DEF IInv, TypeOK
<1>4. SelectsLow
  BY DEF LineInv, SelectsLow
\* What becomes of the line.
<1>5. ASSUME out.test = 0
      PROVE  \/ out'.test = 0
             \/ \E d \in UnderWay :
                  Raises(Content(d)) /\ (d.data[1] = request_id => execs' > 0)
  <2>1. ASSUME NEW d \in UnderWay, Effect(d),
               execs' = IF d.data[1] = request_id THEN execs + 1 ELSE execs
        PROVE  /\ Raises(Content(d)) \/ out'.test = 0
               /\ d.data[1] = request_id => execs' > 0
    BY <1>3, <1>5, <2>1, UnderWayWords, EffectMeans DEF AnyNetworkInv
  <2>. QED
    BY <1>5, <2>1, OutputsOutside, Dark
<1>6. SelectsLow'
  <2>1. ASSUME NEW d \in UnderWay', SetsCurrent(Content(d))
        PROVE  /\ out'.test = 0
               /\ \A e \in UnderWay' : Raises(Content(e)) =>
                    e.data[1] = request_id /\ d.data[1] # request_id
    <3>1. /\ d \in UnderWay /\ out.test = 0
          /\ \A e \in UnderWay : Raises(Content(e)) =>
               e.data[1] = request_id /\ d.data[1] # request_id
      BY <1>1, <1>4, <2>1 DEF SelectsLow
    <3>2. ASSUME NEW e \in UnderWay, Raises(Content(e)), e.data[1] = request_id => execs' > 0
          PROVE  FALSE
      <4>1. execs' > 0 /\ d.data[1] # request_id
        BY <3>1, <3>2
      <4>2. CurrentOnly'
        BY <1>1, <1>2, <4>1 DEF IInv, OrderInv, CurrentOnly, UnderWay
      <4>. QED
        BY <1>1, <2>1, <4>1, <4>2 DEF CurrentOnly
    <3>. QED
      BY <1>1, <1>5, <3>1, <3>2
  <2>. QED
    BY <1>1, <2>1 DEF SelectsLow
<1>7. StaysLow => StaysLow'
  BY <1>1, <1>5 DEF StaysLow
<1>8. CurrentOnly => CurrentOnly'
  BY <1>1 DEF CurrentOnly
<1>9. ASSUME Lowers(op), execs' > 0, execs > 0 => out.test = 0
      PROVE  out'.test = 0
  <2>1. CASE execs' = execs /\ out' \in {out, Flasher!DarkPins}
    BY <1>9, <2>1, Dark
  <2>2. ASSUME NEW d \in UnderWay, Effect(d),
               execs' = IF d.data[1] = request_id THEN execs + 1 ELSE execs
        PROVE  out'.test = 0
    <3>1. d.data[1] = request_id
      BY <1>9, <2>2, OnlyCurrent DEF CurrentOnly
    <3>2. d = Datagram(request_id, op) /\ d \in AllRequests
      BY <3>1, UnderWayWords
    <3>3. Lowers(Content(d))
      BY <1>9, <3>2, CurrentCall, ContentOf
    <3>. QED
      BY <2>2, <3>2, <3>3, EffectMeans DEF AnyNetworkInv
  <2>. QED
    BY <2>1, <2>2, OutputsOutside
<1>. QED
  BY <1>1, <1>6, <1>7, <1>8, <1>9 DEF LineInv, SelectsLow

\* Every step preserves the invariant.
LEMMA LineStep ==
  ASSUME Application, Lowering, IInv, AnyNetworkInv, LineInv, [ScriptNext]_allVars
  PROVE  LineInv'
<1>1. CASE Interrupt \/ UNCHANGED allVars
  <2>1. /\ UNCHANGED <<script, at, calling, request_id, op, result, reorders, out, execs,
                       requests, inbox>>
        /\ ended' = ended \/ ended' = "interrupt"
    BY <1>1 DEF Interrupt, allVars, scriptVars, vars, clientVars, frame, othersVars,
                deviceVars
  <2>2. UnderWay' = UnderWay
    BY <2>1 DEF UnderWay
  <2>. QED
    BY <2>1, <2>2 DEF LineInv, CurrentOnly, StaysLow
<1>. QED
  BY <1>1, LineCall, LineReturn, LineClient, LineOutside DEF ScriptNext
-----------------------------------------------------------------------------
(* What holds of every script.                                             *)

\* The invariants of the system and of the script hold together, over any network.
THEOREM ScriptSafety ==
  ASSUME Application
  PROVE  ScriptSpec => [](IInv /\ AnyNetworkInv)
<1>1. ScriptInit => IInv /\ AnyNetworkInv
  BY InitInvariant, AnyNetworkInit DEF ScriptInit
<1>2. IInv /\ AnyNetworkInv /\ [ScriptNext]_allVars => (IInv /\ AnyNetworkInv)'
  BY StepOfSystem, InvariantStep, AnyNetworkStep DEF AnyNetworkInv
<1>. QED
  BY <1>1, <1>2, PTL DEF ScriptSpec

\* A script is an application: what it does is what the system may do, so that
\* whatever is proved of the system holds while it runs.
THEOREM ScriptsRunTheSystem ==
  ASSUME Application
  PROVE  ScriptSpec => Spec
<1>1. ScriptInit => Init
  BY DEF ScriptInit
<1>2. IInv /\ AnyNetworkInv /\ [ScriptNext]_allVars => [Next]_vars
  BY StepOfSystem DEF AnyNetworkInv
<1>. QED
  BY <1>1, <1>2, ScriptSafety, PTL DEF ScriptSpec, Spec

\* The whole invariant, of scripts that lower the line before they select a current.
THEOREM ScriptInvariance ==
  ASSUME Application, Lowering
  PROVE  ScriptSpec => []ScriptInv
<1>1. ScriptInit => LineInv
  BY LineInit
<1>2. IInv /\ AnyNetworkInv /\ LineInv /\ [ScriptNext]_allVars => LineInv'
  BY LineStep
<1>3. AnyNetworkInv /\ LineInv => ScriptInv
  BY DEF ScriptInv
<1>. QED
  BY <1>1, <1>2, <1>3, ScriptSafety, PTL DEF ScriptSpec

\* A ping tool of a silent client counts lost pings and goes on: no late answer to
\* a ping that it gave up ends it.
THEOREM PingToolsGoOn ==
  ASSUME Application, Verbosity = 0
  PROVE  ScriptSpec => []PingsGoOn
<1>1. AnyNetworkInv => PingsGoOn
  BY DEF AnyNetworkInv, PingInv, PingsGoOn
<1>. QED
  BY <1>1, ScriptSafety, PTL

\* A setting script that is done has set its value, which is a legal one, whatever
\* the network lost, repeated or reordered.
THEOREM SettingsAreDone ==
  ASSUME Application
  PROVE  ScriptSpec => []DoneIsSet
<1>1. ASSUME IInv, AnyNetworkInv, ended = "done", op.code \in Flasher!Setters
      PROVE  /\ op.payload[1] \in 0..Flasher!Largest(op.code)
             /\ out \in {Flasher!DarkPins, Flasher!Applied(op.code, op.payload[1])}
  <2>. DEFINE data == Datagram(request_id, op).data
  <2>1. /\ result = "value" /\ script.loop = <<>> /\ at = Len(Calls)
        /\ op \in Calls[at] /\ Packs(op)
    BY <1>1 DEF AnyNetworkInv, CallingInv, Made
  <2>2. Len(Calls) = 1 /\ op.method = "flasher" /\ op \in Ops
    <3>1. IsScript(script) /\ op \in Ops
      BY <1>1, <2>1, CallsOfScript DEF AnyNetworkInv
    <3>. QED
      BY <1>1, <2>1, <3>1 DEF IsScript, Calls
  <2>3. op.sys = 2 /\ op.code \in {0, 4, 5, 6} /\ op.payload \in Seq(Int)
    BY <1>1, <2>2, CurrentCall, Numbers DEF Application, IsCall, Op
  <2>4. /\ data[2] = op.sys /\ data[3] = op.code /\ Payload(data) = op.payload
        /\ Len(data) = 3 + Len(op.payload)
    BY <1>1, CurrentCall, DatagramWords
  <2>5. Performs(data) \/ Flasher!IsConfigWrite(data)
    BY <1>1, <2>1, <2>2 DEF IInv, ResultInv
  <2>. HIDE DEF data
  <2>6. Flasher!Sets(data)
    BY <2>3, <2>4, <2>5, Kinds, Formats, Numbers DEF Performs
  <2>7. op.payload[1] \in 0..Flasher!Largest(op.code)
    <3>1. Len(data) = 4 /\ op.payload[1] <= Flasher!Largest(op.code)
      BY <2>4, <2>6, Kinds
    <3>2. \A p \in Seq(Int) : 4 = 3 + Len(p) => 1 \in DOMAIN p
      OBVIOUS
    <3>3. op.payload[1] \in 0..255
      BY <2>1, <2>2, <2>3, <2>4, <3>1, <3>2 DEF Packs
    <3>4. Flasher!Largest(op.code) \in Nat
      BY <2>3 DEF Flasher!Largest, Flasher!CMD_LED_BUILTIN, Flasher!CMD_TEST_PULSE,
                  Flasher!CMD_SET_LED_CURRENT, Flasher!CMD_SET_PULSE_WIDTH
    <3>. QED
      BY <3>1, <3>3, <3>4
  <2>8. execs > 0
    BY <1>1, <2>1, ValueExecuted
  <2>9. out \in {Flasher!DarkPins, Flasher!Applied(op.code, op.payload[1])}
    BY <1>1, <2>1, <2>2, <2>6, <2>8 DEF AnyNetworkInv, OnceInv, data
  <2>. QED
    BY <2>7, <2>9
<1>2. IInv /\ AnyNetworkInv => DoneIsSet
  BY <1>1 DEF DoneIsSet
<1>. QED
  BY <1>2, ScriptSafety, PTL

\* Over a network that keeps the order the current changes only while the test pulse
\* line is low.
THEOREM CurrentIsSetWhileLow ==
  ASSUME Application, Lowering
  PROVE  ScriptSpec => CurrentSetWhileLow
<1>1. ASSUME IInv, ScriptInv, [ScriptNext]_allVars, ~reorders, out.test = 1
      PROVE  out'.current \in {out.current, 0}
  <2>1. CASE Outside
    <3>1. ASSUME NEW d \in UnderWay, Effect(d)
          PROVE  out'.current = out.current
      <4>1. d \in AllRequests /\ OutputsInv
        BY <1>1, UnderWayWords DEF ScriptInv, AnyNetworkInv
      <4>2. ~SetsCurrent(Content(d)) \/ d.data[2] # SYS_FLASHER
        BY <1>1 DEF ScriptInv, AnyNetworkInv, PingsOnly, LineInv
      <4>. QED
        BY <3>1, <4>1, <4>2, EffectMeans
    <3>. QED
      BY <1>1, <2>1, <3>1, OutputsOutside, Dark
  <2>2. CASE ~Outside
    <3>1. [Next]_vars
      BY <1>1, StepOfSystem DEF ScriptInv, AnyNetworkInv
    <3>2. out' = out
      BY <2>2, <3>1 DEF Next, Call, Client, GoesOn, GivesUp, vars, othersVars, deviceVars
    <3>. QED
      BY <3>2
  <2>. QED
    BY <2>1, <2>2
<1>2. IInv /\ ScriptInv /\ [ScriptNext]_allVars
        => [~reorders /\ out.test = 1 => out'.current \in {out.current, 0}]_allVars
  BY <1>1, Zenon
<1>. QED
  BY <1>2, ScriptSafety, ScriptInvariance, PTL DEF ScriptSpec, CurrentSetWhileLow
-----------------------------------------------------------------------------
(* The scripts of the repository are such scripts.                         *)

\* The calls of test_LED: two to begin with, then, for each current, its selection
\* and a pulse, which ends with the line low.
LEMMA CallsOfTestLED ==
  /\ Len(test_LED.first) = 2 /\ Len(CallsOf(test_LED)) = 50
  /\ DOMAIN CallsOf(test_LED) = 1..50
  /\ CallsOf(test_LED)[1] = {TEST_PULSE(0)}
  /\ CallsOf(test_LED)[2] = {SET_PULSE_WIDTH(255)}
  /\ \A i \in 3..50 : CallsOf(test_LED)[i] =
       CASE (i - 2) % 3 = 1 -> {SET_LED_CURRENT((i - 2) \div 3)}
         [] (i - 2) % 3 = 2 -> {TEST_PULSE(1)}
         [] (i - 2) % 3 = 0 -> {TEST_PULSE(0)}
<1>. DEFINE C(i) == CASE i % 3 = 1 -> {SET_LED_CURRENT(i \div 3)}
                      [] i % 3 = 2 -> {TEST_PULSE(1)}
                      [] i % 3 = 0 -> {TEST_PULSE(0)}
            first == Once(TEST_PULSE(0)) \o Once(SET_PULSE_WIDTH(255))
            loop == [i \in 1..48 |-> C(i)]
<1>1. test_LED.first = first /\ test_LED.loop = loop
  BY DEF test_LED, Script
<1>. HIDE DEF C
<1>. DEFINE All == {{TEST_PULSE(0)}, {SET_PULSE_WIDTH(255)}} \cup {C(i) : i \in 1..48}
<1>2. ASSUME NEW S, NEW a \in S, NEW b \in S
      PROVE  /\ <<a>> \o <<b>> \in Seq(S) /\ Len(<<a>> \o <<b>>) = 2
             /\ (<<a>> \o <<b>>)[1] = a /\ (<<a>> \o <<b>>)[2] = b
  OBVIOUS
<1>3. loop \in Seq(All) /\ Len(loop) = 48
  OBVIOUS
<1>4. \A i \in 1..48 : loop[i] = C(i)
  OBVIOUS
<1>5. /\ first \in Seq(All) /\ Len(first) = 2
      /\ first[1] = {TEST_PULSE(0)} /\ first[2] = {SET_PULSE_WIDTH(255)}
  BY <1>2 DEF Once
<1>. HIDE DEF first, loop, All
<1>6. CallsOf(test_LED) = first \o loop
  BY <1>1 DEF CallsOf
<1>. DEFINE st == first \o loop
<1>7. /\ st \in Seq(All) /\ Len(st) = 50
      /\ \A i \in 1..50 : st[i] = IF i <= 2 THEN first[i] ELSE loop[i - 2]
  <2>1. \A s, t \in Seq(All) :
          /\ s \o t \in Seq(All) /\ Len(s \o t) = Len(s) + Len(t)
          /\ \A i \in 1..Len(s) + Len(t) :
               (s \o t)[i] = IF i <= Len(s) THEN s[i] ELSE t[i - Len(s)]
    BY ConcatProperties
  <2>2. /\ st \in Seq(All) /\ Len(st) = Len(first) + Len(loop)
        /\ \A i \in 1..Len(first) + Len(loop) :
             st[i] = IF i <= Len(first) THEN first[i] ELSE loop[i - Len(first)]
    BY <1>3, <1>5, <2>1
  <2>. HIDE DEF st
  <2>. QED
    BY <1>3, <1>5, <2>2
<1>. HIDE DEF st
<1>8. /\ DOMAIN st = 1..50 /\ st[1] = first[1] /\ st[2] = first[2]
      /\ \A i \in 3..50 : st[i] = loop[i - 2]
  BY <1>7
<1>9. \A i \in 3..50 : i - 2 \in 1..48 /\ loop[i - 2] = C(i - 2)
  <2>1. \A i \in 3..50 : i - 2 \in 1..48
    OBVIOUS
  <2>. QED
    BY <1>4, <2>1
<1>10. \A i \in 3..50 : CallsOf(test_LED)[i] = C(i - 2)
  BY <1>6, <1>8, <1>9 DEF st
<1>. QED
  BY <1>1, <1>5, <1>6, <1>7, <1>8, <1>10 DEF C, st

\* What the setting methods ask for.
LEMMA SettingMethods ==
  /\ ~SetsCurrent(TEST_PULSE(0)) /\ ~Raises(TEST_PULSE(0)) /\ Lowers(TEST_PULSE(0))
  /\ ~SetsCurrent(TEST_PULSE(1))
  /\ ~SetsCurrent(SET_PULSE_WIDTH(255)) /\ ~Raises(SET_PULSE_WIDTH(255))
  /\ \A v : ~Raises(SET_LED_CURRENT(v))
<1>1. /\ CMD_TEST_PULSE = 6 /\ CMD_SET_LED_CURRENT = 4 /\ CMD_SET_PULSE_WIDTH = 5
      /\ <<0>> # <<1>>
  BY DEF CMD_TEST_PULSE, CMD_SET_LED_CURRENT, CMD_SET_PULSE_WIDTH
<1>2. \A code, payload :
        /\ FlasherCall(code, payload).sys = SYS_FLASHER
        /\ FlasherCall(code, payload).code = code
        /\ FlasherCall(code, payload).payload = payload
  BY DEF FlasherCall, CallOf
<1>. QED
  BY <1>1, <1>2
  DEF SetsCurrent, Raises, Lowers, TEST_PULSE, SET_PULSE_WIDTH, SET_LED_CURRENT

\* The test scripts of the repository lower the line before they select a current:
\* test_LED after each pulse, test_pulses selects none.
THEOREM TestScriptsLower ==
  LowersFirst(test_LED) /\ LowersFirst(test_pulses)
<1>1. LowersFirst(test_LED)
  <2>. DEFINE calls == CallsOf(test_LED)
  <2>1. /\ Len(test_LED.first) = 2 /\ Len(calls) = 50 /\ DOMAIN calls = 1..50
        /\ calls[1] = {TEST_PULSE(0)} /\ calls[2] = {SET_PULSE_WIDTH(255)}
        /\ \A i \in 3..50 : calls[i] =
             CASE (i - 2) % 3 = 1 -> {SET_LED_CURRENT((i - 2) \div 3)}
               [] (i - 2) % 3 = 2 -> {TEST_PULSE(1)}
               [] (i - 2) % 3 = 0 -> {TEST_PULSE(0)}
    BY CallsOfTestLED
  <2>. HIDE DEF calls
  <2>2. \A i \in 1..50 : i = 1 \/ i = 2 \/ (i \in 3..50 /\ (i - 2) % 3 \in {0, 1, 2})
    OBVIOUS
  \* A current is selected at every third call, and the line raised at the next.
  <2>3. ASSUME NEW i \in 1..50, NEW o \in calls[i], SetsCurrent(o)
        PROVE  i \in 3..50 /\ (i - 2) % 3 = 1
    BY <2>1, <2>2, <2>3, SettingMethods
  <2>4. ASSUME NEW r \in 1..50, MayRaise(calls, r)
        PROVE  r \in 3..50 /\ (r - 2) % 3 = 2
    BY <2>1, <2>2, <2>4, SettingMethods DEF MayRaise
  <2>5. ASSUME NEW r \in 3..50, (r - 2) % 3 = 2
        PROVE  r + 1 \in 3..50 /\ MustLower(calls, r + 1)
    <3>1. r + 1 \in 3..50 /\ (r + 1 - 2) % 3 = 0
      BY <2>5
    <3>2. calls[r + 1] = {TEST_PULSE(0)}
      BY <2>1, <3>1
    <3>. QED
      BY <3>1, <3>2, SettingMethods DEF MustLower
  <2>6. ASSUME NEW i \in 1..50, NEW o \in calls[i], SetsCurrent(o)
        PROVE  LowBefore(test_LED, i)
    <3>1. i \in 3..50 /\ (i - 2) % 3 = 1
      BY <2>3, <2>6
    <3>2. ASSUME NEW r \in 1..50, MayRaise(calls, r)
          PROVE  /\ r < i => \E j \in (r + 1)..(i - 1) : MustLower(calls, j)
                 /\ i <= r => \E j \in (r + 1)..50 : MustLower(calls, j)
      <4>1. r \in 3..50 /\ (r - 2) % 3 = 2
        BY <2>4, <3>2
      <4>2. r + 1 \in 3..50 /\ MustLower(calls, r + 1)
        BY <2>5, <4>1
      <4>3. r < i => r + 1 \in (r + 1)..(i - 1)
        BY <3>1, <4>1
      <4>4. r + 1 \in (r + 1)..50
        BY <4>2
      <4>. QED
        BY <4>2, <4>3, <4>4
    <3>. QED
      BY <2>1, <3>2 DEF LowBefore, calls
  <2>. QED
    BY <2>1, <2>6 DEF LowersFirst, calls
<1>2. LowersFirst(test_pulses)
  <2>. DEFINE All == {{TEST_PULSE(0)}, {TEST_PULSE(1)}}
  <2>1. ASSUME NEW S, NEW a \in S, NEW b \in S
        PROVE  <<>> \o (<<a>> \o <<b>>) \in Seq(S)
    OBVIOUS
  <2>2. CallsOf(test_pulses) \in Seq(All)
    BY <2>1 DEF CallsOf, test_pulses, Script, Once
  <2>3. \A i \in DOMAIN CallsOf(test_pulses) : CallsOf(test_pulses)[i] \in All
    BY <2>2
  <2>. QED
    BY <2>3, SettingMethods DEF LowersFirst
<1>. QED
  BY <1>1, <1>2

\* The scripts of the repository, with whatever is given on the command line.
RepositoryScripts ==
  {blink, read_temperature, read_serial_number, test_LED, test_pulses,
   flasherctl_read_serial_no, flasherctl_read_temperature}
  \cup {flasherctl_blink(v) : v \in Int} \cup {flasherctl_test_pulse(v) : v \in Int}
  \cup {flasherctl_set_LED_current(v) : v \in Int}
  \cup {flasherctl_set_pulse_width(v) : v \in Int}
  \cup {flasherctl_ping(v) : v \in Int} \cup {ping_tool(n) : n \in Nat}

\* The calls of the setting and reading methods.
FlasherCalls ==
  {FlasherCall(code, payload) : code \in CMD_LED_BUILTIN..CMD_TEST_PULSE, payload \in Seq(Int)}

\* They are calls of methods.
LEMMA MethodsAreCalls ==
  /\ \A o \in FlasherCalls : IsCall(o) /\ o.method = "flasher"
  /\ \A v \in Int : /\ LED_BUILTIN(v) \in FlasherCalls /\ TEST_PULSE(v) \in FlasherCalls
                    /\ SET_LED_CURRENT(v) \in FlasherCalls
                    /\ SET_PULSE_WIDTH(v) \in FlasherCalls
  /\ START_TEMPERATURE \in FlasherCalls
  /\ READ_TEMPERATURE \in FlasherCalls /\ READ_TEMPERATURE.code = 2
  /\ READ_SERIAL_NO \in FlasherCalls
<1>1. /\ CMD_LED_BUILTIN = 0 /\ CMD_START_TEMPERATURE = 1 /\ CMD_READ_TEMPERATURE = 2
      /\ CMD_READ_SERIAL_NO = 3 /\ CMD_SET_LED_CURRENT = 4 /\ CMD_SET_PULSE_WIDTH = 5
      /\ CMD_TEST_PULSE = 6
  BY DEF CMD_LED_BUILTIN, CMD_START_TEMPERATURE, CMD_READ_TEMPERATURE, CMD_READ_SERIAL_NO,
         CMD_SET_LED_CURRENT, CMD_SET_PULSE_WIDTH, CMD_TEST_PULSE
<1>2. \A code, payload :
        /\ FlasherCall(code, payload).sys = SYS_FLASHER
        /\ FlasherCall(code, payload).code = code
        /\ FlasherCall(code, payload).method = "flasher"
  BY DEF FlasherCall, CallOf
<1>3. ASSUME NEW code \in 0..6, NEW payload \in Seq(Int)
      PROVE  FlasherCall(code, payload) \in FlasherCalls
  BY <1>1 DEF FlasherCalls
<1>4. <<>> \in Seq(Int) /\ \A v \in Int : <<v>> \in Seq(Int)
  OBVIOUS
<1>5. \A o \in FlasherCalls : IsCall(o) /\ o.method = "flasher"
  BY <1>1, <1>2 DEF FlasherCalls, IsCall
<1>6. \A code \in 0..6 : /\ FlasherCall(code, <<>>) \in FlasherCalls
                         /\ \A v \in Int : FlasherCall(code, <<v>>) \in FlasherCalls
  BY <1>3, <1>4
<1>7. /\ 0 \in 0..6 /\ 1 \in 0..6 /\ 2 \in 0..6 /\ 3 \in 0..6 /\ 4 \in 0..6 /\ 5 \in 0..6
      /\ 6 \in 0..6
  OBVIOUS
<1>. QED
  BY <1>1, <1>2, <1>5, <1>6, <1>7
  DEF LED_BUILTIN, TEST_PULSE, SET_LED_CURRENT, SET_PULSE_WIDTH, START_TEMPERATURE,
      READ_TEMPERATURE, READ_SERIAL_NO

\* What the theorems assume of a script, and of the application that runs it.
Fits(s) ==
  /\ IsScript(s)
  /\ \A i \in DOMAIN CallsOf(s) : \A o \in CallsOf(s)[i] : IsCall(o)

\* A script that makes one call.
LEMMA OneCallFits ==
  ASSUME NEW o \in FlasherCalls
  PROVE  Fits(Script(Once(o), <<>>, {}))
<1>. DEFINE s == Script(<<{o}>>, <<>>, {})
<1>1. s.first = <<{o}>> /\ s.loop = <<>> /\ s.caught = {}
  BY DEF Script
<1>2. \A x : /\ <<x>> \o <<>> # <<>> /\ Len(<<x>> \o <<>>) = 1
             /\ DOMAIN (<<x>> \o <<>>) = {1} /\ (<<x>> \o <<>>)[1] = x
  OBVIOUS
<1>3. /\ CallsOf(s) # <<>> /\ Len(CallsOf(s)) = 1 /\ DOMAIN CallsOf(s) = {1}
      /\ CallsOf(s)[1] = {o}
  BY <1>1, <1>2 DEF CallsOf
<1>. HIDE DEF s
<1>4. Fits(s)
  BY <1>1, <1>3, MethodsAreCalls DEF Fits, IsScript
<1>. QED
  BY <1>4 DEF Once, s

\* A script that loops over calls of the setting and reading methods.
LEMMA LoopFits ==
  ASSUME NEW first \in Seq(SUBSET FlasherCalls), NEW loop \in Seq(SUBSET FlasherCalls),
         loop # <<>>
  PROVE  Fits(Script(first, loop, {}))
<1>. DEFINE s == Script(first, loop, {})
<1>1. s.first = first /\ s.loop = loop /\ s.caught = {}
  BY DEF Script
<1>2. CallsOf(s) = first \o loop
  BY <1>1 DEF CallsOf
<1>3. ASSUME NEW S, NEW a \in Seq(S), NEW b \in Seq(S), b # <<>>
      PROVE  /\ a \o b # <<>> /\ \A i \in DOMAIN (a \o b) : (a \o b)[i] \in S
  <2>1. a \o b \in Seq(S)
    OBVIOUS
  <2>2. Len(a \o b) # 0
    BY <1>3
  <2>. QED
    BY <2>1, <2>2
<1>. HIDE DEF s
<1>4. CallsOf(s) # <<>> /\ \A i \in DOMAIN CallsOf(s) : CallsOf(s)[i] \in SUBSET FlasherCalls
  BY <1>2, <1>3
<1>5. Fits(s)
  BY <1>1, <1>4, MethodsAreCalls DEF Fits, IsScript
<1>. QED
  BY <1>5 DEF s

\* A ping tool: the payload is cut if it does not fit.
LEMMA PingToolFits ==
  ASSUME NEW n \in Nat, MaxPayload <= iostack_max_payload_size
  PROVE  Fits(ping_tool(n))
<1>. DEFINE pings == {ping(payload) : payload \in [1..n -> PingWords]}
            s == Script(<<>>, <<pings>>, {"TimeoutError"})
<1>1. s.first = <<>> /\ s.loop = <<pings>> /\ s.caught = {"TimeoutError"}
  BY DEF Script
<1>2. ping_tool(n) = s
  BY DEF ping_tool
<1>3. ASSUME NEW payload \in [1..n -> PingWords]
      PROVE  IsCall(ping(payload)) /\ ping(payload).method = "ping" /\ ~ping(payload).broadcast
  <2>. DEFINE sent == IF Len(payload) > MaxPayload THEN SubSeq(payload, 1, MaxPayload)
                      ELSE payload
  <2>1. payload \in Seq(PingWords) /\ Len(payload) = n
    OBVIOUS
  <2>2. MaxPayload \in Nat /\ n \in Nat
    BY ClientAssumption
  <2>3. Len(sent) <= MaxPayload
    <3>1. CASE n > MaxPayload
      <4>1. Len(SubSeq(payload, 1, MaxPayload)) = MaxPayload
        BY <2>1, <2>2, <3>1
      <4>. QED
        BY <2>1, <2>2, <3>1, <4>1
    <3>2. CASE ~(n > MaxPayload)
      BY <2>1, <2>2, <3>2
    <3>. QED
      BY <3>1, <3>2
  <2>4. ping(payload) = [CallOf(SYS_IOSTACK, CMD_PING, sent, 0) EXCEPT !.method = "ping"]
    BY DEF ping
  <2>5. Len(sent) <= iostack_max_payload_size
    <3>1. Len(sent) \in Nat /\ iostack_max_payload_size \in Nat
      BY <2>1, <2>2, SystemAssumption
    <3>. HIDE DEF sent
    <3>. QED
      BY <2>2, <2>3, <3>1
  <2>. HIDE DEF sent
  <2>. QED
    BY <2>3, <2>4, <2>5 DEF IsCall, CallOf
<1>4. \A x : /\ <<x>> # <<>> /\ <<>> \o <<x>> # <<>> /\ DOMAIN (<<>> \o <<x>>) = {1}
             /\ (<<>> \o <<x>>)[1] = x
  OBVIOUS
<1>5. \A o \in pings : IsCall(o) /\ o.method = "ping" /\ ~o.broadcast
  BY <1>3
<1>. HIDE DEF pings
<1>6. /\ CallsOf(s) # <<>> /\ DOMAIN CallsOf(s) = {1} /\ CallsOf(s)[1] = pings
      /\ s.loop # <<>>
  BY <1>1, <1>4 DEF CallsOf
<1>. HIDE DEF s
<1>7. Fits(s)
  BY <1>1, <1>5, <1>6 DEF Fits, IsScript
<1>. QED
  BY <1>2, <1>7

\* Every script of the repository is one of those that the theorems above are about,
\* and an application that makes its calls only satisfies what they assume of it, if
\* no ping of the client is longer than the device keeps (both stop at 251 bytes).
THEOREM RepositoryScriptsFit ==
  ASSUME MaxPayload <= iostack_max_payload_size
  PROVE  \A s \in RepositoryScripts : Fits(s)
<1>. DEFINE Calls1 == SUBSET FlasherCalls
<1>1. ASSUME NEW S, NEW a \in S, NEW b \in S
      PROVE  /\ <<a>> \in Seq(S) /\ <<a>> # <<>> /\ <<>> \in Seq(S)
             /\ <<a>> \o <<b>> \in Seq(S) /\ <<a>> \o <<b>> # <<>>
  OBVIOUS
<1>2. ASSUME NEW a \in FlasherCalls, NEW b \in FlasherCalls
      PROVE  /\ Once(a) \in Seq(Calls1) /\ Once(a) # <<>> /\ <<>> \in Seq(Calls1)
             /\ Once(a) \o Once(b) \in Seq(Calls1) /\ Once(a) \o Once(b) # <<>>
  BY <1>1 DEF Once
<1>3. \A v \in {0, 1, 255} : v \in Int
  OBVIOUS
<1>4. Fits(blink) /\ Fits(read_temperature) /\ Fits(read_serial_number) /\ Fits(test_pulses)
  BY <1>2, <1>3, LoopFits, MethodsAreCalls
  DEF blink, read_temperature, read_serial_number, test_pulses
<1>5. Fits(test_LED)
  <2>. DEFINE loop == [i \in 1..48 |-> CASE i % 3 = 1 -> {SET_LED_CURRENT(i \div 3)}
                                         [] i % 3 = 2 -> {TEST_PULSE(1)}
                                         [] i % 3 = 0 -> {TEST_PULSE(0)}]
  <2>1. ASSUME NEW i \in 1..48
        PROVE  loop[i] \in Calls1
    <3>1. i \div 3 \in Int /\ i % 3 \in {0, 1, 2}
      OBVIOUS
    <3>2. loop[i] \in {{SET_LED_CURRENT(i \div 3)}, {TEST_PULSE(1)}, {TEST_PULSE(0)}}
      BY <3>1
    <3>. HIDE DEF loop
    <3>. QED
      BY <1>3, <3>1, <3>2, MethodsAreCalls
  <2>2. loop \in [1..48 -> Calls1]
    BY <2>1
  <2>3. loop \in Seq(Calls1) /\ loop # <<>>
    <3>1. loop \in Seq(Calls1) /\ Len(loop) = 48
      BY <2>2
    <3>. HIDE DEF loop
    <3>2. Len(<<>>) = 0 /\ 0 # 48
      OBVIOUS
    <3>. QED
      BY <3>1, <3>2, Zenon
  <2>. HIDE DEF loop
  <2>4. test_LED = Script(Once(TEST_PULSE(0)) \o Once(SET_PULSE_WIDTH(255)), loop, {})
    BY DEF test_LED, loop
  <2>. QED
    BY <1>2, <1>3, <2>2, <2>3, <2>4, LoopFits, MethodsAreCalls, ZenonT(40)
<1>6. Fits(flasherctl_read_serial_no)
  BY OneCallFits, MethodsAreCalls DEF flasherctl_read_serial_no
<1>7. \A v \in Int : /\ Fits(flasherctl_blink(v)) /\ Fits(flasherctl_test_pulse(v))
                     /\ Fits(flasherctl_set_LED_current(v))
                     /\ Fits(flasherctl_set_pulse_width(v))
  BY OneCallFits, MethodsAreCalls
  DEF flasherctl_blink, flasherctl_test_pulse, flasherctl_set_LED_current,
      flasherctl_set_pulse_width
<1>8. Fits(flasherctl_read_temperature)
  <2>. DEFINE a == START_TEMPERATURE
              b == READ_TEMPERATURE
              s == Script(<<{a}>> \o <<{b}>>, <<>>, {})
              calls == (<<{a}>> \o <<{b}>>) \o <<>>
  <2>1. \A x, y : LET c == (<<x>> \o <<y>>) \o <<>> IN
          c # <<>> /\ Len(c) = 2 /\ DOMAIN c = {1, 2} /\ c[1] = x /\ c[2] = y
    OBVIOUS
  <2>2. s.loop = <<>> /\ s.caught = {} /\ CallsOf(s) = calls
    BY DEF Script, CallsOf
  <2>3. /\ a \in FlasherCalls /\ b \in FlasherCalls /\ b.code \notin Flasher!Setters
    BY MethodsAreCalls, Numbers
  <2>. HIDE DEF a, b, s
  <2>4. /\ calls # <<>> /\ Len(calls) = 2 /\ DOMAIN calls = {1, 2}
        /\ calls[1] = {a} /\ calls[2] = {b}
    BY <2>1
  <2>. HIDE DEF calls
  <2>5. Fits(s)
    BY <2>2, <2>3, <2>4, MethodsAreCalls DEF Fits, IsScript
  <2>. QED
    BY <2>5 DEF flasherctl_read_temperature, Once, a, b, s
<1>9. \A v \in Int : Fits(flasherctl_ping(v))
  <2>1. \A v \in Int : \E n \in Nat : flasherctl_ping(v) = ping_tool(n)
    BY ClientAssumption DEF flasherctl_ping
  <2>. QED
    BY <2>1, PingToolFits
<1>. QED
  BY <1>4, <1>5, <1>6, <1>7, <1>8, <1>9, PingToolFits DEF RepositoryScripts

=============================================================================
