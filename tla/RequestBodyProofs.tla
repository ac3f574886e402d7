-------------------------- MODULE RequestBodyProofs --------------------------
(***************************************************************************)
(* Proofs about RequestBody for any number of requests, on either listener *)
(* and any size of bodies, limit and channel.                              *)
(***************************************************************************)
EXTENDS RequestBody, Integers, SequenceTheorems, TLAPS

\* What is known of a request q, its pump p, its channel ch, and the origin's side o
\* and e.  The client sends no more than it said, and the pump is not ahead of it.
Asked(q, p) ==
    /\ q.sent <= q.length
    /\ q.client = "finished" => q.sent = q.length
    /\ p.got = p.seen /\ p.got <= q.sent
    /\ p.at \in {"recv", "send"} => p.seen <= MaxBody

\* Nothing flows before the request is forwarded.
Unstarted(q, p, ch, o, e) ==
    q.stage # "forwarded" =>
       p.at = "none" /\ p.got = 0 /\ ch = <<>> /\ o = <<>> /\ e = "open"

\* On HTTP/1 and HTTP/2 there is no channel.
Direct(q, p, ch, e) ==
    q.front = "h1" => ch = <<>> /\ p.at # "send" /\ (p.at = "recv" => e = "open")

\* What the pump has got is at the origin, or in the channel, or in its hands.
Amount(p, ch, o, e) ==
    /\ Len(o) + Len(ch) <= p.got
    /\ Len(o) + Len(ch) <= MaxBody
    /\ e = "open" /\ p.at = "recv" => Len(o) + Len(ch) = p.got
    /\ e = "open" /\ p.at = "send" => Len(o) + Len(ch) = p.got - 1

\* The channel goes on where the origin's part ends.
InOrder(ch, o) ==
    /\ \A i \in 1 .. Len(o) : o[i] = i
    /\ \A i \in 1 .. Len(ch) : ch[i] = Len(o) + i

Whole(q, o, e) ==
    e = "complete" /\ (q.front = "h1" \/ q.declared) => Len(o) = q.length

Flow(q, p, ch, o, e) ==
    /\ Asked(q, p)
    /\ Unstarted(q, p, ch, o, e)
    /\ Direct(q, p, ch, e)
    /\ Amount(p, ch, o, e)
    /\ InOrder(ch, o)
    /\ Whole(q, o, e)

\* The inductive invariant: the types, and the flow of every body.
FlowInv ==
    /\ TypeOK
    /\ \A r \in Requests : Flow(req[r], pump[r], channel[r], origin[r], ended[r])

-----------------------------------------------------------------------------
(* Types.                                                                  *)

\* The types of all the parts of a request.
Typed(q, p, ch, o, e) ==
    /\ q \in Request /\ p \in Pump
    /\ ch \in Seq(Chunks) /\ Len(ch) <= Capacity /\ o \in Seq(Chunks)
    /\ e \in {"open", "complete", "aborted"}

\* The fields of a request and of its pump.
LEMMA Fields ==
    ASSUME NEW q \in Request, NEW p \in Pump
    PROVE  /\ q.sent \in 0 .. MaxLength /\ q.length \in 0 .. MaxLength
           /\ q.sent \in Nat /\ q.length \in Nat
           /\ p.got \in 0 .. MaxLength /\ p.got \in Nat
           /\ p.seen \in 0 .. MaxBody + 1 /\ p.seen \in Nat
<1>1. /\ q.sent \in 0 .. MaxLength /\ q.length \in 0 .. MaxLength
      /\ p.got \in 0 .. MaxLength /\ p.seen \in 0 .. MaxBody + 1
  BY DEF Request, Pump
<1>. QED  BY <1>1, BodyConstants

\* The request before any came.
LEMMA IdleRequest ==
    /\ Idle \in Request
    /\ Idle.stage = "idle" /\ Idle.sent = 0 /\ Idle.length = 0 /\ Idle.client = "sending"
<1>1. (CHOOSE f \in Fronts : TRUE) \in Fronts
  BY BodyConstants
<1>. QED  BY <1>1, BodyConstants DEF Idle, Request

\* A step of request r: the other requests are left alone.
Only(r) ==
    \A s \in Requests \ {r} :
       /\ req'[s] = req[s] /\ pump'[s] = pump[s] /\ channel'[s] = channel[s]
       /\ origin'[s] = origin[s] /\ ended'[s] = ended[s]

\* The parts after a step.
FlowAfter(r) == Flow(req'[r], pump'[r], channel'[r], origin'[r], ended'[r])

\* A step of request r that keeps its types and its flow keeps the invariant.
LEMMA OneRequest ==
    ASSUME FlowInv, NEW r \in Requests, Only(r), TypeOK', FlowAfter(r)
    PROVE  FlowInv'
<1>1. ASSUME NEW s \in Requests
      PROVE  Flow(req'[s], pump'[s], channel'[s], origin'[s], ended'[s])
  <2>1. CASE s = r
    BY <2>1 DEF FlowAfter
  <2>2. CASE s # r
    <3>1. /\ req'[s] = req[s] /\ pump'[s] = pump[s] /\ channel'[s] = channel[s]
          /\ origin'[s] = origin[s] /\ ended'[s] = ended[s]
      BY <2>2 DEF Only
    <3>. QED  BY <3>1 DEF FlowInv
  <2>. QED  BY <2>1, <2>2
<1>. QED  BY <1>1 DEF FlowInv

-----------------------------------------------------------------------------
(* The steps of the client.                                                *)

\* A step that changes the request only, and neither its front nor its declared
\* length while its body flows.
LEMMA ClientStep ==
    ASSUME FlowInv, NEW r \in Requests, UNCHANGED <<listener, conn, body>>,
           req' \in [Requests -> Request],
           \A s \in Requests \ {r} : req'[s] = req[s],
           Asked(req'[r], pump[r]),
           \/ /\ req'[r].stage = req[r].stage /\ req'[r].front = req[r].front
              /\ req'[r].declared = req[r].declared /\ req'[r].length = req[r].length
           \/ req[r].stage # "forwarded" /\ req'[r].stage # "forwarded"
    PROVE  FlowInv'
<1>1. /\ pump' = pump /\ channel' = channel /\ origin' = origin /\ ended' = ended
      /\ listener' = listener /\ conn' = conn
  BY DEF body
<1>2. TypeOK' /\ Only(r)
  BY <1>1 DEF FlowInv, TypeOK, Only
<1>3. Flow(req[r], pump[r], channel[r], origin[r], ended[r])
  BY DEF FlowInv
<1>4. FlowAfter(r)
  <2>1. CASE /\ req'[r].stage = req[r].stage /\ req'[r].front = req[r].front
             /\ req'[r].declared = req[r].declared /\ req'[r].length = req[r].length
    BY <1>1, <1>3, <2>1 DEF FlowAfter, Flow, Unstarted, Direct, Whole
  <2>2. CASE req[r].stage # "forwarded" /\ req'[r].stage # "forwarded"
    BY <1>1, <1>3, <2>2 DEF FlowAfter, Flow, Unstarted, Direct, Whole
  <2>. QED  BY <2>1, <2>2
<1>. QED  BY <1>2, <1>4, OneRequest

\* Chunks, the end of the body and resets.
LEMMA SendingSteps ==
    ASSUME FlowInv, NEW r \in Requests, SendChunk(r) \/ Finish(r) \/ Reset(r)
    PROVE  FlowInv'
<1>1. /\ req \in [Requests -> Request] /\ req[r] \in Request /\ pump[r] \in Pump
      /\ Asked(req[r], pump[r]) /\ req[r].client = "sending"
      /\ UNCHANGED <<listener, conn, body>>
  BY DEF FlowInv, TypeOK, Flow, SendChunk, Finish, Reset
<1>2. /\ req[r].sent \in Nat /\ req[r].length \in 0 .. MaxLength /\ pump[r].got \in Nat
      /\ req[r].length \in Nat
  BY <1>1, Fields
<1>3. CASE SendChunk(r)
  <2>. DEFINE n == req[r].sent + 1
  <2>1. n \in 0 .. MaxLength /\ n <= req[r].length /\ pump[r].got <= n
    BY <1>1, <1>2, <1>3, BodyConstants DEF SendChunk, Asked
  <2>2. req' = [req EXCEPT ![r].sent = n]
    BY <1>3 DEF SendChunk
  <2>. HIDE DEF n
  <2>3. req' \in [Requests -> Request] /\ \A s \in Requests \ {r} : req'[s] = req[s]
    BY <1>1, <2>1, <2>2 DEF Request
  <2>4. /\ req'[r].stage = req[r].stage /\ req'[r].front = req[r].front
        /\ req'[r].declared = req[r].declared /\ req'[r].length = req[r].length
        /\ req'[r].sent = n /\ req'[r].client = req[r].client
    BY <1>1, <2>2 DEF Request
  <2>5. Asked(req'[r], pump[r])
    BY <1>1, <2>1, <2>4 DEF Asked
  <2>. QED  BY <1>1, <2>3, <2>4, <2>5, ClientStep
<1>4. ASSUME NEW c \in {"finished", "reset"}, req' = [req EXCEPT ![r].client = c],
             c = "finished" => req[r].sent = req[r].length
      PROVE  FlowInv'
  <2>1. req' \in [Requests -> Request] /\ \A s \in Requests \ {r} : req'[s] = req[s]
    BY <1>1, <1>4 DEF Request
  <2>2. /\ req'[r].stage = req[r].stage /\ req'[r].front = req[r].front
        /\ req'[r].declared = req[r].declared /\ req'[r].length = req[r].length
        /\ req'[r].sent = req[r].sent /\ req'[r].client = c
    BY <1>1, <1>4 DEF Request
  <2>3. Asked(req'[r], pump[r])
    BY <1>1, <1>4, <2>2 DEF Asked
  <2>. QED  BY <1>1, <2>1, <2>2, <2>3, ClientStep
<1>. QED  BY <1>3, <1>4 DEF Finish, Reset

\* A request comes, or comes again.
LEMMA ArrivalSteps ==
    ASSUME FlowInv, NEW r \in Requests,
           \/ Retry(r)
           \/ \E f \in Fronts, safe, declared \in BOOLEAN, n \in 0 .. MaxLength :
                 Arrive(r, f, safe, declared, n)
    PROVE  FlowInv'
<1>1. /\ req \in [Requests -> Request] /\ req[r] \in Request /\ pump[r] \in Pump
      /\ Asked(req[r], pump[r]) /\ req[r].stage # "forwarded"
      /\ pump[r].got = 0 /\ pump[r].at = "none"
      /\ UNCHANGED <<listener, conn, body>>
  BY Zenon DEF FlowInv, TypeOK, Flow, Unstarted, Arrive, Retry
<1>2. ASSUME req' \in [Requests -> Request],
             \A s \in Requests \ {r} : req'[s] = req[s],
             req'[r].stage = "arrived", req'[r].sent = 0, req'[r].client = "sending"
      PROVE  FlowInv'
  <2>1. req'[r].length \in Nat
    BY <1>1, <1>2, Fields
  <2>2. Asked(req'[r], pump[r])
    BY <1>1, <1>2, <2>1 DEF Asked
  <2>. QED  BY <1>1, <1>2, <2>2, ClientStep
<1>3. CASE Retry(r)
  <2>1. req' = [req EXCEPT ![r].stage = "arrived", ![r].sent = 0, ![r].client = "sending"]
        /\ 0 \in 0 .. MaxLength
    BY <1>3, BodyConstants DEF Retry
  <2>2. req' \in [Requests -> Request] /\ \A s \in Requests \ {r} : req'[s] = req[s]
    BY <1>1, <2>1 DEF Request
  <2>3. req'[r].stage = "arrived" /\ req'[r].sent = 0 /\ req'[r].client = "sending"
    BY <1>1, <2>1 DEF Request
  <2>. QED  BY <1>2, <2>2, <2>3
<1>4. ASSUME NEW f \in Fronts, NEW safe \in BOOLEAN, NEW declared \in BOOLEAN,
             NEW n \in 0 .. MaxLength, Arrive(r, f, safe, declared, n)
      PROVE  FlowInv'
  <2>. DEFINE q == [Idle EXCEPT !.stage = "arrived", !.front = f, !.safe = safe,
                                !.declared = declared, !.length = n]
  <2>1. q \in Request /\ q.stage = "arrived" /\ q.sent = 0 /\ q.client = "sending"
    BY IdleRequest DEF Request
  <2>2. req' = [req EXCEPT ![r] = q]
    BY <1>4, Zenon DEF Arrive
  <2>. HIDE DEF q
  <2>3. req' \in [Requests -> Request] /\ req'[r] = q
        /\ \A s \in Requests \ {r} : req'[s] = req[s]
    BY <1>1, <2>1, <2>2
  <2>. QED  BY <1>2, <2>1, <2>3
<1>. QED  BY <1>3, <1>4

-----------------------------------------------------------------------------
(* The steps of the proxy.                                                 *)

\* A step of the proxy that leaves the request alone: what must be shown of it.
LEMMA ProxyStep ==
    ASSUME FlowInv, NEW r \in Requests, UNCHANGED <<listener, conn, req>>,
           pump' \in [Requests -> Pump], channel' \in [Requests -> Seq(Chunks)],
           origin' \in [Requests -> Seq(Chunks)],
           ended' \in [Requests -> {"open", "complete", "aborted"}],
           Only(r), Len(channel'[r]) <= Capacity, FlowAfter(r)
    PROVE  FlowInv'
<1>1. \A s \in Requests : Len(channel'[s]) <= Capacity
  BY DEF FlowInv, TypeOK, Only
<1>2. TypeOK'
  BY <1>1 DEF FlowInv, TypeOK
<1>. QED  BY <1>2, OneRequest

\* A request is refused, or its body begins to flow.
LEMMA ResolveStep ==
    ASSUME FlowInv, NEW r \in Requests, Resolve(r)
    PROVE  FlowInv'
<1>1. /\ req \in [Requests -> Request] /\ req[r] \in Request
      /\ pump \in [Requests -> Pump] /\ pump[r] \in Pump /\ req[r].stage = "arrived"
      /\ Flow(req[r], pump[r], channel[r], origin[r], ended[r])
      /\ UNCHANGED <<listener, conn, channel, origin, ended>>
  BY DEF FlowInv, TypeOK, Resolve
<1>2. PICK s \in {"425", "413", "forwarded"} :
         /\ req' = [req EXCEPT ![r].stage = s]
         /\ \/ s # "forwarded" /\ pump' = pump
            \/ s = "forwarded" /\ pump' = [pump EXCEPT ![r].at = "recv"]
  BY DEF Resolve
<1>3. req' \in [Requests -> Request] /\ \A t \in Requests \ {r} : req'[t] = req[t]
  BY <1>1, <1>2 DEF Request
<1>4. /\ req'[r].stage = s /\ req'[r].front = req[r].front
      /\ req'[r].declared = req[r].declared /\ req'[r].length = req[r].length
      /\ req'[r].sent = req[r].sent /\ req'[r].client = req[r].client
  BY <1>1, <1>2 DEF Request
<1>5. pump' \in [Requests -> Pump] /\ \A t \in Requests \ {r} : pump'[t] = pump[t]
  BY <1>1, <1>2 DEF Pump
<1>6. /\ pump'[r].got = pump[r].got /\ pump'[r].seen = pump[r].seen
      /\ pump'[r].at = IF s = "forwarded" THEN "recv" ELSE pump[r].at
  BY <1>1, <1>2 DEF Pump
<1>7. /\ pump[r].at = "none" /\ pump[r].got = 0 /\ pump[r].seen = 0
      /\ channel[r] = <<>> /\ origin[r] = <<>> /\ ended[r] = "open"
  BY <1>1 DEF Flow, Unstarted, Asked
<1>8. FlowAfter(r)
  <2>1. channel'[r] = <<>> /\ origin'[r] = <<>> /\ ended'[r] = "open"
    BY <1>1, <1>7
  <2>2. Asked(req'[r], pump'[r])
    BY <1>1, <1>4, <1>6, <1>7, BodyConstants DEF Flow, Asked
  <2>3. /\ Unstarted(req'[r], pump'[r], channel'[r], origin'[r], ended'[r])
        /\ Direct(req'[r], pump'[r], channel'[r], ended'[r])
        /\ Whole(req'[r], origin'[r], ended'[r])
    BY <1>4, <1>6, <1>7, <2>1 DEF Unstarted, Direct, Whole
  <2>4. Amount(pump'[r], channel'[r], origin'[r], ended'[r]) /\ InOrder(channel'[r], origin'[r])
    BY <1>6, <1>7, <2>1, BodyConstants DEF Amount, InOrder
  <2>. QED  BY <2>2, <2>3, <2>4 DEF FlowAfter, Flow
<1>9. TypeOK' /\ Only(r)
  BY <1>1, <1>3, <1>5 DEF FlowInv, TypeOK, Only
<1>. QED  BY <1>8, <1>9, OneRequest

\* What the pump gets next.
LEMMA NextChunk ==
    ASSUME FlowInv, NEW r \in Requests, pump[r].at = "recv", pump[r].got < req[r].sent,
           NEW a \in {"recv", "send", "ended"},
           pump' = [pump EXCEPT ![r] = [at |-> a, got |-> pump[r].got + 1,
                                        seen |-> pump[r].seen + 1]]
    PROVE  /\ pump' \in [Requests -> Pump]
           /\ \A s \in Requests \ {r} : pump'[s] = pump[s]
           /\ pump'[r].at = a
           /\ pump'[r].got = pump[r].got + 1 /\ pump'[r].seen = pump'[r].got
           /\ pump'[r].got <= req[r].sent /\ pump[r].got <= MaxBody
           /\ pump[r].got \in Nat /\ pump[r].got + 1 \in Chunks
           /\ req[r].sent \in Nat /\ req[r].length \in Nat
<1>1. /\ req[r] \in Request /\ pump[r] \in Pump /\ pump \in [Requests -> Pump]
      /\ Asked(req[r], pump[r])
  BY DEF FlowInv, TypeOK, Flow
<1>2. /\ req[r].sent \in 0 .. MaxLength /\ req[r].sent \in Nat /\ req[r].length \in Nat
      /\ pump[r].got \in Nat /\ pump[r].seen \in Nat
  BY <1>1, Fields
<1>3. pump[r].seen <= MaxBody /\ pump[r].got = pump[r].seen
  BY <1>1 DEF Asked
<1>. DEFINE g == pump[r].got + 1
            n == pump[r].seen + 1
            p == [at |-> a, got |-> g, seen |-> n]
<1>4. g \in 0 .. MaxLength /\ n \in 0 .. MaxBody + 1 /\ n = g /\ g \in Chunks /\ g <= req[r].sent
  BY <1>2, <1>3, BodyConstants DEF Chunks
<1>. HIDE DEF g, n
<1>5. p \in Pump /\ p.at = a /\ p.got = g /\ p.seen = n
  BY <1>4 DEF Pump
<1>6. pump' = [pump EXCEPT ![r] = p]
  BY DEF p, g, n
<1>. HIDE DEF p
<1>7. /\ pump' \in [Requests -> Pump] /\ pump'[r] = p
      /\ \A s \in Requests \ {r} : pump'[s] = pump[s]
  BY <1>1, <1>5, <1>6
<1>. QED  BY <1>2, <1>3, <1>4, <1>5, <1>7 DEF g

\* The pump gets a chunk.
LEMMA PumpRecvStep ==
    ASSUME FlowInv, NEW r \in Requests, PumpRecv(r)
    PROVE  FlowInv'
<1>1. /\ req[r].front = "h3" /\ pump[r].at = "recv" /\ pump[r].got < req[r].sent
      /\ Flow(req[r], pump[r], channel[r], origin[r], ended[r])
      /\ UNCHANGED <<listener, conn, req, channel, origin, ended>>
  BY DEF PumpRecv, FlowInv
<1>2. PICK a \in {"send", "ended"} :
         /\ pump' = [pump EXCEPT ![r] = [at |-> a, got |-> pump[r].got + 1,
                                         seen |-> pump[r].seen + 1]]
         /\ a = "send" => pump[r].seen + 1 <= MaxBody
  <2>1. pump[r].seen + 1 \in Nat
    BY Fields DEF FlowInv, TypeOK
  <2>. DEFINE after(a) == [pump EXCEPT ![r] = [at |-> a, got |-> pump[r].got + 1,
                                               seen |-> pump[r].seen + 1]]
  <2>2. CASE pump[r].seen + 1 > MaxBody
    <3>1. pump' = after("ended")
      BY <2>2, Zenon DEF PumpRecv
    <3>. QED  BY <3>1
  <2>3. CASE ~(pump[r].seen + 1 > MaxBody)
    <3>1. pump' = after("send")
      BY <2>3, Zenon DEF PumpRecv
    <3>2. pump[r].seen + 1 <= MaxBody
      BY <2>1, <2>3, BodyConstants
    <3>. HIDE DEF after
    <3>3. \E a \in {"send", "ended"} :
             pump' = after(a) /\ (a = "send" => pump[r].seen + 1 <= MaxBody)
      BY <3>1, <3>2
    <3>. QED  BY <3>3 DEF after
  <2>. QED  BY <2>2, <2>3
<1>3. /\ pump' \in [Requests -> Pump]
      /\ \A s \in Requests \ {r} : pump'[s] = pump[s]
      /\ pump'[r].at = a
      /\ pump'[r].got = pump[r].got + 1 /\ pump'[r].seen = pump'[r].got
      /\ pump'[r].got <= req[r].sent /\ pump[r].got \in Nat
  BY <1>1, <1>2, NextChunk
<1>4. Asked(req[r], pump'[r])
  BY <1>1, <1>2, <1>3 DEF Flow, Asked
<1>5. /\ Unstarted(req[r], pump'[r], channel[r], origin[r], ended[r])
      /\ Direct(req[r], pump'[r], channel[r], ended[r])
  BY <1>1, <1>3 DEF Flow, Unstarted, Direct
<1>6. Amount(pump'[r], channel[r], origin[r], ended[r])
  <2>. DEFINE n == Len(origin[r]) + Len(channel[r])
  <2>1. n \in Nat
    BY DEF FlowInv, TypeOK
  <2>2. n <= pump[r].got /\ n <= MaxBody /\ (ended[r] = "open" => n = pump[r].got)
    BY <1>1 DEF Flow, Amount
  <2>3. ASSUME n <= pump'[r].got, n <= MaxBody, pump'[r].at # "recv",
               ended[r] = "open" => n = pump'[r].got - 1
        PROVE  Amount(pump'[r], channel[r], origin[r], ended[r])
    BY <2>3, Zenon DEF Amount
  <2>. HIDE DEF n
  <2>. QED  BY <1>3, <2>1, <2>2, <2>3
<1>7. FlowAfter(r) /\ Only(r)
  BY <1>1, <1>3, <1>4, <1>5, <1>6 DEF FlowAfter, Flow, Only
<1>. QED  BY <1>1, <1>3, <1>7, ProxyStep DEF FlowInv, TypeOK

\* What is known of a request and of its parts, spelt out.
LEMMA Parts ==
    ASSUME FlowInv, NEW r \in Requests
    PROVE  /\ Flow(req[r], pump[r], channel[r], origin[r], ended[r])
           /\ Typed(req[r], pump[r], channel[r], origin[r], ended[r])
           /\ pump \in [Requests -> Pump] /\ channel \in [Requests -> Seq(Chunks)]
           /\ origin \in [Requests -> Seq(Chunks)]
           /\ ended \in [Requests -> {"open", "complete", "aborted"}]
  BY DEF FlowInv, TypeOK, Typed

\* The pump, or the filter, goes from one place to another.
LEMMA PumpAt ==
    ASSUME pump \in [Requests -> Pump], NEW r \in Requests,
           NEW a \in {"recv", "ended"}, pump' = [pump EXCEPT ![r].at = a]
    PROVE  /\ pump' \in [Requests -> Pump]
           /\ \A s \in Requests \ {r} : pump'[s] = pump[s]
           /\ pump'[r].at = a /\ pump'[r].got = pump[r].got
           /\ pump'[r].seen = pump[r].seen
  BY DEF Pump

\* A pump that has ended asks for nothing more.
LEMMA PumpEnds ==
    ASSUME NEW q, NEW p, NEW p2, NEW ch, NEW o, NEW e, Flow(q, p, ch, o, e),
           p.at # "none", p2.at = "ended", p2.got = p.got, p2.seen = p.seen
    PROVE  Flow(q, p2, ch, o, e)
<1>1. Asked(q, p2)
  BY DEF Flow, Asked
<1>2. Unstarted(q, p2, ch, o, e) /\ Direct(q, p2, ch, e)
  BY DEF Flow, Unstarted, Direct
<1>3. Amount(p2, ch, o, e)
  BY DEF Flow, Amount
<1>. QED  BY <1>1, <1>2, <1>3 DEF Flow

\* The pump finds the end of the body.
LEMMA PumpEndStep ==
    ASSUME FlowInv, NEW r \in Requests, PumpEnd(r)
    PROVE  FlowInv'
<1>1. /\ pump[r].at = "recv" /\ pump' = [pump EXCEPT ![r].at = "ended"]
      /\ UNCHANGED <<listener, conn, req, channel, origin, ended>>
  BY DEF PumpEnd
<1>2. /\ pump' \in [Requests -> Pump]
      /\ \A s \in Requests \ {r} : pump'[s] = pump[s]
      /\ pump'[r].at = "ended" /\ pump'[r].got = pump[r].got
      /\ pump'[r].seen = pump[r].seen
  BY <1>1, PumpAt, Parts
<1>3. FlowAfter(r) /\ Only(r)
  BY <1>1, <1>2, PumpEnds, Parts DEF FlowAfter, Only
<1>. QED  BY <1>1, <1>2, <1>3, Parts, ProxyStep DEF Typed

\* A chunk at the end of a sequence.
LEMMA Appended ==
    ASSUME NEW f \in [Requests -> Seq(Chunks)], NEW g, NEW r \in Requests,
           NEW x \in Chunks, g = [f EXCEPT ![r] = Append(f[r], x)]
    PROVE  /\ g \in [Requests -> Seq(Chunks)]
           /\ \A s \in Requests \ {r} : g[s] = f[s]
           /\ Len(f[r]) \in Nat /\ Len(g[r]) = Len(f[r]) + 1
           /\ \A i \in 1 .. Len(f[r]) : g[r][i] = f[r][i]
           /\ g[r][Len(f[r]) + 1] = x
<1>1. f[r] \in Seq(Chunks)
  OBVIOUS
<1>2. /\ Append(f[r], x) \in Seq(Chunks)
      /\ Len(Append(f[r], x)) = Len(f[r]) + 1
      /\ \A i \in 1 .. Len(f[r]) : Append(f[r], x)[i] = f[r][i]
      /\ Append(f[r], x)[Len(f[r]) + 1] = x
  BY <1>1, AppendProperties
<1>3. g[r] = Append(f[r], x) /\ (\A s \in Requests \ {r} : g[s] = f[s])
  OBVIOUS
<1>4. g \in [Requests -> Seq(Chunks)]
  BY <1>2
<1>. QED  BY <1>1, <1>2, <1>3, <1>4

\* The pump hands its chunk over, or finds the receiver gone.
LEMMA PumpSendStep ==
    ASSUME FlowInv, NEW r \in Requests, PumpSend(r)
    PROVE  FlowInv'
<1>. DEFINE q == req[r]
            p == pump[r]
            ch == channel[r]
            o == origin[r]
<1>1. /\ p.at = "send" /\ UNCHANGED <<listener, conn, req, origin, ended>>
      /\ Flow(q, p, ch, o, ended[r]) /\ Typed(q, p, ch, o, ended[r])
      /\ pump \in [Requests -> Pump] /\ channel \in [Requests -> Seq(Chunks)]
  BY Parts DEF PumpSend
<1>2. CASE pump' = [pump EXCEPT ![r].at = "ended"] /\ UNCHANGED channel
  <2>1. /\ pump' \in [Requests -> Pump]
        /\ \A s \in Requests \ {r} : pump'[s] = pump[s]
        /\ pump'[r].at = "ended" /\ pump'[r].got = pump[r].got
        /\ pump'[r].seen = pump[r].seen
    BY <1>1, <1>2, PumpAt
  <2>2. FlowAfter(r) /\ Only(r)
    BY <1>1, <1>2, <2>1, PumpEnds DEF FlowAfter, Only
  <2>. QED  BY <1>1, <1>2, <2>1, <2>2, Parts, ProxyStep DEF Typed
<1>3. CASE /\ ended[r] = "open" /\ Len(channel[r]) < Capacity
           /\ channel' = [channel EXCEPT ![r] = Append(channel[r], pump[r].got)]
           /\ pump' = [pump EXCEPT ![r].at = "recv"]
  <2>1. /\ pump' \in [Requests -> Pump]
        /\ \A s \in Requests \ {r} : pump'[s] = pump[s]
        /\ pump'[r].at = "recv" /\ pump'[r].got = p.got /\ pump'[r].seen = p.seen
    BY <1>1, <1>3, PumpAt
  <2>. DEFINE n == Len(o)
              m == Len(ch)
  <2>2. /\ p.got \in 0 .. MaxLength /\ p.got \in Nat /\ n \in Nat /\ m \in Nat
    BY <1>1, Fields DEF Typed
  <2>3. n + m = p.got - 1 /\ p.got <= MaxBody
    BY <1>1, <1>3 DEF Flow, Amount, Asked
  <2>4. p.got \in Chunks
    <3>. HIDE DEF n, m
    <3>. QED  BY <2>2, <2>3, BodyConstants DEF Chunks
  <2>5. /\ channel' \in [Requests -> Seq(Chunks)]
        /\ \A s \in Requests \ {r} : channel'[s] = channel[s]
        /\ Len(channel'[r]) = m + 1
        /\ \A i \in 1 .. m : channel'[r][i] = ch[i]
        /\ channel'[r][m + 1] = p.got
    BY <1>1, <1>3, <2>4, Appended
  <2>6. Len(channel'[r]) <= Capacity
    <3>1. m < Capacity
      BY <1>3
    <3>. HIDE DEF m
    <3>. QED  BY <2>2, <2>5, <3>1, BodyConstants
  <2>7. q.front # "h1" /\ q.stage = "forwarded"
    BY <1>1 DEF Flow, Direct, Unstarted
  <2>8. Asked(q, pump'[r])
    BY <1>1, <2>1 DEF Flow, Asked
  <2>9. /\ Unstarted(q, pump'[r], channel'[r], o, ended[r])
        /\ Direct(q, pump'[r], channel'[r], ended[r])
    BY <2>7 DEF Unstarted, Direct
  <2>10. Amount(pump'[r], channel'[r], o, ended[r])
    <3>1. Len(o) + Len(channel'[r]) = p.got
      <4>1. n + (m + 1) = p.got
        <5>. HIDE DEF n, m
        <5>. QED  BY <2>2, <2>3
      <4>. QED  BY <2>5, <4>1
    <3>2. p.got <= p.got
      BY <2>2
    <3>. QED  BY <2>1, <2>3, <3>1, <3>2 DEF Amount
  <2>11. InOrder(channel'[r], o)
    <3>1. (\A i \in 1 .. Len(o) : o[i] = i) /\ (\A i \in 1 .. m : ch[i] = n + i)
      BY <1>1 DEF Flow, InOrder
    <3>2. ASSUME NEW i \in 1 .. m + 1
          PROVE  channel'[r][i] = n + i
      <4>. HIDE DEF n, m
      <4>1. CASE i = m + 1
        <5>1. p.got = n + (m + 1)
          BY <2>2, <2>3
        <5>. QED  BY <2>5, <4>1, <5>1
      <4>2. CASE i # m + 1
        <5>1. i \in 1 .. m
          BY <2>2, <4>2
        <5>. QED  BY <2>5, <3>1, <5>1
      <4>. QED  BY <4>1, <4>2
    <3>. QED  BY <2>5, <3>1, <3>2 DEF InOrder
  <2>12. FlowAfter(r) /\ Only(r)
    BY <1>1, <2>1, <2>5, <2>8, <2>9, <2>10, <2>11 DEF FlowAfter, Flow, Only
  <2>. QED  BY <1>1, <2>1, <2>5, <2>6, <2>12, Parts, ProxyStep
<1>. QED  BY <1>2, <1>3 DEF PumpSend

\* A chunk at the head of a sequence.
LEMMA Taken ==
    ASSUME NEW f \in [Requests -> Seq(Chunks)], NEW g, NEW r \in Requests,
           f[r] # <<>>, g = [f EXCEPT ![r] = Tail(f[r])]
    PROVE  /\ g \in [Requests -> Seq(Chunks)]
           /\ \A s \in Requests \ {r} : g[s] = f[s]
           /\ Head(f[r]) \in Chunks /\ Head(f[r]) = f[r][1]
           /\ Len(f[r]) \in Nat /\ Len(g[r]) \in Nat /\ Len(f[r]) = Len(g[r]) + 1
           /\ \A i \in 1 .. Len(g[r]) : g[r][i] = f[r][i + 1]
<1>1. f[r] \in Seq(Chunks)
  OBVIOUS
<1>2. /\ Head(f[r]) \in Chunks /\ Head(f[r]) = f[r][1]
      /\ Tail(f[r]) \in Seq(Chunks) /\ Len(Tail(f[r])) = Len(f[r]) - 1
      /\ \A i \in 1 .. Len(Tail(f[r])) : Tail(f[r])[i] = f[r][i + 1]
  BY <1>1, HeadTailProperties
<1>3. g[r] = Tail(f[r]) /\ (\A s \in Requests \ {r} : g[s] = f[s])
  OBVIOUS
<1>4. g \in [Requests -> Seq(Chunks)]
  BY <1>2
<1>5. Len(f[r]) \in Nat /\ Len(Tail(f[r])) \in Nat
  BY <1>1, <1>2
<1>. QED  BY <1>2, <1>3, <1>4, <1>5

\* The upstream client takes a chunk.
LEMMA TakeStep ==
    ASSUME FlowInv, NEW r \in Requests, Take(r)
    PROVE  FlowInv'
<1>. DEFINE q == req[r]
            p == pump[r]
            ch == channel[r]
            o == origin[r]
            n == Len(o)
            m == Len(channel'[r])
<1>1. /\ ended[r] = "open" /\ ch # <<>> /\ UNCHANGED <<listener, conn, req, pump, ended>>
      /\ origin' = [origin EXCEPT ![r] = Append(o, Head(ch))]
      /\ channel' = [channel EXCEPT ![r] = Tail(ch)]
  BY DEF Take
<1>2. /\ Flow(q, p, ch, o, ended[r]) /\ Typed(q, p, ch, o, ended[r])
      /\ channel \in [Requests -> Seq(Chunks)] /\ origin \in [Requests -> Seq(Chunks)]
  BY Parts
<1>3. /\ channel' \in [Requests -> Seq(Chunks)]
      /\ \A s \in Requests \ {r} : channel'[s] = channel[s]
      /\ Head(ch) \in Chunks /\ Head(ch) = ch[1] /\ m \in Nat /\ Len(ch) = m + 1
      /\ \A i \in 1 .. m : channel'[r][i] = ch[i + 1]
  BY <1>1, <1>2, Taken
<1>4. /\ origin' \in [Requests -> Seq(Chunks)]
      /\ \A s \in Requests \ {r} : origin'[s] = origin[s]
      /\ n \in Nat /\ Len(origin'[r]) = n + 1
      /\ \A i \in 1 .. n : origin'[r][i] = o[i]
      /\ origin'[r][n + 1] = Head(ch)
  BY <1>1, <1>2, <1>3, Appended
<1>5. /\ \A i \in 1 .. n : o[i] = i
      /\ \A i \in 1 .. m + 1 : ch[i] = n + i
  BY <1>2, <1>3 DEF Flow, InOrder
<1>6. q.front # "h1" /\ q.stage = "forwarded"
  BY <1>1, <1>2 DEF Flow, Direct, Unstarted
<1>7. Len(ch) <= Capacity
  BY <1>2 DEF Typed
<1>8. Len(channel'[r]) <= Capacity
  <2>1. m + 1 <= Capacity
    BY <1>3, <1>7
  <2>2. m <= Capacity
    <3>. HIDE DEF m
    <3>. QED  BY <1>3, <2>1, BodyConstants
  <2>. QED  BY <2>2
<1>9. Len(origin'[r]) + Len(channel'[r]) = Len(o) + Len(ch)
  <2>1. (n + 1) + m = n + (m + 1)
    <3>. HIDE DEF n, m
    <3>. QED  BY <1>3, <1>4
  <2>. QED  BY <1>3, <1>4, <2>1
<1>10. Amount(p, channel'[r], origin'[r], ended[r])
  BY <1>2, <1>9 DEF Flow, Amount
<1>11. InOrder(channel'[r], origin'[r])
  <2>1. ASSUME NEW i \in 1 .. n + 1
        PROVE  origin'[r][i] = i
    <3>1. CASE i = n + 1
      <4>1. 1 \in 1 .. m + 1 /\ ch[1] = n + 1
        <5>. HIDE DEF n, m
        <5>. QED  BY <1>3, <1>5
      <4>. QED  BY <1>3, <1>4, <3>1, <4>1
    <3>2. CASE i # n + 1
      <4>1. i \in 1 .. n
        <5>. HIDE DEF n
        <5>. QED  BY <1>4, <3>2
      <4>. QED  BY <1>4, <1>5, <4>1
    <3>. QED  BY <3>1, <3>2
  <2>2. ASSUME NEW i \in 1 .. m
        PROVE  channel'[r][i] = (n + 1) + i
    <3>. HIDE DEF n, m
    <3>1. i + 1 \in 1 .. m + 1 /\ n + (i + 1) = (n + 1) + i
      BY <1>3, <1>4
    <3>. QED  BY <1>3, <1>5, <3>1
  <2>. QED  BY <1>4, <2>1, <2>2 DEF InOrder
<1>12. FlowAfter(r) /\ Only(r)
  <2>1. /\ Unstarted(q, p, channel'[r], origin'[r], ended[r])
        /\ Direct(q, p, channel'[r], ended[r]) /\ Whole(q, origin'[r], ended[r])
    BY <1>1, <1>6 DEF Unstarted, Direct, Whole
  <2>. QED
    BY <1>1, <1>2, <1>3, <1>4, <1>10, <1>11, <2>1 DEF FlowAfter, Flow, Only
<1>. QED  BY <1>1, <1>3, <1>4, <1>8, <1>12, Parts, ProxyStep

\* The origin takes the body for complete only if it has all of a declared length.
LEMMA TakeEndStep ==
    ASSUME FlowInv, NEW r \in Requests, TakeEnd(r)
    PROVE  FlowInv'
<1>. DEFINE q == req[r]
            p == pump[r]
            ch == channel[r]
            o == origin[r]
            e == TakesFor(r)
            n == Len(o)
<1>1. /\ UNCHANGED <<listener, conn, req, pump, channel, origin>>
      /\ q.front = "h3" /\ p.at = "ended" /\ ended' = [ended EXCEPT ![r] = e]
  BY DEF TakeEnd
<1>2. /\ Flow(q, p, ch, o, ended[r]) /\ Typed(q, p, ch, o, ended[r])
      /\ ended \in [Requests -> {"open", "complete", "aborted"}]
  BY Parts
<1>3. e \in {"complete", "aborted"} /\ (e = "complete" /\ q.declared => ~(n < q.length))
  BY DEF TakesFor
<1>. HIDE DEF e
<1>4. ended' \in [Requests -> {"open", "complete", "aborted"}] /\ ended'[r] = e
      /\ \A s \in Requests \ {r} : ended'[s] = ended[s]
  BY <1>1, <1>2, <1>3
<1>5. n <= q.length /\ n \in Nat /\ q.length \in Nat
  <2>1. Len(ch) \in Nat /\ n \in Nat /\ p.got \in Nat /\ q.sent \in Nat /\ q.length \in Nat
    BY <1>2, Fields DEF Typed
  <2>2. n + Len(ch) <= p.got /\ p.got <= q.sent /\ q.sent <= q.length
    BY <1>2 DEF Flow, Amount, Asked
  <2>. DEFINE m == Len(ch)
  <2>. HIDE DEF n, m
  <2>3. m \in Nat /\ n + m <= p.got
    BY <2>1, <2>2 DEF m
  <2>. QED  BY <2>1, <2>2, <2>3
<1>6. Whole(q, o, e)
  <2>1. e = "complete" /\ q.declared => n = q.length
    <3>. HIDE DEF n
    <3>. QED  BY <1>3, <1>5
  <2>. QED  BY <1>1, <2>1 DEF Whole
<1>7. /\ Unstarted(q, p, ch, o, e) /\ Direct(q, p, ch, e) /\ Amount(p, ch, o, e)
  BY <1>1, <1>2, <1>3 DEF Flow, Unstarted, Direct, Amount
<1>8. FlowAfter(r) /\ Only(r)
  BY <1>1, <1>2, <1>4, <1>6, <1>7 DEF FlowAfter, Flow, Only
<1>. QED  BY <1>1, <1>2, <1>4, <1>8, Parts, ProxyStep DEF Typed

\* The origin, or the receiver, goes away.
LEMMA DropStep ==
    ASSUME FlowInv, NEW r \in Requests, Drop(r)
    PROVE  FlowInv'
<1>. DEFINE q == req[r]
            p == pump[r]
            ch == channel[r]
            o == origin[r]
            n == Len(o)
            m == Len(ch)
<1>1. /\ UNCHANGED <<listener, conn, req, origin>>
      /\ q.stage = "forwarded" /\ ended' = [ended EXCEPT ![r] = "aborted"]
      /\ channel' = [channel EXCEPT ![r] = <<>>]
  BY DEF Drop
<1>2. /\ Flow(q, p, ch, o, ended[r]) /\ Typed(q, p, ch, o, ended[r])
      /\ ended \in [Requests -> {"open", "complete", "aborted"}]
      /\ channel \in [Requests -> Seq(Chunks)] /\ pump \in [Requests -> Pump]
  BY Parts
<1>3. /\ ended' \in [Requests -> {"open", "complete", "aborted"}] /\ ended'[r] = "aborted"
      /\ \A s \in Requests \ {r} : ended'[s] = ended[s]
  BY <1>1, <1>2
<1>4. /\ channel' \in [Requests -> Seq(Chunks)] /\ channel'[r] = <<>>
      /\ \A s \in Requests \ {r} : channel'[s] = channel[s]
      /\ Len(channel'[r]) <= Capacity
  <2>1. <<>> \in Seq(Chunks) /\ Len(<<>>) = 0 /\ 0 <= Capacity
    BY BodyConstants
  <2>2. channel' \in [Requests -> Seq(Chunks)] /\ channel'[r] = <<>>
    BY <1>1, <1>2, <2>1
  <2>3. \A s \in Requests \ {r} : channel'[s] = channel[s]
    BY <1>1, <1>2
  <2>. QED  BY <2>1, <2>2, <2>3
<1>5. /\ pump' \in [Requests -> Pump] /\ \A s \in Requests \ {r} : pump'[s] = pump[s]
      /\ pump'[r].got = p.got /\ pump'[r].seen = p.seen
      /\ pump'[r].at \in {p.at, "ended"} /\ (q.front = "h1" => pump'[r].at = "ended")
  <2>1. CASE pump' = pump /\ q.front # "h1"
    BY <1>2, <2>1
  <2>2. CASE pump' = [pump EXCEPT ![r].at = "ended"]
    BY <1>2, <2>2, PumpAt
  <2>. QED  BY <2>1, <2>2 DEF Drop
<1>6. Asked(q, pump'[r])
  BY <1>2, <1>5 DEF Flow, Asked
<1>7. /\ Unstarted(q, pump'[r], <<>>, o, "aborted") /\ Direct(q, pump'[r], <<>>, "aborted")
      /\ Whole(q, o, "aborted")
  BY <1>1, <1>5 DEF Unstarted, Direct, Whole
<1>8. InOrder(<<>>, o)
  BY <1>2 DEF Flow, InOrder
<1>9. Amount(pump'[r], <<>>, o, "aborted")
  <2>1. n \in Nat /\ m \in Nat /\ p.got \in Nat
    BY <1>2, Fields DEF Typed
  <2>2. n + m <= p.got /\ n + m <= MaxBody
    BY <1>2 DEF Flow, Amount
  <2>3. n + 0 <= p.got /\ n + 0 <= MaxBody
    <3>. HIDE DEF n, m
    <3>. QED  BY <2>1, <2>2, BodyConstants
  <2>4. Len(<<>>) = 0
    OBVIOUS
  <2>. QED  BY <1>5, <2>3, <2>4 DEF Amount
<1>10. FlowAfter(r) /\ Only(r)
  BY <1>1, <1>3, <1>4, <1>5, <1>6, <1>7, <1>8, <1>9 DEF FlowAfter, Flow, Only
<1>. QED  BY <1>1, <1>3, <1>4, <1>5, <1>10, Parts, ProxyStep

\* On HTTP/1 and HTTP/2 a chunk passes the filter, or ends the request.
LEMMA FilterStep ==
    ASSUME FlowInv, NEW r \in Requests, Filter(r)
    PROVE  FlowInv'
<1>. DEFINE q == req[r]
            p == pump[r]
            ch == channel[r]
            o == origin[r]
            n == Len(o)
            over == p.seen + 1 > MaxBody
            a == IF over THEN "ended" ELSE "recv"
<1>1. /\ q.front = "h1" /\ p.at = "recv" /\ p.got < q.sent
      /\ UNCHANGED <<listener, conn, req, channel>>
      /\ pump' = [pump EXCEPT ![r] = [at |-> a, got |-> p.got + 1, seen |-> p.seen + 1]]
  BY DEF Filter
<1>2. /\ Flow(q, p, ch, o, ended[r]) /\ Typed(q, p, ch, o, ended[r])
      /\ ended \in [Requests -> {"open", "complete", "aborted"}]
      /\ origin \in [Requests -> Seq(Chunks)]
  BY Parts
<1>3. a \in {"recv", "send", "ended"} /\ (a = "ended" <=> over) /\ a # "send"
  OBVIOUS
<1>. HIDE DEF over, a
<1>4. /\ pump' \in [Requests -> Pump]
      /\ \A s \in Requests \ {r} : pump'[s] = pump[s]
      /\ pump'[r].at = a
      /\ pump'[r].got = p.got + 1 /\ pump'[r].seen = pump'[r].got
      /\ pump'[r].got <= q.sent /\ p.got \in Nat /\ p.got + 1 \in Chunks
  BY <1>1, <1>3, NextChunk
<1>5. /\ ch = <<>> /\ ended[r] = "open" /\ p.got = p.seen /\ q.stage = "forwarded"
  BY <1>1, <1>2 DEF Flow, Direct, Asked, Unstarted
<1>6. n = p.got /\ n \in Nat
  <2>1. n + Len(ch) = p.got /\ Len(ch) = 0
    BY <1>1, <1>2, <1>5 DEF Flow, Amount
  <2>2. n \in Nat
    BY <1>2 DEF Typed
  <2>. HIDE DEF n
  <2>. QED  BY <1>4, <2>1, <2>2
<1>7. Asked(q, pump'[r])
  <2>1. a = "recv" => p.got + 1 <= MaxBody
    BY <1>3, <1>4, <1>5, BodyConstants DEF over
  <2>. QED  BY <1>2, <1>3, <1>4, <2>1 DEF Flow, Asked
<1>8. CASE over /\ ended' = [ended EXCEPT ![r] = "aborted"] /\ UNCHANGED origin
  <2>1. /\ ended' \in [Requests -> {"open", "complete", "aborted"}]
        /\ ended'[r] = "aborted" /\ \A s \in Requests \ {r} : ended'[s] = ended[s]
    BY <1>2, <1>8
  <2>2. /\ Unstarted(q, pump'[r], ch, o, "aborted") /\ Direct(q, pump'[r], ch, "aborted")
        /\ Whole(q, o, "aborted")
    BY <1>3, <1>4, <1>5, <1>8 DEF Unstarted, Direct, Whole
  <2>3. Amount(pump'[r], ch, o, "aborted")
    <3>1. n + Len(ch) <= p.got /\ n + Len(ch) <= MaxBody /\ n + Len(ch) = p.got
      BY <1>1, <1>2, <1>5 DEF Flow, Amount
    <3>2. p.got <= p.got + 1
      BY <1>4
    <3>. QED  BY <1>3, <1>4, <1>8, <3>1, <3>2 DEF Amount
  <2>4. FlowAfter(r) /\ Only(r)
    BY <1>1, <1>2, <1>4, <1>7, <1>8, <2>1, <2>2, <2>3 DEF FlowAfter, Flow, Only
  <2>. QED  BY <1>1, <1>2, <1>4, <1>8, <2>1, <2>4, Parts, ProxyStep DEF Typed
<1>9. CASE /\ p.seen + 1 <= MaxBody /\ UNCHANGED ended
           /\ origin' = [origin EXCEPT ![r] = Append(o, p.got + 1)]
  <2>1. /\ origin' \in [Requests -> Seq(Chunks)]
        /\ \A s \in Requests \ {r} : origin'[s] = origin[s]
        /\ Len(origin'[r]) = n + 1
        /\ \A i \in 1 .. n : origin'[r][i] = o[i]
        /\ origin'[r][n + 1] = p.got + 1
    BY <1>2, <1>4, <1>9, Appended
  <2>2. /\ Unstarted(q, pump'[r], ch, origin'[r], "open") /\ Direct(q, pump'[r], ch, "open")
        /\ Whole(q, origin'[r], "open")
    BY <1>3, <1>4, <1>5 DEF Unstarted, Direct, Whole
  <2>3. Amount(pump'[r], ch, origin'[r], "open")
    <3>1. Len(origin'[r]) + Len(ch) = pump'[r].got
      <4>1. n + 1 = p.got + 1 /\ (n + 1) + 0 = p.got + 1
        <5>. HIDE DEF n
        <5>. QED  BY <1>6
      <4>2. Len(ch) = 0
        BY <1>5
      <4>. QED  BY <1>4, <2>1, <4>1, <4>2
    <3>2. pump'[r].got <= pump'[r].got /\ pump'[r].got <= MaxBody
      BY <1>4, <1>5, <1>9
    <3>. QED  BY <1>3, <1>4, <3>1, <3>2 DEF Amount
  <2>4. InOrder(ch, origin'[r])
    <3>1. \A i \in 1 .. n : o[i] = i
      BY <1>2 DEF Flow, InOrder
    <3>2. ASSUME NEW i \in 1 .. n + 1
          PROVE  origin'[r][i] = i
      <4>1. CASE i = n + 1
        <5>1. p.got + 1 = n + 1
          BY <1>6
        <5>. QED  BY <2>1, <4>1, <5>1
      <4>2. CASE i # n + 1
        <5>1. i \in 1 .. n
          <6>. HIDE DEF n
          <6>. QED  BY <1>6, <4>2
        <5>. QED  BY <2>1, <3>1, <5>1
      <4>. QED  BY <4>1, <4>2
    <3>3. \A i \in 1 .. Len(ch) : ch[i] = Len(origin'[r]) + i
      BY <1>5
    <3>. QED  BY <2>1, <3>2, <3>3 DEF InOrder
  <2>5. FlowAfter(r) /\ Only(r)
    BY <1>1, <1>4, <1>5, <1>7, <1>9, <2>1, <2>2, <2>3, <2>4 DEF FlowAfter, Flow, Only
  <2>. QED  BY <1>1, <1>2, <1>4, <1>9, <2>1, <2>5, Parts, ProxyStep DEF Typed
<1>. QED  BY <1>8, <1>9 DEF Filter, over

\* The end of the client's body: all of it has passed the filter.
LEMMA FilterEndStep ==
    ASSUME FlowInv, NEW r \in Requests, FilterEnd(r)
    PROVE  FlowInv'
<1>. DEFINE q == req[r]
            p == pump[r]
            ch == channel[r]
            o == origin[r]
            n == Len(o)
<1>1. /\ q.front = "h1" /\ p.at = "recv"
      /\ UNCHANGED <<listener, conn, req, channel, origin>>
      /\ pump' = [pump EXCEPT ![r].at = "ended"]
  BY DEF FilterEnd
<1>2. PICK e \in {"complete", "aborted"} :
         /\ ended' = [ended EXCEPT ![r] = e]
         /\ e = "complete" => q.client = "finished" /\ p.got = q.sent
  BY DEF FilterEnd
<1>3. /\ Flow(q, p, ch, o, ended[r]) /\ Typed(q, p, ch, o, ended[r])
      /\ ended \in [Requests -> {"open", "complete", "aborted"}]
      /\ pump \in [Requests -> Pump]
  BY Parts
<1>4. /\ pump' \in [Requests -> Pump]
      /\ \A s \in Requests \ {r} : pump'[s] = pump[s]
      /\ pump'[r].at = "ended" /\ pump'[r].got = p.got /\ pump'[r].seen = p.seen
  BY <1>1, <1>3, PumpAt
<1>5. /\ ended' \in [Requests -> {"open", "complete", "aborted"}] /\ ended'[r] = e
      /\ \A s \in Requests \ {r} : ended'[s] = ended[s]
  BY <1>2, <1>3
<1>6. ch = <<>> /\ ended[r] = "open" /\ q.stage = "forwarded"
  BY <1>1, <1>3 DEF Flow, Direct, Unstarted
<1>7. Whole(q, o, e)
  <2>1. n + Len(ch) = p.got /\ Len(ch) = 0
    BY <1>1, <1>3, <1>6 DEF Flow, Amount
  <2>2. n \in Nat /\ p.got \in Nat
    BY <1>3, Fields DEF Typed
  <2>3. n = p.got
    <3>. HIDE DEF n
    <3>. QED  BY <2>1, <2>2
  <2>4. e = "complete" => p.got = q.length
    BY <1>2, <1>3 DEF Flow, Asked
  <2>. QED  BY <2>3, <2>4 DEF Whole
<1>8. /\ Unstarted(q, pump'[r], ch, o, e) /\ Direct(q, pump'[r], ch, e)
      /\ Amount(pump'[r], ch, o, e) /\ Asked(q, pump'[r])
  BY <1>3, <1>4, <1>6 DEF Flow, Unstarted, Direct, Amount, Asked
<1>9. FlowAfter(r) /\ Only(r)
  BY <1>1, <1>3, <1>4, <1>5, <1>7, <1>8 DEF FlowAfter, Flow, Only
<1>. QED  BY <1>1, <1>3, <1>4, <1>5, <1>9, Parts, ProxyStep DEF Typed

-----------------------------------------------------------------------------
(* The connection.                                                         *)

\* The flag is set after the handshake, of a connection that is open.
ConnInv ==
    /\ conn.handshake_done => conn.complete
    /\ conn.complete => conn.open

\* What the steps of the connection leave alone.
LEMMA ConnSteps ==
    ASSUME TypeOK, ConnInv,
           Serve \/ (\E z \in BOOLEAN : Connect(z)) \/ Handshake \/ SetFlag
    PROVE  /\ listener' \in {"starting", "listening", "failed"} /\ conn' \in Conn
           /\ ConnInv' /\ (conn.complete => conn'.complete)
           /\ UNCHANGED <<req, pump, channel, origin, ended>>
<1>. USE DEF body
<1>1. conn \in Conn /\ listener \in {"starting", "listening", "failed"}
  BY DEF TypeOK
<1>2. CASE Serve
  BY <1>1, <1>2 DEF Serve, ConnInv
<1>3. ASSUME NEW z \in BOOLEAN, Connect(z)
      PROVE  /\ listener' \in {"starting", "listening", "failed"} /\ conn' \in Conn
             /\ ConnInv' /\ (conn.complete => conn'.complete)
             /\ UNCHANGED <<req, pump, channel, origin, ended>>
  BY <1>1, <1>3 DEF Connect, ConnInv, Conn
<1>4. CASE Handshake
  BY <1>1, <1>4 DEF Handshake, ConnInv, Conn
<1>5. CASE SetFlag
  BY <1>1, <1>5 DEF SetFlag, ConnInv, Conn
<1>. QED  BY <1>2, <1>3, <1>4, <1>5

\* The steps of a request leave the connection alone.
LEMMA RequestSteps ==
    ASSUME NEW r \in Requests,
           \/ \E f \in Fronts, safe, declared \in BOOLEAN, n \in 0 .. MaxLength :
                 Arrive(r, f, safe, declared, n)
           \/ SendChunk(r) \/ Finish(r) \/ Reset(r) \/ Retry(r) \/ Resolve(r)
           \/ PumpStep(r) \/ Take(r) \/ TakeEnd(r) \/ Drop(r)
    PROVE  UNCHANGED <<listener, conn>>
  BY Zenon DEF Arrive, SendChunk, Finish, Reset, Retry, Resolve, PumpStep, PumpRecv,
     PumpEnd, PumpSend, Filter, FilterEnd, Take, TakeEnd, Drop

-----------------------------------------------------------------------------
(* The theorems.                                                           *)

\* Every step keeps the types and the flow of every body.
LEMMA StepFlow == FlowInv /\ ConnInv /\ [Next]_vars => FlowInv' /\ ConnInv'
<1>. SUFFICES ASSUME FlowInv, ConnInv, [Next]_vars
              PROVE  FlowInv' /\ ConnInv'
  OBVIOUS
<1>1. CASE Serve \/ (\E z \in BOOLEAN : Connect(z)) \/ Handshake \/ SetFlag
  <2>1. /\ listener' \in {"starting", "listening", "failed"} /\ conn' \in Conn
        /\ ConnInv' /\ UNCHANGED <<req, pump, channel, origin, ended>>
    BY <1>1, ConnSteps DEF FlowInv
  <2>. QED  BY <2>1 DEF FlowInv, TypeOK
<1>2. ASSUME NEW r \in Requests,
             \/ \E f \in Fronts, safe, declared \in BOOLEAN, n \in 0 .. MaxLength :
                   Arrive(r, f, safe, declared, n)
             \/ SendChunk(r) \/ Finish(r) \/ Reset(r) \/ Retry(r) \/ Resolve(r)
             \/ PumpStep(r) \/ Take(r) \/ TakeEnd(r) \/ Drop(r)
      PROVE  FlowInv' /\ ConnInv'
  <2>1. ConnInv'
    BY <1>2, RequestSteps DEF ConnInv
  <2>2. FlowInv'
    BY <1>2, ArrivalSteps, SendingSteps, ResolveStep, PumpRecvStep, PumpEndStep,
       PumpSendStep, FilterStep, FilterEndStep, TakeStep, TakeEndStep, DropStep
       DEF PumpStep
  <2>. QED  BY <2>1, <2>2
<1>3. CASE UNCHANGED vars
  BY <1>3 DEF vars, FlowInv, TypeOK, ConnInv
<1>. QED  BY <1>1, <1>2, <1>3 DEF Next

\* The invariant holds at the start.
LEMMA InitFlow == Init => FlowInv /\ ConnInv
<1>. SUFFICES ASSUME Init PROVE FlowInv /\ ConnInv
  OBVIOUS
<1>1. /\ req \in [Requests -> Request] /\ \A r \in Requests : req[r] = Idle
  BY IdleRequest DEF Init
<1>. DEFINE p == [at |-> "none", got |-> 0, seen |-> 0]
<1>2. p \in Pump /\ p.at = "none" /\ p.got = 0 /\ p.seen = 0
  BY BodyConstants DEF Pump
<1>3. pump \in [Requests -> Pump] /\ \A r \in Requests : pump[r] = p
  BY <1>2 DEF Init
<1>. HIDE DEF p
<1>4. /\ channel \in [Requests -> Seq(Chunks)] /\ origin \in [Requests -> Seq(Chunks)]
      /\ ended \in [Requests -> {"open", "complete", "aborted"}]
      /\ \A r \in Requests : channel[r] = <<>> /\ origin[r] = <<>> /\ ended[r] = "open"
  BY DEF Init
<1>5. listener \in {"starting", "listening", "failed"} /\ conn \in Conn /\ ConnInv
  BY DEF Init, Conn, ConnInv
<1>6. \A r \in Requests : Len(channel[r]) <= Capacity
  <2>1. Len(<<>>) <= Capacity
    BY BodyConstants
  <2>. QED  BY <1>4, <2>1, Zenon
<1>7. TypeOK
  BY <1>1, <1>3, <1>4, <1>5, <1>6 DEF TypeOK
<1>8. Flow(Idle, p, <<>>, <<>>, "open")
  <2>1. Asked(Idle, p)
    BY <1>2, IdleRequest, BodyConstants DEF Asked
  <2>2. Unstarted(Idle, p, <<>>, <<>>, "open") /\ Direct(Idle, p, <<>>, "open")
        /\ Whole(Idle, <<>>, "open")
    BY <1>2 DEF Unstarted, Direct, Whole
  <2>3. Amount(p, <<>>, <<>>, "open") /\ InOrder(<<>>, <<>>)
    BY <1>2, BodyConstants DEF Amount, InOrder
  <2>. QED  BY <2>1, <2>2, <2>3 DEF Flow
<1>9. \A r \in Requests : Flow(req[r], pump[r], channel[r], origin[r], ended[r])
  BY <1>1, <1>3, <1>4, <1>8
<1>. QED  BY <1>5, <1>7, <1>9 DEF FlowInv

\* The types are right in every reachable state; in particular, the channel never
\* holds more than Capacity chunks.
THEOREM TypesCorrect == Spec => []TypeOK
<1>1. FlowInv => TypeOK
  BY DEF FlowInv
<1>. QED  BY <1>1, InitFlow, StepFlow, PTL DEF Spec

\* For bodies of any size and a channel of any capacity, the origin has a prefix of
\* what the client sent, in order, within max_body_bytes.
THEOREM OriginHasPrefix == Spec => []PrefixWithinLimit
<1>1. FlowInv => PrefixWithinLimit
  <2>. SUFFICES ASSUME FlowInv, NEW r \in Requests
                PROVE  /\ Len(origin[r]) <= req[r].sent
                       /\ Len(origin[r]) <= MaxBody
                       /\ \A i \in DOMAIN origin[r] : origin[r][i] = i
    BY DEF PrefixWithinLimit
  <2>. DEFINE n == Len(origin[r])
              m == Len(channel[r])
  <2>1. /\ Flow(req[r], pump[r], channel[r], origin[r], ended[r])
        /\ Typed(req[r], pump[r], channel[r], origin[r], ended[r])
    BY Parts
  <2>2. n \in Nat /\ m \in Nat /\ pump[r].got \in Nat /\ req[r].sent \in Nat
    BY <2>1, Fields DEF Typed
  <2>3. n + m <= pump[r].got /\ n + m <= MaxBody /\ pump[r].got <= req[r].sent
    BY <2>1 DEF Flow, Amount, Asked
  <2>4. \A i \in DOMAIN origin[r] : origin[r][i] = i
    BY <2>1 DEF Flow, InOrder, Typed
  <2>5. n <= req[r].sent /\ n <= MaxBody
    <3>. HIDE DEF n, m
    <3>. QED  BY <2>2, <2>3, BodyConstants
  <2>. QED  BY <2>4, <2>5
<1>. QED  BY <1>1, InitFlow, StepFlow, PTL DEF Spec

\* A body the origin takes for complete is the whole one, over HTTP/1 and HTTP/2, and
\* over HTTP/3 if its length was declared.
THEOREM CompleteBodiesWhole == Spec => []CompleteIsWhole
<1>1. FlowInv => CompleteIsWhole
  BY DEF FlowInv, Flow, Whole, CompleteIsWhole
<1>. QED  BY <1>1, InitFlow, StepFlow, PTL DEF Spec

\* Every step keeps early requests with unsafe methods from the origin.
LEMMA StepReplay ==
    ASSUME TypeOK, ConnInv, ReplaySafe, [Next]_vars
    PROVE  ReplaySafe'
<1>1. ASSUME conn.complete => conn'.complete,
             \A r \in Requests :
                req'[r].stage = "forwarded" =>
                   /\ req[r].stage = "forwarded"
                   /\ req'[r].front = req[r].front /\ req'[r].safe = req[r].safe
      PROVE  ReplaySafe'
  BY <1>1 DEF ReplaySafe
<1>2. CASE Serve \/ (\E z \in BOOLEAN : Connect(z)) \/ Handshake \/ SetFlag
  BY <1>1, <1>2, ConnSteps
<1>3. ASSUME NEW r \in Requests, UNCHANGED <<conn, req>>
      PROVE  ReplaySafe'
  BY <1>3 DEF ReplaySafe
<1>4. ASSUME NEW r \in Requests, PumpStep(r) \/ Take(r) \/ TakeEnd(r) \/ Drop(r)
      PROVE  ReplaySafe'
  BY <1>3, <1>4 DEF PumpStep, PumpRecv, PumpEnd, PumpSend, Filter, FilterEnd, Take,
     TakeEnd, Drop
<1>5. ASSUME NEW r \in Requests, UNCHANGED conn, req' \in [Requests -> Request],
             \A s \in Requests \ {r} : req'[s] = req[s],
             \/ req'[r].stage # "forwarded"
             \/ /\ req[r].stage = "forwarded"
                /\ req'[r].front = req[r].front /\ req'[r].safe = req[r].safe
      PROVE  ReplaySafe'
  BY <1>1, <1>5
<1>6. ASSUME NEW r \in Requests, SendChunk(r) \/ Finish(r) \/ Reset(r)
      PROVE  ReplaySafe'
  <2>1. req \in [Requests -> Request] /\ req[r] \in Request
    BY DEF TypeOK
  <2>2. CASE SendChunk(r)
    <3>. DEFINE n == req[r].sent + 1
    <3>1. req' = [req EXCEPT ![r].sent = n] /\ conn' = conn
      BY <2>2 DEF SendChunk
    <3>2. n \in 0 .. MaxLength
      <4>1. /\ req[r].sent \in Nat /\ req[r].length \in 0 .. MaxLength
            /\ req[r].sent < req[r].length
        BY <2>1, <2>2, BodyConstants DEF Request, SendChunk
      <4>. QED  BY <4>1, BodyConstants
    <3>. HIDE DEF n
    <3>3. /\ req' \in [Requests -> Request] /\ \A s \in Requests \ {r} : req'[s] = req[s]
          /\ req'[r].stage = req[r].stage /\ req'[r].front = req[r].front
          /\ req'[r].safe = req[r].safe
      BY <2>1, <3>1, <3>2 DEF Request
    <3>. QED  BY <1>5, <3>1, <3>3
  <2>3. ASSUME NEW c \in {"finished", "reset"}, req' = [req EXCEPT ![r].client = c],
               conn' = conn
        PROVE  ReplaySafe'
    <3>1. /\ req' \in [Requests -> Request] /\ \A s \in Requests \ {r} : req'[s] = req[s]
          /\ req'[r].stage = req[r].stage /\ req'[r].front = req[r].front
          /\ req'[r].safe = req[r].safe
      BY <2>1, <2>3 DEF Request
    <3>. QED  BY <1>5, <2>3, <3>1
  <2>. QED  BY <1>6, <2>2, <2>3 DEF Finish, Reset
<1>7. ASSUME NEW r \in Requests,
             \/ Retry(r)
             \/ \E f \in Fronts, safe, declared \in BOOLEAN, n \in 0 .. MaxLength :
                   Arrive(r, f, safe, declared, n)
      PROVE  ReplaySafe'
  <2>1. req \in [Requests -> Request] /\ req[r] \in Request
    BY DEF TypeOK
  <2>2. CASE Retry(r)
    <3>1. req' = [req EXCEPT ![r].stage = "arrived", ![r].sent = 0, ![r].client = "sending"]
          /\ 0 \in 0 .. MaxLength /\ conn' = conn
      BY <2>2, BodyConstants DEF Retry
    <3>2. /\ req' \in [Requests -> Request] /\ \A s \in Requests \ {r} : req'[s] = req[s]
          /\ req'[r].stage = "arrived"
      BY <2>1, <3>1 DEF Request
    <3>. QED  BY <1>5, <3>1, <3>2
  <2>3. ASSUME NEW f \in Fronts, NEW safe \in BOOLEAN, NEW declared \in BOOLEAN,
               NEW n \in 0 .. MaxLength, Arrive(r, f, safe, declared, n)
        PROVE  ReplaySafe'
    <3>. DEFINE q == [Idle EXCEPT !.stage = "arrived", !.front = f, !.safe = safe,
                                  !.declared = declared, !.length = n]
    <3>1. q \in Request /\ q.stage = "arrived"
      BY IdleRequest DEF Request
    <3>2. req' = [req EXCEPT ![r] = q] /\ conn' = conn
      BY <2>3, Zenon DEF Arrive
    <3>. HIDE DEF q
    <3>3. req' \in [Requests -> Request] /\ req'[r] = q
          /\ \A s \in Requests \ {r} : req'[s] = req[s]
      BY <2>1, <3>1, <3>2
    <3>. QED  BY <1>5, <3>1, <3>2, <3>3
  <2>. QED  BY <1>7, <2>2, <2>3
<1>8. ASSUME NEW r \in Requests, Resolve(r)
      PROVE  ReplaySafe'
  <2>1. req \in [Requests -> Request] /\ req[r] \in Request /\ conn' = conn
    BY <1>8 DEF TypeOK, Resolve
  <2>2. PICK s \in {"425", "413", "forwarded"} :
           req' = [req EXCEPT ![r].stage = s] /\ (s = "forwarded" => ~TooEarly(r))
    BY <1>8 DEF Resolve
  <2>3. /\ \A t \in Requests \ {r} : req'[t] = req[t]
        /\ req'[r].stage = s /\ req'[r].front = req[r].front /\ req'[r].safe = req[r].safe
    BY <2>1, <2>2 DEF Request
  <2>4. req'[r].stage = "forwarded" /\ req'[r].front = "h3" /\ ~req'[r].safe => conn.complete
    BY <2>2, <2>3 DEF TooEarly, ConnInv
  <2>. QED  BY <2>1, <2>3, <2>4 DEF ReplaySafe
<1>9. CASE UNCHANGED vars
  BY <1>9 DEF vars, ReplaySafe
<1>. QED  BY <1>2, <1>4, <1>6, <1>7, <1>8, <1>9 DEF Next

\* A request with an unsafe method reaches the origin over HTTP/3 only after the
\* handshake, however late the task that waits for it sets the flag.
THEOREM ReplaysRefused == Spec => []ReplaySafe
<1>. DEFINE Inv == FlowInv /\ ConnInv /\ ReplaySafe
<1>1. Init => Inv
  BY InitFlow, IdleRequest DEF Init, ReplaySafe
<1>2. Inv /\ [Next]_vars => Inv'
  BY StepFlow, StepReplay DEF FlowInv
<1>. QED  BY <1>1, <1>2, PTL DEF Spec
-----------------------------------------------------------------------------
(* What a step may never do.                                               *)

\* The origin is sent one chunk at a time, nothing of it is taken back, and nothing
\* follows once the body has ended for the origin, which happens once; a request that
\* was forwarded or refused as too large is not decided upon again.
EndsOnce(r) ==
    /\ \/ origin'[r] = origin[r]
       \/ ended[r] = "open" /\ \E c \in Chunks : origin'[r] = Append(origin[r], c)
    /\ ended[r] # "open" => ended'[r] = ended[r]
    /\ req[r].stage \in {"forwarded", "413"} => req'[r].stage = req[r].stage

\* A step of a request that leaves what the origin has of it alone.
LEMMA NothingSent ==
    ASSUME TypeOK, NEW r \in Requests, UNCHANGED <<origin, ended>>,
           \/ req' = req
           \/ /\ req[r].stage \notin {"forwarded", "413"}
              /\ \E q : req' = [req EXCEPT ![r] = q]
           \/ \E n : req' = [req EXCEPT ![r].sent = n]
           \/ \E c : req' = [req EXCEPT ![r].client = c]
    PROVE  \A s \in Requests : EndsOnce(s)
<1>. SUFFICES ASSUME NEW s \in Requests
              PROVE  req[s].stage \in {"forwarded", "413"} => req'[s].stage = req[s].stage
  BY DEF EndsOnce
<1>1. req \in [Requests -> Request] /\ req[r] \in Request
  BY DEF TypeOK
<1>. QED  BY <1>1 DEF Request

\* Every step of a request respects what the origin has of it.
LEMMA RequestEndsOnce ==
    ASSUME FlowInv, NEW r \in Requests,
           \/ \E f \in Fronts, safe, declared \in BOOLEAN, n \in 0 .. MaxLength :
                 Arrive(r, f, safe, declared, n)
           \/ SendChunk(r) \/ Finish(r) \/ Reset(r) \/ Retry(r) \/ Resolve(r)
           \/ PumpStep(r) \/ Take(r) \/ TakeEnd(r) \/ Drop(r)
    PROVE  \A s \in Requests : EndsOnce(s)
<1>1. /\ TypeOK /\ Flow(req[r], pump[r], channel[r], origin[r], ended[r])
      /\ Typed(req[r], pump[r], channel[r], origin[r], ended[r])
      /\ origin \in [Requests -> Seq(Chunks)]
      /\ ended \in [Requests -> {"open", "complete", "aborted"}]
  BY Parts DEF FlowInv, TypeOK
<1>2. pump[r].at = "recv" /\ req[r].front = "h1" => ended[r] = "open"
  BY <1>1 DEF Flow, Direct
<1>3. ASSUME ended[r] = "open", req' = req, UNCHANGED origin,
             \E e : ended' = [ended EXCEPT ![r] = e]
      PROVE  \A s \in Requests : EndsOnce(s)
  BY <1>1, <1>3 DEF EndsOnce
<1>4. ASSUME ended[r] = "open", UNCHANGED <<req, ended>>,
             NEW c \in Chunks, origin' = [origin EXCEPT ![r] = Append(@, c)]
      PROVE  \A s \in Requests : EndsOnce(s)
  BY <1>1, <1>4 DEF EndsOnce
<1>5. CASE \E f \in Fronts, safe, declared \in BOOLEAN, n \in 0 .. MaxLength :
              Arrive(r, f, safe, declared, n)
  BY <1>1, <1>5, NothingSent DEF Arrive, body
<1>6. CASE SendChunk(r) \/ Finish(r) \/ Reset(r)
  BY <1>1, <1>6, NothingSent DEF SendChunk, Finish, Reset, body
<1>7. CASE Retry(r) \/ Resolve(r)
  <2>1. req[r].stage \notin {"forwarded", "413"} /\ UNCHANGED <<origin, ended>>
    BY <1>7 DEF Retry, Resolve, body
  <2>2. \E q : req' = [req EXCEPT ![r] = q]
    <3>1. CASE Retry(r)
      <4>. WITNESS [req[r] EXCEPT !.stage = "arrived", !.sent = 0, !.client = "sending"]
      <4>. QED  BY <3>1, <1>1 DEF Retry, TypeOK
    <3>2. CASE Resolve(r)
      <4>. WITNESS [req[r] EXCEPT !.stage =
              IF TooEarly(r) THEN "425" ELSE IF TooLarge(r) THEN "413" ELSE "forwarded"]
      <4>. QED  BY <3>2, <1>1 DEF Resolve, TypeOK
    <3>. QED  BY <1>7, <3>1, <3>2
  <2>. QED  BY <1>1, <2>1, <2>2, NothingSent
<1>8. CASE PumpRecv(r) \/ PumpEnd(r) \/ PumpSend(r)
  BY <1>1, <1>8, NothingSent DEF PumpRecv, PumpEnd, PumpSend
<1>9. CASE Filter(r)
  <2>1. ended[r] = "open" /\ req' = req
    BY <1>2, <1>9 DEF Filter
  <2>2. CASE UNCHANGED origin /\ ended' = [ended EXCEPT ![r] = "aborted"]
    BY <1>3, <2>1, <2>2
  <2>3. CASE /\ origin' = [origin EXCEPT ![r] = Append(@, pump[r].got + 1)]
             /\ UNCHANGED ended
    <3>1. pump[r].got + 1 \in Chunks
      <4>1. pump[r].got < req[r].sent
        BY <1>9 DEF Filter
      <4>2. pump[r].got \in Nat /\ req[r].sent \in 0 .. MaxLength
        BY <1>1, Fields DEF Typed
      <4>. QED  BY <4>1, <4>2, BodyConstants DEF Chunks
    <3>. QED  BY <1>4, <2>1, <2>3, <3>1
  <2>. QED  BY <1>9, <2>2, <2>3 DEF Filter
<1>10. CASE FilterEnd(r)
  BY <1>2, <1>3, <1>10 DEF FilterEnd
<1>11. CASE Take(r)
  <2>1. Head(channel[r]) \in Chunks
    BY <1>1, <1>11 DEF Take, Typed
  <2>. QED  BY <1>4, <1>11, <2>1 DEF Take
<1>12. CASE TakeEnd(r) \/ Drop(r)
  BY <1>3, <1>12 DEF TakeEnd, Drop
<1>. QED
  BY <1>5, <1>6, <1>7, <1>8, <1>9, <1>10, <1>11, <1>12 DEF PumpStep

\* However pump, filter, upstream client and timeout race, the body of a request ends
\* for the origin at most once, with nothing after its end, and what was forwarded is
\* neither refused nor forwarded again.
THEOREM BodiesEndOnce == Spec => [][\A r \in Requests : EndsOnce(r)]_vars
<1>1. FlowInv /\ ConnInv /\ [Next]_vars => [\A r \in Requests : EndsOnce(r)]_vars
  <2>. SUFFICES ASSUME FlowInv, ConnInv, Next
                PROVE  \A r \in Requests : EndsOnce(r)
    OBVIOUS
  <2>1. CASE Serve \/ (\E z \in BOOLEAN : Connect(z)) \/ Handshake \/ SetFlag
    BY <2>1, ConnSteps DEF FlowInv, EndsOnce
  <2>. QED  BY <2>1, RequestEndsOnce DEF Next
<1>. QED  BY <1>1, InitFlow, StepFlow, PTL DEF Spec
==============================================================================
