----------------------------- MODULE RequestBody -----------------------------
(***************************************************************************)
(* The way of a request body from the client to the origin.  On HTTP/3     *)
(* (crates/zaphyl/src/http3.rs) the connection may carry early data, and   *)
(* a task of its own pumps the body into a bounded channel from which the  *)
(* upstream client reads.  On HTTP/1 and HTTP/2 request_body_filter() of   *)
(* crates/zaphyl/src/main.rs is called for each chunk.  A chunk is one     *)
(* unit of size, and its number tells it from the others.                  *)
(***************************************************************************)
EXTENDS Naturals, Sequences

CONSTANTS
    Requests,   \* the requests
    Fronts,     \* the listeners they may come in by, of {"h1", "h3"}
    MaxLength,  \* bound on the chunks of a body
    MaxBody,    \* max_body_bytes; MaxLength or more stands for None
    Capacity    \* of the channel: 4 in the code

ASSUME BodyConstants ==
    /\ MaxLength \in Nat
    /\ MaxBody \in Nat
    /\ Capacity \in Nat \ {0}
    /\ Fronts \subseteq {"h1", "h3"} /\ Fronts # {}

VARIABLES
    listener,   \* serve(): "starting", "listening" or "failed"
    conn,       \* the QUIC connection and handshake_done
    req,        \* what the client asks and has sent so far
    pump,       \* the task that reads the body, or request_body_filter()
    channel,    \* between the pump and the upstream client
    origin,     \* the chunks that have reached the origin
    ended       \* what the origin takes the body for

vars == <<listener, conn, req, pump, channel, origin, ended>>

Chunks == 1 .. MaxLength

\* complete: the handshake has ended.  accepted: its early data, if any, was.
Conn == [open : BOOLEAN, complete : BOOLEAN, accepted : BOOLEAN,
         handshake_done : BOOLEAN]

\* safe: is_safe_method().  declared: there is a Content-Length.
Request == [stage : {"idle", "arrived", "forwarded", "425", "413"},
            front : Fronts, safe : BOOLEAN, declared : BOOLEAN,
            length : 0 .. MaxLength, sent : 0 .. MaxLength,
            client : {"sending", "finished", "reset"}]

Pump == [at : {"none", "recv", "send", "ended"}, got : 0 .. MaxLength,
         seen : 0 .. MaxBody + 1]

TypeOK ==
    /\ listener \in {"starting", "listening", "failed"}
    /\ conn \in Conn
    /\ req \in [Requests -> Request]
    /\ pump \in [Requests -> Pump]
    /\ channel \in [Requests -> Seq(Chunks)]
    /\ \A r \in Requests : Len(channel[r]) <= Capacity
    /\ origin \in [Requests -> Seq(Chunks)]
    /\ ended \in [Requests -> {"open", "complete", "aborted"}]

Idle == [stage |-> "idle", front |-> CHOOSE f \in Fronts : TRUE, safe |-> TRUE,
         declared |-> FALSE, length |-> 0, sent |-> 0, client |-> "sending"]

Init ==
    /\ listener = "starting"
    /\ conn = [open |-> FALSE, complete |-> FALSE, accepted |-> FALSE,
               handshake_done |-> FALSE]
    /\ req = [r \in Requests |-> Idle]
    /\ pump = [r \in Requests |-> [at |-> "none", got |-> 0, seen |-> 0]]
    /\ channel = [r \in Requests |-> <<>>]
    /\ origin = [r \in Requests |-> <<>>]
    /\ ended = [r \in Requests |-> "open"]

body == <<pump, channel, origin, ended>>

-----------------------------------------------------------------------------
(* The connection.                                                         *)

\* serve() ends at once if no certificate can be loaded.
Serve ==
    /\ listener = "starting"
    /\ listener' \in {"listening", "failed"}
    /\ UNCHANGED <<conn, req, body>>

\* handle_connection(): with early data the requests are accepted before the
\* handshake has ended, otherwise after it.
Connect(zero_rtt) ==
    /\ listener = "listening"
    /\ ~conn.open
    /\ conn' = [open |-> TRUE, complete |-> ~zero_rtt, accepted |-> FALSE,
                handshake_done |-> ~zero_rtt]
    /\ UNCHANGED <<listener, req, body>>

\* The handshake ends.  Early data that is not accepted never becomes a request.
Handshake ==
    /\ conn.open
    /\ ~conn.complete
    /\ \E accepted \in BOOLEAN :
          /\ \/ accepted
             \/ \A r \in Requests : req[r].front = "h3" => req[r].stage = "idle"
          /\ conn' = [conn EXCEPT !.complete = TRUE, !.accepted = accepted]
    /\ UNCHANGED <<listener, req, body>>

\* Mutant of SetFlag: the flag is set without waiting.
SetFlagAtOnce ==
    /\ conn.open
    /\ ~conn.handshake_done
    /\ conn' = [conn EXCEPT !.handshake_done = TRUE]
    /\ UNCHANGED <<listener, req, body>>

\* Mutant of SetFlag: the flag is set only if the early data was accepted.
SetFlagIfAccepted ==
    /\ conn.complete
    /\ conn.accepted
    /\ ~conn.handshake_done
    /\ conn' = [conn EXCEPT !.handshake_done = TRUE]
    /\ UNCHANGED <<listener, req, body>>

\* The task that waits for the handshake sets the flag, some time later.
SetFlag ==
    /\ conn.complete
    /\ ~conn.handshake_done
    /\ conn' = [conn EXCEPT !.handshake_done = TRUE]
    /\ UNCHANGED <<listener, req, body>>

-----------------------------------------------------------------------------
(* The client.                                                             *)

Arrive(r, f, safe, declared, n) ==
    /\ req[r].stage = "idle"
    /\ f = "h3" => conn.open
    /\ req' = [req EXCEPT ![r] = [Idle EXCEPT !.stage = "arrived", !.front = f,
                                  !.safe = safe, !.declared = declared, !.length = n]]
    /\ UNCHANGED <<listener, conn, body>>

SendChunk(r) ==
    /\ req[r].stage \in {"arrived", "forwarded"}
    /\ req[r].client = "sending"
    /\ req[r].sent < req[r].length
    /\ req' = [req EXCEPT ![r].sent = @ + 1]
    /\ UNCHANGED <<listener, conn, body>>

Finish(r) ==
    /\ req[r].stage \in {"arrived", "forwarded"}
    /\ req[r].client = "sending"
    /\ req[r].sent = req[r].length
    /\ req' = [req EXCEPT ![r].client = "finished"]
    /\ UNCHANGED <<listener, conn, body>>

Reset(r) ==
    /\ req[r].stage \in {"arrived", "forwarded"}
    /\ req[r].client = "sending"
    /\ req' = [req EXCEPT ![r].client = "reset"]
    /\ UNCHANGED <<listener, conn, body>>

\* A request refused as too early is sent again when the handshake has ended.
Retry(r) ==
    /\ req[r].stage = "425"
    /\ conn.complete
    /\ req' = [req EXCEPT ![r].stage = "arrived", ![r].sent = 0, ![r].client = "sending"]
    /\ UNCHANGED <<listener, conn, body>>

-----------------------------------------------------------------------------
(* proxy_request() and request_filter(): admission.                        *)

TooEarly(r) ==
    req[r].front = "h3" /\ ~conn.handshake_done /\ ~req[r].safe

TooLarge(r) == req[r].declared /\ req[r].length > MaxBody

\* The flag is read once, after the head of the request was resolved.
Resolve(r) ==
    /\ req[r].stage = "arrived"
    /\ req' = [req EXCEPT ![r].stage =
          IF TooEarly(r) THEN "425" ELSE IF TooLarge(r) THEN "413" ELSE "forwarded"]
    /\ pump' = IF TooEarly(r) \/ TooLarge(r) THEN pump
               ELSE [pump EXCEPT ![r].at = "recv"]
    /\ UNCHANGED <<listener, conn, channel, origin, ended>>

-----------------------------------------------------------------------------
(* The pump of HTTP/3.                                                     *)

\* Mutant of PumpRecv: the chunk that passes the limit is still sent.
PumpRecvLate(r) ==
    /\ req[r].front = "h3"
    /\ pump[r].at = "recv"
    /\ pump[r].got < req[r].sent
    /\ pump' = [pump EXCEPT ![r] =
          [at |-> IF pump[r].seen > MaxBody THEN "ended" ELSE "send",
           got |-> pump[r].got + 1, seen |-> pump[r].seen + 1]]
    /\ UNCHANGED <<listener, conn, req, channel, origin, ended>>

\* recv_data() returns a chunk; past the limit the task ends.
PumpRecv(r) ==
    /\ req[r].front = "h3"
    /\ pump[r].at = "recv"
    /\ pump[r].got < req[r].sent
    /\ LET seen == pump[r].seen + 1
       IN pump' = [pump EXCEPT ![r] =
             [at |-> IF seen > MaxBody THEN "ended" ELSE "send",
              got |-> pump[r].got + 1, seen |-> seen]]
    /\ UNCHANGED <<listener, conn, req, channel, origin, ended>>

\* Mutant of PumpEnd: an error is taken for a chunk that is still to come.
PumpEndIfFinished(r) ==
    /\ req[r].front = "h3"
    /\ pump[r].at = "recv"
    /\ req[r].client = "finished" /\ pump[r].got = req[r].sent
    /\ pump' = [pump EXCEPT ![r].at = "ended"]
    /\ UNCHANGED <<listener, conn, req, channel, origin, ended>>

\* recv_data() returns None at the end of the stream, and an error after a
\* reset, which may overtake chunks that were not read yet.
PumpEnd(r) ==
    /\ req[r].front = "h3"
    /\ pump[r].at = "recv"
    /\ \/ req[r].client = "finished" /\ pump[r].got = req[r].sent
       \/ req[r].client = "reset"
    /\ pump' = [pump EXCEPT ![r].at = "ended"]
    /\ UNCHANGED <<listener, conn, req, channel, origin, ended>>

\* Mutant of PumpSend: the channel has no bound.
PumpSendUnbounded(r) ==
    /\ pump[r].at = "send"
    /\ ended[r] = "open"
    /\ channel' = [channel EXCEPT ![r] = Append(@, pump[r].got)]
    /\ pump' = [pump EXCEPT ![r].at = "recv"]
    /\ UNCHANGED <<listener, conn, req, origin, ended>>

\* send() waits for room, and fails once the receiver is gone.
PumpSend(r) ==
    /\ pump[r].at = "send"
    /\ \/ /\ ended[r] = "open"
          /\ Len(channel[r]) < Capacity
          /\ channel' = [channel EXCEPT ![r] = Append(@, pump[r].got)]
          /\ pump' = [pump EXCEPT ![r].at = "recv"]
       \/ /\ ended[r] # "open"
          /\ pump' = [pump EXCEPT ![r].at = "ended"]
          /\ UNCHANGED channel
    /\ UNCHANGED <<listener, conn, req, origin, ended>>

-----------------------------------------------------------------------------
(* The upstream client of HTTP/3.                                          *)

Take(r) ==
    /\ ended[r] = "open"
    /\ channel[r] # <<>>
    /\ origin' = [origin EXCEPT ![r] = Append(@, Head(channel[r]))]
    /\ channel' = [channel EXCEPT ![r] = Tail(@)]
    /\ UNCHANGED <<listener, conn, req, pump, ended>>

\* Mutant of TakesFor: the Content-Length is not copied to the upstream request.
TakesForUnframed(r) == "complete"

\* The headers of the request are copied, Content-Length with them: a body that
\* ends before its declared length is no complete one to the origin, and one of
\* undeclared length ends where the channel does.
TakesFor(r) ==
    IF req[r].declared /\ Len(origin[r]) < req[r].length THEN "aborted" ELSE "complete"

\* The channel is empty and its sender gone.
TakeEnd(r) ==
    /\ req[r].front = "h3"
    /\ ended[r] = "open"
    /\ pump[r].at = "ended"
    /\ channel[r] = <<>>
    /\ ended' = [ended EXCEPT ![r] = TakesFor(r)]
    /\ UNCHANGED <<listener, conn, req, pump, channel, origin>>

\* The origin goes away, or the timeout drops the request and the receiver.
Drop(r) ==
    /\ req[r].stage = "forwarded"
    /\ ended[r] = "open"
    /\ ended' = [ended EXCEPT ![r] = "aborted"]
    /\ channel' = [channel EXCEPT ![r] = <<>>]
    /\ pump' = IF req[r].front = "h1" THEN [pump EXCEPT ![r].at = "ended"] ELSE pump
    /\ UNCHANGED <<listener, conn, req, origin>>

-----------------------------------------------------------------------------
(* HTTP/1 and HTTP/2: request_body_filter().                               *)

\* A chunk passes, or the filter fails and the request is given up.
Filter(r) ==
    /\ req[r].front = "h1"
    /\ pump[r].at = "recv"
    /\ pump[r].got < req[r].sent
    /\ LET seen == pump[r].seen + 1
       IN /\ pump' = [pump EXCEPT ![r] =
                [at |-> IF seen > MaxBody THEN "ended" ELSE "recv",
                 got |-> pump[r].got + 1, seen |-> seen]]
          /\ \/ /\ seen > MaxBody
                /\ ended' = [ended EXCEPT ![r] = "aborted"]
                /\ UNCHANGED origin
             \/ /\ seen <= MaxBody
                /\ origin' = [origin EXCEPT ![r] = Append(@, pump[r].got + 1)]
                /\ UNCHANGED ended
    /\ UNCHANGED <<listener, conn, req, channel>>

\* The end of the client's body ends the upstream's; a reset aborts it.
FilterEnd(r) ==
    /\ req[r].front = "h1"
    /\ pump[r].at = "recv"
    /\ \/ /\ req[r].client = "finished"
          /\ pump[r].got = req[r].sent
          /\ ended' = [ended EXCEPT ![r] = "complete"]
       \/ /\ req[r].client = "reset"
          /\ ended' = [ended EXCEPT ![r] = "aborted"]
    /\ pump' = [pump EXCEPT ![r].at = "ended"]
    /\ UNCHANGED <<listener, conn, req, channel, origin>>

-----------------------------------------------------------------------------

PumpStep(r) ==
    PumpRecv(r) \/ PumpEnd(r) \/ PumpSend(r) \/ Filter(r) \/ FilterEnd(r)

Next ==
    \/ Serve
    \/ \E z \in BOOLEAN : Connect(z)
    \/ Handshake
    \/ SetFlag
    \/ \E r \in Requests :
          \/ \E f \in Fronts, safe, declared \in BOOLEAN, n \in 0 .. MaxLength :
                Arrive(r, f, safe, declared, n)
          \/ SendChunk(r) \/ Finish(r) \/ Reset(r) \/ Retry(r)
          \/ Resolve(r)
          \/ PumpStep(r)
          \/ Take(r) \/ TakeEnd(r) \/ Drop(r)

Spec == Init /\ [][Next]_vars

\* Tasks that can go on are polled; the upstream client goes on reading as long
\* as it does not drop the request.  The client owes nothing but the retry of a
\* request that was refused as too early, and the end of its handshake.
FairSpec ==
    /\ Spec
    /\ WF_vars(SetFlag)
    /\ WF_vars(Handshake)
    /\ \A r \in Requests :
          /\ WF_vars(Resolve(r))
          /\ WF_vars(PumpStep(r))
          /\ WF_vars(Take(r) \/ TakeEnd(r))
          /\ WF_vars(Retry(r))

-----------------------------------------------------------------------------
(* Properties.                                                             *)

\* Whatever pump, channel and upstream client do in turn, the origin has a prefix
\* of what the client sent, in order, of at most max_body_bytes.
PrefixWithinLimit ==
    \A r \in Requests :
       /\ Len(origin[r]) <= req[r].sent
       /\ Len(origin[r]) <= MaxBody
       /\ \A i \in DOMAIN origin[r] : origin[r][i] = i

\* A body that the origin takes for complete is the whole body: one cut off by the
\* limit, by a reset or by a lost connection is never complete.  On HTTP/3 this is
\* so for bodies with a Content-Length; the pump ends the others without a mark.
CompleteIsWhole ==
    \A r \in Requests :
       /\ ended[r] = "complete"
       /\ req[r].front = "h1" \/ req[r].declared
       => Len(origin[r]) = req[r].length

\* A request with an unsafe method is forwarded only after the handshake has ended,
\* when it can be no replay (http3.rs, "Replay safety for 0-RTT").
ReplaySafe ==
    \A r \in Requests :
       req[r].stage = "forwarded" /\ req[r].front = "h3" /\ ~req[r].safe
          => conn.complete

\* A client that repeats a request refused as too early gets it through, although
\* the flag is set some time after the handshake that the client saw.
RetrySucceeds ==
    \A r \in Requests : req[r].stage = "425" ~> req[r].stage \in {"forwarded", "413"}

\* Once the client has ended its body, or gone away, the pump ends, and with it the
\* body at the origin: neither waits on the channel for ever.
BodyEnds ==
    \A r \in Requests :
       req[r].stage = "forwarded" /\ req[r].client # "sending"
          ~> pump[r].at = "ended" /\ ended[r] # "open"
=============================================================================
