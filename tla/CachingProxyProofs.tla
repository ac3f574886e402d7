------------------------- MODULE CachingProxyProofs -------------------------
(***************************************************************************)
(* Theorems about CachingProxy, for any number of requests, keys, kinds of *)
(* requests, response headers, body sizes and versions, with and without a *)
(* timeout.                                                                *)
(*                                                                         *)
(* Every step is a step of one request, of the origin or of the clock.     *)
(* OthersKeep and TimeStands say once what a step of one request leaves    *)
(* alone; the proof of an invariant then looks at that request only.       *)
(***************************************************************************)
EXTENDS CachingProxy, Integers, TLAPS

-----------------------------------------------------------------------------
(* The invariants.                                                         *)

\* What the place of a request in the two front ends says of its state.
Admitted(r) ==
    /\ stage[r] # "none" => req[r] # NoRequest
    /\ stage[r] \notin {"none", "admit", "done"} => Admission(r) = "route"
    /\ stage[r] = "plugin" => "plugin" \in Flags(r)
    /\ outcome[r].kind # "none" => stage[r] = "done"

\* A request that was sent on has arrived and was allowed to.
MayPass(r) ==
    r \in forwarded =>
       /\ stage[r] # "none"
       /\ "denied" \notin Flags(r)
       /\ Front(r) = "h1" => Flags(r) \cap {"limited", "large"} = {}
       /\ Front(r) = "h3" => "early" \notin Flags(r)
       /\ "large" \in Flags(r) => "plugin" \in Flags(r)

\* There is an answer where the code goes on to use it, and it is the answer to
\* this request; one that is collected is a 200.
Replied(r) ==
    /\ stage[r] \notin {"reval", "collect", "await", "body"} => reply[r] = NoReply
    /\ stage[r] \in {"collect", "body"} => reply[r] \in Response
    /\ stage[r] = "collect" => reply[r].policy.status = 200
    /\ stage[r] = "await" => reply[r] # Unmodified
    /\ reply[r] \in Response => reply[r].key = req[r].key /\ reply[r].whose = r

\* What is accumulated may be stored and is within the limit so far.
Capturing(r) ==
    /\ stage[r] # "body" => ~captured[r] /\ seen[r] = 0
    /\ captured[r] => seen[r] <= CacheMaxBody /\ CaptureTtl(reply[r].policy) > 0

\* What is revalidated was stored for the key of the request.
Holding(r) ==
    stage[r] \in {"reval", "collect"} =>
       held[r] \in store /\ held[r].resp.key = req[r].key

Shape(r) == Admitted(r) /\ MayPass(r) /\ Replied(r) /\ Capturing(r) /\ Holding(r)

ProxyInv == TypeOK /\ \A r \in Requests : Shape(r)

-----------------------------------------------------------------------------
(* What the operators of the model return.                                 *)

\* The lifetimes response_ttl() and stored_ttl() give: numbers, and 0 unless the
\* response may be shared.
LEMMA Ttls ==
    ASSUME NEW p \in Policies
    PROVE  /\ CaptureTtl(p) \in Nat /\ StoredTtl(p) \in Nat
           /\ CaptureTtl(p) > 0 => /\ p.status = 200 /\ ~p.cookie
                                   /\ ~p.vary /\ ~p.private
           /\ StoredTtl(p) > 0 => ~p.vary /\ ~p.private
<1>1. p \in Policy
  BY ProxyConstants
<1>2. p.maxAge \in Nat
  BY <1>1 DEF Policy
<1>. QED  BY <1>2 DEF CaptureTtl, StoredTtl, ResponseTtl

\* The marks for what is missing are no responses, and differ.
LEMMA MarksDiffer ==
    /\ NoReply # Unmodified /\ NoReply \notin Response
    /\ Unmodified \notin Response /\ NoResponse \notin Response
BY DEF NoReply, Unmodified, NoResponse, Response

\* The fields of a response.
LEMMA ResponseFields ==
    ASSUME NEW s \in Response
    PROVE  /\ s.key \in Keys /\ s.version \in Versions /\ s.policy \in Policies
           /\ s.size \in BodySizes /\ s.size \in Nat /\ s.whose \in Requests
           /\ s # NoReply /\ s # Unmodified
<1>1. s # NoReply /\ s # Unmodified
  BY MarksDiffer
<1>. QED  BY <1>1, ProxyConstants DEF Response

\* The fields of an entry.
LEMMA EntryFields ==
    ASSUME NEW e \in Entry
    PROVE  /\ e.resp \in Response /\ e.len \in Nat /\ e.since \in Nat
           /\ e.expiry \in Nat /\ e # NoEntry
BY DEF Entry, NoEntry

\* Only the requests that the early returns let through are routed.
LEMMA RoutedMayPass ==
    ASSUME NEW r \in Requests, req[r] \in [kind : Kinds, key : Keys],
           Admission(r) = "route"
    PROVE  /\ "denied" \notin Flags(r)
           /\ Front(r) = "h1" => Flags(r) \cap {"limited", "large"} = {}
           /\ Front(r) = "h3" => "early" \notin Flags(r)
<1>1. Front(r) \in {"h1", "h3"}
  BY ProxyConstants DEF Front, Kind
<1>2. CASE Front(r) = "h1"
  BY <1>2 DEF Admission, AdmitH1
<1>3. CASE Front(r) = "h3"
  BY <1>3 DEF Admission, AdmitH3
<1>. QED  BY <1>1, <1>2, <1>3

\* ResponseCache::put() adds one entry, of the response, length and lifetime given.
LEMMA PutAdds ==
    ASSUME TypeOK, NEW r \in Requests, NEW s \in Response, NEW n \in Nat,
           NEW x \in Nat, Put(r, s, n, x)
    PROVE  /\ store' \subseteq Entry /\ store \subseteq store'
           /\ \A e \in store' : \/ e \in store
                                \/ /\ e.resp = s /\ e.len = n
                                   /\ e.since = asked[r] /\ e.expiry = x
<1>. DEFINE e == [resp |-> s, len |-> n, since |-> asked[r], expiry |-> x]
<1>1. asked[r] \in Nat /\ store \subseteq Entry
  BY DEF TypeOK
<1>2. e \in Entry
  BY <1>1 DEF Entry
<1>3. e.resp = s /\ e.len = n /\ e.since = asked[r] /\ e.expiry = x
  OBVIOUS
<1>4. store' = store \cup {e}
  BY DEF Put
<1>. HIDE DEF e
<1>. QED  BY <1>1, <1>2, <1>3, <1>4

-----------------------------------------------------------------------------
(* What a step of one request leaves alone.                                *)

Same(x) ==
    /\ stage'[x] = stage[x] /\ req'[x] = req[x] /\ asked'[x] = asked[x]
    /\ held'[x] = held[x] /\ keyed'[x] = keyed[x] /\ reply'[x] = reply[x]
    /\ captured'[x] = captured[x] /\ seen'[x] = seen[x] /\ outcome'[x] = outcome[x]
    /\ x \in forwarded' <=> x \in forwarded

\* No step of a request changes the state of another one.
LEMMA OthersKeep ==
    ASSUME TypeOK, NEW r \in Requests, ProgramStep(r) \/ OutsideStep(r),
           NEW x \in Requests, x # r
    PROVE  Same(x)
<1>1. CASE Admit(r)
  BY <1>1 DEF TypeOK, Same, Admit, ServeStatic, Route, Done, Goto
<1>2. CASE Lookup(r)
  BY <1>2 DEF TypeOK, Same, Lookup, ServeHit, Done, Goto
<1>3. CASE HandleReval(r)
  BY <1>3 DEF TypeOK, Same, HandleReval, ServeHit, Refetch, Done, Goto
<1>4. CASE RevalTimesOut(r)
  BY <1>4 DEF TypeOK, Same, RevalTimesOut, Refetch, Goto
<1>5. CASE Forward(r)
  BY <1>5 DEF TypeOK, Same, Forward, Done, Goto
<1>6. CASE HandleHead(r)
  BY <1>6 DEF TypeOK, Same, HandleHead, Goto
<1>7. CASE HeadTimesOut(r)
  BY <1>7 DEF TypeOK, Same, HeadTimesOut, Done, DropCtx
<1>8. CASE BodyTimesOut(r)
  BY <1>8 DEF TypeOK, Same, BodyTimesOut, BodyBreaks, Done, DropCtx
<1>9. CASE \E kind \in Kinds, k \in Keys : Arrive(r, kind, k)
  BY <1>9 DEF TypeOK, Same, Arrive, Goto
<1>10. CASE RunPlugins(r)
  BY <1>10 DEF TypeOK, Same, RunPlugins, PluginsRun, Done
<1>11. CASE CollectEnd(r)
  BY <1>11 DEF TypeOK, Same, CollectEnd, ServeHit, Refetch, Done, Goto
<1>12. CASE RevalFails(r)
  BY <1>12 DEF TypeOK, Same, RevalFails, Refetch, Goto
<1>13. CASE UpstreamFails(r)
  BY <1>13 DEF TypeOK, Same, UpstreamFails, Done, DropCtx
<1>14. CASE BodyChunk(r)
  BY <1>14 DEF TypeOK, Same, BodyChunk
<1>15. CASE BodyEnd(r)
  BY <1>15 DEF TypeOK, Same, BodyEnd, Done, DropCtx
<1>16. CASE BodyBreaks(r)
  BY <1>16 DEF TypeOK, Same, BodyBreaks, Done, DropCtx
<1>17. CASE OriginAnswers(r)
  BY <1>17 DEF TypeOK, Same, OriginAnswers
<1>. QED
  BY <1>1, <1>2, <1>3, <1>4, <1>5, <1>6, <1>7, <1>8, <1>9, <1>10, <1>11, <1>12,
     <1>13, <1>14, <1>15, <1>16, <1>17 DEF ProgramStep, OutsideStep

\* No step of a request moves the clock or changes the origin.
LEMMA TimeStands ==
    ASSUME NEW r \in Requests, ProgramStep(r) \/ OutsideStep(r)
    PROVE  clock' = clock /\ origin' = origin /\ until' = until
BY DEF ProgramStep, OutsideStep, Admit, Lookup, HandleReval, RevalTimesOut, Forward,
       HandleHead, HeadTimesOut, BodyTimesOut, Arrive, RunPlugins, CollectEnd,
       RevalFails, UpstreamFails, BodyChunk, BodyEnd, BodyBreaks, OriginAnswers

-----------------------------------------------------------------------------
(* Steps of one request keep its types and its shape.                      *)

\* What has to be shown of a step of r.
Kept(r) == TypeOK' /\ Shape(r)' /\ store \subseteq store'

\* Goto(): the request is somewhere else and has got nothing yet.
LEMMA GotoMoves ==
    ASSUME TypeOK, NEW r \in Requests, NEW s \in Stages, Goto(r, s)
    PROVE  /\ stage' \in [Requests -> Stages] /\ outcome' \in [Requests -> Outcome]
           /\ stage'[r] = s /\ outcome'[r] = outcome[r]
BY DEF TypeOK, Goto

\* Done(): the request is over and its client got what it got.
LEMMA DoneEnds ==
    ASSUME TypeOK, NEW r \in Requests, NEW kind, NEW s, Done(r, kind, s),
           [kind |-> kind, resp |-> s] \in Outcome
    PROVE  /\ stage' \in [Requests -> Stages] /\ outcome' \in [Requests -> Outcome]
           /\ stage'[r] = "done" /\ outcome'[r].kind = kind /\ outcome'[r].resp = s
BY DEF TypeOK, Done, Stages

\* A request arrives.
LEMMA ArriveStep ==
    ASSUME ProxyInv, NEW r \in Requests, NEW kind \in Kinds, NEW k \in Keys,
           Arrive(r, kind, k)
    PROVE  Kept(r)
<1>1. req' \in [Requests -> [kind : Kinds, key : Keys] \cup {NoRequest}]
      /\ req'[r] \in [kind : Kinds, key : Keys]
  BY DEF Arrive, ProxyInv, TypeOK
<1>2. req'[r] # NoRequest
  BY <1>1 DEF NoRequest
<1>3. stage' \in [Requests -> Stages] /\ outcome' \in [Requests -> Outcome]
      /\ stage'[r] = "admit" /\ outcome'[r] = outcome[r]
  BY GotoMoves DEF Arrive, ProxyInv, Stages
<1>4. TypeOK'
  BY <1>1, <1>3 DEF Arrive, ProxyInv, TypeOK
<1>5. outcome[r].kind = "none" /\ r \notin forwarded /\ reply[r] = NoReply
      /\ ~captured[r] /\ seen[r] = 0
  BY DEF Arrive, ProxyInv, Shape, Admitted, MayPass, Replied, Capturing
<1>6. Admitted(r)'
  BY <1>2, <1>3, <1>5 DEF Admitted
<1>7. MayPass(r)' /\ Holding(r)'
  BY <1>3, <1>5 DEF Arrive, MayPass, Holding
<1>8. Replied(r)' /\ Capturing(r)'
  BY <1>3, <1>5, MarksDiffer DEF Arrive, Replied, Capturing
<1>. QED  BY <1>4, <1>6, <1>7, <1>8 DEF Kept, Shape, Arrive

\* The shape of a request that is over.
LEMMA EndShape ==
    ASSUME NEW r \in Requests, stage'[r] = "done", req'[r] = req[r],
           req[r] # NoRequest, reply'[r] = NoReply, ~captured'[r], seen'[r] = 0,
           MayPass(r)'
    PROVE  Shape(r)'
<1>1. Admitted(r)' /\ Holding(r)'
  BY DEF Admitted, Holding
<1>2. Replied(r)' /\ Capturing(r)'
  BY MarksDiffer DEF Replied, Capturing
<1>. QED  BY <1>1, <1>2 DEF Shape

\* The shape of a request that has been let through and has no answer.
LEMMA GoingShape ==
    ASSUME NEW r \in Requests, stage'[r] \in {"plugin", "lookup", "forward", "await"},
           req'[r] = req[r], req[r] # NoRequest, Admission(r) = "route",
           stage'[r] = "plugin" => "plugin" \in Flags(r),
           outcome'[r].kind = "none", reply'[r] = NoReply, ~captured'[r],
           seen'[r] = 0, MayPass(r)'
    PROVE  Shape(r)'
<1>1. Admitted(r)' /\ Holding(r)'
  BY DEF Admitted, Holding, Admission, Flags, Front
<1>2. Replied(r)' /\ Capturing(r)'
  BY MarksDiffer DEF Replied, Capturing
<1>. QED  BY <1>1, <1>2 DEF Shape

\* A step that sends nothing on leaves MayPass() alone.
LEMMA NotSent ==
    ASSUME ProxyInv, NEW r \in Requests, stage'[r] # "none", req'[r] = req[r],
           forwarded' = forwarded
    PROVE  MayPass(r)'
BY DEF ProxyInv, Shape, MayPass, Flags, Front

\* What is known of a request that has arrived.
LEMMA Arrived ==
    ASSUME ProxyInv, NEW r \in Requests, stage[r] # "none"
    PROVE  req[r] \in [kind : Kinds, key : Keys] /\ req[r] # NoRequest
BY DEF ProxyInv, TypeOK, Shape, Admitted

\* What is known of a request that is on its way.
LEMMA OnItsWay ==
    ASSUME ProxyInv, NEW r \in Requests, stage[r] \notin {"none", "done"}
    PROVE  /\ outcome[r].kind = "none"
           /\ stage[r] # "admit" => Admission(r) = "route"
           /\ stage[r] \in {"admit", "plugin", "lookup", "forward"} => reply[r] = NoReply
           /\ stage[r] # "body" => ~captured[r] /\ seen[r] = 0
BY DEF ProxyInv, Shape, Admitted, Replied, Capturing

\* The early returns, static files, or on to the plugins or the cache.
LEMMA AdmitStep ==
    ASSUME ProxyInv, NEW r \in Requests, Admit(r)
    PROVE  Kept(r)
<1>. TypeOK /\ stage[r] = "admit"
  BY DEF ProxyInv, Admit
<1>1. /\ req[r] \in [kind : Kinds, key : Keys] /\ req[r] # NoRequest
      /\ outcome[r].kind = "none" /\ reply[r] = NoReply /\ ~captured[r] /\ seen[r] = 0
  BY Arrived, OnItsWay
<1>2. ASSUME NEW kind, Done(r, kind, NoResponse), kind \in {"403", "425", "429", "413", "static"}
      PROVE  Kept(r)
  <2>1. [kind |-> kind, resp |-> NoResponse] \in Outcome
    BY <1>2 DEF Outcome
  <2>2. /\ stage' \in [Requests -> Stages] /\ outcome' \in [Requests -> Outcome]
        /\ stage'[r] = "done"
    BY <1>2, <2>1, DoneEnds
  <2>3. TypeOK'
    BY <2>2 DEF Admit, TypeOK
  <2>4. MayPass(r)'
    BY <2>2, NotSent DEF Admit
  <2>5. Shape(r)'
    BY <1>1, <2>2, <2>4, EndShape DEF Admit
  <2>. QED  BY <2>3, <2>5 DEF Kept, Admit
<1>3. ASSUME Admission(r) = "route", NEW s \in {"plugin", "lookup"}, Goto(r, s),
             s = "plugin" => "plugin" \in Flags(r)
      PROVE  Kept(r)
  <2>1. /\ stage' \in [Requests -> Stages] /\ outcome' \in [Requests -> Outcome]
        /\ stage'[r] = s /\ outcome'[r] = outcome[r]
    BY <1>3, GotoMoves DEF Stages
  <2>2. TypeOK'
    BY <2>1 DEF Admit, TypeOK
  <2>3. MayPass(r)'
    BY <2>1, NotSent DEF Admit
  <2>4. Shape(r)'
    BY <1>1, <1>3, <2>1, <2>3, GoingShape DEF Admit
  <2>. QED  BY <2>2, <2>4 DEF Kept, Admit
<1>4. CASE Admission(r) # "route" /\ Done(r, Admission(r), NoResponse)
  <2>1. Admission(r) \in {"403", "425", "429", "413"}
    BY <1>4 DEF Admission, AdmitH1, AdmitH3
  <2>. QED  BY <1>2, <1>4, <2>1
<1>5. CASE Admission(r) = "route" /\ ServeStatic(r)
  BY <1>2, <1>5 DEF ServeStatic
<1>6. CASE Admission(r) = "route" /\ Route(r)
  BY <1>3, <1>6 DEF Route
<1>. QED  BY <1>4, <1>5, <1>6 DEF Admit

\* The plugin chain is run; it sends on only what was let through.
LEMMA RunPluginsStep ==
    ASSUME ProxyInv, NEW r \in Requests, RunPlugins(r)
    PROVE  Kept(r)
<1>. TypeOK /\ stage[r] = "plugin"
  BY DEF ProxyInv, RunPlugins
<1>1. /\ req[r] \in [kind : Kinds, key : Keys] /\ req[r] # NoRequest
      /\ Admission(r) = "route" /\ reply[r] = NoReply /\ ~captured[r] /\ seen[r] = 0
  BY Arrived, OnItsWay
<1>2. PICK kind \in {"413", "plugin", "error"} : Done(r, kind, NoResponse)
  BY DEF RunPlugins, PluginsRun
<1>3. [kind |-> kind, resp |-> NoResponse] \in Outcome
  BY DEF Outcome
<1>4. /\ stage' \in [Requests -> Stages] /\ outcome' \in [Requests -> Outcome]
      /\ stage'[r] = "done"
  BY <1>2, <1>3, DoneEnds
<1>5. forwarded' \in {forwarded, forwarded \cup {r}}
  BY DEF RunPlugins, PluginsRun
<1>6. TypeOK'
  BY <1>4, <1>5 DEF RunPlugins, TypeOK
<1>7. "plugin" \in Flags(r)
  BY DEF ProxyInv, Shape, Admitted
<1>8. MayPass(r)'
  BY <1>1, <1>4, <1>7, RoutedMayPass DEF RunPlugins, MayPass, Flags, Front
<1>9. Shape(r)'
  BY <1>1, <1>4, <1>8, EndShape DEF RunPlugins
<1>. QED  BY <1>6, <1>9 DEF Kept, RunPlugins

\* No target, a body that is too large, or the request is sent on.
LEMMA ForwardStep ==
    ASSUME ProxyInv, NEW r \in Requests, Forward(r)
    PROVE  Kept(r)
<1>. TypeOK /\ stage[r] = "forward"
  BY DEF ProxyInv, Forward
<1>1. /\ req[r] \in [kind : Kinds, key : Keys] /\ req[r] # NoRequest
      /\ Admission(r) = "route" /\ outcome[r].kind = "none"
      /\ reply[r] = NoReply /\ ~captured[r] /\ seen[r] = 0
  BY Arrived, OnItsWay
<1>2. ASSUME NEW kind \in {"500", "404", "413"}, Done(r, kind, NoResponse),
             forwarded' = forwarded
      PROVE  Kept(r)
  <2>1. [kind |-> kind, resp |-> NoResponse] \in Outcome
    BY DEF Outcome
  <2>2. /\ stage' \in [Requests -> Stages] /\ outcome' \in [Requests -> Outcome]
        /\ stage'[r] = "done"
    BY <1>2, <2>1, DoneEnds
  <2>3. TypeOK'
    BY <1>2, <2>2 DEF Forward, TypeOK
  <2>4. MayPass(r)'
    BY <1>2, <2>2, NotSent DEF Forward
  <2>5. Shape(r)'
    BY <1>1, <2>2, <2>4, EndShape DEF Forward
  <2>. QED  BY <2>3, <2>5 DEF Kept, Forward
<1>3. ASSUME ~(Front(r) = "h3" /\ "large" \in Flags(r)), Goto(r, "await"),
             forwarded' = forwarded \cup {r}
      PROVE  Kept(r)
  <2>1. /\ stage' \in [Requests -> Stages] /\ outcome' \in [Requests -> Outcome]
        /\ stage'[r] = "await" /\ outcome'[r] = outcome[r]
    BY <1>3, GotoMoves DEF Stages
  <2>2. TypeOK'
    BY <1>3, <2>1 DEF Forward, TypeOK
  <2>3. Front(r) \in {"h1", "h3"}
    BY <1>1, ProxyConstants DEF Front, Kind
  <2>4. MayPass(r)'
    BY <1>1, <1>3, <2>1, <2>3, RoutedMayPass DEF Forward, MayPass, Flags, Front
  <2>5. Shape(r)'
    BY <1>1, <2>1, <2>4, GoingShape DEF Forward
  <2>. QED  BY <2>2, <2>5 DEF Kept, Forward
<1>. QED  BY <1>2, <1>3 DEF Forward

\* The cache is asked: a miss, a fresh entry, or a stale one to revalidate.
LEMMA LookupStep ==
    ASSUME ProxyInv, NEW r \in Requests, Lookup(r)
    PROVE  Kept(r)
<1>. TypeOK /\ stage[r] = "lookup"
  BY DEF ProxyInv, Lookup
<1>1. /\ req[r] \in [kind : Kinds, key : Keys] /\ req[r] # NoRequest
      /\ Admission(r) = "route" /\ outcome[r].kind = "none"
      /\ reply[r] = NoReply /\ ~captured[r] /\ seen[r] = 0
  BY Arrived, OnItsWay
<1>2. asked' \in [Requests -> Nat]
  BY DEF Lookup, TypeOK
<1>3. ASSUME Goto(r, "forward"), keyed' \in {keyed, [keyed EXCEPT ![r] = TRUE]},
             held' = held
      PROVE  Kept(r)
  <2>1. /\ stage' \in [Requests -> Stages] /\ outcome' \in [Requests -> Outcome]
        /\ stage'[r] = "forward" /\ outcome'[r] = outcome[r]
    BY <1>3, GotoMoves DEF Stages
  <2>2. /\ keyed' \in [Requests -> BOOLEAN]
        /\ \A x \in Requests : keyed[x] => keyed'[x]
    BY <1>3 DEF TypeOK
  <2>a. TypeOK'
    BY <1>2, <1>3, <2>1, <2>2 DEF Lookup, TypeOK
  <2>3. MayPass(r)'
    BY <2>1, NotSent DEF Lookup
  <2>4. Shape(r)'
    BY <1>1, <2>1, <2>3, GoingShape DEF Lookup
  <2>. QED  BY <2>a, <2>4 DEF Kept, Lookup
<1>4. ASSUME NEW e \in store, Done(r, "fresh", e.resp), keyed' = keyed, held' = held
      PROVE  Kept(r)
  <2>1. e.resp \in Response
    BY EntryFields DEF TypeOK
  <2>2. [kind |-> "fresh", resp |-> e.resp] \in Outcome
    BY <2>1 DEF Outcome
  <2>3. /\ stage' \in [Requests -> Stages] /\ outcome' \in [Requests -> Outcome]
        /\ stage'[r] = "done"
    BY <1>4, <2>2, DoneEnds
  <2>4. TypeOK'
    BY <1>2, <1>4, <2>3 DEF Lookup, TypeOK
  <2>5. MayPass(r)'
    BY <2>3, NotSent DEF Lookup
  <2>6. Shape(r)'
    BY <1>1, <2>3, <2>5, EndShape DEF Lookup
  <2>. QED  BY <2>4, <2>6 DEF Kept, Lookup
<1>5. ASSUME NEW e \in store, e.resp.key = req[r].key,
             held' = [held EXCEPT ![r] = e], Goto(r, "reval"), keyed' = keyed
      PROVE  Kept(r)
  <2>1. /\ stage' \in [Requests -> Stages] /\ outcome' \in [Requests -> Outcome]
        /\ stage'[r] = "reval" /\ outcome'[r] = outcome[r]
    BY <1>5, GotoMoves DEF Stages
  <2>2. held' \in [Requests -> Entry \cup {NoEntry}] /\ held'[r] = e
    BY <1>5 DEF TypeOK
  <2>3. TypeOK'
    BY <1>2, <1>5, <2>1, <2>2 DEF Lookup, TypeOK
  <2>4. MayPass(r)'
    BY <2>1, NotSent DEF Lookup
  <2>5. Admitted(r)'
    BY <1>1, <2>1 DEF Admitted, Lookup, Admission, Front, Flags
  <2>6. Replied(r)' /\ Capturing(r)'
    BY <1>1, <2>1, MarksDiffer DEF Lookup, Replied, Capturing
  <2>7. Holding(r)'
    BY <1>5, <2>2 DEF Lookup, Holding
  <2>. QED  BY <2>3, <2>4, <2>5, <2>6, <2>7 DEF Kept, Shape, Lookup
<1>6. ~req[r].kind.cacheable /\ Goto(r, "forward") /\ UNCHANGED <<held, keyed>> => Kept(r)
  BY <1>3 DEF TypeOK
<1>7. keyed' = [keyed EXCEPT ![r] = TRUE] /\ Goto(r, "forward") /\ UNCHANGED held => Kept(r)
  BY <1>3 DEF TypeOK
<1>. QED  BY <1>4, <1>5, <1>6, <1>7 DEF Lookup, ServeHit

\* revalidate() gives up.
LEMMA RefetchStep ==
    ASSUME ProxyInv, NEW r \in Requests, stage[r] \in {"reval", "collect"}, Refetch(r),
           UNCHANGED <<clock, origin, until, store, forwarded, req, asked, captured, seen>>
    PROVE  Kept(r)
<1>. TypeOK
  BY DEF ProxyInv
<1>1. /\ req[r] # NoRequest /\ Admission(r) = "route" /\ outcome[r].kind = "none"
      /\ ~captured[r] /\ seen[r] = 0
  BY Arrived, OnItsWay
<1>2. /\ stage' \in [Requests -> Stages] /\ outcome' \in [Requests -> Outcome]
      /\ stage'[r] = "forward" /\ outcome'[r] = outcome[r]
  BY GotoMoves DEF Stages, Refetch
<1>3. /\ held' \in [Requests -> Entry \cup {NoEntry}]
      /\ keyed' \in [Requests -> BOOLEAN]
      /\ \A x \in Requests : keyed[x] => keyed'[x]
      /\ reply' \in [Requests -> Response \cup {NoReply, Unmodified}]
      /\ reply'[r] = NoReply
  BY DEF Refetch, TypeOK
<1>4. TypeOK'
  BY <1>2, <1>3 DEF TypeOK
<1>5. MayPass(r)'
  BY <1>2, NotSent
<1>6. Shape(r)'
  BY <1>1, <1>2, <1>3, <1>5, GoingShape
<1>. QED  BY <1>4, <1>6 DEF Kept

\* What revalidate() holds in its hands.
LEMMA HeldEntry ==
    ASSUME ProxyInv, NEW r \in Requests, stage[r] \in {"reval", "collect"}
    PROVE  /\ held[r] \in store /\ held[r] \in Entry
           /\ held[r].resp \in Response /\ held[r].len \in Nat
           /\ held[r].resp.key = req[r].key
<1>1. held[r] \in store /\ held[r].resp.key = req[r].key
  BY DEF ProxyInv, Shape, Holding
<1>2. held[r] \in Entry
  BY <1>1 DEF ProxyInv, TypeOK
<1>. QED  BY <1>1, <1>2, EntryFields

\* A refreshed entry expires at a time that can be written down.
LEMMA RefreshTimes ==
    ASSUME TypeOK, NEW r \in Requests, NEW p \in Policies
    PROVE  /\ RefreshedAt(r) + StoredTtl(p) \in Nat
           /\ RefreshedAt(r) + (IF StoredTtl(p) > 0 THEN StoredTtl(p) ELSE DefaultTtl) \in Nat
<1>1. RefreshedAt(r) \in Nat
  BY DEF TypeOK, RefreshedAt
<1>2. StoredTtl(p) \in Nat /\ DefaultTtl \in Nat
  BY Ttls, ProxyConstants
<1>. QED  BY <1>1, <1>2

\* A request that revalidated is served from what it has, and is over.
LEMMA ServedStep ==
    ASSUME ProxyInv, NEW r \in Requests, stage[r] \in {"reval", "collect"},
           NEW kind \in {"validated", "replaced"}, NEW s \in Response,
           Done(r, kind, s), held' = [held EXCEPT ![r] = NoEntry],
           reply' = [reply EXCEPT ![r] = NoReply], store' \subseteq Entry,
           store \subseteq store',
           UNCHANGED <<clock, origin, until, forwarded, req, asked, keyed, captured, seen>>
    PROVE  Kept(r)
<1>. TypeOK
  BY DEF ProxyInv
<1>1. req[r] # NoRequest /\ ~captured[r] /\ seen[r] = 0
  BY Arrived, OnItsWay
<1>2. [kind |-> kind, resp |-> s] \in Outcome
  BY DEF Outcome
<1>3. /\ stage' \in [Requests -> Stages] /\ outcome' \in [Requests -> Outcome]
      /\ stage'[r] = "done"
  BY <1>2, DoneEnds
<1>4. /\ held' \in [Requests -> Entry \cup {NoEntry}]
      /\ reply' \in [Requests -> Response \cup {NoReply, Unmodified}]
      /\ reply'[r] = NoReply
  BY DEF TypeOK
<1>5. TypeOK'
  BY <1>3, <1>4 DEF TypeOK
<1>6. MayPass(r)'
  BY <1>3, NotSent
<1>7. Shape(r)'
  BY <1>1, <1>3, <1>4, <1>6, EndShape
<1>. QED  BY <1>5, <1>7 DEF Kept

\* The head of the answer to the conditional request.
LEMMA HandleRevalStep ==
    ASSUME ProxyInv, NEW r \in Requests, HandleReval(r)
    PROVE  Kept(r)
<1>. TypeOK /\ stage[r] = "reval" /\ reply[r] # NoReply
  BY DEF ProxyInv, HandleReval
<1>1. /\ req[r] # NoRequest /\ Admission(r) = "route" /\ outcome[r].kind = "none"
      /\ ~captured[r] /\ seen[r] = 0
  BY Arrived, OnItsWay
<1>2. held[r].resp \in Response /\ held[r].len \in Nat
  BY HeldEntry
<1>3. held[r].resp.policy \in Policies
  BY <1>2, ResponseFields
<1>4. CASE /\ reply[r] = Unmodified
           /\ Put(r, held[r].resp, held[r].len,
                  RefreshedAt(r) + (IF StoredTtl(held[r].resp.policy) > 0
                                    THEN StoredTtl(held[r].resp.policy) ELSE DefaultTtl))
           /\ ServeHit(r, "validated", held[r].resp)
           /\ held' = [held EXCEPT ![r] = NoEntry]
           /\ reply' = [reply EXCEPT ![r] = NoReply]
           /\ UNCHANGED keyed
  <2>1. store' \subseteq Entry /\ store \subseteq store'
    BY <1>2, <1>3, <1>4, RefreshTimes, PutAdds
  <2>. QED  BY <1>2, <1>4, <2>1, ServedStep DEF HandleReval, ServeHit
<1>5. CASE /\ reply[r] # Unmodified
           /\ reply[r].policy.status = 200
           /\ Goto(r, "collect")
           /\ UNCHANGED <<store, held, keyed, reply>>
  <2>1. /\ stage' \in [Requests -> Stages] /\ outcome' \in [Requests -> Outcome]
        /\ stage'[r] = "collect" /\ outcome'[r] = outcome[r]
    BY <1>5, GotoMoves DEF Stages
  <2>2. TypeOK'
    BY <1>5, <2>1 DEF HandleReval, TypeOK
  <2>3. MayPass(r)'
    BY <2>1, NotSent DEF HandleReval
  <2>4. reply[r] \in Response
    BY <1>5 DEF TypeOK
  <2>5. reply[r].key = req[r].key /\ reply[r].whose = r
    BY <2>4 DEF ProxyInv, Shape, Replied
  <2>6. Admitted(r)'
    BY <1>1, <2>1 DEF Admitted, HandleReval, Admission, Front, Flags
  <2>7. Replied(r)'
    BY <1>5, <2>1, <2>4, <2>5 DEF HandleReval, Replied
  <2>8. Capturing(r)'
    BY <1>1 DEF HandleReval, Capturing
  <2>9. Holding(r)'
    BY <1>5, HeldEntry DEF HandleReval, Holding
  <2>. QED  BY <1>5, <2>2, <2>3, <2>6, <2>7, <2>8, <2>9 DEF Kept, Shape
<1>6. CASE Refetch(r) /\ UNCHANGED store
  BY <1>6, RefetchStep DEF HandleReval
<1>. QED  BY <1>4, <1>5, <1>6 DEF HandleReval

\* The body of a changed response has been collected.
LEMMA CollectEndStep ==
    ASSUME ProxyInv, NEW r \in Requests, CollectEnd(r)
    PROVE  Kept(r)
<1>. TypeOK /\ stage[r] = "collect"
  BY DEF ProxyInv, CollectEnd
<1>1. reply[r] \in Response
  BY DEF ProxyInv, Shape, Replied
<1>2. reply[r].policy \in Policies /\ reply[r].size \in Nat
  BY <1>1, ResponseFields
<1>3. CASE reply[r].size > CacheMaxBody /\ Refetch(r) /\ UNCHANGED store
  BY <1>3, RefetchStep DEF CollectEnd
<1>4. CASE /\ reply[r].size <= CacheMaxBody
           /\ IF StoredTtl(reply[r].policy) > 0
              THEN Put(r, reply[r], reply[r].size, RefreshedAt(r) + StoredTtl(reply[r].policy))
              ELSE UNCHANGED store
           /\ ServeHit(r, "replaced", reply[r])
           /\ held' = [held EXCEPT ![r] = NoEntry]
           /\ reply' = [reply EXCEPT ![r] = NoReply]
           /\ UNCHANGED keyed
  <2>1. store' \subseteq Entry /\ store \subseteq store'
    BY <1>1, <1>2, <1>4, RefreshTimes, PutAdds DEF TypeOK
  <2>. QED  BY <1>1, <1>4, <2>1, ServedStep DEF CollectEnd, ServeHit
<1>. QED  BY <1>3, <1>4 DEF CollectEnd

\* The task of a forwarded request ends and its context is dropped.
LEMMA DropStep ==
    ASSUME ProxyInv, NEW r \in Requests, stage[r] \in {"await", "body"}, NEW kind, NEW s,
           [kind |-> kind, resp |-> s] \in Outcome, Done(r, kind, s), DropCtx(r),
           store' \subseteq Entry, store \subseteq store',
           UNCHANGED <<clock, origin, until, forwarded, req, asked, held>>
    PROVE  Kept(r)
<1>. TypeOK
  BY DEF ProxyInv
<1>1. req[r] # NoRequest
  BY Arrived
<1>2. /\ stage' \in [Requests -> Stages] /\ outcome' \in [Requests -> Outcome]
      /\ stage'[r] = "done"
  BY DoneEnds
<1>3. /\ keyed' \in [Requests -> BOOLEAN] /\ captured' \in [Requests -> BOOLEAN]
      /\ seen' \in [Requests -> Nat] /\ ~captured'[r] /\ seen'[r] = 0
      /\ reply' \in [Requests -> Response \cup {NoReply, Unmodified}]
      /\ reply'[r] = NoReply
      /\ \A x \in Requests : captured'[x] => /\ keyed'[x] = keyed[x] /\ captured[x]
                                            /\ seen'[x] = seen[x]
  BY DEF DropCtx, TypeOK
<1>4. TypeOK'
  BY <1>2, <1>3 DEF TypeOK
<1>5. MayPass(r)'
  BY <1>2, NotSent
<1>6. Shape(r)'
  BY <1>1, <1>2, <1>3, <1>5, EndShape
<1>. QED  BY <1>4, <1>6 DEF Kept

\* The ends that bring the client an error, or half a body.
LEMMA BrokenSteps ==
    ASSUME ProxyInv, NEW r \in Requests,
           UpstreamFails(r) \/ HeadTimesOut(r) \/ BodyTimesOut(r) \/ BodyBreaks(r)
    PROVE  Kept(r)
<1>1. store \subseteq Entry
  BY DEF ProxyInv, TypeOK
<1>2. CASE UpstreamFails(r) \/ HeadTimesOut(r)
  <2>1. PICK kind \in {"error", "504"} : Done(r, kind, NoResponse)
    BY <1>2 DEF UpstreamFails, HeadTimesOut
  <2>2. [kind |-> kind, resp |-> NoResponse] \in Outcome
    BY DEF Outcome
  <2>. QED  BY <1>1, <1>2, <2>1, <2>2, DropStep DEF UpstreamFails, HeadTimesOut
<1>3. CASE BodyBreaks(r)
  <2>1. reply[r] \in Response
    BY <1>3 DEF BodyBreaks, ProxyInv, Shape, Replied
  <2>2. [kind |-> "broken", resp |-> reply[r]] \in Outcome
    BY <2>1 DEF Outcome
  <2>. QED  BY <1>1, <1>3, <2>2, DropStep DEF BodyBreaks
<1>. QED  BY <1>2, <1>3 DEF BodyTimesOut

\* The end of the body.
LEMMA BodyEndStep ==
    ASSUME ProxyInv, NEW r \in Requests, BodyEnd(r)
    PROVE  Kept(r)
<1>. TypeOK /\ stage[r] = "body"
  BY DEF ProxyInv, BodyEnd
<1>1. reply[r] \in Response
  BY DEF ProxyInv, Shape, Replied
<1>2. CaptureTtl(reply[r].policy) \in Nat
  BY <1>1, ResponseFields, Ttls
<1>3. clock \in Nat /\ seen[r] \in Nat /\ clock + CaptureTtl(reply[r].policy) \in Nat
  BY <1>2 DEF TypeOK
<1>4. store' \subseteq Entry /\ store \subseteq store'
  BY <1>1, <1>3, PutAdds DEF BodyEnd, TypeOK
<1>5. [kind |-> "proxied", resp |-> reply[r]] \in Outcome
  BY <1>1 DEF Outcome
<1>. QED  BY <1>4, <1>5, DropStep DEF BodyEnd

\* The head of the answer: capture it or not.
LEMMA HandleHeadStep ==
    ASSUME ProxyInv, NEW r \in Requests, HandleHead(r)
    PROVE  Kept(r)
<1>. TypeOK /\ stage[r] = "await" /\ reply[r] # NoReply
  BY DEF ProxyInv, HandleHead
<1>1. /\ req[r] # NoRequest /\ Admission(r) = "route" /\ outcome[r].kind = "none"
      /\ seen[r] = 0
  BY Arrived, OnItsWay
<1>2. reply[r] \in Response
  BY DEF TypeOK, ProxyInv, Shape, Replied
<1>3. /\ stage' \in [Requests -> Stages] /\ outcome' \in [Requests -> Outcome]
      /\ stage'[r] = "body" /\ outcome'[r] = outcome[r]
  BY GotoMoves DEF Stages, HandleHead
<1>4. /\ captured' \in [Requests -> BOOLEAN]
      /\ captured'[r] => keyed[r] /\ CaptureTtl(reply[r].policy) > 0
      /\ \A x \in Requests \ {r} : captured'[x] = captured[x]
  BY DEF HandleHead, TypeOK
<1>5. TypeOK'
  <2>1. \A x \in Requests : captured'[x] => keyed[x] /\ seen[x] <= CacheMaxBody
    BY <1>1, <1>4, ProxyConstants DEF TypeOK
  <2>. QED  BY <1>3, <1>4, <2>1 DEF HandleHead, TypeOK
<1>6. MayPass(r)'
  BY <1>3, NotSent DEF HandleHead
<1>7. Admitted(r)' /\ Holding(r)'
  BY <1>1, <1>3 DEF HandleHead, Admitted, Admission, Front, Flags, Holding
<1>8. reply[r].key = req[r].key /\ reply[r].whose = r
  BY <1>2 DEF ProxyInv, Shape, Replied
<1>9. Replied(r)'
  BY <1>2, <1>3, <1>8 DEF HandleHead, Replied
<1>10. Capturing(r)'
  BY <1>1, <1>3, <1>4, ProxyConstants DEF HandleHead, Capturing
<1>. QED  BY <1>5, <1>6, <1>7, <1>9, <1>10 DEF Kept, Shape, HandleHead

\* A chunk of the body: what grows above the limit is given up.
LEMMA BodyChunkStep ==
    ASSUME ProxyInv, NEW r \in Requests, BodyChunk(r)
    PROVE  Kept(r)
<1>. TypeOK /\ stage[r] = "body" /\ stage' = stage /\ outcome' = outcome
  BY DEF ProxyInv, BodyChunk
<1>1. seen' \in [Requests -> Nat] /\ seen'[r] = seen[r] + 1
  BY DEF BodyChunk, TypeOK
<1>2. /\ captured' \in [Requests -> BOOLEAN]
      /\ captured'[r] => captured[r] /\ seen[r] + 1 <= CacheMaxBody
      /\ \A x \in Requests \ {r} : captured'[x] = captured[x] /\ seen'[x] = seen[x]
  BY DEF BodyChunk, Keeps, TypeOK
<1>3. TypeOK'
  <2>1. \A x \in Requests : captured'[x] => keyed[x] /\ seen'[x] <= CacheMaxBody
    BY <1>1, <1>2 DEF TypeOK
  <2>. QED  BY <1>1, <1>2, <2>1 DEF BodyChunk, TypeOK
<1>4. MayPass(r)'
  BY NotSent DEF BodyChunk
<1>5. Admitted(r)' /\ Replied(r)' /\ Holding(r)'
  BY DEF BodyChunk, ProxyInv, Shape, Admitted, Admission, Front, Flags, Replied, Holding
<1>6. Capturing(r)'
  BY <1>1, <1>2 DEF BodyChunk, ProxyInv, Shape, Capturing
<1>. QED  BY <1>3, <1>4, <1>5, <1>6 DEF Kept, Shape, BodyChunk

\* What the origin answers with.
Answer(r) ==
    [key |-> req[r].key, version |-> origin[req[r].key].version,
     policy |-> origin[req[r].key].policy, size |-> origin[req[r].key].size,
     whose |-> r]

\* It is a response to this request, of the version that is current.
LEMMA AnswerIs ==
    ASSUME ProxyInv, NEW r \in Requests, stage[r] # "none"
    PROVE  /\ Answer(r) \in Response /\ Answer(r).key = req[r].key
           /\ Answer(r).whose = r /\ Answer(r).version = origin[req[r].key].version
<1>1. req[r].key \in Keys
  BY Arrived
<1>2. origin[req[r].key] \in [version : Versions, policy : Policies, size : BodySizes]
  BY <1>1 DEF ProxyInv, TypeOK
<1>. QED  BY <1>1, <1>2 DEF Answer, Response

\* The origin answers.
LEMMA OriginAnswersStep ==
    ASSUME ProxyInv, NEW r \in Requests, OriginAnswers(r)
    PROVE  Kept(r)
<1>. /\ TypeOK /\ stage[r] \in {"reval", "await"} /\ stage' = stage
     /\ outcome' = outcome
  BY DEF ProxyInv, OriginAnswers
<1>1. Answer(r) \in Response /\ Answer(r).key = req[r].key /\ Answer(r).whose = r
  BY AnswerIs
<1>2. reply' = [reply EXCEPT ![r] =
         IF stage[r] = "reval" /\ held[r].resp.version = origin[req[r].key].version
         THEN Unmodified ELSE Answer(r)]
  BY DEF OriginAnswers, Answer
<1>3. /\ reply' \in [Requests -> Response \cup {NoReply, Unmodified}]
      /\ (stage[r] = "reval" /\ reply'[r] = Unmodified) \/ reply'[r] = Answer(r)
  BY <1>1, <1>2 DEF TypeOK
<1>4. TypeOK'
  BY <1>3 DEF OriginAnswers, TypeOK
<1>5. MayPass(r)'
  BY NotSent DEF OriginAnswers
<1>6. Admitted(r)' /\ Holding(r)'
  BY DEF OriginAnswers, ProxyInv, Shape, Admitted, Admission, Front, Flags, Holding
<1>7. Capturing(r)'
  BY DEF OriginAnswers, ProxyInv, Shape, Capturing
<1>8. Replied(r)'
  BY <1>1, <1>3, MarksDiffer DEF OriginAnswers, Replied
<1>. QED  BY <1>4, <1>5, <1>6, <1>7, <1>8 DEF Kept, Shape, OriginAnswers

\* Every step of a request keeps the types and its shape.
LEMMA RequestStep ==
    ASSUME ProxyInv, NEW r \in Requests, ProgramStep(r) \/ OutsideStep(r)
    PROVE  Kept(r)
<1>1. CASE RevalTimesOut(r) \/ RevalFails(r)
  BY <1>1, RefetchStep DEF RevalTimesOut, RevalFails
<1>. QED
  BY <1>1, ArriveStep, AdmitStep, RunPluginsStep, ForwardStep, LookupStep,
     HandleRevalStep, CollectEndStep, BrokenSteps, BodyEndStep, HandleHeadStep,
     BodyChunkStep, OriginAnswersStep DEF ProgramStep, OutsideStep

-----------------------------------------------------------------------------
(* Types, and requests that must not reach the origin.                     *)

\* A representation is replaced by the next version.
LEMMA ChangeTypes ==
    ASSUME TypeOK, NEW k \in Keys, NEW p \in Policies, NEW n \in BodySizes,
           OriginChanges(k, p, n)
    PROVE  TypeOK'
<1>1. origin[k].version \in Versions /\ origin[k].version + 1 \in Versions
  BY ProxyConstants DEF TypeOK, OriginChanges, Versions
<1>2. [version |-> origin[k].version + 1, policy |-> p, size |-> n]
         \in [version : Versions, policy : Policies, size : BodySizes]
  BY <1>1
<1>3. origin' \in [Keys -> [version : Versions, policy : Policies, size : BodySizes]]
  BY <1>2 DEF TypeOK, OriginChanges
<1>4. until' \in [Keys -> [Versions -> Nat]]
  BY <1>1 DEF TypeOK, OriginChanges
<1>. QED  BY <1>3, <1>4 DEF TypeOK, OriginChanges

\* The state of a request does not change, and the cache keeps its entries.
LEMMA SameShape ==
    ASSUME NEW x \in Requests, Shape(x), Same(x), store \subseteq store'
    PROVE  Shape(x)'
<1>1. Admitted(x)' /\ MayPass(x)'
  BY DEF Shape, Same, Admitted, MayPass, Admission, Front, Flags
<1>2. Replied(x)' /\ Capturing(x)' /\ Holding(x)'
  BY DEF Shape, Same, Replied, Capturing, Holding
<1>. QED  BY <1>1, <1>2 DEF Shape

\* Steps that are of no request leave all of them alone.
LEMMA OutsideTime ==
    ASSUME ProxyInv,
           \/ \E k \in Keys, p \in Policies, n \in BodySizes : OriginChanges(k, p, n)
           \/ Tick
           \/ UNCHANGED vars
    PROVE  /\ \A x \in Requests : Same(x)
           /\ store' = store
BY DEF OriginChanges, Tick, vars, Same

\* Every step keeps ProxyInv.
LEMMA StepProxy == ProxyInv /\ [Next]_vars => ProxyInv'
<1>. SUFFICES ASSUME ProxyInv, [Next]_vars PROVE ProxyInv'
  OBVIOUS
<1>1. ASSUME NEW r \in Requests, ProgramStep(r) \/ OutsideStep(r)
      PROVE  ProxyInv'
  <2>1. TypeOK' /\ Shape(r)' /\ store \subseteq store'
    BY <1>1, RequestStep DEF Kept
  <2>2. \A x \in Requests : x # r => Same(x)
    BY <1>1, OthersKeep DEF ProxyInv
  <2>. QED  BY <2>1, <2>2, SameShape DEF ProxyInv
<1>2. ASSUME \/ \E k \in Keys, p \in Policies, n \in BodySizes : OriginChanges(k, p, n)
             \/ Tick
             \/ UNCHANGED vars
      PROVE  ProxyInv'
  <2>1. (\A x \in Requests : Same(x)) /\ store' = store
    BY <1>2, OutsideTime
  <2>2. CASE \E k \in Keys, p \in Policies, n \in BodySizes : OriginChanges(k, p, n)
    <3>1. TypeOK'
      BY <2>2, ChangeTypes DEF ProxyInv
    <3>. QED  BY <2>1, <3>1, SameShape DEF ProxyInv
  <2>3. CASE Tick \/ UNCHANGED vars
    <3>1. TypeOK'
      BY <2>3 DEF ProxyInv, TypeOK, Tick, vars
    <3>. QED  BY <2>1, <3>1, SameShape DEF ProxyInv
  <2>. QED  BY <1>2, <2>2, <2>3
<1>. QED  BY <1>1, <1>2 DEF Next

\* ProxyInv holds before the first request is admitted.
LEMMA InitProxy == Init => ProxyInv
<1>. SUFFICES ASSUME Init PROVE ProxyInv
  OBVIOUS
<1>1. [kind |-> "none", resp |-> NoResponse] \in Outcome
  BY DEF Outcome
<1>2. outcome \in [Requests -> Outcome] /\ \A r \in Requests : outcome[r].kind = "none"
  BY <1>1 DEF Init
<1>3. origin \in [Keys -> [version : Versions, policy : Policies, size : BodySizes]]
  BY ProxyConstants DEF Init, Versions
<1>4. until \in [Keys -> [Versions -> Nat]]
  BY DEF Init
<1>5. stage \in [Requests -> Stages]
  BY DEF Init, Stages
<1>6. TypeOK
  BY <1>2, <1>3, <1>4, <1>5 DEF Init, TypeOK
<1>7. ASSUME NEW r \in Requests PROVE Shape(r)
  BY <1>2, MarksDiffer DEF Init, Shape, Admitted, MayPass, Replied, Capturing, Holding
<1>. QED  BY <1>6, <1>7 DEF ProxyInv

\* The types are right in every reachable state: what accumulate_cache_body() gathers is
\* for a request with a cache key, and within max_body_bytes.
THEOREM TypesCorrect == Spec => []TypeOK
<1>1. ProxyInv => TypeOK
  BY DEF ProxyInv
<1>. QED  BY <1>1, InitProxy, StepProxy, PTL DEF Spec

\* However requests interleave, one that the early returns of request_filter() and
\* proxy_request() turn away is never sent on to the origin.
THEOREM RejectedStayOut == Spec => []RejectedNeverForwarded
<1>1. ProxyInv => RejectedNeverForwarded
  BY DEF ProxyInv, TypeOK, Shape, MayPass, RejectedNeverForwarded
<1>. QED  BY <1>1, InitProxy, StepProxy, PTL DEF Spec

-----------------------------------------------------------------------------
(* What is stored.                                                         *)

\* What a 304 refreshes, and what put() gets from a response of the origin.
Refreshed(r, e) ==
    /\ reply[r] = Unmodified /\ held[r] \in store
    /\ e.resp = held[r].resp /\ e.len = held[r].len

Taken(r, e) ==
    /\ reply[r] \in Response
    /\ e.resp = reply[r] /\ e.len = reply[r].size /\ e.len <= CacheMaxBody
    /\ ~reply[r].policy.private /\ ~reply[r].policy.vary /\ reply[r].policy.status = 200
    /\ stage[r] = "collect" \/ keyed[r]

\* An entry that appears in a step of r is a refreshed one or the answer to r, whole,
\* within the limit and one that may be shared.
LEMMA NewEntries ==
    ASSUME ProxyInv, NEW r \in Requests, ProgramStep(r) \/ OutsideStep(r),
           NEW e \in store', e \notin store
    PROVE  e.since = asked[r] /\ (Refreshed(r, e) \/ Taken(r, e))
<1>. TypeOK
  BY DEF ProxyInv
<1>1. CASE HandleReval(r)
  <2>. DEFINE p == held[r].resp.policy
              x == RefreshedAt(r) + (IF StoredTtl(p) > 0 THEN StoredTtl(p) ELSE DefaultTtl)
  <2>1. reply[r] = Unmodified /\ Put(r, held[r].resp, held[r].len, x)
    BY <1>1 DEF HandleReval
  <2>2. held[r] \in store /\ held[r].resp \in Response /\ held[r].len \in Nat
    BY <1>1, HeldEntry DEF HandleReval
  <2>3. x \in Nat
    BY <2>2, ResponseFields, RefreshTimes
  <2>. HIDE DEF x
  <2>4. e.resp = held[r].resp /\ e.len = held[r].len /\ e.since = asked[r]
    BY <2>1, <2>2, <2>3, PutAdds
  <2>. QED  BY <2>1, <2>2, <2>4 DEF Refreshed
<1>2. CASE CollectEnd(r)
  <2>. DEFINE x == RefreshedAt(r) + StoredTtl(reply[r].policy)
  <2>1. /\ StoredTtl(reply[r].policy) > 0 /\ Put(r, reply[r], reply[r].size, x)
        /\ reply[r].size <= CacheMaxBody /\ stage[r] = "collect"
    BY <1>2 DEF CollectEnd
  <2>2. reply[r] \in Response /\ reply[r].policy.status = 200
    BY <2>1 DEF ProxyInv, Shape, Replied
  <2>3. reply[r].policy \in Policies /\ reply[r].size \in Nat
    BY <2>2, ResponseFields
  <2>4. x \in Nat
    BY <2>3, RefreshTimes
  <2>. HIDE DEF x
  <2>5. e.resp = reply[r] /\ e.len = reply[r].size /\ e.since = asked[r]
    BY <2>1, <2>2, <2>3, <2>4, PutAdds
  <2>6. ~reply[r].policy.private /\ ~reply[r].policy.vary
    BY <2>1, <2>3, Ttls
  <2>. QED  BY <2>1, <2>2, <2>5, <2>6 DEF Taken
<1>3. CASE BodyEnd(r)
  <2>. DEFINE x == clock + CaptureTtl(reply[r].policy)
  <2>1. /\ captured[r] /\ Put(r, reply[r], seen[r], x) /\ seen[r] = reply[r].size
        /\ stage[r] = "body"
    BY <1>3 DEF BodyEnd
  <2>2. /\ reply[r] \in Response /\ seen[r] <= CacheMaxBody
        /\ CaptureTtl(reply[r].policy) > 0 /\ keyed[r]
    BY <2>1 DEF ProxyInv, TypeOK, Shape, Replied, Capturing
  <2>3. reply[r].policy \in Policies /\ seen[r] \in Nat
    BY <2>2, ResponseFields DEF TypeOK
  <2>4. x \in Nat
    BY <2>3, Ttls DEF TypeOK
  <2>. HIDE DEF x
  <2>5. e.resp = reply[r] /\ e.len = seen[r] /\ e.since = asked[r]
    BY <2>1, <2>2, <2>3, <2>4, PutAdds
  <2>6. /\ reply[r].policy.status = 200
        /\ ~reply[r].policy.vary /\ ~reply[r].policy.private
    BY <2>2, <2>3, Ttls
  <2>. QED  BY <2>1, <2>2, <2>5, <2>6 DEF Taken
<1>4. CASE ~HandleReval(r) /\ ~CollectEnd(r) /\ ~BodyEnd(r)
  <2>1. store' = store
    BY <1>4 DEF ProgramStep, OutsideStep, Admit, Lookup, RevalTimesOut, Forward,
       HandleHead, HeadTimesOut, BodyTimesOut, Arrive, RunPlugins,
       RevalFails, UpstreamFails, BodyChunk, BodyBreaks, OriginAnswers
  <2>. QED  BY <2>1
<1>. QED  BY <1>1, <1>2, <1>3, <1>4

\* Every step keeps the bodies in the cache whole.
LEMMA StepWhole == ProxyInv /\ StoredWhole /\ [Next]_vars => StoredWhole'
<1>. SUFFICES ASSUME ProxyInv, StoredWhole, [Next]_vars, NEW e \in store', e \notin store
              PROVE  e.len = e.resp.size /\ e.len <= CacheMaxBody
  BY DEF StoredWhole
<1>1. ASSUME NEW r \in Requests, ProgramStep(r) \/ OutsideStep(r)
      PROVE  e.len = e.resp.size /\ e.len <= CacheMaxBody
  BY <1>1, NewEntries DEF Refreshed, Taken, StoredWhole
<1>2. ~(\/ \E k \in Keys, p \in Policies, n \in BodySizes : OriginChanges(k, p, n)
        \/ Tick
        \/ UNCHANGED vars)
  BY OutsideTime
<1>. QED  BY <1>1, <1>2 DEF Next

\* Whatever breaks off, overflows or is refreshed in between, only whole bodies within
\* max_body_bytes are stored.
THEOREM StoredBodiesWhole == Spec => []StoredWhole
<1>1. Init => StoredWhole
  BY DEF Init, StoredWhole
<1>. QED  BY <1>1, InitProxy, StepProxy, StepWhole, PTL DEF Spec

-----------------------------------------------------------------------------
(* What is given to others.                                                *)

\* A request has a key, or revalidates, only if request_cacheable() held of it.
KeyedCacheable(r) ==
    /\ stage[r] = "none" => ~keyed[r]
    /\ keyed[r] \/ stage[r] \in {"reval", "collect"} => req[r].kind.cacheable

\* What may be given to any client.
Sharable(s) ==
    /\ ~s.policy.private /\ ~s.policy.vary /\ s.policy.status = 200
    /\ stage[s.whose] # "none" /\ req[s.whose].kind.cacheable

StoreSharable == \A e \in store : Sharable(e.resp)

\* What was served from the cache is in it.
ServedStored ==
    \A r \in Requests :
       ServedFromCache(r) => \E e \in store : e.resp = outcome[r].resp

\* What a request gets from the cache in its last step.
LEMMA HitSteps ==
    ASSUME ProxyInv, NEW r \in Requests, ProgramStep(r) \/ OutsideStep(r)
    PROVE  \/ outcome'[r].kind \notin {"fresh", "validated"}
           \/ /\ outcome'[r].kind = "fresh" /\ asked'[r] = clock
              /\ \E e \in store : e.resp = outcome'[r].resp /\ e.expiry > clock
           \/ /\ outcome'[r].kind = "validated" /\ asked'[r] = asked[r]
              /\ held[r] \in store /\ outcome'[r].resp = held[r].resp
              /\ reply[r] = Unmodified
<1>. TypeOK
  BY DEF ProxyInv
<1>1. stage[r] # "done"
  BY DEF ProgramStep, OutsideStep, Admit, Lookup, HandleReval, RevalTimesOut, Forward,
       HandleHead, HeadTimesOut, BodyTimesOut, Arrive, RunPlugins, CollectEnd,
       RevalFails, UpstreamFails, BodyChunk, BodyEnd, BodyBreaks, OriginAnswers
<1>2. outcome[r].kind = "none"
  BY <1>1 DEF ProxyInv, Shape, Admitted
<1>. DEFINE Moved == outcome'[r].kind \notin {"fresh", "validated"}
<1>3. ASSUME NEW kind, kind \notin {"fresh", "validated"}, NEW s, Done(r, kind, s)
      PROVE  Moved
  BY <1>3 DEF Done, TypeOK
<1>4. (outcome' = outcome \/ \E s : Goto(r, s)) => Moved
  BY <1>2 DEF Goto
<1>5. CASE Admit(r)
  <2>1. CASE Admission(r) # "route" /\ Done(r, Admission(r), NoResponse)
    <3>1. Admission(r) \in {"403", "425", "429", "413"}
      BY <2>1 DEF Admission, AdmitH1, AdmitH3
    <3>. QED  BY <1>3, <2>1, <3>1
  <2>. QED  BY <1>3, <1>4, <1>5, <2>1 DEF Admit, ServeStatic, Route
<1>6. CASE Lookup(r)
  <2>1. asked'[r] = clock
    BY <1>6 DEF Lookup, TypeOK
  <2>2. ASSUME NEW e \in store, e.expiry > clock, Done(r, "fresh", e.resp)
        PROVE  outcome'[r].kind = "fresh" /\ outcome'[r].resp = e.resp
    BY <2>2 DEF Done, TypeOK
  <2>. QED  BY <1>4, <1>6, <2>1, <2>2 DEF Lookup, ServeHit
<1>7. CASE HandleReval(r)
  <2>1. held[r] \in store /\ asked'[r] = asked[r]
    BY <1>7, HeldEntry DEF HandleReval
  <2>2. Done(r, "validated", held[r].resp) =>
           outcome'[r].kind = "validated" /\ outcome'[r].resp = held[r].resp
    BY DEF Done, TypeOK
  <2>. QED  BY <1>4, <1>7, <2>1, <2>2 DEF HandleReval, ServeHit, Refetch
<1>8. CASE Forward(r) \/ RunPlugins(r) \/ CollectEnd(r)
  BY <1>3, <1>4, <1>8 DEF Forward, RunPlugins, PluginsRun, CollectEnd, ServeHit, Refetch
<1>9. CASE RevalTimesOut(r) \/ RevalFails(r) \/ HandleHead(r) \/ BodyChunk(r)
           \/ OriginAnswers(r) \/ \E kind \in Kinds, k \in Keys : Arrive(r, kind, k)
  BY <1>4, <1>9 DEF RevalTimesOut, RevalFails, Refetch, HandleHead, BodyChunk,
     OriginAnswers, Arrive
<1>10. CASE HeadTimesOut(r) \/ BodyTimesOut(r) \/ UpstreamFails(r) \/ BodyEnd(r)
            \/ BodyBreaks(r)
  BY <1>3, <1>10 DEF HeadTimesOut, BodyTimesOut, UpstreamFails, BodyEnd, BodyBreaks
<1>. QED
  BY <1>5, <1>6, <1>7, <1>8, <1>9, <1>10 DEF ProgramStep, OutsideStep

\* A request that has arrived stays what it is.
LEMMA ArrivedStays ==
    ASSUME ProxyInv, [Next]_vars, NEW x \in Requests, stage[x] # "none"
    PROVE  stage'[x] # "none" /\ req'[x] = req[x]
<1>. stage \in [Requests -> Stages]
  BY DEF ProxyInv, TypeOK
<1>1. ASSUME ~(ProgramStep(x) \/ OutsideStep(x)) PROVE Same(x)
  BY <1>1, OthersKeep, OutsideTime DEF Next, ProxyInv
<1>2. ASSUME ProgramStep(x) \/ OutsideStep(x)
      PROVE  stage'[x] # "none" /\ req'[x] = req[x]
  <2>1. CASE Admit(x) \/ Lookup(x) \/ HandleReval(x) \/ RevalTimesOut(x) \/ Forward(x)
    BY <2>1 DEF Admit, ServeStatic, Route, Lookup, HandleReval, RevalTimesOut, Forward,
                ServeHit, Refetch, Done, Goto
  <2>2. CASE HandleHead(x) \/ HeadTimesOut(x) \/ BodyTimesOut(x) \/ RunPlugins(x)
             \/ CollectEnd(x)
    BY <2>2 DEF HandleHead, HeadTimesOut, BodyTimesOut, BodyBreaks, RunPlugins, PluginsRun,
                CollectEnd, ServeHit, Refetch, Done, Goto
  <2>3. CASE RevalFails(x) \/ UpstreamFails(x) \/ BodyChunk(x) \/ BodyEnd(x)
             \/ BodyBreaks(x) \/ OriginAnswers(x)
    BY <2>3 DEF RevalFails, UpstreamFails, BodyChunk, BodyEnd, BodyBreaks, OriginAnswers,
                Refetch, Done, Goto
  <2>. QED  BY <1>2, <2>1, <2>2, <2>3 DEF ProgramStep, OutsideStep, Arrive
<1>. QED  BY <1>1, <1>2 DEF Same

\* Every step keeps KeyedCacheable().
LEMMA StepKeyed ==
    ASSUME ProxyInv, \A r \in Requests : KeyedCacheable(r), [Next]_vars, NEW x \in Requests
    PROVE  KeyedCacheable(x)'
<1>. USE DEF KeyedCacheable
<1>. stage \in [Requests -> Stages] /\ keyed \in [Requests -> BOOLEAN]
  BY DEF ProxyInv, TypeOK
<1>1. CASE ~(ProgramStep(x) \/ OutsideStep(x))
  <2>1. Same(x)
    BY <1>1, OthersKeep, OutsideTime DEF Next, ProxyInv
  <2>. QED  BY <2>1 DEF Same
<1>2. CASE ProgramStep(x) \/ OutsideStep(x)
  <2>1. CASE \E kind \in Kinds, k \in Keys : Arrive(x, kind, k)
    BY <2>1 DEF Arrive, Goto
  <2>2. ASSUME stage[x] # "none", ~keyed'[x] \/ req[x].kind.cacheable,
               stage'[x] \in {"reval", "collect"} => req[x].kind.cacheable
        PROVE  KeyedCacheable(x)'
    BY <2>2, ArrivedStays
  <2>3. CASE Admit(x) \/ Forward(x) \/ RunPlugins(x)
    BY <2>2, <2>3 DEF Admit, ServeStatic, Route, Forward, RunPlugins, PluginsRun, Done, Goto
  <2>4. CASE Lookup(x)
    BY <2>2, <2>4 DEF Lookup, ServeHit, Done, Goto
  <2>5. CASE HandleReval(x) \/ RevalTimesOut(x) \/ CollectEnd(x) \/ RevalFails(x)
    BY <2>2, <2>5 DEF HandleReval, RevalTimesOut, CollectEnd, RevalFails
  <2>6. CASE HandleHead(x) \/ BodyChunk(x) \/ OriginAnswers(x)
    BY <2>2, <2>6 DEF HandleHead, BodyChunk, OriginAnswers, Goto
  <2>7. CASE HeadTimesOut(x) \/ BodyTimesOut(x) \/ UpstreamFails(x) \/ BodyEnd(x)
             \/ BodyBreaks(x)
    BY <2>2, <2>7 DEF HeadTimesOut, BodyTimesOut, UpstreamFails, BodyEnd, BodyBreaks,
                      DropCtx, Done
  <2>. QED
    BY <1>2, <2>1, <2>3, <2>4, <2>5, <2>6, <2>7 DEF ProgramStep, OutsideStep
<1>. QED  BY <1>1, <1>2

\* Every step keeps what is stored sharable, and what is served among what was stored.
LEMMA StepSharable ==
    ProxyInv /\ (\A r \in Requests : KeyedCacheable(r)) /\ StoreSharable /\ ServedStored
       /\ [Next]_vars => StoreSharable' /\ ServedStored'
<1>. SUFFICES ASSUME ProxyInv, \A r \in Requests : KeyedCacheable(r), StoreSharable,
                     ServedStored, [Next]_vars
              PROVE  StoreSharable' /\ ServedStored'
  OBVIOUS
<1>1. ASSUME NEW e \in store PROVE Sharable(e.resp)'
  <2>1. e.resp.whose \in Requests
    BY EntryFields, ResponseFields DEF ProxyInv, TypeOK
  <2>2. Sharable(e.resp)
    BY DEF StoreSharable
  <2>. QED  BY <2>1, <2>2, ArrivedStays DEF Sharable
<1>2. ASSUME NEW r \in Requests, ProgramStep(r) \/ OutsideStep(r)
      PROVE  StoreSharable' /\ ServedStored'
  <2>1. ASSUME NEW e \in store' PROVE Sharable(e.resp)'
    <3>1. CASE Refreshed(r, e)
      BY <1>1, <3>1 DEF Refreshed
    <3>2. CASE Taken(r, e)
      <4>1. reply[r].whose = r
        BY <3>2 DEF Taken, ProxyInv, Shape, Replied
      <4>2. req[r].kind.cacheable /\ stage[r] # "none"
        BY <3>2 DEF Taken, KeyedCacheable
      <4>3. stage'[r] # "none" /\ req'[r] = req[r]
        BY <4>2, ArrivedStays
      <4>. QED  BY <3>2, <4>1, <4>2, <4>3 DEF Taken, Sharable
    <3>. QED  BY <1>1, <1>2, <3>1, <3>2, NewEntries
  <2>2. store \subseteq store'
    BY <1>2, RequestStep DEF Kept
  <2>3. ASSUME NEW x \in Requests, ServedFromCache(x)'
        PROVE  \E e \in store' : e.resp = outcome'[x].resp
    <3>1. CASE x = r
      BY <1>2, <2>2, <2>3, <3>1, HitSteps DEF ServedFromCache
    <3>2. CASE x # r
      <4>1. outcome'[x] = outcome[x]
        BY <1>2, <3>2, OthersKeep DEF Same, ProxyInv
      <4>2. PICK e \in store : e.resp = outcome[x].resp
        BY <2>3, <4>1 DEF ServedFromCache, ServedStored
      <4>. QED  BY <2>2, <4>1, <4>2
    <3>. QED  BY <3>1, <3>2
  <2>. QED  BY <2>1, <2>3 DEF StoreSharable, ServedStored
<1>3. ASSUME \/ \E k \in Keys, p \in Policies, n \in BodySizes : OriginChanges(k, p, n)
             \/ Tick
             \/ UNCHANGED vars
      PROVE  StoreSharable' /\ ServedStored'
  <2>1. store' = store /\ \A x \in Requests : outcome'[x] = outcome[x]
    BY <1>3, OutsideTime DEF Same
  <2>2. StoreSharable'
    BY <1>1, <2>1 DEF StoreSharable
  <2>3. ServedStored'
    BY <2>1 DEF ServedStored, ServedFromCache
  <2>. QED  BY <2>2, <2>3
<1>. QED  BY <1>2, <1>3 DEF Next

\* On both front ends, and on the revalidation path too, a client gets from the cache
\* no private, varying or failed response that was made for another one, and none that
\* was made for a request with credentials.  (That says nothing of cookies.)
THEOREM SharedOnlyPublic == Spec => []SharedIsPublic
<1>. DEFINE Keyed == \A r \in Requests : KeyedCacheable(r)
<1>1. StoreSharable /\ ServedStored => SharedIsPublic
  <2>. SUFFICES ASSUME StoreSharable, ServedStored, NEW r \in Requests, ServedFromCache(r)
                PROVE  Sharable(outcome[r].resp)
    BY DEF SharedIsPublic, Sharable
  <2>. QED  BY DEF StoreSharable, ServedStored
<1>2. Init => Keyed /\ StoreSharable /\ ServedStored
  BY DEF Init, KeyedCacheable, StoreSharable, ServedStored, ServedFromCache
<1>3. ProxyInv /\ Keyed /\ [Next]_vars => Keyed'
  BY StepKeyed
<1>4. ProxyInv /\ Keyed /\ StoreSharable /\ ServedStored /\ [Next]_vars
         => StoreSharable' /\ ServedStored'
  BY StepSharable
<1>. HIDE DEF Keyed
<1>. QED  BY <1>1, <1>2, <1>3, <1>4, InitProxy, StepProxy, PTL DEF Spec

-----------------------------------------------------------------------------
(* When what is served was current.                                        *)

\* Nobody asked, and no version was current, later than now.
Clocks ==
    /\ \A r \in Requests : asked[r] <= clock
    /\ \A k \in Keys, v \in Versions : until[k][v] <= clock

\* The version of response s was current at t or later.
CurrentSince(s, t) == LastCurrent(s.key, s.version) >= t

\* An entry was current after the request that stored it asked for it.
StoreCurrent == \A e \in store : CurrentSince(e.resp, e.since)

\* An answer, or what a 304 vouches for, was current after the request asked.
Answered(r) ==
    /\ reply[r] \in Response => CurrentSince(reply[r], asked[r])
    /\ reply[r] = Unmodified =>
          /\ stage[r] \in {"reval", "collect"}
          /\ CurrentSince(held[r].resp, asked[r])

\* What was served from the cache is in it and was fresh, or was current.
Justified(r) ==
    /\ outcome[r].kind = "fresh" =>
          \E e \in store : e.resp = outcome[r].resp /\ e.expiry > asked[r]
    /\ outcome[r].kind = "validated" => /\ outcome[r].resp \in Response
                                        /\ CurrentSince(outcome[r].resp, asked[r])

CurrentInv == Clocks /\ StoreCurrent /\ \A r \in Requests : Answered(r) /\ Justified(r)

\* LastCurrent() is a time, and the clock while the version is current.
LEMMA LastCurrentIs ==
    ASSUME TypeOK, NEW k \in Keys, NEW v \in Versions
    PROVE  /\ LastCurrent(k, v) \in Nat
           /\ origin[k].version = v => LastCurrent(k, v) = clock
BY DEF TypeOK, LastCurrent

\* Whatever was current at a time or later remains so.
LEMMA CurrencyGrows ==
    ASSUME ProxyInv, Clocks, [Next]_vars, NEW k \in Keys, NEW v \in Versions
    PROVE  LastCurrent(k, v)' >= LastCurrent(k, v)
<1>. TypeOK
  BY DEF ProxyInv
<1>1. /\ clock \in Nat /\ until[k][v] \in Nat /\ until[k][v] <= clock
      /\ origin[k].version \in Nat
  <2>1. until[k][v] \in Nat /\ until[k][v] <= clock /\ clock \in Nat
    BY DEF TypeOK, Clocks
  <2>2. origin[k].version \in Versions
    BY DEF TypeOK
  <2>. QED  BY <2>1, <2>2, ProxyConstants DEF Versions
<1>2. CASE clock' = clock /\ origin' = origin /\ until' = until
  BY <1>1, <1>2 DEF LastCurrent
<1>3. CASE Tick
  BY <1>1, <1>3 DEF Tick, LastCurrent
<1>4. ASSUME NEW j \in Keys, NEW p \in Policies, NEW n \in BodySizes,
             OriginChanges(j, p, n)
      PROVE  LastCurrent(k, v)' >= LastCurrent(k, v)
  <2>1. CASE j = k
    <3>1. origin'[k].version = origin[k].version + 1 /\ clock' = clock
      BY <1>4, <2>1 DEF OriginChanges, TypeOK
    <3>2. until'[k][v] = IF v = origin[k].version THEN clock ELSE until[k][v]
      BY <1>4, <2>1 DEF OriginChanges, TypeOK
    <3>. QED  BY <1>1, <3>1, <3>2 DEF LastCurrent
  <2>2. CASE j # k
    <3>1. origin'[k] = origin[k] /\ until'[k] = until[k] /\ clock' = clock
      BY <1>4, <2>2 DEF OriginChanges, TypeOK
    <3>. QED  BY <1>1, <3>1 DEF LastCurrent
  <2>. QED  BY <2>1, <2>2
<1>5. CASE UNCHANGED vars
  BY <1>2, <1>5 DEF vars
<1>. QED  BY <1>2, <1>3, <1>4, <1>5, TimeStands DEF Next

\* The same for a response.
LEMMA CurrentStays ==
    ASSUME ProxyInv, Clocks, [Next]_vars, NEW s \in Response, NEW t \in Nat,
           CurrentSince(s, t)
    PROVE  CurrentSince(s, t)'
<1>1. s.key \in Keys /\ s.version \in Versions
  BY ResponseFields
<1>. DEFINE a == LastCurrent(s.key, s.version)
            b == LastCurrent(s.key, s.version)'
<1>2. b >= a
  BY <1>1, CurrencyGrows
<1>3. a \in Nat
  BY <1>1, LastCurrentIs DEF ProxyInv
<1>4. TypeOK'
  BY StepProxy DEF ProxyInv
<1>5. b \in Nat
  BY <1>1, <1>4 DEF TypeOK, LastCurrent
<1>6. a >= t
  BY DEF CurrentSince
<1>. HIDE DEF a, b
<1>7. b >= t
  BY <1>2, <1>3, <1>5, <1>6
<1>. QED  BY <1>7 DEF b, CurrentSince

\* Time does not run backwards.
LEMMA StepClocks ==
    ASSUME ProxyInv, Clocks, [Next]_vars
    PROVE  Clocks'
<1>. TypeOK
  BY DEF ProxyInv
<1>1. clock \in Nat /\ clock' \in Nat /\ clock <= clock'
  BY TimeStands DEF TypeOK, Next, Tick, OriginChanges, vars
<1>2. ASSUME NEW x \in Requests PROVE asked'[x] <= clock'
  <2>1. asked'[x] = asked[x] \/ asked'[x] = clock
    <3>1. ASSUME NEW r \in Requests, ProgramStep(r)
          PROVE  asked' = asked \/ asked' = [asked EXCEPT ![r] = clock]
      BY <3>1 DEF ProgramStep, Admit, Lookup, HandleReval, RevalTimesOut, Forward,
         HandleHead, HeadTimesOut, BodyTimesOut, BodyBreaks
    <3>2. ASSUME NEW r \in Requests, OutsideStep(r)
          PROVE  asked' = asked \/ asked' = [asked EXCEPT ![r] = clock]
      BY <3>2 DEF OutsideStep, Arrive, RunPlugins, CollectEnd, RevalFails, UpstreamFails,
         BodyChunk, BodyEnd, BodyBreaks, OriginAnswers
    <3>3. \/ asked' = asked
          \/ \E r \in Requests : asked' = [asked EXCEPT ![r] = clock]
      BY <3>1, <3>2 DEF Next, vars, Tick, OriginChanges
    <3>. QED  BY <3>3 DEF TypeOK
  <2>2. asked[x] \in Nat /\ asked[x] <= clock
    BY DEF TypeOK, Clocks
  <2>. QED  BY <1>1, <2>1, <2>2
<1>3. ASSUME NEW k \in Keys, NEW v \in Versions PROVE until'[k][v] <= clock'
  <2>1. until'[k][v] = until[k][v] \/ until'[k][v] = clock
    BY TimeStands DEF TypeOK, Next, vars, Tick, OriginChanges
  <2>2. until[k][v] \in Nat /\ until[k][v] <= clock
    BY DEF TypeOK, Clocks
  <2>. QED  BY <1>1, <2>1, <2>2
<1>. QED  BY <1>2, <1>3 DEF Clocks

\* A step of r other than an answer of the origin drops the answer, or leaves it and
\* what it is about.
LEMMA ReplySteps ==
    ASSUME ProxyInv, NEW r \in Requests, ProgramStep(r) \/ OutsideStep(r),
           ~OriginAnswers(r)
    PROVE  \/ reply'[r] = NoReply
           \/ /\ reply'[r] = reply[r] /\ held'[r] = held[r] /\ asked'[r] = asked[r]
              /\ reply[r] = Unmodified => stage'[r] = stage[r]
<1>. TypeOK
  BY DEF ProxyInv
<1>1. stage[r] \in {"none", "admit", "plugin", "lookup", "forward"} => reply[r] = NoReply
  BY DEF ProxyInv, Shape, Replied
<1>2. CASE Lookup(r)
  BY <1>1, <1>2 DEF Lookup
<1>3. CASE Admit(r) \/ Forward(r) \/ RunPlugins(r)
           \/ \E kind \in Kinds, k \in Keys : Arrive(r, kind, k)
  BY <1>1, <1>3 DEF Admit, Forward, RunPlugins, Arrive
<1>4. CASE HandleReval(r)
  BY <1>4 DEF HandleReval, Refetch, TypeOK
<1>5. CASE CollectEnd(r)
  BY <1>5 DEF CollectEnd, Refetch, TypeOK
<1>6. CASE RevalTimesOut(r) \/ RevalFails(r)
  BY <1>6 DEF RevalTimesOut, RevalFails, Refetch, TypeOK
<1>7. CASE HandleHead(r)
  <2>1. reply[r] # Unmodified
    BY <1>7 DEF HandleHead, ProxyInv, Shape, Replied
  <2>. QED  BY <1>7, <2>1 DEF HandleHead
<1>8. CASE BodyChunk(r)
  BY <1>8 DEF BodyChunk
<1>9. CASE HeadTimesOut(r) \/ BodyTimesOut(r) \/ UpstreamFails(r) \/ BodyEnd(r)
           \/ BodyBreaks(r)
  BY <1>9 DEF HeadTimesOut, BodyTimesOut, UpstreamFails, BodyEnd, BodyBreaks, DropCtx,
     TypeOK
<1>. QED
  BY <1>2, <1>3, <1>4, <1>5, <1>6, <1>7, <1>8, <1>9 DEF ProgramStep, OutsideStep

\* What the origin answers is current.
LEMMA AnswersCurrent ==
    ASSUME ProxyInv, Clocks, NEW r \in Requests, OriginAnswers(r)
    PROVE  Answered(r)'
<1>. TypeOK /\ stage[r] \in {"reval", "await"}
  BY DEF ProxyInv, OriginAnswers
<1>1. /\ Answer(r) \in Response /\ Answer(r).key = req[r].key
      /\ Answer(r).version = origin[req[r].key].version
  BY AnswerIs
<1>2. reply' = [reply EXCEPT ![r] =
         IF stage[r] = "reval" /\ held[r].resp.version = origin[req[r].key].version
         THEN Unmodified ELSE Answer(r)]
  BY DEF OriginAnswers, Answer
<1>3. \/ /\ stage[r] = "reval" /\ reply'[r] = Unmodified
         /\ held[r].resp.version = origin[req[r].key].version
      \/ reply'[r] = Answer(r)
  BY <1>2 DEF TypeOK
<1>4. req[r].key \in Keys /\ asked[r] \in Nat /\ asked[r] <= clock /\ clock \in Nat
  BY Arrived DEF Clocks, TypeOK
<1>5. ASSUME NEW s \in Response, s.key = req[r].key, s.version = origin[req[r].key].version
      PROVE  CurrentSince(s, asked[r])'
  <2>1. LastCurrent(s.key, s.version)' = clock
    BY <1>5 DEF LastCurrent, OriginAnswers
  <2>. QED  BY <1>4, <2>1 DEF CurrentSince, OriginAnswers
<1>6. CASE /\ stage[r] = "reval" /\ reply'[r] = Unmodified
           /\ held[r].resp.version = origin[req[r].key].version
  <2>1. held[r].resp \in Response /\ held[r].resp.key = req[r].key
    BY <1>6, HeldEntry
  <2>2. CurrentSince(held[r].resp, asked[r])'
    BY <1>5, <1>6, <2>1 DEF OriginAnswers
  <2>. QED  BY <1>6, <2>2, MarksDiffer DEF Answered, OriginAnswers
<1>7. CASE reply'[r] = Answer(r)
  <2>1. PICK s \in Response : /\ s = Answer(r) /\ s.key = req[r].key
                             /\ s.version = origin[req[r].key].version
    BY <1>1
  <2>2. CurrentSince(s, asked[r])'
    BY <1>5, <2>1
  <2>3. reply'[r] = s /\ s # Unmodified
    BY <1>7, <2>1, ResponseFields
  <2>. QED  BY <2>2, <2>3 DEF Answered
<1>. QED  BY <1>3, <1>6, <1>7

\* Nothing that was said of another request becomes false.
LEMMA SameCurrent ==
    ASSUME ProxyInv, Clocks, [Next]_vars, NEW x \in Requests, Same(x),
           store \subseteq store', Answered(x), Justified(x)
    PROVE  Answered(x)' /\ Justified(x)'
<1>1. asked[x] \in Nat
  BY DEF ProxyInv, TypeOK
<1>2. ASSUME NEW s \in Response, CurrentSince(s, asked[x])
      PROVE  CurrentSince(s, asked[x])'
  <2>1. CurrentSince(s, asked[x])' <=> LastCurrent(s.key, s.version)' >= asked'[x]
    BY DEF CurrentSince
  <2>. DEFINE t == asked[x]
  <2>2. CurrentSince(s, t) /\ t \in Nat
    BY <1>1, <1>2
  <2>. HIDE DEF t
  <2>3. LastCurrent(s.key, s.version)' >= t
    BY <2>2, CurrentStays DEF CurrentSince
  <2>. QED  BY <2>1, <2>3 DEF t, Same
<1>3. Answered(x)'
  <2>1. reply[x] = Unmodified => held[x].resp \in Response
    BY HeldEntry DEF Answered
  <2>. QED  BY <1>2, <2>1 DEF Answered, Same
<1>4. Justified(x)'
  BY <1>2 DEF Justified, Same
<1>. QED  BY <1>3, <1>4

\* Every step keeps CurrentInv.
LEMMA StepCurrent == ProxyInv /\ CurrentInv /\ [Next]_vars => CurrentInv'
<1>. SUFFICES ASSUME ProxyInv, CurrentInv, [Next]_vars PROVE CurrentInv'
  OBVIOUS
<1>. TypeOK /\ Clocks
  BY DEF ProxyInv, CurrentInv
<1>1. Clocks'
  BY StepClocks
<1>2. ASSUME NEW e \in store PROVE CurrentSince(e.resp, e.since)'
  <2>1. e.resp \in Response /\ e.since \in Nat
    BY EntryFields DEF TypeOK
  <2>2. CurrentSince(e.resp, e.since)
    BY DEF CurrentInv, StoreCurrent
  <2>. QED  BY <2>1, <2>2, CurrentStays
<1>3. ASSUME NEW r \in Requests, ProgramStep(r) \/ OutsideStep(r)
      PROVE  CurrentInv'
  <2>1. store \subseteq store'
    BY <1>3, RequestStep DEF Kept
  <2>2. ASSUME NEW x \in Requests, x # r
        PROVE  Answered(x)' /\ Justified(x)'
    BY <1>3, <2>1, <2>2, OthersKeep, SameCurrent DEF CurrentInv
  <2>3. clock' = clock /\ origin' = origin /\ until' = until
    BY <1>3, TimeStands
  <2>4. ASSUME NEW s, NEW t
        PROVE  CurrentSince(s, t)' <=> CurrentSince(s, t)
    BY <2>3 DEF CurrentSince, LastCurrent
  <2>5. Answered(r) /\ Justified(r)
    BY DEF CurrentInv
  <2>6. StoreCurrent'
    <3>. SUFFICES ASSUME NEW e \in store', e \notin store
                  PROVE  CurrentSince(e.resp, e.since)'
      BY <1>2 DEF StoreCurrent
    <3>1. e.since = asked[r] /\ (Refreshed(r, e) \/ Taken(r, e))
      BY <1>3, NewEntries
    <3>2. CurrentSince(e.resp, e.since)
      BY <2>5, <3>1 DEF Refreshed, Taken, Answered
    <3>. QED  BY <2>4, <3>2
  <2>7. Answered(r)'
    <3>1. CASE OriginAnswers(r)
      BY <3>1, AnswersCurrent
    <3>2. CASE reply'[r] = NoReply
      BY <3>2, MarksDiffer DEF Answered
    <3>3. CASE /\ reply'[r] = reply[r] /\ held'[r] = held[r] /\ asked'[r] = asked[r]
               /\ reply[r] = Unmodified => stage'[r] = stage[r]
      <4>1. reply[r] \in Response => CurrentSince(reply[r], asked[r])'
        BY <2>3, <2>5, <3>3 DEF Answered, CurrentSince, LastCurrent
      <4>2. reply[r] = Unmodified => /\ stage'[r] \in {"reval", "collect"}
                                     /\ CurrentSince(held[r].resp, asked[r])'
        BY <2>3, <2>5, <3>3 DEF Answered, CurrentSince, LastCurrent
      <4>. QED  BY <3>3, <4>1, <4>2 DEF Answered
    <3>. QED  BY <1>3, <3>1, <3>2, <3>3, ReplySteps
  <2>8. Justified(r)'
    <3>1. CASE outcome'[r].kind \notin {"fresh", "validated"}
      BY <3>1 DEF Justified
    <3>2. CASE /\ outcome'[r].kind = "fresh" /\ asked'[r] = clock
               /\ \E e \in store : e.resp = outcome'[r].resp /\ e.expiry > clock
      BY <2>1, <3>2 DEF Justified
    <3>3. CASE /\ outcome'[r].kind = "validated" /\ asked'[r] = asked[r]
               /\ held[r] \in store /\ outcome'[r].resp = held[r].resp
               /\ reply[r] = Unmodified
      <4>1. held[r].resp \in Response
        BY <3>3, EntryFields DEF TypeOK
      <4>2. CurrentSince(held[r].resp, asked[r])
        BY <2>5, <3>3 DEF Answered
      <4>3. CurrentSince(outcome[r].resp, asked[r])'
        BY <2>3, <3>3, <4>2 DEF CurrentSince, LastCurrent
      <4>. QED  BY <3>3, <4>1, <4>3 DEF Justified
    <3>. QED  BY <1>3, <3>1, <3>2, <3>3, HitSteps
  <2>. QED  BY <1>1, <2>2, <2>6, <2>7, <2>8 DEF CurrentInv
<1>4. ASSUME \/ \E k \in Keys, p \in Policies, n \in BodySizes : OriginChanges(k, p, n)
             \/ Tick
             \/ UNCHANGED vars
      PROVE  CurrentInv'
  <2>1. store' = store /\ \A x \in Requests : Same(x)
    BY <1>4, OutsideTime
  <2>2. StoreCurrent'
    BY <1>2, <2>1 DEF StoreCurrent
  <2>3. \A x \in Requests : Answered(x)' /\ Justified(x)'
    BY <2>1, SameCurrent DEF CurrentInv
  <2>. QED  BY <1>1, <2>2, <2>3 DEF CurrentInv
<1>. QED  BY <1>3, <1>4 DEF Next

\* CurrentInv holds of the empty cache.
LEMMA InitCurrent == Init => CurrentInv
<1>. SUFFICES ASSUME Init PROVE CurrentInv
  OBVIOUS
<1>1. Clocks
  BY DEF Init, Clocks
<1>2. StoreCurrent
  BY DEF Init, StoreCurrent
<1>3. ASSUME NEW r \in Requests PROVE Answered(r) /\ Justified(r)
  BY MarksDiffer DEF Init, Answered, Justified
<1>. QED  BY <1>1, <1>2, <1>3 DEF CurrentInv

\* However long the awaits, however often the origin changes and whichever entry of
\* its key lookup() returns: what is served from the cache was fresh when it was looked
\* up and current during the request that stored it, or current during this request.
THEOREM HitsAreJustified == Spec => []HitsJustified
<1>1. CurrentInv => HitsJustified
  <2>. SUFFICES ASSUME CurrentInv, NEW r \in Requests
                PROVE  LET o == outcome[r] IN
                       /\ o.kind = "validated" =>
                             LastCurrent(o.resp.key, o.resp.version) >= asked[r]
                       /\ o.kind = "fresh" =>
                             \E e \in store :
                                /\ e.resp = o.resp
                                /\ e.expiry > asked[r]
                                /\ LastCurrent(o.resp.key, o.resp.version) >= e.since
    BY DEF HitsJustified
  <2>1. Justified(r) /\ StoreCurrent
    BY DEF CurrentInv
  <2>2. CASE outcome[r].kind = "validated"
    BY <2>1, <2>2 DEF Justified, CurrentSince
  <2>3. CASE outcome[r].kind = "fresh"
    <3>1. PICK e \in store : e.resp = outcome[r].resp /\ e.expiry > asked[r]
      BY <2>1, <2>3 DEF Justified
    <3>2. LastCurrent(e.resp.key, e.resp.version) >= e.since
      BY <2>1 DEF StoreCurrent, CurrentSince
    <3>. QED  BY <2>3, <3>1, <3>2
  <2>. QED  BY <2>2, <2>3
<1>. QED  BY <1>1, InitProxy, InitCurrent, StepProxy, StepCurrent, PTL DEF Spec
-----------------------------------------------------------------------------
(* What a step may never do.                                               *)

\* A request that was sent on waits for its answer, or has got it.
SentOnce == \A r \in forwarded : stage[r] \in {"await", "body", "done"}

\* A request that is over is left alone, and one that was sent on does not come back
\* to where it would be sent again.
RunsOnce(r) ==
    /\ stage[r] = "done" => Same(r)
    /\ r \in forwarded => stage'[r] \in {"await", "body", "done"}

\* Whatever is put into the cache is what a client was given, whole, in the same step.
StoredIsServed ==
    \A e \in store' \ store :
       \E r \in Requests :
          /\ stage[r] # "done" /\ stage'[r] = "done"
          /\ outcome'[r].resp = e.resp
          /\ outcome'[r].kind \in {"validated", "replaced", "proxied"}

\* The steps of a request that was sent on lead to its answer, and one that is not
\* over takes them.
LEMMA StepSent ==
    ASSUME ProxyInv, SentOnce, NEW r \in Requests, ProgramStep(r) \/ OutsideStep(r)
    PROVE  /\ stage[r] # "done"
           /\ r \in forwarded' => stage'[r] \in {"await", "body", "done"}
<1>. TypeOK
  BY DEF ProxyInv
<1>1. stage \in [Requests -> Stages]
  BY DEF TypeOK
<1>2. stage[r] # "done"
  BY DEF ProgramStep, OutsideStep, Admit, Lookup, HandleReval, RevalTimesOut, Forward,
       HandleHead, HeadTimesOut, BodyTimesOut, Arrive, RunPlugins, CollectEnd,
       RevalFails, UpstreamFails, BodyChunk, BodyEnd, BodyBreaks, OriginAnswers
<1>3. ASSUME r \notin forwarded, forwarded' = forwarded
      PROVE  r \in forwarded' => stage'[r] \in {"await", "body", "done"}
  BY <1>3
<1>4. CASE (\E kind \in Kinds, k \in Keys : Arrive(r, kind, k)) \/ Admit(r) \/ Lookup(r)
  BY <1>3, <1>4 DEF Arrive, Admit, Lookup, SentOnce
<1>5. CASE HandleReval(r) \/ RevalTimesOut(r) \/ RevalFails(r) \/ CollectEnd(r)
  BY <1>3, <1>5 DEF HandleReval, RevalTimesOut, RevalFails, CollectEnd, SentOnce
<1>6. CASE RunPlugins(r)
  BY <1>1, <1>6 DEF RunPlugins, PluginsRun, Done
<1>7. CASE Forward(r)
  BY <1>1, <1>7 DEF Forward, Done, Goto
<1>8. CASE HandleHead(r) \/ BodyChunk(r) \/ OriginAnswers(r)
  BY <1>1, <1>8 DEF HandleHead, BodyChunk, OriginAnswers, Goto, SentOnce
<1>9. CASE HeadTimesOut(r) \/ BodyTimesOut(r) \/ UpstreamFails(r) \/ BodyEnd(r)
           \/ BodyBreaks(r)
  BY <1>1, <1>9 DEF HeadTimesOut, BodyTimesOut, UpstreamFails, BodyEnd, BodyBreaks, Done
<1>. QED
  BY <1>2, <1>4, <1>5, <1>6, <1>7, <1>8, <1>9 DEF ProgramStep, OutsideStep

\* An entry that appears in a step of r is what the client of r is given in it.
LEMMA StepStores ==
    ASSUME ProxyInv, NEW r \in Requests, ProgramStep(r) \/ OutsideStep(r),
           NEW e \in store', e \notin store
    PROVE  /\ stage'[r] = "done" /\ outcome'[r].resp = e.resp
           /\ outcome'[r].kind \in {"validated", "replaced", "proxied"}
<1>. TypeOK
  BY DEF ProxyInv
<1>1. ASSUME NEW kind \in {"validated", "replaced", "proxied"}, NEW s \in Response,
             Done(r, kind, s), e.resp = s
      PROVE  /\ stage'[r] = "done" /\ outcome'[r].resp = e.resp
             /\ outcome'[r].kind \in {"validated", "replaced", "proxied"}
  <2>1. [kind |-> kind, resp |-> s] \in Outcome
    BY DEF Outcome
  <2>. QED  BY <1>1, <2>1, DoneEnds
<1>2. Refreshed(r, e) \/ Taken(r, e)
  BY NewEntries
<1>3. CASE HandleReval(r)
  <2>1. reply[r] = Unmodified /\ Done(r, "validated", held[r].resp) /\ stage[r] = "reval"
    BY <1>3 DEF HandleReval, ServeHit
  <2>2. held[r].resp \in Response /\ e.resp = held[r].resp
    BY <1>2, <2>1, HeldEntry, MarksDiffer DEF Refreshed, Taken
  <2>. QED  BY <1>1, <2>1, <2>2
<1>4. CASE CollectEnd(r) \/ BodyEnd(r)
  <2>1. stage[r] \in {"collect", "body"}
        /\ (Done(r, "replaced", reply[r]) \/ Done(r, "proxied", reply[r]))
    BY <1>4 DEF CollectEnd, BodyEnd, ServeHit
  <2>2. reply[r] \in Response
    BY <2>1 DEF ProxyInv, Shape, Replied
  <2>3. e.resp = reply[r]
    BY <1>2, <2>2, MarksDiffer DEF Refreshed, Taken
  <2>. QED  BY <1>1, <2>1, <2>2, <2>3
<1>5. CASE ~HandleReval(r) /\ ~CollectEnd(r) /\ ~BodyEnd(r)
  <2>1. store' = store
    BY <1>5 DEF ProgramStep, OutsideStep, Admit, Lookup, RevalTimesOut, Forward,
       HandleHead, HeadTimesOut, BodyTimesOut, Arrive, RunPlugins,
       RevalFails, UpstreamFails, BodyChunk, BodyBreaks, OriginAnswers
  <2>. QED  BY <2>1
<1>. QED  BY <1>3, <1>4, <1>5

\* Every step keeps SentOnce and lets requests run once.
LEMMA StepOnce ==
    ASSUME ProxyInv, SentOnce, [Next]_vars
    PROVE  SentOnce' /\ (\A r \in Requests : RunsOnce(r)) /\ StoredIsServed
<1>1. forwarded \subseteq Requests /\ forwarded' \subseteq Requests
  BY StepProxy DEF ProxyInv, TypeOK
<1>2. ASSUME NEW r \in Requests, ProgramStep(r) \/ OutsideStep(r)
      PROVE  SentOnce' /\ (\A x \in Requests : RunsOnce(x)) /\ StoredIsServed
  <2>1. \A x \in Requests : x # r => Same(x)
    BY <1>2, OthersKeep DEF ProxyInv
  <2>2. stage[r] # "done" /\ (r \in forwarded' => stage'[r] \in {"await", "body", "done"})
    BY <1>2, StepSent
  <2>3. SentOnce'
    BY <1>1, <2>1, <2>2 DEF SentOnce, Same
  <2>4. r \in forwarded => r \in forwarded'
    BY <1>2 DEF ProgramStep, OutsideStep, Admit, Lookup, HandleReval, RevalTimesOut,
       Forward, HandleHead, HeadTimesOut, BodyTimesOut, Arrive, RunPlugins, PluginsRun,
       CollectEnd, RevalFails, UpstreamFails, BodyChunk, BodyEnd, BodyBreaks, OriginAnswers
  <2>5. \A x \in Requests : RunsOnce(x)
    BY <2>1, <2>2, <2>4 DEF RunsOnce, SentOnce, Same
  <2>6. StoredIsServed
    BY <1>2, <2>2, StepStores DEF StoredIsServed
  <2>. QED  BY <2>3, <2>5, <2>6
<1>3. CASE \/ \E k \in Keys, p \in Policies, n \in BodySizes : OriginChanges(k, p, n)
           \/ Tick
           \/ UNCHANGED vars
  <2>1. (\A x \in Requests : Same(x)) /\ store' = store
    BY <1>3, OutsideTime
  <2>. QED  BY <1>1, <2>1 DEF SentOnce, RunsOnce, StoredIsServed, Same
<1>. QED  BY <1>2, <1>3 DEF Next

\* However timeouts, broken connections and late answers of the origin fall, a request
\* is handed to the upstream client at most once, after a revalidation that failed too;
\* once its client has its answer, nothing more happens to it; and the cache takes in
\* no response but one that ends a request in the same step, as what its client was given.
THEOREM RequestsRunOnce ==
    Spec => [][(\A r \in Requests : RunsOnce(r)) /\ StoredIsServed]_vars
<1>1. Init => SentOnce
  BY DEF Init, SentOnce
<1>2. ProxyInv /\ SentOnce /\ [Next]_vars => SentOnce'
  BY StepOnce
<1>3. ProxyInv /\ SentOnce /\ [Next]_vars =>
         [(\A r \in Requests : RunsOnce(r)) /\ StoredIsServed]_vars
  BY StepOnce
<1>. QED  BY <1>1, <1>2, <1>3, InitProxy, StepProxy, PTL DEF Spec
=============================================================================
