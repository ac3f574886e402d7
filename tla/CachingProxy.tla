---------------------------- MODULE CachingProxy ----------------------------
(***************************************************************************)
(* The life of a request in the two proxy front ends that share one        *)
(* response cache: the HTTP/1 and HTTP/2 listener (the ProxyHttp callbacks *)
(* of crates/zaphyl/src/main.rs) and the HTTP/3 listener (proxy_request()  *)
(* of crates/zaphyl/src/http3.rs), with the conditional re-fetch of        *)
(* crates/zaphyl/src/upstream.rs.  Requests run concurrently; every await  *)
(* on the origin is a point where others run.                              *)
(*                                                                         *)
(* The cache is what CacheContract promises and no more: lookup() may      *)
(* return any response that was stored for the key, or none.               *)
(*                                                                         *)
(* The origin is outside the program: it holds one representation per key, *)
(* whose versions have distinct ETags, answers requests when it likes, and *)
(* replaces representations at any time.  Routes do not strip prefixes: on *)
(* one that does, revalidate() asks for the path of the client's request   *)
(* and the forwarded request for the rewritten one.                        *)
(***************************************************************************)
EXTENDS Naturals, FiniteSets

CONSTANTS
    Requests,      \* identities of requests (and of the clients that send them)
    Keys,          \* cache keys
    Kinds,         \* the kinds of requests that arrive, see Kind
    Policies,      \* the response headers the origin uses, see Policy
    BodySizes,     \* sizes of response bodies, in chunks
    CacheMaxBody,  \* max_body_bytes of [cache]
    HasTimeout,    \* whether upstream_read_timeout_seconds is set
    DefaultTtl,    \* the 60 seconds a refreshed entry gets when it names none
    MaxVersion,    \* bound: versions of a representation
    MaxTime        \* bound: last clock reading

\* What the code distinguishes in a request.  flags: "denied" by the access
\* list, "limited" by the rate limiter, "early" data with an unsafe method,
\* a declared body that is "large" for [limits] or "unbuffered", above the cap
\* of [plugins], a "static" or a "plugin" route, "unrouted" when none matches.
\* cacheable: there is a cache and request_cacheable() holds.
Kind == [front : {"h1", "h3"}, cacheable : BOOLEAN,
         flags : SUBSET {"denied", "limited", "early", "large",
                         "unbuffered", "static", "plugin", "unrouted"}]

\* What the code distinguishes in a response: maxAge is 0 when there is none,
\* private stands for no-store, no-cache and private, vary for a Vary on
\* anything but Accept-Encoding.
Policy == [status : {200, 500}, maxAge : Nat, private : BOOLEAN,
           cookie : BOOLEAN, vary : BOOLEAN, etag : BOOLEAN]

ASSUME ProxyConstants ==
    /\ Kinds \subseteq Kind
    /\ Policies \subseteq Policy
    /\ BodySizes \subseteq Nat \ {0}
    /\ CacheMaxBody \in Nat
    /\ HasTimeout \in BOOLEAN
    /\ DefaultTtl \in Nat
    /\ MaxVersion \in Nat \ {0}
    /\ MaxTime \in Nat

VARIABLES
    clock,      \* SystemTime::now()
    origin,     \* the origin's representation of each key
    until,      \* history: when each version was last current
    store,      \* history: the entries put() was called with
    forwarded,  \* history: requests that were sent on to the origin; the
                \* proxy's own conditional requests do not count
    stage,      \* where each request is
    req,        \* its kind and its key
    asked,      \* when it looked up the cache
    held,       \* the stale entry it revalidates
    keyed,      \* ctx.cache_key.is_some()
    reply,      \* the origin's answer, until the request's task handles it
    captured,   \* whether the response is being accumulated for the cache
    seen,       \* chunks of the response body seen
    outcome     \* what the client got

vars == <<clock, origin, until, store, forwarded, stage, req, asked, held,
          keyed, reply, captured, seen, outcome>>

Versions == 1 .. MaxVersion

Response == [key : Keys, version : Versions, policy : Policies,
             size : BodySizes, whose : Requests]

\* since: when the request that stored the entry asked for it.
Entry == [resp : Response, len : Nat, since : Nat, expiry : Nat]

NoEntry    == [none |-> "entry"]
NoReply    == [none |-> "reply"]
Unmodified == [none |-> "body"]
NoResponse == [none |-> "response"]
NoRequest  == [none |-> "request"]

Stages == {"none", "admit", "plugin", "lookup", "reval", "collect", "forward",
           "await", "body", "done"}

Outcome == [kind : {"none", "403", "425", "429", "413", "404", "500", "504",
                    "error", "static", "plugin", "fresh", "validated",
                    "replaced", "proxied", "broken"},
            resp : Response \cup {NoResponse}]

\* The last conjunct: what is accumulated has a key to be stored under, and the
\* buffer stays within max_body_bytes.
TypeOK ==
    /\ clock \in Nat
    /\ origin \in [Keys -> [version : Versions, policy : Policies, size : BodySizes]]
    /\ until \in [Keys -> [Versions -> Nat]]
    /\ store \subseteq Entry
    /\ forwarded \subseteq Requests
    /\ stage \in [Requests -> Stages]
    /\ req \in [Requests -> [kind : Kinds, key : Keys] \cup {NoRequest}]
    /\ asked \in [Requests -> Nat]
    /\ held \in [Requests -> Entry \cup {NoEntry}]
    /\ keyed \in [Requests -> BOOLEAN]
    /\ reply \in [Requests -> Response \cup {NoReply, Unmodified}]
    /\ captured \in [Requests -> BOOLEAN]
    /\ seen \in [Requests -> Nat]
    /\ outcome \in [Requests -> Outcome]
    /\ \A r \in Requests : captured[r] => keyed[r] /\ seen[r] <= CacheMaxBody

Init ==
    /\ clock = 0
    /\ origin \in [Keys -> [version : {1}, policy : Policies, size : BodySizes]]
    /\ until = [k \in Keys |-> [v \in Versions |-> 0]]
    /\ store = {}
    /\ forwarded = {}
    /\ stage = [r \in Requests |-> "none"]
    /\ req = [r \in Requests |-> NoRequest]
    /\ asked = [r \in Requests |-> 0]
    /\ held = [r \in Requests |-> NoEntry]
    /\ keyed = [r \in Requests |-> FALSE]
    /\ reply = [r \in Requests |-> NoReply]
    /\ captured = [r \in Requests |-> FALSE]
    /\ seen = [r \in Requests |-> 0]
    /\ outcome = [r \in Requests |-> [kind |-> "none", resp |-> NoResponse]]

-----------------------------------------------------------------------------
(* Decisions.                                                              *)

Front(r) == req[r].kind.front
Flags(r) == req[r].kind.flags

\* Mutant of AdmitH3: early data is not looked at.
AdmitH3Early(flags) == IF "denied" \in flags THEN "403" ELSE "route"

\* The checks request_filter() makes before the cache, in its order.
AdmitH1(flags) ==
    CASE "denied" \in flags  -> "403"
      [] "denied" \notin flags /\ "limited" \in flags -> "429"
      [] flags \cap {"denied", "limited"} = {} /\ "large" \in flags -> "413"
      [] OTHER -> "route"

\* The checks proxy_request() makes before the cache; there is no rate limiter,
\* and the declared length is looked at after the cache (Forward).
AdmitH3(flags) ==
    CASE "denied" \in flags -> "403"
      [] "denied" \notin flags /\ "early" \in flags -> "425"
      [] OTHER -> "route"

Admission(r) == IF Front(r) = "h1" THEN AdmitH1(Flags(r)) ELSE AdmitH3(Flags(r))

\* response_ttl(); 0 stands for None.
ResponseTtl(status, p, hasSetCookie) ==
    IF status = 200 /\ ~hasSetCookie /\ ~p.vary /\ ~p.private
    THEN p.maxAge ELSE 0

\* The lifetime of a response that is captured on its way to the client.
CaptureTtl(p) == ResponseTtl(p.status, p, p.cookie)

\* Mutant of StoredTtl: Cache-Control is looked at for max-age only.
StoredTtlOfAnything(p) == p.maxAge

\* stored_ttl(): the same with status 200 and no cookie, whatever the response.
StoredTtl(p) == ResponseTtl(200, p, FALSE)

\* The last moment version v of key k was current.
LastCurrent(k, v) == IF origin[k].version = v THEN clock ELSE until[k][v]

-----------------------------------------------------------------------------
(* Steps of the program.                                                   *)

Done(r, kind, resp) ==
    /\ stage' = [stage EXCEPT ![r] = "done"]
    /\ outcome' = [outcome EXCEPT ![r] = [kind |-> kind, resp |-> resp]]

Goto(r, s) == stage' = [stage EXCEPT ![r] = s] /\ UNCHANGED outcome

\* The request's context is dropped with its task.
DropCtx(r) ==
    /\ keyed' = [keyed EXCEPT ![r] = FALSE]
    /\ reply' = [reply EXCEPT ![r] = NoReply]
    /\ captured' = [captured EXCEPT ![r] = FALSE]
    /\ seen' = [seen EXCEPT ![r] = 0]

\* ResponseCache::put() of a whole body of `len` chunks.
Put(r, resp, len, expiry) ==
    store' = store \cup {[resp |-> resp, len |-> len, since |-> asked[r],
                          expiry |-> expiry]}

Arrive(r, kind, k) ==
    /\ stage[r] = "none"
    /\ req' = [req EXCEPT ![r] = [kind |-> kind, key |-> k]]
    /\ Goto(r, "admit")
    /\ UNCHANGED <<clock, origin, until, store, forwarded, asked, held, keyed,
                   reply, captured, seen>>

\* try_serve_static(): a file, or 404.
ServeStatic(r) ==
    /\ "static" \in Flags(r)
    /\ Done(r, "static", NoResponse)

\* A plugin chain gets the request unless the body it declares is above the cap.
Route(r) ==
    /\ "static" \notin Flags(r)
    /\ Goto(r, IF "plugin" \in Flags(r) /\ "unbuffered" \notin Flags(r)
               THEN "plugin" ELSE "lookup")

\* The early returns, then static files, then the plugin chain.
Admit(r) ==
    /\ stage[r] = "admit"
    /\ \/ Admission(r) # "route" /\ Done(r, Admission(r), NoResponse)
       \/ Admission(r) = "route" /\ (ServeStatic(r) \/ Route(r))
    /\ UNCHANGED <<clock, origin, until, store, forwarded, req, asked, held,
                   keyed, reply, captured, seen>>

\* Plugins::run(): a plugin answers by itself or traps, or the request is
\* forwarded with upstream::fetch(), which may fail as well.
PluginsRun(r) ==
    /\ forwarded' \in {forwarded, forwarded \cup {r}}
    /\ \E kind \in {"plugin", "error"} : Done(r, kind, NoResponse)

\* The buffered path of a route with plugins: the body turns out to be above the
\* cap, or the chain is run.  Neither the cache nor the streaming path is used.
RunPlugins(r) ==
    /\ stage[r] = "plugin"
    /\ \/ Done(r, "413", NoResponse) /\ UNCHANGED forwarded
       \/ PluginsRun(r)
    /\ UNCHANGED <<clock, origin, until, store, req, asked, held, keyed, reply,
                   captured, seen>>

\* serve_cache_hit(): the whole response, or a 304 for a client that has it.
ServeHit(r, kind, resp) == Done(r, kind, resp)

\* request_cacheable() and ResponseCache::lookup(): not cacheable; a miss, or a
\* stale entry that cannot be revalidated; a fresh hit; a stale one, which an entry
\* read back from the directory is some time before it expires.
Lookup(r) ==
    /\ stage[r] = "lookup"
    /\ asked' = [asked EXCEPT ![r] = clock]
    /\ \/ /\ ~req[r].kind.cacheable
          /\ Goto(r, "forward")
          /\ UNCHANGED <<held, keyed>>
       \/ /\ req[r].kind.cacheable
          /\ keyed' = [keyed EXCEPT ![r] = TRUE]
          /\ Goto(r, "forward")
          /\ UNCHANGED held
       \/ \E e \in store :
             /\ req[r].kind.cacheable
             /\ e.resp.key = req[r].key
             /\ e.expiry > clock
             /\ ServeHit(r, "fresh", e.resp)
             /\ UNCHANGED <<held, keyed>>
       \/ \E e \in store :
             /\ req[r].kind.cacheable
             /\ e.resp.key = req[r].key
             /\ e.resp.policy.etag /\ "unrouted" \notin Flags(r)
             /\ held' = [held EXCEPT ![r] = e]
             /\ Goto(r, "reval")
             /\ UNCHANGED keyed
    /\ UNCHANGED <<clock, origin, until, store, forwarded, req, reply, captured, seen>>

\* revalidate() could not be completed: a normal fetch.
Refetch(r) ==
    /\ held' = [held EXCEPT ![r] = NoEntry]
    /\ keyed' = [keyed EXCEPT ![r] = TRUE]
    /\ reply' = [reply EXCEPT ![r] = NoReply]
    /\ Goto(r, "forward")

\* When a refreshed entry expires: main.rs reads the clock again after the
\* await, http3.rs uses the time of the lookup.
RefreshedAt(r) == IF Front(r) = "h1" THEN clock ELSE asked[r]

\* The head of the answer to the conditional GET: a 304 refreshes the entry
\* that was read before the await; a 200 is collected first.
HandleReval(r) ==
    LET p == held[r].resp.policy IN
    /\ stage[r] = "reval"
    /\ reply[r] # NoReply
    /\ \/ /\ reply[r] = Unmodified
          /\ Put(r, held[r].resp, held[r].len,
                 RefreshedAt(r) + (IF StoredTtl(p) > 0 THEN StoredTtl(p)
                                                       ELSE DefaultTtl))
          /\ ServeHit(r, "validated", held[r].resp)
          /\ held' = [held EXCEPT ![r] = NoEntry]
          /\ reply' = [reply EXCEPT ![r] = NoReply]
          /\ UNCHANGED keyed
       \/ /\ reply[r] # Unmodified
          /\ reply[r].policy.status = 200
          /\ Goto(r, "collect")
          /\ UNCHANGED <<store, held, keyed, reply>>
       \/ /\ reply[r] # Unmodified
          /\ reply[r].policy.status # 200
          /\ Refetch(r)
          /\ UNCHANGED store
    /\ UNCHANGED <<clock, origin, until, forwarded, req, asked, captured, seen>>

\* body.collect() of a changed response: stored if stored_ttl() allows, served.
CollectEnd(r) ==
    LET resp == reply[r]
        ttl  == StoredTtl(resp.policy) IN
    /\ stage[r] = "collect"
    /\ \/ /\ resp.size <= CacheMaxBody
          /\ IF ttl > 0 THEN Put(r, resp, resp.size, RefreshedAt(r) + ttl)
                        ELSE UNCHANGED store
          /\ ServeHit(r, "replaced", resp)
          /\ held' = [held EXCEPT ![r] = NoEntry]
          /\ reply' = [reply EXCEPT ![r] = NoReply]
          /\ UNCHANGED keyed
       \/ /\ resp.size > CacheMaxBody
          /\ Refetch(r)
          /\ UNCHANGED store
    /\ UNCHANGED <<clock, origin, until, forwarded, req, asked, captured, seen>>

\* Mutant of RevalFails: the stale entry is served when the origin is away.
RevalFailsServesStale(r) ==
    /\ stage[r] \in {"reval", "collect"}
    /\ Done(r, "validated", held[r].resp)
    /\ UNCHANGED <<clock, origin, until, store, forwarded, req, asked, held,
                   keyed, reply, captured, seen>>

\* The connection fails while the conditional GET is under way.
RevalFails(r) ==
    /\ stage[r] \in {"reval", "collect"}
    /\ Refetch(r)
    /\ UNCHANGED <<clock, origin, until, store, forwarded, req, asked, captured, seen>>

\* The configured timeout covers the head of the answer only.
RevalTimesOut(r) ==
    /\ stage[r] = "reval"
    /\ HasTimeout
    /\ Refetch(r)
    /\ UNCHANGED <<clock, origin, until, store, forwarded, req, asked, captured, seen>>

\* upstream_peer() and its counterpart find no route, or none with a target.
NoTarget(r) == "unrouted" \in Flags(r)

\* upstream_peer() and the request, or the part of proxy_request() after the
\* cache: no target, a declared body that is too large, or the request is sent.
Forward(r) ==
    /\ stage[r] = "forward"
    /\ \/ /\ NoTarget(r)
          /\ Done(r, IF Front(r) = "h1" THEN "500" ELSE "404", NoResponse)
          /\ UNCHANGED forwarded
       \/ /\ ~NoTarget(r)
          /\ Front(r) = "h3" /\ "large" \in Flags(r)
          /\ Done(r, "413", NoResponse)
          /\ UNCHANGED forwarded
       \/ /\ ~NoTarget(r)
          /\ ~(Front(r) = "h3" /\ "large" \in Flags(r))
          /\ Goto(r, "await")
          /\ forwarded' = forwarded \cup {r}
    /\ UNCHANGED <<clock, origin, until, store, req, asked, held, keyed, reply,
                   captured, seen>>

\* upstream_response_filter(): is the response to be kept?
HandleHead(r) ==
    LET p == reply[r].policy IN
    /\ stage[r] = "await"
    /\ reply[r] # NoReply
    /\ captured' = [captured EXCEPT
          ![r] = keyed[r] /\ CaptureTtl(p) > 0]
    /\ Goto(r, "body")
    /\ UNCHANGED <<clock, origin, until, store, forwarded, req, asked, held,
                   keyed, reply, seen>>

\* No answer: fail_to_proxy() answers on HTTP/1, HTTP/3 drops the stream.
UpstreamFails(r) ==
    /\ stage[r] = "await"
    /\ Done(r, "error", NoResponse)
    /\ DropCtx(r)
    /\ UNCHANGED <<clock, origin, until, store, forwarded, req, asked, held>>

\* Mutant of HeadTimesOut: the timeout is set on one of the two clients only.
HeadTimesOutH1(r) ==
    /\ stage[r] = "await"
    /\ HasTimeout /\ Front(r) = "h1"
    /\ Done(r, "504", NoResponse)
    /\ DropCtx(r)
    /\ UNCHANGED <<clock, origin, until, store, forwarded, req, asked, held>>

\* The head of the answer does not come within the configured timeout.
HeadTimesOut(r) ==
    /\ stage[r] = "await"
    /\ HasTimeout
    /\ Done(r, "504", NoResponse)
    /\ DropCtx(r)
    /\ UNCHANGED <<clock, origin, until, store, forwarded, req, asked, held>>

\* Mutant of Keeps: the limit is tested before the chunk is appended.
KeepsLate(capturing, size) == capturing /\ size <= CacheMaxBody + 1

\* accumulate_cache_body(): give up on a body that is too large to keep.
Keeps(capturing, size) == capturing /\ size <= CacheMaxBody

\* A chunk of the body arrives and is passed on.
BodyChunk(r) ==
    /\ stage[r] = "body"
    /\ seen[r] < reply[r].size
    /\ seen' = [seen EXCEPT ![r] = @ + 1]
    /\ captured' = [captured EXCEPT ![r] = Keeps(@, seen[r] + 1)]
    /\ UNCHANGED <<clock, origin, until, store, forwarded, stage, req, asked,
                   held, keyed, reply, outcome>>

\* The end of the body: the response is stored until now + ttl.
BodyEnd(r) ==
    /\ stage[r] = "body"
    /\ seen[r] = reply[r].size
    /\ IF captured[r]
       THEN Put(r, reply[r], seen[r], clock + CaptureTtl(reply[r].policy))
       ELSE UNCHANGED store
    /\ Done(r, "proxied", reply[r])
    /\ DropCtx(r)
    /\ UNCHANGED <<clock, origin, until, forwarded, req, asked, held>>

\* Mutant of BodyBreaks: what was captured is stored, as at the end of the body.
BodyBreaksStores(r) ==
    /\ stage[r] = "body"
    /\ IF captured[r]
       THEN Put(r, reply[r], seen[r], clock + CaptureTtl(reply[r].policy))
       ELSE UNCHANGED store
    /\ Done(r, "broken", reply[r])
    /\ DropCtx(r)
    /\ UNCHANGED <<clock, origin, until, forwarded, req, asked, held>>

\* The origin or the client goes away in the middle of the body.
BodyBreaks(r) ==
    /\ stage[r] = "body"
    /\ Done(r, "broken", reply[r])
    /\ DropCtx(r)
    /\ UNCHANGED <<clock, origin, until, store, forwarded, req, asked, held>>

\* Only the HTTP/1 and HTTP/2 peer has a timeout for the body.
BodyTimesOut(r) ==
    /\ stage[r] = "body"
    /\ HasTimeout
    /\ Front(r) = "h1"
    /\ BodyBreaks(r)

-----------------------------------------------------------------------------
(* The environment.                                                        *)

\* The origin answers a request that is waiting for the head of a response; a
\* conditional request gets 304 if the version it names is current.
OriginAnswers(r) ==
    LET k    == req[r].key
        resp == [key |-> k, version |-> origin[k].version,
                 policy |-> origin[k].policy, size |-> origin[k].size,
                 whose |-> r] IN
    /\ stage[r] \in {"reval", "await"}
    /\ reply[r] = NoReply
    /\ reply' = [reply EXCEPT ![r] =
          IF stage[r] = "reval" /\ held[r].resp.version = origin[k].version
          THEN Unmodified ELSE resp]
    /\ UNCHANGED <<clock, origin, until, store, forwarded, stage, req, asked,
                   held, keyed, captured, seen, outcome>>

OriginChanges(k, p, n) ==
    /\ origin[k].version < MaxVersion
    /\ until' = [until EXCEPT ![k][origin[k].version] = clock]
    /\ origin' = [origin EXCEPT ![k] = [version |-> @.version + 1,
                                        policy |-> p, size |-> n]]
    /\ UNCHANGED <<clock, store, forwarded, stage, req, asked, held, keyed,
                   reply, captured, seen, outcome>>

Tick ==
    /\ clock < MaxTime
    /\ clock' = clock + 1
    /\ UNCHANGED <<origin, until, store, forwarded, stage, req, asked, held,
                   keyed, reply, captured, seen, outcome>>

\* What the program does by itself, timers included.
ProgramStep(r) ==
    \/ Admit(r)
    \/ Lookup(r)
    \/ HandleReval(r)
    \/ RevalTimesOut(r)
    \/ Forward(r)
    \/ HandleHead(r)
    \/ HeadTimesOut(r)
    \/ BodyTimesOut(r)

\* What happens when somebody else does something.
OutsideStep(r) ==
    \/ \E kind \in Kinds, k \in Keys : Arrive(r, kind, k)
    \/ RunPlugins(r)
    \/ CollectEnd(r)
    \/ RevalFails(r)
    \/ UpstreamFails(r)
    \/ BodyChunk(r)
    \/ BodyEnd(r)
    \/ BodyBreaks(r)
    \/ OriginAnswers(r)

Next ==
    \/ \E r \in Requests : ProgramStep(r) \/ OutsideStep(r)
    \/ \E k \in Keys, p \in Policies, n \in BodySizes : OriginChanges(k, p, n)
    \/ Tick

Spec == Init /\ [][Next]_vars

\* The runtime polls every task that can go on, and its timers fire.
FairSpec == Spec /\ \A r \in Requests : WF_vars(ProgramStep(r))

-----------------------------------------------------------------------------
(* Properties.                                                             *)

\* Only whole bodies within max_body_bytes are stored, whatever breaks off,
\* overflows or is refreshed in between.
StoredWhole ==
    \A e \in store : e.len = e.resp.size /\ e.len <= CacheMaxBody

\* A response served from the cache was still fresh when it was looked up and
\* current at some moment of the request that stored it, or the origin had it
\* current during this very request.
HitsJustified ==
    \A r \in Requests :
       LET o == outcome[r] IN
       /\ o.kind = "validated" => LastCurrent(o.resp.key, o.resp.version) >= asked[r]
       /\ o.kind = "fresh" =>
             \E e \in store :
                /\ e.resp = o.resp
                /\ e.expiry > asked[r]
                /\ LastCurrent(o.resp.key, o.resp.version) >= e.since

ServedFromCache(r) == outcome[r].kind \in {"fresh", "validated"}

\* A response given to another client than the one it was made for is public: not
\* private, no-store or no-cache, no variant, no error, and made for a request that may
\* be answered from the cache (one with credentials may not), on the revalidation path
\* too.
SharedIsPublic ==
    \A r \in Requests :
       LET resp == outcome[r].resp IN
       ServedFromCache(r) /\ resp.whose # r =>
          /\ ~resp.policy.private /\ ~resp.policy.vary /\ resp.policy.status = 200
          /\ req[resp.whose].kind.cacheable

\* No client gets a response from the cache that sets the cookie of another one
\* (cache.rs: only responses that "set no cookies" are cached).
CookiesNotShared ==
    \A r \in Requests :
       LET resp == outcome[r].resp IN
       ServedFromCache(r) /\ resp.whose # r => ~resp.policy.cookie

\* A request of a client that is denied, over its rate or too large (HTTP/1,
\* HTTP/2), or that is unsafe and early data (HTTP/3), is sent on to the origin
\* on no path, plugin routes included; on HTTP/3 one that is too large is sent on
\* by plugin routes only, which leave before the test.
RejectedNeverForwarded ==
    \A r \in forwarded :
       /\ "denied" \notin Flags(r)
       /\ Front(r) = "h1" => Flags(r) \cap {"limited", "large"} = {}
       /\ Front(r) = "h3" => "early" \notin Flags(r)
       /\ "large" \in Flags(r) => "plugin" \in Flags(r)

\* With a timeout set, every request comes to an end however silent the origin is,
\* but for the awaits that have no timeout: the rest of a body on HTTP/3 and of the
\* answer to a revalidation, and the buffered path of plugin routes.
OnlySilentBodiesHang ==
    \A r \in Requests :
       <>[](\/ stage[r] \in {"none", "done", "collect", "plugin"}
            \/ stage[r] = "body" /\ Front(r) = "h3")
=============================================================================
