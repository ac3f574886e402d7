----------------------------- MODULE PluginChain -----------------------------
(***************************************************************************)
(* WASM plugins: Plugins::build() and Plugins::run() of                    *)
(* crates/zaphyl/src/plugins.rs, the chains and the host of                *)
(* crates/zaphyl-plugin/src/lib.rs, and upstream::fetch() between the two  *)
(* phases.  A phase of a chain runs on a thread of the blocking pool, each *)
(* hook in a store of its own with a deadline in ticks of the epoch.  What *)
(* a message has been through stands for its contents.                     *)
(***************************************************************************)
EXTENDS Naturals, FiniteSets, SequencesExt

CONSTANTS
    Requests,   \* requests on plugin routes
    Routes,     \* the routes of the configuration
    Global,     \* the paths of the global plugins, in order
    Own,        \* the paths of each route's own plugins, in order
    Deadline,   \* EXECUTION_DEADLINE_TICKS
    MaxBody,    \* max_body_bytes of [plugins]
    MaxLength,  \* bound on the chunks of a request's body
    PoolSize,   \* threads for blocking tasks
    TimeLimit   \* whether a read timeout is configured

ASSUME PluginConstants ==
    /\ Routes # {}
    /\ Global \in Seq(Range(Global))
    /\ \A t \in Routes : Own[t] \in Seq(Range(Own[t]))
    /\ Deadline \in Nat
    /\ MaxBody \in Nat
    /\ MaxLength \in Nat
    /\ PoolSize \in Nat \ {0}
    /\ TimeLimit \in BOOLEAN

VARIABLES
    host,       \* Plugins::build(): "building", "none", "ready" or "failed"
    chains,     \* Plugins::chains
    req,        \* the requests
    queue,      \* phases that wait for a thread
    left        \* ticks until the deadline of the hook that runs

vars == <<host, chains, req, queue, left>>

Plugin == Range(Global) \cup UNION {Range(Own[t]) : t \in Routes}
Events == [what : {"request", "response"}, by : Plugin]
          \cup [what : {"origin"}, by : {"origin"}]
Origin == [what |-> "origin", by |-> "origin"]

\* got: the chunks of the body in the buffer.  hook: the hook of the phase that
\* runs next.  trace: what has happened to the message.
Request == [stage : {"idle", "buffer", "request", "head", "collect", "response",
                     "done"},
            route : Routes, front : {"h1", "h3"}, declared : BOOLEAN,
            length : 0 .. MaxLength, got : 0 .. MaxBody, hook : Nat,
            running : BOOLEAN, trace : Seq(Events),
            outcome : {"none", "streamed", "413", "502", "broken", "responded",
                       "answered"}]

TypeOK ==
    /\ host \in {"building", "none", "ready", "failed"}
    /\ chains \in [Routes -> Seq(Plugin)]
    /\ req \in [Requests -> Request]
    /\ queue \in Seq(Requests)
    /\ left \in [Requests -> 0 .. Deadline]

Init ==
    /\ host = "building"
    /\ chains = [t \in Routes |-> <<>>]
    /\ req = [r \in Requests |->
                [stage |-> "idle", route |-> CHOOSE t \in Routes : TRUE,
                 front |-> "h1", declared |-> FALSE, length |-> 0, got |-> 0,
                 hook |-> 1, running |-> FALSE, trace |-> <<>>, outcome |-> "none"]]
    /\ queue = <<>>
    /\ left = [r \in Requests |-> 0]

-----------------------------------------------------------------------------
(* Plugins::build()                                                        *)

ChainOf(t) == Global \o Own[t]

\* Every plugin is compiled; a file that cannot be is the end of the process.
Build ==
    /\ host = "building"
    /\ host' \in IF Plugin = {} THEN {"none"} ELSE {"ready", "failed"}
    /\ chains' = [t \in Routes |-> IF host' = "ready" THEN ChainOf(t) ELSE <<>>]
    /\ UNCHANGED <<req, queue, left>>

-----------------------------------------------------------------------------
(* try_run_plugins() and its counterpart in proxy_request()                *)

\* chain() finds no plugins, or the declared length is above the cap: the request
\* takes the streaming path.  Otherwise its body is read into a buffer.
Arrive(r, t, f, declared, n) ==
    /\ host \in {"none", "ready"}
    /\ req[r].stage = "idle"
    /\ req' = [req EXCEPT ![r] =
          LET k == [req[r] EXCEPT !.route = t, !.front = f, !.declared = declared,
                                  !.length = n]
          IN IF chains[t] = <<>> \/ (declared /\ n > MaxBody)
             THEN [k EXCEPT !.stage = "done", !.outcome = "streamed"]
             ELSE [k EXCEPT !.stage = "buffer"]]
    /\ UNCHANGED <<host, chains, queue, left>>

\* Mutant of ReadChunk: the chunk is appended before the comparison.
ReadChunkLate(r) ==
    /\ req[r].stage = "buffer"
    /\ req[r].got < req[r].length
    /\ req' = [req EXCEPT ![r] =
          IF @.got > MaxBody THEN [@ EXCEPT !.stage = "done", !.outcome = "413"]
          ELSE [@ EXCEPT !.got = @ + 1]]
    /\ UNCHANGED <<host, chains, queue, left>>

ReadChunk(r) ==
    /\ req[r].stage = "buffer"
    /\ req[r].got < req[r].length
    /\ req' = IF req[r].got + 1 > MaxBody
              THEN [req EXCEPT ![r] = [@ EXCEPT !.stage = "done", !.outcome = "413"]]
              ELSE [req EXCEPT ![r].got = @ + 1]
    /\ UNCHANGED <<host, chains, queue, left>>

\* spawn_blocking() of the request phase.
ReadEnd(r) ==
    /\ req[r].stage = "buffer"
    /\ req[r].got = req[r].length
    /\ req' = [req EXCEPT ![r].stage = "request"]
    /\ queue' = Append(queue, r)
    /\ UNCHANGED <<host, chains, left>>

\* Mutant of ReadError: an error ends the loop as the end of the body does.
ReadErrorEnds(r) ==
    /\ req[r].stage = "buffer"
    /\ req' = [req EXCEPT ![r].stage = "request"]
    /\ queue' = Append(queue, r)
    /\ UNCHANGED <<host, chains, left>>

\* The client goes away: read_request_body() fails and with it the request; the
\* loop of HTTP/3 takes the error for the end of the body.
ReadError(r) ==
    /\ req[r].stage = "buffer"
    /\ \/ /\ req[r].front = "h1"
          /\ req' = [req EXCEPT ![r] = [@ EXCEPT !.stage = "done", !.outcome = "broken"]]
          /\ UNCHANGED queue
       \/ /\ req[r].front = "h3"
          /\ req' = [req EXCEPT ![r].stage = "request"]
          /\ queue' = Append(queue, r)
    /\ UNCHANGED <<host, chains, left>>

-----------------------------------------------------------------------------
(* A phase of a chain on a thread of the pool.                             *)

Running == {r \in Requests : req[r].running}

Dispatch ==
    /\ queue # <<>>
    /\ Cardinality(Running) < PoolSize
    /\ req' = [req EXCEPT ![Head(queue)] = [@ EXCEPT !.running = TRUE, !.hook = 1]]
    /\ queue' = Tail(queue)
    /\ left' = [left EXCEPT ![Head(queue)] = Deadline]
    /\ UNCHANGED <<host, chains>>

\* Mutant of HookPlugin: the response hooks run in the order of the request hooks.
HookPluginForward(r) == chains[req[r].route][req[r].hook]

\* The request hooks run in order, the response hooks in reverse.
HookPlugin(r) ==
    LET chain == chains[req[r].route]
    IN IF req[r].stage = "request" THEN chain[req[r].hook]
       ELSE chain[Len(chain) + 1 - req[r].hook]

Traced(r) == Append(req[r].trace, [what |-> req[r].stage, by |-> HookPlugin(r)])

\* A hook returns its message.  After the last one the phase is over: the request
\* goes to the upstream, the response to the client.
HookContinues(r) ==
    /\ req[r].running
    /\ \/ /\ req[r].hook < Len(chains[req[r].route])
          /\ req' = [req EXCEPT ![r] = [@ EXCEPT !.hook = req[r].hook + 1,
                                                !.trace = Traced(r)]]
          /\ left' = [left EXCEPT ![r] = Deadline]
       \/ /\ req[r].hook = Len(chains[req[r].route])
          /\ req' = [req EXCEPT ![r] =
                LET k == [req[r] EXCEPT !.running = FALSE, !.trace = Traced(r)]
                IN IF k.stage = "request" THEN [k EXCEPT !.stage = "head"]
                   ELSE [k EXCEPT !.stage = "done", !.outcome = "answered"]]
          /\ left' = [left EXCEPT ![r] = 0]
    /\ UNCHANGED <<host, chains, queue>>

\* A request hook responds: the rest of the chain, the upstream and the response
\* hooks are passed over.
HookResponds(r) ==
    /\ req[r].running
    /\ req[r].stage = "request"
    /\ req' = [req EXCEPT ![r] = [@ EXCEPT !.running = FALSE, !.trace = Traced(r),
                                          !.stage = "done", !.outcome = "responded"]]
    /\ left' = [left EXCEPT ![r] = 0]
    /\ UNCHANGED <<host, chains, queue>>

Failed(r) ==
    /\ req' = [req EXCEPT ![r] = [@ EXCEPT !.running = FALSE, !.stage = "done",
                                          !.outcome = "502"]]
    /\ left' = [left EXCEPT ![r] = 0]
    /\ UNCHANGED <<host, chains, queue>>

\* The plugin traps, is out of memory, or cannot be instantiated.
HookTraps(r) ==
    /\ req[r].running
    /\ Failed(r)

\* Mutant of Interrupt: new_store() sets no deadline.
InterruptNever(r) ==
    /\ req[r].running
    /\ left[r] > Deadline
    /\ Failed(r)

\* Code that reaches a check of the epoch after its deadline is interrupted.
Interrupt(r) ==
    /\ req[r].running
    /\ left[r] = 0
    /\ Failed(r)

\* The thread of PluginHost::new() increments the epoch.
Tick ==
    /\ \E r \in Running : left[r] > 0
    /\ left' = [r \in Requests |-> IF left[r] > 0 THEN left[r] - 1 ELSE 0]
    /\ UNCHANGED <<host, chains, req, queue>>

-----------------------------------------------------------------------------
(* upstream::fetch()                                                       *)

FetchHead(r) ==
    /\ req[r].stage = "head"
    /\ req' = [req EXCEPT ![r].stage = "collect"]
    /\ UNCHANGED <<host, chains, queue, left>>

\* The body is collected; then spawn_blocking() of the response phase.
FetchBody(r) ==
    /\ req[r].stage = "collect"
    /\ req' = [req EXCEPT ![r] = [@ EXCEPT !.stage = "response",
                                          !.trace = Append(req[r].trace, Origin)]]
    /\ queue' = Append(queue, r)
    /\ UNCHANGED <<host, chains, left>>

\* The upstream fails, or its body is larger than the cap.
FetchFails(r) ==
    /\ req[r].stage \in {"head", "collect"}
    /\ Failed(r)

\* The timeout covers the head only.
FetchTimesOut(r) ==
    /\ TimeLimit
    /\ req[r].stage = "head"
    /\ Failed(r)

-----------------------------------------------------------------------------

PhaseStep(r) == HookContinues(r) \/ HookResponds(r) \/ HookTraps(r) \/ Interrupt(r)

Next ==
    \/ Build
    \/ Dispatch
    \/ Tick
    \/ \E r \in Requests :
          \/ \E t \in Routes, f \in {"h1", "h3"}, declared \in BOOLEAN,
                n \in 0 .. MaxLength : Arrive(r, t, f, declared, n)
          \/ ReadChunk(r) \/ ReadEnd(r) \/ ReadError(r)
          \/ PhaseStep(r)
          \/ FetchHead(r) \/ FetchBody(r) \/ FetchFails(r) \/ FetchTimesOut(r)

Spec == Init /\ [][Next]_vars

\* The ticker loops for ever, the pool runs what is queued, running code reaches
\* its next check of the epoch, and timers fire.  Plugins, clients and upstreams
\* owe nothing.
FairSpec ==
    /\ Spec
    /\ WF_vars(Tick)
    /\ WF_vars(Dispatch)
    /\ \A r \in Requests : WF_vars(Interrupt(r)) /\ WF_vars(FetchTimesOut(r))

-----------------------------------------------------------------------------
(* Properties.                                                             *)

\* All that happens to a request if every plugin continues: the global plugins,
\* the route's own, the upstream, and the same plugins backwards.
Nesting(t) ==
    LET chain == Global \o Own[t]
        back == Reverse(chain)
    IN [i \in DOMAIN chain |-> [what |-> "request", by |-> chain[i]]]
       \o <<Origin>>
       \o [i \in DOMAIN back |-> [what |-> "response", by |-> back[i]]]

\* Plugins nest as PluginChain promises ("in reverse order (middleware nesting)",
\* "global first, then per-route"): the upstream is reached only when every plugin
\* continued, an answer of the upstream has been through all of them, and an answer
\* of a plugin has met neither the upstream nor a response hook.
Nested ==
    \A r \in Requests :
       /\ IsPrefix(req[r].trace, Nesting(req[r].route))
       /\ req[r].outcome = "answered" => req[r].trace = Nesting(req[r].route)
       /\ req[r].outcome = "responded" =>
             \A i \in DOMAIN req[r].trace : req[r].trace[i].what = "request"

\* On HTTP/1 and HTTP/2 no plugin and no upstream gets a body that the client did
\* not finish.  (The loop of HTTP/3 takes a reset for the end.)
HooksSeeWholeBody ==
    \A r \in Requests :
       req[r].front = "h1" /\ req[r].trace # <<>> => req[r].got = req[r].length

\* A plugin that never returns keeps neither its own request nor those queued
\* behind it for ever: a phase that was begun ends, also with a pool of one thread,
\* and the upstream's silence is cut short while its head is awaited.
PhasesEnd ==
    \A r \in Requests : \A s \in {"request", "head", "response"} :
       req[r].stage = s ~> req[r].stage # s
=============================================================================
