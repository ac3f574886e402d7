---------------------------- MODULE LoadBalancer ----------------------------
(***************************************************************************)
(* The choice of an upstream target: Route::next_target() of               *)
(* crates/zaphyl-core/src/router.rs, called by many requests at a time,    *)
(* and the thread of spawn_health_prober() in crates/zaphyl/src/main.rs    *)
(* that updates the health flags.  The counter and the flags are atomics;  *)
(* every access is a step of its own.                                      *)
(***************************************************************************)
EXTENDS Naturals, FiniteSets

CONSTANTS
    Callers,   \* requests that choose a target at the same time
    Count,     \* number of targets of the route
    Wrap       \* the counter is an AtomicUsize: it wraps around at Wrap

ASSUME BalancerConstants ==
    /\ Count \in Nat \ {0}
    /\ Wrap \in Nat \ {0}

Targets == 0 .. Count - 1

VARIABLES
    next,      \* Route::next
    healthy,   \* the health flag of each target
    up,        \* whether the target accepts connections
    at,        \* the target the prober is at
    probed,    \* the result of its probe: "none", "up" or "down"
    call       \* the calls of next_target()

vars == <<next, healthy, up, at, probed, call>>

\* tries: rounds of the loop made; index: the target under inspection.
\* steady, taken, wrapped: history, the targets whose flag was set throughout the
\* call, those other calls drew while it was scanning, and whether the counter
\* started over meanwhile.
Call == [stage : {"idle", "scan", "check", "healthy", "fallback"},
         tries : 0 .. Count, index : Targets, steady : SUBSET Targets,
         taken : SUBSET Targets, wrapped : BOOLEAN]

TypeOK ==
    /\ next \in 0 .. Wrap - 1
    /\ healthy \in [Targets -> BOOLEAN]
    /\ up \in [Targets -> BOOLEAN]
    /\ at \in Targets
    /\ probed \in {"none", "up", "down"}
    /\ call \in [Callers -> Call]

Init ==
    /\ next \in 0 .. Wrap - 1
    /\ healthy = [t \in Targets |-> TRUE]
    /\ up \in [Targets -> BOOLEAN]
    /\ at = 0
    /\ probed = "none"
    /\ call = [c \in Callers |-> [stage |-> "idle", tries |-> 0, index |-> 0,
                                  steady |-> {}, taken |-> {}, wrapped |-> FALSE]]

-----------------------------------------------------------------------------
(* next_target()                                                           *)

HealthyTargets == {t \in Targets : healthy[t]}

Begin(c) ==
    /\ call[c].stage \in {"idle", "healthy", "fallback"}
    /\ call' = [call EXCEPT ![c] = [stage |-> "scan", tries |-> 0, index |-> 0,
                                    steady |-> HealthyTargets,
                                    taken |-> {}, wrapped |-> FALSE]]
    /\ UNCHANGED <<next, healthy, up, at, probed>>

\* A call that is scanning when target t is drawn by another call.
Overtaken(k, t) ==
    IF k.stage \in {"scan", "check"}
    THEN [k EXCEPT !.taken = @ \cup {t}, !.wrapped = @ \/ next = Wrap - 1] ELSE k

\* The call that draws target t.
Drawn(k, s, t) ==
    [k EXCEPT !.stage = s, !.index = t, !.wrapped = @ \/ next = Wrap - 1]

\* Mutant of FetchAdd: the counter is not advanced when the target is drawn.
FetchWithoutAdd(c, s) ==
    /\ call' = [d \in Callers |-> IF d = c THEN Drawn(call[c], s, next % Count)
                                 ELSE Overtaken(call[d], next % Count)]
    /\ UNCHANGED next

\* fetch_add()
FetchAdd(c, s) ==
    /\ call' = [d \in Callers |-> IF d = c THEN Drawn(call[c], s, next % Count)
                                 ELSE Overtaken(call[d], next % Count)]
    /\ next' = (next + 1) % Wrap

\* A round of the loop: the next target ...
Scan(c) ==
    /\ call[c].stage = "scan"
    /\ call[c].tries < Count
    /\ FetchAdd(c, "check")
    /\ UNCHANGED <<healthy, up, at, probed>>

\* The call whose target is healthy: its history ends.
Chosen(k) ==
    [k EXCEPT !.stage = "healthy", !.steady = {}, !.taken = {}, !.wrapped = FALSE]

\* ... is taken if its flag is set.
Check(c) ==
    /\ call[c].stage = "check"
    /\ \/ /\ healthy[call[c].index]
          /\ call' = [call EXCEPT ![c] = Chosen(call[c])]
       \/ /\ ~healthy[call[c].index]
          /\ call' = [call EXCEPT ![c].stage = "scan", ![c].tries = call[c].tries + 1]
    /\ UNCHANGED <<next, healthy, up, at, probed>>

\* After the loop: the next target, whatever its flag.
Fallback(c) ==
    /\ call[c].stage = "scan"
    /\ call[c].tries = Count
    /\ FetchAdd(c, "fallback")
    /\ UNCHANGED <<healthy, up, at, probed>>

-----------------------------------------------------------------------------
(* The prober.                                                             *)

\* connect_timeout()
Probe ==
    /\ probed = "none"
    /\ probed' = IF up[at] THEN "up" ELSE "down"
    /\ UNCHANGED <<next, healthy, up, at, call>>

\* Mutant of StoreHealth: a target that failed is never healthy again.
StoreDown ==
    /\ probed # "none"
    /\ healthy' = [healthy EXCEPT ![at] = @ /\ probed = "up"]
    /\ call' = [c \in Callers |->
          IF probed = "down" THEN [call[c] EXCEPT !.steady = @ \ {at}] ELSE call[c]]
    /\ probed' = "none"
    /\ at' = (at + 1) % Count
    /\ UNCHANGED <<next, up>>

\* healthy.store(), then the next target.
StoreHealth ==
    /\ probed # "none"
    /\ healthy' = [healthy EXCEPT ![at] = (probed = "up")]
    /\ call' = [c \in Callers |->
          IF probed = "down" THEN [call[c] EXCEPT !.steady = @ \ {at}] ELSE call[c]]
    /\ probed' = "none"
    /\ at' = (at + 1) % Count
    /\ UNCHANGED <<next, up>>

\* A target starts or stops accepting connections.
Flip(t) ==
    /\ up' = [up EXCEPT ![t] = ~@]
    /\ UNCHANGED <<next, healthy, at, probed, call>>

CallStep(c) == Scan(c) \/ Check(c) \/ Fallback(c)

Next ==
    \/ \E c \in Callers : Begin(c) \/ CallStep(c)
    \/ Probe
    \/ StoreHealth
    \/ \E t \in Targets : Flip(t)

Spec == Init /\ [][Next]_vars

\* The prober's thread loops for ever.
FairSpec == Spec /\ WF_vars(Probe) /\ WF_vars(StoreHealth)

-----------------------------------------------------------------------------
(* Properties.                                                             *)

\* next_target() falls back on a target whose flag may be clear only if every target
\* whose flag was set throughout the call was drawn by other calls while it scanned:
\* calls that share the counter pass over each other's targets and no others, as long
\* as the counter does not start over.
FallbackExcused ==
    \A c \in Callers :
       call[c].stage = "fallback" /\ ~call[c].wrapped => call[c].steady \subseteq call[c].taken

\* The flag of a target that stays up, or down, follows it for good.
HealthFollows ==
    \A t \in Targets :
       /\ <>[](up[t]) => <>[](healthy[t])
       /\ <>[](~up[t]) => <>[](~healthy[t])
=============================================================================
