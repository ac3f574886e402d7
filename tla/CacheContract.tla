---------------------------- MODULE CacheContract ----------------------------
(***************************************************************************)
(* What the response cache promises those who call it, with neither map    *)
(* nor directory: lookup() returns some response that was stored for the   *)
(* key, or none, and calls it fresh if what is left of its lifetime, which *)
(* may shrink but never grows, is not over at the time of the call.  A     *)
(* stored response may be lost at any time.  CachingProxy relies on this   *)
(* and on nothing else.                                                    *)
(***************************************************************************)
EXTENDS Naturals, FiniteSets

CONSTANTS Keys, Threads, Ttls, MaxTime, MaxPuts

VARIABLES
    clock,     \* the time
    granted,   \* the responses put() was called with
    call,      \* the operation each thread is in
    key,       \* its key
    asked,     \* the time at which it looks up
    answer     \* what its last lookup() returned

vars == <<clock, granted, call, key, asked, answer>>

NoEntry == [none |-> "entry"]
NoAnswer == [kind |-> "none", entry |-> NoEntry, asked |-> 0]

Init ==
    /\ clock = 0
    /\ granted = {}
    /\ call = [t \in Threads |-> "idle"]
    /\ key \in [Threads -> Keys]
    /\ asked = [t \in Threads |-> 0]
    /\ answer = [t \in Threads |-> NoAnswer]

\* lookup() is called ...
Ask(t, k) ==
    /\ call[t] = "idle"
    /\ call' = [call EXCEPT ![t] = "lookup"]
    /\ key' = [key EXCEPT ![t] = k]
    /\ asked' = [asked EXCEPT ![t] = clock]
    /\ answer' = [answer EXCEPT ![t] = NoAnswer]
    /\ UNCHANGED <<clock, granted>>

\* ... and returns: a response of the key, with no more lifetime than it was
\* granted, or none.
Miss(t) == [kind |-> "miss", entry |-> NoEntry, asked |-> asked[t]]

Hit(t, g, expiry) ==
    [kind |-> IF expiry > asked[t] THEN "fresh" ELSE "stale",
     entry |-> [g EXCEPT !.expiry = expiry], asked |-> asked[t]]

Reply(t) ==
    /\ call[t] = "lookup"
    /\ call' = [call EXCEPT ![t] = "idle"]
    /\ \/ answer' = [answer EXCEPT ![t] = Miss(t)]
       \/ \E g \in granted :
             /\ g.key = key[t]
             /\ \E expiry \in 0 .. g.expiry :
                   answer' = [answer EXCEPT ![t] = Hit(t, g, expiry)]
    /\ UNCHANGED <<clock, granted, key, asked>>

\* put() is called: the response may be returned from now on ...
Store(t, k, ttl) ==
    /\ call[t] = "idle"
    /\ Cardinality(granted) < MaxPuts
    /\ granted' = granted \cup {[key |-> k, version |-> Cardinality(granted) + 1,
                                 expiry |-> clock + ttl]}
    /\ call' = [call EXCEPT ![t] = "put"]
    /\ key' = [key EXCEPT ![t] = k]
    /\ answer' = [answer EXCEPT ![t] = NoAnswer]
    /\ UNCHANGED <<clock, asked>>

\* ... and returns.
Stored(t) ==
    /\ call[t] = "put"
    /\ call' = [call EXCEPT ![t] = "idle"]
    /\ UNCHANGED <<clock, granted, key, asked, answer>>

Tick ==
    /\ clock < MaxTime
    /\ clock' = clock + 1
    /\ UNCHANGED <<granted, call, key, asked, answer>>

\* A restart ends all calls.
Restart ==
    /\ call' = [t \in Threads |-> "idle"]
    /\ answer' = [t \in Threads |-> NoAnswer]
    /\ UNCHANGED <<clock, granted, key, asked>>

Next ==
    \/ \E t \in Threads :
          \/ \E k \in Keys : Ask(t, k)
          \/ \E k \in Keys, ttl \in Ttls : Store(t, k, ttl)
          \/ Reply(t)
          \/ Stored(t)
    \/ Tick
    \/ Restart

Spec == Init /\ [][Next]_vars
=============================================================================
