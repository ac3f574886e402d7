----------------------------- MODULE RateLimiter -----------------------------
(***************************************************************************)
(* The fixed-window limiter of crates/zaphyl-core/src/ratelimit.rs as      *)
(* request_filter() of crates/zaphyl/src/main.rs uses it: a request reads  *)
(* the clock, and then calls check() with what it read.  Between the two   *)
(* it may wait for the mutex, so readings reach check() in any order.      *)
(***************************************************************************)
EXTENDS Integers, Sequences

CONSTANTS
    Requests,   \* requests in flight at the same time
    Clients,    \* client addresses, the keys of the limiter
    WindowMs,   \* window_ms
    MaxEvents,  \* max
    NoWindow,   \* a client without an entry in the map
    MaxTime     \* bound on the clock

ASSUME LimiterConstants ==
    /\ WindowMs \in Nat \ {0}
    /\ MaxEvents \in Nat \ {0}
    /\ MaxTime \in Nat
    /\ NoWindow \notin [start_ms : Nat, count : Nat]

VARIABLES
    clock,      \* milliseconds since the proxy was created
    windows,    \* RateLimiter::windows
    call,       \* the requests in request_filter()
    log,        \* history: the admissions of each client, and their readings
    refused     \* history: the reading of the last refusal of each client, or -1

vars == <<clock, windows, call, log, refused>>

Time == 0 .. MaxTime
Window == [start_ms : Time, count : 0 .. MaxEvents]
Call == [stage : {"idle", "check"}, key : Clients, now_ms : Time]
Admission == [at : Time, now_ms : Time]

TypeOK ==
    /\ clock \in Time
    /\ windows \in [Clients -> Window \cup {NoWindow}]
    /\ call \in [Requests -> Call]
    /\ log \in [Clients -> Seq(Admission)]
    /\ refused \in [Clients -> -1 .. MaxTime]

Init ==
    /\ clock = 0
    /\ windows = [c \in Clients |-> NoWindow]
    /\ call \in [Requests -> {k \in Call : k.stage = "idle" /\ k.now_ms = 0}]
    /\ log = [c \in Clients |-> <<>>]
    /\ refused = [c \in Clients |-> -1]

\* The key is the client's address, now_ms the time since the start.
ReadClock(r, c) ==
    /\ call[r].stage = "idle"
    /\ call' = [call EXCEPT ![r] = [stage |-> "check", key |-> c, now_ms |-> clock]]
    /\ UNCHANGED <<clock, windows, log, refused>>

\* entry(key).or_insert(...)
Entry(c, now) ==
    IF windows[c] = NoWindow THEN [start_ms |-> now, count |-> 0] ELSE windows[c]

\* Mutant of Rolled: the window ends one millisecond late.
RolledLate(w, now) ==
    IF now - w.start_ms > WindowMs THEN [start_ms |-> now, count |-> 0] ELSE w

\* Mutant of Rolled: the difference wraps around instead of saturating.
RolledWrapping(w, now) ==
    IF now < w.start_ms \/ now - w.start_ms >= WindowMs
    THEN [start_ms |-> now, count |-> 0] ELSE w

\* A reading that is a window's length past its start opens a new window; an
\* earlier reading than the start saturates to a difference of 0.
Rolled(w, now) ==
    IF now - w.start_ms >= WindowMs THEN [start_ms |-> now, count |-> 0] ELSE w

\* Mutant of Within: one event too many.
WithinOneMore(w) == w.count <= MaxEvents

Within(w) == w.count < MaxEvents

\* check() under the mutex; a request that is refused is answered 429.
Check(r) ==
    LET c == call[r].key
        now == call[r].now_ms
        w == Rolled(Entry(c, now), now)
    IN /\ call[r].stage = "check"
       /\ call' = [call EXCEPT ![r].stage = "idle", ![r].now_ms = 0]
       /\ \/ /\ Within(w)
             /\ windows' = [windows EXCEPT ![c] = [w EXCEPT !.count = @ + 1]]
             /\ log' = [log EXCEPT ![c] = Append(@, [at |-> clock, now_ms |-> now])]
             /\ UNCHANGED refused
          \/ /\ ~Within(w)
             /\ windows' = [windows EXCEPT ![c] = w]
             /\ refused' = [refused EXCEPT ![c] = now]
             /\ UNCHANGED log
       /\ UNCHANGED clock

Tick ==
    /\ clock < MaxTime
    /\ clock' = clock + 1
    /\ UNCHANGED <<windows, call, log, refused>>

Next ==
    \/ \E r \in Requests : Check(r) \/ \E c \in Clients : ReadClock(r, c)
    \/ Tick

Spec == Init /\ [][Next]_vars

-----------------------------------------------------------------------------
(* Properties.                                                             *)

\* However late a request comes to check() with its reading, a client is admitted
\* at most MaxEvents times for each window's length begun since its first reading:
\* a late reading neither reopens an old window nor opens one too many.
RateSustained ==
    \A c \in Clients :
       log[c] # <<>> =>
          \E begun \in 1 .. clock + 1 :
             /\ Len(log[c]) <= MaxEvents * begun
             /\ log[c][1].now_ms + (begun - 1) * WindowMs <= clock

\* A client is refused (429) only if MaxEvents of its requests were admitted less
\* than a window's length before the reading of the one that is refused: a client
\* that keeps to its limit meets no refusal, not even at the border of two windows.
RefusedJustly ==
    \A c \in Clients :
       refused[c] >= 0 =>
          \E n \in DOMAIN log[c] :
             /\ n >= MaxEvents
             /\ \A i \in n - MaxEvents + 1 .. n : log[c][i].at > refused[c] - WindowMs
=============================================================================
