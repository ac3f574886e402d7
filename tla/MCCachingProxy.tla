--------------------------- MODULE MCCachingProxy ---------------------------
(* Instances of CachingProxy: kinds of requests and of responses.           *)
EXTENDS CachingProxy, TLC

CONSTANTS k1, r1, r2, r3

Public   == [status |-> 200, maxAge |-> 1, private |-> FALSE, cookie |-> FALSE,
             vary |-> FALSE, etag |-> TRUE]
Varying  == [Public EXCEPT !.vary = TRUE]
Cookie   == [Public EXCEPT !.cookie = TRUE]
Private  == [Public EXCEPT !.private = TRUE]
Failing  == [Public EXCEPT !.status = 500]

PublicOrFailing == {Public, Failing}
NotAllPublic    == {Public, Varying, Private, Failing}
PublicOrCookie  == {Public, Cookie}

\* Cacheable requests that reach the cache.
PlainH1 == [front |-> "h1", cacheable |-> TRUE, flags |-> {}]
PlainH3 == [front |-> "h3", cacheable |-> TRUE, flags |-> {}]
Plain   == {PlainH1, PlainH3}

\* The same, and one with credentials.
WithCredentials == Plain \cup {[PlainH1 EXCEPT !.cacheable = FALSE]}

\* Combinations of conditions that one request can meet.
Possible(kind) ==
    /\ kind.front = "h1" => "early" \notin kind.flags
    /\ kind.front = "h3" => "limited" \notin kind.flags
    /\ "early" \in kind.flags => ~kind.cacheable
    /\ "unrouted" \in kind.flags => kind.flags \cap {"static", "plugin"} = {}

\* Plain requests, and uncacheable ones that meet a condition, on a plain route
\* or on one with plugins.
Condition == {{f, g} : f \in {"denied", "limited", "early", "large", "unbuffered",
                              "static", "plugin", "unrouted"}, g \in {"plugin"}}
             \cup {{"denied"}, {"limited"}, {"early"}, {"large"}, {"unrouted"}}

Assorted == Plain \cup
    {kind \in Kind : Possible(kind) /\ ~kind.cacheable /\ kind.flags \in Condition}

Symmetric == Permutations(Requests)
=============================================================================
