\* Two calls at a time, two targets, an endless prober; the counter starts over at
\* a number the count does not divide, as 2^64 is for three targets.
CONSTANTS
    c1 = c1  c2 = c2
    Callers = {c1, c2}
    Count = 2
    Wrap = 5
SPECIFICATION FairSpec
INVARIANTS
    FallbackExcused
PROPERTIES
    HealthFollows
