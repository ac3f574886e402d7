\* A request of any kind on either listener, bodies of up to four chunks with a
\* limit of three, a channel of two.
CONSTANTS
    r1 = r1  r2 = r2
    Requests = {r1}
    Fronts = {"h1", "h3"}
    MaxLength = 4
    MaxBody = 3
    Capacity = 2
SPECIFICATION FairSpec
CHECK_DEADLOCK FALSE
INVARIANTS
    TypeOK
    PrefixWithinLimit
    CompleteIsWhole
    ReplaySafe
PROPERTIES
    RetrySucceeds
    BodyEnds
