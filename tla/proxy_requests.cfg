\* Two requests of all kinds, responses within and above the limit, and errors, of an
\* origin that may never answer.
CONSTANTS
    k1 = k1  r1 = r1  r2 = r2  r3 = r3
    Requests = {r1, r2}
    Keys = {k1}
    Kinds <- Assorted
    Policies <- PublicOrFailing
    BodySizes = {1, 2}
    CacheMaxBody = 1
    HasTimeout = TRUE
    DefaultTtl = 1
    MaxVersion = 2
    MaxTime = 1
SPECIFICATION FairSpec
CHECK_DEADLOCK FALSE
INVARIANTS
    TypeOK
    StoredWhole
    RejectedNeverForwarded
PROPERTIES
    OnlySilentBodiesHang
