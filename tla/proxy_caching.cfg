\* Three requests on both front ends, one of them with credentials, and two versions
\* of a response that may be public, private, a variant or an error.
CONSTANTS
    k1 = k1  r1 = r1  r2 = r2  r3 = r3
    Requests = {r1, r2, r3}
    Keys = {k1}
    Kinds <- WithCredentials
    Policies <- NotAllPublic
    BodySizes = {1}
    CacheMaxBody = 1
    HasTimeout = TRUE
    DefaultTtl = 1
    MaxVersion = 2
    MaxTime = 1
SPECIFICATION Spec
CHECK_DEADLOCK FALSE
SYMMETRY Symmetric
INVARIANTS
    HitsJustified
    SharedIsPublic
