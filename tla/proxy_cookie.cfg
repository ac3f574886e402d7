\* Three requests, an origin that begins to set a cookie.
CONSTANTS
    k1 = k1  r1 = r1  r2 = r2  r3 = r3
    Requests = {r1, r2, r3}
    Keys = {k1}
    Kinds <- Plain
    Policies <- PublicOrCookie
    BodySizes = {1}
    CacheMaxBody = 1
    HasTimeout = TRUE
    DefaultTtl = 1
    MaxVersion = 2
    MaxTime = 1
SPECIFICATION Spec
CHECK_DEADLOCK FALSE
SYMMETRY Symmetric
INVARIANTS
    CookiesNotShared
