\* A handshake reads the files in the middle of a renewal.
CONSTANTS
    s1 = s1  s2 = s2
    Handshakes = {s1}
    ListenerOf <- OneOnH1
    MtimeTies = FALSE
    MaxOrders = 2
    MaxFailures = 0
SPECIFICATION Spec
CHECK_DEADLOCK FALSE
INVARIANTS
    CachedPairMatches
