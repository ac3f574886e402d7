\* Two HTTPS handshakes, three certificates, a failure or a crash, equal modification times.
CONSTANTS
    s1 = s1  s2 = s2
    Handshakes = {s1, s2}
    ListenerOf <- BothOnH1
    MtimeTies = TRUE
    MaxOrders = 3
    MaxFailures = 1
SPECIFICATION FairSpec
CHECK_DEADLOCK FALSE
INVARIANTS
    TypeOK
    NoOldCertServed
    ChallengeAnswered
PROPERTIES
    RenewedEventually
