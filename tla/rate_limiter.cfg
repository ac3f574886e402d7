\* Three requests at a time of a client, two events in a window of two units.
CONSTANTS
    r1 = r1  r2 = r2  r3 = r3  a = a  b = b
    Requests = {r1, r2, r3}
    Clients = {a}
    WindowMs = 2
    MaxEvents = 2
    NoWindow = NoWindow
    MaxTime = 4
SPECIFICATION Spec
SYMMETRY Symmetric
INVARIANTS
    TypeOK
    RateSustained
    RefusedJustly
