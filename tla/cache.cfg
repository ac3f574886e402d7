\* Two threads, three keys, two of them with one file name, room for one entry.
CONSTANTS
    k1 = k1  k2 = k2  k3 = k3  p1 = p1  p2 = p2  t1 = t1  t2 = t2
    Keys = {k1, k2, k3}
    Threads = {t1, t2}
    Paths = {p1, p2}
    HashOf <- TwoFiles
    MaxEntries = 1
    DiskEnabled = TRUE
    TicksPerSecond = 2
    Ttls = {1}
    MaxTime = 1
    MaxPuts = 2
SPECIFICATION Spec
SYMMETRY Symmetric
INVARIANTS
    TypeOK
    MemoryBounded
    EntriesGenuine
    LookupHonest
    OverrunCounted
    TornOnlyIfShared
PROPERTIES
    ImplementsContract
