\* Two requests and a pool of one thread; a global plugin and two routes.
CONSTANTS
    r1 = r1  r2 = r2  plain = plain  two = two
    Requests = {r1, r2}
    Routes <- TwoRoutes
    Global <- OneGlobal
    Own <- OwnOf
    Deadline = 1
    MaxBody = 1
    MaxLength = 2
    PoolSize = 1
    TimeLimit = TRUE
SPECIFICATION FairSpec
CHECK_DEADLOCK FALSE
INVARIANTS
    TypeOK
    Nested
    HooksSeeWholeBody
PROPERTIES
    PhasesEnd
