\* One operator, two domains, three commands, and a server that is restarted at any
\* time.
CONSTANTS
    a = a  b = b  app1 = app1  fpm1 = fpm1  origin = origin  o1 = o1  o2 = o2
    None = None  Absent = Absent
    Operators = {o1}
    Sorted <- InOrder
    Local = {b}
    Layout <- Laid
    Apps = {app1}
    Fpms = {fpm1}
    HandWritten <- ByHand
    Options <- SomeFlags
    Configs <- SomeConfigs
    Paths <- AllPaths
    MaxCommands = 3
SPECIFICATION FairSpec
CHECK_DEADLOCK FALSE
INVARIANTS
    TypeOK
    SitesAsAsked
    SitesServed
    EveryRouteServes
    RoutedBySegments
PROPERTIES
    UpAgain
