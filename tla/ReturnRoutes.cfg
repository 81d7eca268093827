SPECIFICATION Spec
CONSTANTS
    f1 = f1
    f2 = f2
    m1 = m1
    m2 = m2
    a1 = a1
    a2 = a2
    None = None
    Tools = {"notify", "hook"}
    NoIface = NoIface
    Macs <- TwoMacs
    Ips <- OneIp
    Ifaces <- TwoIfaces
    HasPrefix = TRUE
    UsableSets <- LlThenGua
    MaxLines = 3
    MaxLeases = 1
    MaxRefusals = 0
    MayLoseLink = FALSE
    DaemonFirst = TRUE
    MayEnd = FALSE
    MayOmitIface = FALSE
    MayMiss = FALSE
    MayArp = FALSE
    MayFailIo = FALSE
INVARIANT TypeOK
INVARIANT RecordsAreLeases
INVARIANT RoutesFollow
INVARIANT RouteReachesLessee
INVARIANT NoRouteWithoutLease
SYMMETRY SymRoam
