SPECIFICATION Spec
CONSTANTS
    f1 = f1
    f2 = f2
    m1 = m1
    m2 = m2
    a1 = a1
    a2 = a2
    None = None
    Tools = {"notify", "hook"}
    NoIface = NoIface
    Macs <- TwoMacs
    Ips <- TwoIps
    Ifaces <- OneIface
    HasPrefix = FALSE
    UsableSets <- LlAndGua
    MaxLines = 1
    MaxLeases = 2
    MaxRefusals = 1
    MayLoseLink = TRUE
    DaemonFirst = TRUE
    MayEnd = FALSE
    MayOmitIface = TRUE
    MayMiss = FALSE
    MayArp = TRUE
    MayFailIo = FALSE
INVARIANT RouteHasRecord
INVARIANT NoArpEntry
SYMMETRY SymHosts
