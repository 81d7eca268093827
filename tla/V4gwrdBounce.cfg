SPECIFICATION FairSpec
CONSTANTS
    f1 = f1
    f2 = f2
    m1 = m1
    m2 = m2
    a1 = a1
    a2 = a2
    None = None
    Tools = {"notify"}
    NoIface = NoIface
    Macs <- OneMac
    Ips <- OneIp
    Ifaces <- OneIface
    HasPrefix = TRUE
    UsableSets <- LlOnly
    MaxLines = 1
    MaxLeases = 1
    MaxRefusals = 0
    MayLoseLink = TRUE
    DaemonFirst = TRUE
    MayEnd = FALSE
    MayOmitIface = FALSE
    MayMiss = FALSE
    MayArp = FALSE
    MayFailIo = FALSE
PROPERTY Heals
