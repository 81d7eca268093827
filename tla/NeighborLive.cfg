SPECIFICATION FairSpec
CONSTANTS
    Gws = {"g1", "g2"}
    NoGw = NoGw
    Macs = {"m1", "m2", "m3"}
    NoMac = NoMac
    Nets <- MCNets
    NoNet = NoNet
    Keys = {"k1"}
    NoKey = NoKey
    OwnMac <- OneOwnMac
    Lladdrs <- TwoLladdrs
    RouteLists <- TwoLists
    NoEntry = NoEntry
    Oses = {"macos", "windows", "powershell", "linux"}
    Gate = "none"
    MaxMoves = 1
    MaxFaults = 1
PROPERTY Heals
PROPERTY CacheCorrected
PROPERTY Settles
PROPERTY StopHonoured
