SPECIFICATION Spec
CONSTANTS
    Gws = {"g1"}
    NoGw = NoGw
    Macs = {"m1", "m2"}
    NoMac = NoMac
    Nets <- MCNets
    NoNet = NoNet
    Keys = {"k1", "k2"}
    NoKey = NoKey
    OwnMac <- OwnMacEach
    Lladdrs <- OneLladdrs
    RouteLists <- OneLists
    NoEntry = NoEntry
    Oses = {"macos", "windows", "powershell", "linux"}
    Gate = "fib"
    MaxMoves = 2
    MaxFaults = 1
INVARIANT TypeOK
INVARIANT PinRecorded
INVARIANT CleanStop
INVARIANT RestsRight
PROPERTY Follows
INVARIANT CacheTrue
INVARIANT NoStaleMac
