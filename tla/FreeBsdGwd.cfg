SPECIFICATION FairSpec
CONSTANTS
    Gws <- MCGws
    NoRoute = NoRoute
    DhcpRoute = DhcpRoute
    Mode = "file"
    Lists <- MCLists
    Statics <- MCStatics
    MaxGen = 2
    MaxFaults = 2
    FastReturn = FALSE
INVARIANT TypeOK
INVARIANT RouteRecorded
INVARIANT CleanStop
INVARIANT RouteFollows
PROPERTY Heals
PROPERTY StopHonoured
PROPERTY SelectsLowest
PROPERTY Follows
