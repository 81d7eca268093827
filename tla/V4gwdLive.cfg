SPECIFICATION FairSpec
CONSTANTS
    e1 = e1
    e2 = e2
    g1 = g1
    g2 = g2
    NoGw = NoGw
    NoIface = NoIface
    NoRoute = NoRoute
    Gws <- MCGws
    Ifaces <- OneIface
    RouterLists <- ListsOfOne
    NudSeen <- MCNudLive
    RequireSentinel = TRUE
    AutoIfaces = TRUE
    MaxGen = 2
    FastReturn = FALSE
    MayRefuse = TRUE
    MayCrash = TRUE
    MayStop = TRUE
INVARIANT TypeOK
INVARIANT ClaimsAreTrue
PROPERTY Settles
PROPERTY StopHonoured
