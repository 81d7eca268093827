SPECIFICATION Spec
CONSTANTS
    e1 = e1
    e2 = e2
    g1 = g1
    g2 = g2
    NoGw = NoGw
    NoIface = NoIface
    NoRoute = NoRoute
    Gws <- MCGws
    Ifaces <- TwoIfaces
    RouterLists <- ListsOfTwo
    NudSeen <- MCNudTwo
    RequireSentinel = TRUE
    AutoIfaces = TRUE
    MaxGen = 2
    FastReturn = TRUE
    MayRefuse = FALSE
    MayCrash = FALSE
    MayStop = TRUE
INVARIANT RecordsCurrent
INVARIANT OwnedRouteRecorded
INVARIANT RouteIsWanted
INVARIANT LinkScoped
INVARIANT CleanStop
PROPERTY Follows
