SPECIFICATION Spec
CONSTANTS
    Gws <- MCGws
    NoRoute = NoRoute
    DhcpRoute = DhcpRoute
    Mode = "file"
    Lists <- ListsReserved
    Statics <- MCStatics
    MaxGen = 2
    MaxFaults = 1
    FastReturn = FALSE
PROPERTY ReservedIgnored
