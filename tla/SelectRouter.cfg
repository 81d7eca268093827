SPECIFICATION Spec
CONSTANTS
    g1 = g1
    g2 = g2
    NoGw = NoGw
    Gws <- MCGws
    Dumps <- MCDumps
INVARIANT SelectsBest
CHECK_DEADLOCK FALSE
