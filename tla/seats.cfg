\* Two orders, one of which may be for -2 seats, in a zone warmed up twice, with two seats or with -1.
CONSTANTS
    Servers = {s1}
    OrderIds = {o1, o2}
    Users = {u1}
    Unverified = {}
    Zones = {z1}
    Stocks <- AnyStock
    Quantities <- FourOrAdd
    None = None
    PreWarm = PreWarm
    MaxFaults = 0
    MaxMoves = 0
    MaxWarmups = 2
    MaxJoins = 0
    MaxOrphan = 0
    Webhooks = {w1, w2}
    Simulations = {}
SPECIFICATION Spec
SYMMETRY Interchangeable
INVARIANTS NoOverselling
PROPERTIES SeatsConserved
CHECK_DEADLOCK FALSE
