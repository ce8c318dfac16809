\* A reservation of -2 seats is paid, and four seats of a zone warmed up with two are sold.
CONSTANTS
    Servers = {s1}
    OrderIds = {o1, o2}
    Users = {u1}
    Unverified = {}
    Zones = {z1}
    Stocks <- TwoSeats
    Quantities <- FourOrAdd
    None = None
    PreWarm = PreWarm
    MaxFaults = 0
    MaxMoves = 0
    MaxWarmups = 1
    MaxJoins = 0
    MaxOrphan = 0
    Webhooks = {w1}
    Simulations = {}
SPECIFICATION Spec
SYMMETRY Interchangeable
INVARIANTS ZeroOverselling
CHECK_DEADLOCK FALSE
