\* SetOrderExpiry fails, or the instance dies before it: a row without a timer.
CONSTANTS
    Servers = {s1, s2}
    OrderIds = {o1}
    Users = {u1}
    Unverified = {}
    Zones = {z1}
    Stocks <- TwoSeats
    Quantities = {2}
    None = None
    PreWarm = PreWarm
    MaxFaults = 1
    MaxMoves = 0
    MaxWarmups = 1
    MaxJoins = 0
    MaxOrphan = 0
    Webhooks = {w1}
    Simulations = {}
SPECIFICATION Spec
SYMMETRY Interchangeable
INVARIANTS RowsInLockstep
CHECK_DEADLOCK FALSE
