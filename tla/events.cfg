\* Three admin requests on an event of two zones overlap while seats are sold; one call fails.
CONSTANTS
    Zones = {z1, z2}
    Sizes = {1, 2}
    Stocks <- BelowZero
    Statuses = {"UPCOMING", "LIVE"}
    Admins = {a1, a2, a3}
    None = None
    MaxFaults = 1
SPECIFICATION EventSpec
SYMMETRY Interchangeable
INVARIANTS EventTypeOK StockFollowsTable SuccessMeansOnSale StatusMirrored
CHECK_DEADLOCK FALSE
