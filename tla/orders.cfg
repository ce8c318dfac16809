\* One order from its request to its end: a webhook, one rebalance, and one call that
\* fails or one instance that crashes or shuts down.
CONSTANTS
    Servers = {s1, s2}
    OrderIds = {o1}
    Users = {u1}
    Unverified = {}
    Zones = {z1}
    Stocks <- TwoSeats
    Quantities <- TwoOrAdd
    None = None
    PreWarm = PreWarm
    MaxFaults = 1
    MaxMoves = 1
    MaxWarmups = 1
    MaxJoins = 0
    MaxOrphan = 0
    Webhooks = {w1}
    Simulations = {}
SPECIFICATION FairSpec
INVARIANTS PendingIsTimed NoSeatsForgotten
PROPERTIES Lifecycle SeatsSettle TopicDrained
CHECK_DEADLOCK FALSE
