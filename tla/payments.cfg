\* One request of any kind: no seats, too many, unverified, cold zone, the queue, a hold; webhook and
\* simulator race its expiry on two instances; one call fails or one instance stops.
CONSTANTS
    Servers = {s1, s2}
    OrderIds = {o1}
    Users = {u1, u2}
    Unverified = {u2}
    Zones = {z1}
    Stocks <- TwoSeats
    Quantities <- AllSorts
    None = None
    PreWarm = PreWarm
    MaxFaults = 1
    MaxMoves = 0
    MaxWarmups = 1
    MaxJoins = 1
    MaxOrphan = 2
    Webhooks = {w1}
    Simulations = {m1}
SPECIFICATION Spec
SYMMETRY Interchangeable
INVARIANTS TypeOK Traced OrdersAreReserved ChargeableOrderIsLive AnnouncedOrdersArePaid
PROPERTIES SeatsConserved ImplementsLedger
CHECK_DEADLOCK FALSE
