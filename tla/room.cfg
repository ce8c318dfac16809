\* Two users, three joins that overtake each other (one user joins again); clocks differ by a step.
CONSTANTS
    u1 = u1
    u2 = u2
    Users = {u1, u2}
    Joins = {1, 2, 3}
    Drift = 1
    Horizon = 3
    Before <- ByName
    None = None
SPECIFICATION FairRoomSpec
INVARIANTS RoomTypeOK FairFIFO TurnsInOrder
PROPERTIES EveryoneGetsATurn
CHECK_DEADLOCK FALSE
