\* A payment and two resends of one order, two workers, and one rebalance or one failure.
CONSTANTS
    Orders = {o1}
    Confirmations = {c1}
    Resends = {r1, r2}
    Workers = {w1, w2}
    PreWarm = PreWarm
    None = None
    MaxFaults = 1
SPECIFICATION FairMailSpec
INVARIANTS MailTypeOK ResendsPaced CommittedIsHandled
PROPERTIES AnnouncedIsMailed
CHECK_DEADLOCK FALSE
