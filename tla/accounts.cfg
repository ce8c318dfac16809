\* Four requests on one address overlap, codes lapse, and one call fails.
CONSTANTS
    Requests = {r1, r2, r3, r4}
    Passwords = {p1, p2}
    Roles = {"USER", "ADMIN"}
    None = None
    MaxFaults = 1
SPECIFICATION AccountSpec
SYMMETRY Interchangeable
INVARIANTS AccountTypeOK TokensAreForVerified CodeStaysGood AdminChangeHolds
PROPERTIES VerifiedStays
CHECK_DEADLOCK FALSE
