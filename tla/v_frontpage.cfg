\* A reader stores the front page it read before an admin's write, after the DEL.
CONSTANTS
    Slugs = {a}
    Latest = Latest
    Limits = {2}
    Flags = {None}
    Admins = {a1}
    Readers = {r1}
    None = None
    MaxFaults = 0
SPECIFICATION FairNewsSpec
PROPERTIES FrontPageConverges
CHECK_DEADLOCK FALSE
