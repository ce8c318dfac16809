\* Two admin requests that overlap each other and a reader; one call fails.
CONSTANTS
    Slugs = {a, b}
    Latest = Latest
    Limits = {1, 2}
    Flags = {FALSE, None}
    Admins = {a1, a2}
    Readers = {r1}
    None = None
    MaxFaults = 1
SPECIFICATION FairNewsSpec
INVARIANTS NewsTypeOK SlugsUnique StaleOnlyByOverlap
PROPERTIES SlugCacheConverges
CHECK_DEADLOCK FALSE
