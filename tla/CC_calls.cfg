SPECIFICATION Spec
CONSTANTS
    Instructions = {1, 2}
    CacheIntervals = 1
    MaxContents = 6
    MaxInvocations = 3
    MaxCaches = 2
INVARIANTS RequestWhole MetadataTrue
CHECK_DEADLOCK FALSE
