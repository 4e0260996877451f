SPECIFICATION CrcSpec
CONSTANTS
    Specs <- MCSpecs
    MaxPayload = 7
    MaxSpan = 7
INVARIANTS
    CleanPasses
    BurstCaught
CHECK_DEADLOCK FALSE
