SPECIFICATION GateSpec
CONSTANTS
    MaxVersion = 3
    MaxRuns = 3
INVARIANTS
    PassIsHonest
