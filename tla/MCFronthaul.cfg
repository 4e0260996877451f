SPECIFICATION Spec
CONSTANTS
    Levels = 2
    Period = 9
    Impairments <- MCImpairments
    Streams <- MCStreams
    Batches <- MCBatches
    MaxCalls = 2
INVARIANTS
    Conserved
    FewRuns
    FateRepeats
CHECK_DEADLOCK FALSE
