SPECIFICATION Spec
CONSTANTS
    NPrbs = {1, 2, 3, 7, 12, 50}
    MaxUes = {1, 2, 3, 4}
    Ues <- MCUes
    Batches <- MCBatches
    Precision = 60
INVARIANTS
    Tiling
    StarvedAreLast
    FairUnlessTiny
    BestAreSelected
CHECK_DEADLOCK FALSE
