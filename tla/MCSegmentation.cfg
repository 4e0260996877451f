SPECIFICATION Spec
CONSTANTS
    Sizes <- AllSizes
    Bounds = {2, 40, 41, 64, 640, 3840, 4000, 8448}
    Rates = {25, 67, 90}
    MaxParts = 4
INVARIANTS
    Partition
    AllOrNothing
    EncoderAccepts
    RoundTrip
CHECK_DEADLOCK FALSE
