SPECIFICATION Spec
CONSTANTS
    Processes = {p1, p2}
    Links <- MCLinks
    Rvs = {0, 2}
    SizeOf <- MCSizeOf
    MaxBlock = 5
    MaxTx = 3
SYMMETRY ProcessSymmetry
INVARIANTS
    OneBlock
    NeverThrows
    SizesAgree
    EveryDeliveryCounts
