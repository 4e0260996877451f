SPECIFICATION Spec
CONSTANTS
    Configs <- AllConfigs
    Codewords <- MCCodewords
    Rvs <- MCRvs
    Mags = {1, 3}
    MaxTx = 2
INVARIANTS
    Aligned
    SentIsRecovered
    NothingLost
    RvsDiffer
