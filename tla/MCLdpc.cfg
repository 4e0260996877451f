SPECIFICATION CodesSpec
CONSTANTS
    BaseGraphs <- MCBaseGraphs
    Params <- MCParams
    Words <- MCWords
    Damages <- MCDamages
    CompactParams <- MCCompactParams
    CompactWords <- MCCompactWords
INVARIANTS
    EncodedIsCodeword
    SolvesUnlessCut
    SyndromesAgree
    ReturnsSent
CHECK_DEADLOCK FALSE
