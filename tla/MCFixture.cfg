SPECIFICATION FixtureSpec
CONSTANTS
    SlotsPerFrame = 1
    FrameCycle = 1
    CountMod = 1
    VersionMod = 65536
    NoKey = NoKey
    Junk = Junk
    Versions <- MCVersions
    Stamps <- MCStamps
    Payloads <- MCPayloads
    Scripts <- MCScripts
INVARIANTS
    GoodScriptVerdict
    FaultCascades
    AlwaysRecoverable
PROPERTIES
    RunReturns
