SPECIFICATION AuditSpec
CONSTANTS
    SlotsPerFrame = 3
    FrameCycle = 2
    CountMod = 8
    MaxServed = 20
    Versions <- MCVersions
    Stamps <- MCStamps
    Payloads <- MCPayloads
INVARIANTS
    RunsOnlyConfigured
