CONSTANTS
    Threads = 3
    Configs <- MCConfigs
    Delays <- MCDelays
    Disturbances <- MCDisturbances
SPECIFICATION Spec
CHECK_DEADLOCK FALSE
INVARIANTS
    KernelsMirror
    BitsSurvive
    DemodulatorsAgree
    FftIsDft
    FollowsPilots
    EqualizerSolves
