SPECIFICATION Spec
CONSTANTS
    Debounce = 1
    RESETPULSETIME = 1
    RESETHOLDTIME = 1
    SHUTDOWNHOLDTIME = 2
    ShutoffTriggerDelay = 4
    ForcedShutoffDelay = 5
    ShutdownFinalDelay = 2
    RecycleTime = 8
    HaltsWithin = 5
    MaxStep = 2
INVARIANTS
    LatchKnown
    LedTruth
PROPERTIES
    CutSafely
    AskedOnPurpose
    LowBatteryOff
    LoopGoesOn
