\* Conditions that force and abort; the light has no LED; calls log.
SPECIFICATION Spec
CONSTANTS
    MainPump = MainPump
    SWG = SWG
    BoosterPump = BoosterPump
    Lighting = Lighting
    ioc = ioc
    NoThread = NoThread
    Relay <- PoolRelay
    Thread <- OnlyIoc
    Conditions <- AbortConditions
    Pilots <- AllButLighting
    LogInfo = TRUE
INVARIANT StatusTruth
PROPERTIES
    Served
    AbortForcesNoMore
    CallsReturn
