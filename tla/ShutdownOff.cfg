\* Two threads: the light's button is pressed while signals arrive; the service's
\* log severity (debug) lets both log.  Two signals or exceptions over three
\* processes.
SPECIFICATION ShutdownSpec
CONSTANTS
    MainPump = MainPump
    SWG = SWG
    Lighting = Lighting
    SIGINT = SIGINT
    SIGTERM = SIGTERM
    Ioc = Ioc
    NoThread = NoThread
    Relay <- ThreeRelays
    EquipmentOrder <- ThreeKeys
    Pump <- MainPump
    DependentOrder <- NeedsPump
    Buttons <- LightButton
    Thread <- IocAndLight
    Conditions <- MCWiring
    Pilots <- NoButtons
    LogInfo = TRUE
    Signal <- TwoSignals
    MaxSignals = 2
    MaxStarts = 3
CHECK_DEADLOCK FALSE
INVARIANTS
    OffAtExit
    TruthAcrossStarts
    StopsUnlessLogging
SYMMETRY SameSignals
