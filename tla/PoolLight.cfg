\* Only the light's button is pressed: the io_context thread alone operates the
\* pump and its dependents, next to a second thread in the light's relay.
\* The severity is above info: no mutex keeps the threads in step.
SPECIFICATION PoolSpec
CONSTANTS
    MainPump = MainPump
    SWG = SWG
    BoosterPump = BoosterPump
    Lighting = Lighting
    Ioc = Ioc
    NoThread = NoThread
    Relay <- PoolRelay
    Pump <- MainPump
    DependentOrder <- PumpNeeders
    Buttons <- LightButton
    Thread <- IocAndLight
    Conditions <- MCWiring
    Pilots <- PoolRelay
    LogInfo = FALSE
INVARIANTS
    PumpInterlock
    GroupStatusTruth
PROPERTY
    ImplementsInterlock
