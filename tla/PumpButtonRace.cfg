\* The pump button is pressed while the io_context thread serves a request.
SPECIFICATION PoolSpec
CONSTANTS
    MainPump = MainPump
    SWG = SWG
    BoosterPump = BoosterPump
    Lighting = Lighting
    Ioc = Ioc
    NoThread = NoThread
    Relay <- PoolRelay
    Pump <- MainPump
    DependentOrder <- PumpNeeders
    Buttons <- PumpButton
    Thread <- IocAndPump
    Conditions <- MCWiring
    Pilots <- PoolRelay
    LogInfo = TRUE
INVARIANT PumpInterlockAtRest
