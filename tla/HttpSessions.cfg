\* Two clients, the pump, a dependent with its button and a sensor; connections
\* and requests without limit.
SPECIFICATION Spec
CONSTANTS
    MainPump = MainPump
    SWG = SWG
    Controller = Controller
    zero = zero
    warm = warm
    c1 = c1
    c2 = c2
    Unknown = Unknown
    Io = Io
    Client <- TwoClients
    Relay <- TwoRelays
    Sensor <- OneSensor
    Order <- MapOrder
    Pump = MainPump
    Dependents <- OneDependent
    Buttons <- OneButton
    Planned <- PumpOff
    Requests <- OneEachKind
    Reading <- TwoReadings
    NoReading = zero
PROPERTIES
    AnswersTrue
    SilentClientsGo
    RequestsTaken
