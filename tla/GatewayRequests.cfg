SPECIFICATION GatewaySpec
CONSTANTS
    Node = {n1, n2}
    Command <- Commands
    Length <- CharsOf
    MAX_ACK_REQUEST_LENGTH = 30
    Capacity = 3
    Byte = 4
INVARIANTS
    SizeTruth
    PromiseKept
PROPERTIES
    FittingArrives
