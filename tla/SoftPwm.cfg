SPECIFICATION Spec
CONSTANTS
    p1 = p1
    p2 = p2
    NoThread = NoThread
    Pin <- TwoPins
    Classes <- SoftAndRelay
    Ranges = {1, 2}
    Ratios = {0, 1, 2}
    DefaultRange <- OneTwo
INVARIANTS
    EndsOnlyWhenTold
    FunctionKept
PROPERTIES
    CallsReturn
    GoesDark
