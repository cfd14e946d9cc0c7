\* A button with each kind of intervals.
SPECIFICATION ButtonSpec
CONSTANTS
    Intervals <- AllIntervals
    Cap = 4
    MaxFlips = 4
    MaxStarts = 2
    QuietStart = TRUE
INVARIANTS
    NoLostEdge
PROPERTIES
    CallbacksAlternate
    CoveredSettles
    EdgeReported
    StopReturns
