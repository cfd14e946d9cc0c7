\* One node and others that main() does not know, two rounds, one repetition; a
\* line and a greeting fit on the way.
SPECIFICATION Spec
CONSTANTS
    Node = {n790}
    Sends <- WaterAndCase
    Sensors <- TwoSensors
    Retries = 1
    MaxRound = 2
    Room = 5
INVARIANTS
    SamplesSent
PROPERTIES
    NeverOlder
    OwnLinesHarmless
    AckedShown
