\* A handler may be late, daylight saving shifts local time, the clock is corrected by a second.
SPECIFICATION Spec
CONSTANTS
    pump = pump
    swg = swg
    light = light
    unknown = unknown
    File <- MCFile
    NewlineAtEnd = TRUE
    Relay <- ThreeRelays
    Pump <- pump
    Dependents <- JustSwg
    Day <- DayLength
    Soon = 2
    Wrap = 1000
    Late = 1
    BootTimes <- ServedTimes
    LocalShifts <- OneHour
    ShiftTimes <- AtNight
    ClockSteps <- OneSecond
    MaxJumps = 1
    MaxJump = 1
    MaxClock = 60
CHECK_DEADLOCK FALSE
INVARIANTS
    OnInsideWindow
    OffOutsideWindow
    TimersNear
