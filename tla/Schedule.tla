------------------------------ MODULE Schedule ------------------------------
(***************************************************************************)
(* The daily schedule (PoolSmartz/src/Schedule.h, Schedule.cpp): the file  *)
(* it is read from, one timer per scheduled entry, which alternates        *)
(* between StartEquipment and StopEquipment, and CalcStartStopTimes, which *)
(* decides from the local time of day when the next start and stop are     *)
(* due.                                                                    *)
(*                                                                         *)
(* Time is counted in seconds of the wall clock.  The timers are           *)
(* system_timers: an expiry is a point of the wall clock (UTC); the        *)
(* calculation is done in local time.  The difference `after` of two       *)
(* points goes through `unsigned long`, which has 32 bits on the target.   *)
(*                                                                         *)
(* All handlers run on the io_context thread, one at a time, so a call of  *)
(* SwitchOn or SwitchOff is one step here, with what its conditions force  *)
(* (see RelaySwitcher).  A line whose times are no times, or that has      *)
(* blanks where the stop time should be, makes the constructor throw and   *)
(* the program end before anything is scheduled; no File holds one.        *)
(***************************************************************************)
EXTENDS Integers, Sequences, Functions

CONSTANTS
    File,         \* the lines of the schedule file: their kind, id, start and stop
    NewlineAtEnd, \* its last line ends with a newline
    Pump,         \* the relay its dependents need
    Dependents,
    Relay,
    Day,          \* seconds of a day: 86400
    Soon,         \* the delay of a start in the middle of a window: 5
    Wrap,         \* 2^32: unsigned long counts modulo Wrap
    Late,         \* bound: how many seconds a due handler may have to wait
    BootTimes,    \* the local times of day at which the program is started
    LocalShifts,  \* changes of the offset of local time (daylight saving)
    ShiftTimes,   \* the local times of day at which they happen
    ClockSteps,   \* corrections of the wall clock (forward)
    MaxJumps,     \* bound: shifts and corrections in a behaviour
    MaxJump,      \* bound: the longest of them
    MaxClock      \* bound: the wall clock's last second

ASSUME DayAssumption   == Day \in Nat /\ Soon \in 0 .. Day - 1 /\ Late \in 0 .. Day - 1
ASSUME WrapAssumption  == Wrap \in Nat /\ Wrap > 4 * Day
ASSUME FileAssumption ==
    /\ NewlineAtEnd \in BOOLEAN
    /\ \A i \in DOMAIN File :
           /\ File[i].kind \in {"comment", "one word", "manual", "no stop", "window"}
           /\ File[i].kind = "window" => {File[i].start, File[i].stop} \subseteq 0 .. Day - 1
ASSUME ScheduleRelayAssumption == Pump \in Relay /\ Dependents \subseteq Relay \ {Pump}
ASSUME JumpAssumption ==
    /\ MaxJumps \in Nat /\ MaxJump \in Nat /\ MaxJumps * MaxJump <= Day
    /\ LocalShifts \subseteq -MaxJump .. MaxJump /\ ClockSteps \subseteq 0 .. MaxJump

-----------------------------------------------------------------------------
(***************************************************************************)
(* The schedule file.  Comments, lines of one word and ids that are no     *)
(* equipment's are passed over.  A line with a start and no stop ends the  *)
(* reading, and the constructor ignores that it did; a last line without a *)
(* newline meets eof() and is not looked at.                               *)
(***************************************************************************)
ParseFile(i) ==
    /\ NewlineAtEnd \/ i # Len(File)
    /\ \A j \in 1 .. i : File[j].kind # "no stop"
    /\ File[i].kind \in {"manual", "window"} /\ File[i].id \in Relay

\* An entry is known by the number of its line.
schedules_ == {i \in DOMAIN File : ParseFile(i)}

\* RunSchedule skips the manual ones.
Entry      == {e \in schedules_ : File[e].kind = "window"}
RelayOf(e) == File[e].id
StartAt(e) == File[e].start
StopAt(e)  == File[e].stop   \* as the file gives it

VARIABLES
    clock,    \* the wall clock (UTC)
    offset,   \* local time is clock + offset
    up,       \* the program runs
    plan,     \* plan[e]: stop_time_of_day and the next start and stop, local
    timer,    \* timer[e]: what btimer waits for and when it expires, UTC
    on,       \* the relays that are on
    byHand,   \* ghost: relays whose level a person changed since their last timer
    tooLate,  \* ghost: relays that a start just after its own stop switched since then
    jumps     \* how many times the time jumped

vars == <<clock, offset, up, plan, timer, on, byHand, tooLate, jumps>>

-----------------------------------------------------------------------------
Local     == clock + offset
TimeOfDay == Local % Day
Today     == Local - TimeOfDay

\* Slips of CalcStartStopTimes: no day is added, the case of a start in the middle
\* of a window is missing.
CalcNoMidnight(e, stopOfDay) ==
    LET At(start, stopDate) == [stopOfDay |-> stopOfDay, start |-> start, stop |-> stopDate]
    IN  IF StartAt(e) < TimeOfDay /\ stopOfDay > TimeOfDay
          THEN At(Local + Soon, Today + stopOfDay)
        ELSE IF StartAt(e) > TimeOfDay
          THEN At(Today + StartAt(e), Today + stopOfDay)
        ELSE At(Today + StartAt(e) + Day, Today + stopOfDay + Day)

CalcNotNow(e, stopOfDay) ==
    LET stop == IF stopOfDay < StartAt(e) THEN stopOfDay + Day ELSE stopOfDay
        day  == IF StartAt(e) > TimeOfDay THEN Today ELSE Today + Day
    IN  [stopOfDay |-> stop, start |-> day + StartAt(e), stop |-> day + stop]

(***************************************************************************)
(* CalcStartStopTimes.  A stop time before the start time is moved one day *)
(* on, once: stop_time_of_day keeps the moved value.                       *)
(***************************************************************************)
Calc(e, stopOfDay) ==
    LET stop == IF stopOfDay < StartAt(e) THEN stopOfDay + Day ELSE stopOfDay
        At(start, stopDate) == [stopOfDay |-> stop, start |-> start, stop |-> stopDate]
    IN  IF StartAt(e) < TimeOfDay /\ stop > TimeOfDay
          THEN At(Local + Soon, Today + stop)
        ELSE IF StartAt(e) > TimeOfDay
          THEN At(Today + StartAt(e), Today + stop)
        ELSE At(Today + StartAt(e) + Day, Today + stop + Day)

\* StartAfter() and StopAfter() are unsigned; a date in the past wraps.
After(date) == (date - Local) % Wrap

Wait(waits, date) == [waits |-> waits, expiry |-> clock + After(date)]

\* SwitchOn and SwitchOff with the conditions that main() sets.
SwitchedOn(r)  == on \cup {r} \cup (IF r \in Dependents THEN {Pump} ELSE {})
SwitchedOff(r) == on \ ({r} \cup (IF r = Pump THEN Dependents ELSE {}))

Due(e) == timer[e].waits # "none" /\ timer[e].expiry <= clock

Init ==
    /\ clock \in Day .. 2 * Day - 1
    /\ offset = 0
    /\ up = FALSE
    /\ plan = [e \in Entry |-> [stopOfDay |-> StopAt(e), start |-> 0, stop |-> 0]]
    /\ timer = [e \in Entry |-> [waits |-> "none", expiry |-> 0]]
    /\ on = {}
    /\ byHand = {} /\ tooLate = {}
    /\ jumps = 0

\* main() reads the file and calls RunSchedule.
RunSchedule ==
    /\ ~up /\ TimeOfDay \in BootTimes
    /\ up' = TRUE
    /\ plan' = [e \in Entry |-> Calc(e, StopAt(e))]
    /\ timer' = [e \in Entry |-> Wait("start", Calc(e, StopAt(e)).start)]
    /\ UNCHANGED <<clock, offset, on, byHand, tooLate, jumps>>

StartEquipment(e) ==
    /\ Due(e) /\ timer[e].waits = "start"
    /\ on' = SwitchedOn(RelayOf(e))
    /\ timer' = [timer EXCEPT ![e] = Wait("stop", plan[e].stop)]
    /\ byHand' = byHand \ {RelayOf(e)}
    /\ tooLate' = IF Local - plan[e].stop \in 0 .. Soon + Late
                  THEN tooLate \cup {RelayOf(e)} \cup (on' \ on)
                  ELSE tooLate \ {RelayOf(e)}
    /\ UNCHANGED <<clock, offset, up, plan, jumps>>

\* Slip: the times are not calculated again.
StopAndRepeat(e) ==
    /\ Due(e) /\ timer[e].waits = "stop"
    /\ on' = SwitchedOff(RelayOf(e))
    /\ timer' = [timer EXCEPT ![e] = Wait("start", plan[e].start)]
    /\ byHand' = byHand \ {RelayOf(e)} /\ tooLate' = tooLate \ {RelayOf(e)}
    /\ UNCHANGED <<clock, offset, up, plan, jumps>>

StopEquipment(e) ==
    /\ Due(e) /\ timer[e].waits = "stop"
    /\ on' = SwitchedOff(RelayOf(e))
    /\ plan' = [plan EXCEPT ![e] = Calc(e, plan[e].stopOfDay)]
    /\ timer' = [timer EXCEPT ![e] = Wait("start", Calc(e, plan[e].stopOfDay).start)]
    /\ byHand' = byHand \ {RelayOf(e)} /\ tooLate' = tooLate \ {RelayOf(e)}
    /\ UNCHANGED <<clock, offset, up, jumps>>

\* A request over HTTP or a push button; the timers know nothing of it.
SwitchByHand(r) ==
    /\ up
    /\ on' \in {SwitchedOn(r), SwitchedOff(r)}
    /\ byHand' = byHand \cup {r} \cup (on \ on') \cup (on' \ on)
    /\ UNCHANGED <<clock, offset, up, plan, timer, tooLate, jumps>>

\* The signal handler switches everything off and ends the program.
Terminate ==
    /\ up
    /\ up' = FALSE
    /\ on' = {} /\ byHand' = {} /\ tooLate' = {}
    /\ timer' = [e \in Entry |-> [waits |-> "none", expiry |-> 0]]
    /\ UNCHANGED <<clock, offset, plan, jumps>>

\* A second passes; the io_context thread is at most Late seconds behind.
Tick ==
    /\ clock < MaxClock
    /\ \A e \in Entry : timer[e].waits # "none" => clock < timer[e].expiry + Late
    /\ clock' = clock + 1
    /\ UNCHANGED <<offset, up, plan, timer, on, byHand, tooLate, jumps>>

\* Daylight saving begins or ends: local time moves, the wall clock does not.
ShiftLocal(d) ==
    /\ jumps < MaxJumps /\ TimeOfDay \in ShiftTimes
    /\ offset' = offset + d
    /\ jumps' = jumps + 1
    /\ UNCHANGED <<clock, up, plan, timer, on, byHand, tooLate>>

\* A board without a battery-backed clock gets the time from the network
\* after it has booted: the wall clock moves forward.
StepClock(d) ==
    /\ jumps < MaxJumps
    /\ clock + d <= MaxClock
    /\ clock' = clock + d
    /\ jumps' = jumps + 1
    /\ UNCHANGED <<offset, up, plan, timer, on, byHand, tooLate>>

Next ==
    \/ RunSchedule
    \/ \E e \in Entry : StartEquipment(e) \/ StopEquipment(e)
    \/ \E r \in Relay : SwitchByHand(r)
    \/ Terminate
    \/ Tick
    \/ \E d \in LocalShifts : ShiftLocal(d)
    \/ \E d \in ClockSteps : StepClock(d)

Spec == Init /\ [][Next]_vars

-----------------------------------------------------------------------------
(***************************************************************************)
(* Properties.                                                             *)
(***************************************************************************)
\* The windows that the file asks for.
Windows == {line \in Range(File) : line.kind = "window" /\ line.id \in Relay}

InWindow(line) ==
    IF line.stop < line.start
      THEN TimeOfDay >= line.start \/ TimeOfDay < line.stop
      ELSE TimeOfDay >= line.start /\ TimeOfDay < line.stop

Settled == up /\ \A e \in Entry : ~Due(e)
StartsSoon(r) ==
    \E e \in Entry : RelayOf(e) = r /\ timer[e].waits = "start" /\ timer[e].expiry <= clock + Soon

\* "Start/stop equipment. Specify time in 24 hr format" (schedule.txt:5):
\* within every window of the file the relay is on, unless the program has just
\* been started, somebody switched the relay by hand, the time has jumped, or
\* the program was started in the last seconds of a window (no stop comes then).
OnInsideWindow ==
    \A line \in Windows :
        Settled /\ jumps = 0 /\ InWindow(line) /\ ~StartsSoon(line.id)
            /\ line.id \notin byHand \cup tooLate =>
            line.id \in on

\* Started when as good as nothing of its window was left, or a window as short
\* as a handler may be late: the stop lies in the past, and the difference wraps.
Stranded(e) ==
    /\ timer[e].waits = "stop"
    /\ plan[e].stop - plan[e].start \in -Soon .. Late + MaxJumps * MaxJump - 1

\* The relays that the file wants on now, with the pump they force.
Wanted ==
    LET direct == {line.id : line \in {w \in Windows : InWindow(w)}} IN
    direct \cup (IF direct \cap Dependents # {} THEN {Pump} ELSE {})

\* Outside of every window that wants it a relay is off, unless somebody
\* switched it on by hand, the time has jumped, or the program was started in
\* the last seconds of a window.
OffOutsideWindow == Settled /\ jumps = 0 => on \subseteq Wanted \cup byHand \cup tooLate

(***************************************************************************)
(* What OnInsideWindow and OffOutsideWindow take for granted of the file   *)
(* and of the starts of the program, as schedule.txt gives it:             *)
(***************************************************************************)
\* the stop of a window, counted from the midnight before its start
Until(e) == IF StopAt(e) < StartAt(e) THEN StopAt(e) + Day ELSE StopAt(e)

\* a relay has one window, and every window is read;
OneWindow == /\ \A e, f \in Entry : RelayOf(e) = RelayOf(f) => e = f
             /\ Windows \subseteq {File[e] : e \in Entry}

\* the pump's window covers its dependents';
PumpCovers ==
    \A d \in Entry : RelayOf(d) \in Dependents =>
        \E p \in Entry, k \in {0, Day} :
            /\ RelayOf(p) = Pump
            /\ StartAt(p) <= StartAt(d) + k /\ Until(d) + k <= Until(p)

\* a handler that is late still falls into the window, or before the next;
LongWindows ==
    \A e \in Entry : /\ Until(e) - StartAt(e) > Soon + Late
                     /\ Until(e) + Late < StartAt(e) + Day

\* no start of the program in the second that a window opens, or in its part
\* after midnight: such a window is left out.
ServedStarts ==
    \A e \in Entry, t \in BootTimes :
        /\ t # StartAt(e)
        /\ StopAt(e) < StartAt(e) => t >= StopAt(e)

\* The clock does not run for 2^32 seconds.
Ordinary == /\ OneWindow /\ PumpCovers /\ LongWindows /\ ServedStarts
            /\ MaxClock \in Nat /\ MaxClock < Wrap

\* The local date that an entry's timer is set for.
Date(e) == IF timer[e].waits = "start" THEN plan[e].start ELSE plan[e].stop

\* No other timer waits for something more than two days away, and each rings at
\* the date that was calculated for it, give or take the jumps since: a relay that
\* is on has its stop ahead, and every entry gets its turn again.
TimersNear ==
    \A e \in Entry :
        timer[e].waits # "none" /\ ~Stranded(e) =>
            /\ timer[e].expiry <= clock + 2 * Day
            /\ timer[e].expiry + offset - Date(e) \in -(jumps * MaxJump) .. jumps * MaxJump
=============================================================================
