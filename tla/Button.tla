------------------------------- MODULE Button -------------------------------
(***************************************************************************)
(* A push button of the CppGPIO library: the pin, the kernel's edge        *)
(* notification, the event-loop thread of InputDetect, the debouncer of    *)
(* DigitalIn and the callbacks of Switch and PushButton (CppGPIO           *)
(* buttons.cpp, buttons.hpp).  MomentarySwitch uses one per relay.         *)
(*                                                                         *)
(* Levels are logical: TRUE is the pressed level, after the inversion that *)
(* GPIO_PULL::UP asks for.  The clock is kept as ages, in some unit of     *)
(* time, each counted no further than Cap, beyond which no comparison of   *)
(* the code can tell the difference.                                       *)
(***************************************************************************)
EXTENDS Naturals

CONSTANTS
    Intervals,   \* the pairs of intervals a DigitalIn may be constructed with
    Cap,         \* bound: where the ages stop counting
    MaxFlips,    \* bound: how often the pin changes its level
    MaxStarts,   \* bound: how often the event loop is started
    QuietStart   \* the pin keeps its level while the event loop starts

ASSUME IntervalAssumption ==
    /\ Cap \in Nat \ {0}
    /\ Intervals \subseteq [trigger : 0 .. Cap, hold : 0 .. Cap]
ASSUME FlipsAssumption == MaxFlips \in Nat /\ MaxStarts \in Nat
ASSUME QuietAssumption == QuietStart \in BOOLEAN

VARIABLES
    interval,      \* m_min_trigger_interval and m_min_hold_interval
    pin,           \* the level of the pin
    pending,       \* the kernel has an edge the loop has not read
    m_state,       \* m_state of DigitalIn, what is_on() returns
    sinceTrigger,  \* the age of m_last_triggered
    slept,         \* how long the debouncer has been asleep
    stable,        \* how long the pin has had its level
    loop,          \* where the event loop is
    m_terminate,
    joining,       \* stop() waits for the thread to end
    closed,        \* the event loop has closed the pin's file descriptor
    called,        \* the last callback
    flips, starts

buttonVars == <<interval, pin, pending, m_state, sinceTrigger, slept, stable, loop,
                m_terminate, joining, closed, called, flips, starts>>

Trigger == interval.trigger
Hold    == interval.hold

LoopPc == {"none", "starting", "poll", "level", "sleep", "callback", "ended"}

TypeOK ==
    /\ interval \in Intervals
    /\ pin \in BOOLEAN /\ pending \in BOOLEAN /\ m_state \in BOOLEAN
    /\ sinceTrigger \in 0 .. Cap /\ slept \in 0 .. Cap /\ stable \in 0 .. Cap
    /\ loop \in LoopPc
    /\ m_terminate \in BOOLEAN /\ joining \in BOOLEAN /\ closed \in BOOLEAN
    /\ called \in {"nothing", "f_on", "f_off"}
    /\ flips \in 0 .. MaxFlips /\ starts \in 0 .. MaxStarts

\* The constructor reads the initial state from the pin.  A value file that
\* has just been opened counts as changed, so the first poll returns at once.
ButtonInit ==
    /\ interval \in Intervals
    /\ pin \in BOOLEAN
    /\ m_state = pin
    /\ pending = TRUE
    /\ sinceTrigger = Cap /\ slept = 0 /\ stable = Cap
    /\ loop = "none"
    /\ m_terminate = FALSE /\ joining = FALSE /\ closed = FALSE
    /\ called = "nothing"
    /\ flips = 0 /\ starts = 0

loopOnly == <<interval, pin, stable, m_terminate, joining, flips, starts>>

-----------------------------------------------------------------------------
(***************************************************************************)
(* start() and stop(), called by the thread that owns the button.          *)
(***************************************************************************)
Start ==
    /\ loop = "none" /\ starts < MaxStarts
    /\ m_terminate' = FALSE
    /\ loop' = "starting"
    /\ starts' = starts + 1
    /\ UNCHANGED <<interval, pin, pending, m_state, sinceTrigger, slept, stable, joining,
                   closed, called, flips>>

Stop ==
    /\ loop # "none" /\ ~joining
    /\ m_terminate' = TRUE
    /\ joining' = TRUE
    /\ UNCHANGED <<interval, pin, pending, m_state, sinceTrigger, slept, stable, loop,
                   closed, called, flips, starts>>

LoopJoined ==
    /\ joining /\ loop = "ended"
    /\ joining' = FALSE
    /\ loop' = "none"
    /\ UNCHANGED <<interval, pin, pending, m_state, sinceTrigger, slept, stable, m_terminate,
                   closed, called, flips, starts>>

(***************************************************************************)
(* The event loop.                                                         *)
(***************************************************************************)
\* The loop that should drop old events reads `count` bytes; count is not
\* initialised if FIONREAD does not set it.
ClearPending ==
    /\ loop = "starting"
    /\ pending' \in {FALSE, pending}
    /\ loop' = "poll"
    /\ UNCHANGED <<m_state, sinceTrigger, slept, closed, called>> /\ UNCHANGED loopOnly

\* Slip: the flag is looked at after an event only.
TerminateOnEvent ==
    /\ loop = "poll" /\ m_terminate /\ pending
    /\ closed' = TRUE
    /\ loop' = "ended"
    /\ UNCHANGED <<pending, m_state, sinceTrigger, slept, called>> /\ UNCHANGED loopOnly

\* After poll() the flag is looked at before the events.
Terminate ==
    /\ loop = "poll" /\ m_terminate
    /\ closed' = TRUE
    /\ loop' = "ended"
    /\ UNCHANGED <<pending, m_state, sinceTrigger, slept, called>> /\ UNCHANGED loopOnly

\* A descriptor that was closed by an earlier run of the loop is always ready.
Notified ==
    /\ loop = "poll" /\ ~m_terminate
    /\ pending \/ closed
    /\ pending' = IF closed THEN pending ELSE FALSE
    /\ loop' = "level"
    /\ UNCHANGED <<m_state, sinceTrigger, slept, closed, called>> /\ UNCHANGED loopOnly

(***************************************************************************)
(* debounce(): the level must be the other one, the last trigger must be   *)
(* old enough, and after the hold interval the level must still be the     *)
(* other one.  m_last_triggered gets the time from before the sleep.       *)
(***************************************************************************)
Rejected ==
    /\ loop = "level"
    /\ pin = m_state \/ (Trigger > 0 /\ sinceTrigger < Trigger)
    /\ loop' = "poll"
    /\ UNCHANGED <<pending, m_state, sinceTrigger, slept, closed, called>> /\ UNCHANGED loopOnly

NotDebounced ==
    /\ loop = "level" /\ pin # m_state /\ Trigger = 0
    /\ loop' = "callback"
    /\ UNCHANGED <<pending, m_state, sinceTrigger, slept, closed, called>> /\ UNCHANGED loopOnly

\* Slip: the state is not toggled.
AcceptedAtOnceSame ==
    /\ loop = "level" /\ pin # m_state
    /\ Trigger > 0 /\ sinceTrigger >= Trigger /\ Hold = 0
    /\ sinceTrigger' = 0
    /\ loop' = "callback"
    /\ UNCHANGED <<pending, m_state, slept, closed, called>> /\ UNCHANGED loopOnly

AcceptedAtOnce ==
    /\ loop = "level" /\ pin # m_state
    /\ Trigger > 0 /\ sinceTrigger >= Trigger /\ Hold = 0
    /\ m_state' = ~m_state
    /\ sinceTrigger' = 0
    /\ loop' = "callback"
    /\ UNCHANGED <<pending, slept, closed, called>> /\ UNCHANGED loopOnly

WaitHold ==
    /\ loop = "level" /\ pin # m_state
    /\ Trigger > 0 /\ sinceTrigger >= Trigger /\ Hold > 0
    /\ slept' = 0
    /\ loop' = "sleep"
    /\ UNCHANGED <<pending, m_state, sinceTrigger, closed, called>> /\ UNCHANGED loopOnly

\* Slip: the trigger gets the time after the sleep.
AcceptedAfterSleep ==
    /\ loop = "sleep" /\ slept >= Hold /\ pin # m_state
    /\ m_state' = ~m_state
    /\ sinceTrigger' = 0
    /\ loop' = "callback"
    /\ UNCHANGED <<pending, slept, closed, called>> /\ UNCHANGED loopOnly

\* Slip: the state is not toggled.
AcceptedSame ==
    /\ loop = "sleep" /\ slept >= Hold /\ pin # m_state
    /\ sinceTrigger' = slept
    /\ loop' = "callback"
    /\ UNCHANGED <<pending, m_state, slept, closed, called>> /\ UNCHANGED loopOnly

Accepted ==
    /\ loop = "sleep" /\ slept >= Hold /\ pin # m_state
    /\ m_state' = ~m_state
    /\ sinceTrigger' = slept
    /\ loop' = "callback"
    /\ UNCHANGED <<pending, slept, closed, called>> /\ UNCHANGED loopOnly

NotHeld ==
    /\ loop = "sleep" /\ slept >= Hold /\ pin = m_state
    /\ loop' = "poll"
    /\ UNCHANGED <<pending, m_state, sinceTrigger, slept, closed, called>> /\ UNCHANGED loopOnly

\* Switch::triggered calls f_on or f_off by the debouncer's state; PushButton
\* forwards them as f_pushed and f_released.
Callback ==
    /\ loop = "callback"
    /\ called' = IF m_state THEN "f_on" ELSE "f_off"
    /\ loop' = "poll"
    /\ UNCHANGED <<pending, m_state, sinceTrigger, slept, closed>> /\ UNCHANGED loopOnly

(***************************************************************************)
(* The person at the button, and time.                                     *)
(***************************************************************************)
Flip ==
    /\ flips < MaxFlips
    /\ QuietStart => loop # "starting" /\ starts > 0
    /\ pin' = ~pin
    /\ pending' = TRUE
    /\ stable' = 0
    /\ flips' = flips + 1
    /\ UNCHANGED <<interval, m_state, sinceTrigger, slept, loop, m_terminate, joining, closed,
                   called, starts>>

Older(age) == IF age < Cap THEN age + 1 ELSE age

Tick ==
    /\ sinceTrigger' = Older(sinceTrigger)
    /\ slept' = Older(slept)
    /\ stable' = Older(stable)
    /\ UNCHANGED <<interval, pin, pending, m_state, loop, m_terminate, joining, closed, called,
                   flips, starts>>

Debounce == Rejected \/ NotDebounced \/ AcceptedAtOnce \/ WaitHold \/ Accepted \/ NotHeld
Loop == ClearPending \/ Terminate \/ Notified \/ Debounce \/ Callback
ButtonNext == Start \/ Stop \/ LoopJoined \/ Loop \/ Flip \/ Tick

\* Time passes, the loop is scheduled and stop() resumes after the thread
\* has ended; nobody has to press, start or stop.
ButtonSpec ==
    /\ ButtonInit /\ [][ButtonNext]_buttonVars
    /\ WF_buttonVars(Tick) /\ WF_buttonVars(Loop) /\ WF_buttonVars(LoopJoined)

-----------------------------------------------------------------------------
(***************************************************************************)
(* Properties.                                                             *)
(***************************************************************************)

\* The hold interval covers the trigger interval, as in MomentarySwitch.
Covered == 0 < Trigger /\ Trigger <= Hold

\* The loop never goes to wait with a changed level it has not been told of:
\* no press or release gets lost between the debouncer's intervals.
NoLostEdge == Covered => (loop = "poll" /\ pin # m_state => pending \/ closed)

\* f_on and f_off alternate wherever there is debouncing: a bouncing contact
\* is one press.
CallbacksAlternate ==
    [][Trigger > 0 /\ called # "nothing" /\ loop = "callback" /\ loop' # "callback" =>
          called' # called]_buttonVars

\* is_on() "queries the state of the switch" (buttons.hpp:154): once the pin
\* keeps its level, a running event loop gets the state right.
StateSettles ==
    <>[](loop \in {"none", "ended"} \/ m_terminate) \/ []<>(m_state = pin)

\* It does when the hold interval covers the trigger interval.
CoveredSettles == Covered => StateSettles

\* The level that a callback tells.
Report(level) == IF level THEN "f_on" ELSE "f_off"

\* The level is another than the last callback told, or than the constructor
\* read if there was none yet.
Unreported(level) == IF called = "nothing" THEN level # m_state ELSE called # Report(level)

\* f_pushed and f_released "get called when the button is switched"
\* (buttons.hpp:156-158): a level that was not reported yet, and that the loop
\* has been told of, is reported by its callback unless it goes away again,
\* with a hold interval that covers the trigger interval.
EdgeReported ==
    \A level \in BOOLEAN :
        Covered /\ loop = "poll" /\ pending /\ pin = level /\ Unreported(level) ~>
            called = Report(level) \/ pin # level \/ m_terminate

\* stop() returns.
StopReturns == joining ~> ~joining
=============================================================================
