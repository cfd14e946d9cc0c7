--------------------------- MODULE RelaySwitcher ---------------------------
(***************************************************************************)
(* SwitchOn, SwitchOff and CheckConditions of the class RelaySwitcher      *)
(* (PoolSmartz/src/RelaySwitcher.cpp) as the threads of the process run    *)
(* them.  No lock protects a RelaySwitcher, so a step here is one access   *)
(* to shared memory: a read of some relay's state_, a write of a GPIO      *)
(* register, a write of state_, an acquisition of the logger's mutex.      *)
(*                                                                         *)
(* A relay can require states of other relays, and forcing such a state is *)
(* a call of the other relay's SwitchOn or SwitchOff from inside           *)
(* CheckConditions: every thread has a stack of activation frames.         *)
(*                                                                         *)
(* on_time_ and off_time_ are display data and left out.  RelayState has a *)
(* third value, ERROR, that nothing assigns.                               *)
(***************************************************************************)
EXTENDS Naturals, SequencesExt

CONSTANTS
    Relay,        \* the RelaySwitcher objects
    Thread,       \* the threads that call them
    Conditions,   \* Conditions[r]: required_states_ of r, in vector order
    Pilots,       \* the relays with a pilot LED (pilot_pin_ is not 0)
    LogInfo,      \* the log severity lets PLOG(info) through
    NoThread      \* the logger's mutex is free

RelayState == {"ON", "OFF"}
ForceState == {"FORCE_REQUIRED", "ABORT_REQUEST"}

RequiredState ==
    [relay : Relay, onOff : RelayState, required : RelayState, force : ForceState]

ASSUME ConditionsAssumption == Conditions \in [Relay -> Seq(RequiredState)]
ASSUME PilotsAssumption     == Pilots \subseteq Relay
ASSUME LogInfoAssumption    == LogInfo \in BOOLEAN
ASSUME NoThreadAssumption   == NoThread \notin Thread

VARIABLES
    state,     \* state[r]: state_, what the program believes and reports
    gpio,      \* gpio[r]: the output that drives the relay
    pilot,     \* pilot[r]: the output that drives the pilot LED
    stack,     \* stack[t]: the SwitchOn and SwitchOff calls in progress
    logOwner   \* the thread that holds the logger's mutex

vars == <<state, gpio, pilot, stack, logOwner>>

(***************************************************************************)
(* An activation of SwitchOn (op "ON") or SwitchOff (op "OFF"): in the     *)
(* loop of CheckConditions at condition i, or at one of the statements     *)
(* that follow it.                                                         *)
(***************************************************************************)
Statement == {"conditions", "test", "drive", "assign", "pilot", "log", "unlock"}
Frame == [op : RelayState, relay : Relay, pc : Statement, i : Nat \ {0}]

Activation(op, r) == [op |-> op, relay |-> r, pc |-> "conditions", i |-> 1]

TypeOK ==
    /\ state \in [Relay -> RelayState]
    /\ gpio  \in [Relay -> RelayState]
    /\ pilot \in [Relay -> RelayState]
    /\ stack \in [Thread -> Seq(Frame)]
    /\ logOwner \in Thread \cup {NoThread}

Init ==
    /\ state = [r \in Relay |-> "OFF"]
    /\ gpio  = [r \in Relay |-> "OFF"]
    /\ pilot = [r \in Relay |-> "OFF"]
    /\ stack = [t \in Thread |-> << >>]
    /\ logOwner = NoThread

-----------------------------------------------------------------------------
Idle(t)   == stack[t] = << >>
At(t, pc) == stack[t] # << >> /\ Last(stack[t]).pc = pc
Top(t)    == Last(stack[t])

Goto(t, pc) ==
    stack' = [stack EXCEPT ![t] = [stack[t] EXCEPT ![Len(stack[t])].pc = pc]]
Return(t)   == stack' = [stack EXCEPT ![t] = Front(stack[t])]

\* A thread that is in no call enters SwitchOn or SwitchOff of r.
Call(t, op, r) ==
    /\ Idle(t)
    /\ stack' = [stack EXCEPT ![t] = <<Activation(op, r)>>]
    /\ UNCHANGED <<state, gpio, pilot, logOwner>>

(***************************************************************************)
(* CheckConditions.  A condition binds for one of the two requests; it is  *)
(* unmet when the other relay reports another state.  The caller ignores   *)
(* the result, so an aborted check ends the loop and nothing else.         *)
(***************************************************************************)
InLoop(t) == At(t, "conditions") /\ Top(t).i \in DOMAIN Conditions[Top(t).relay]
Condition(t) == Conditions[Top(t).relay][Top(t).i]
Unmet(t) == /\ Condition(t).onOff = Top(t).op
            /\ state[Condition(t).relay] # Condition(t).required

\* Slip: SwitchOff has SwitchOn's test as well.
AfterConditionsTest(f) == "test"

AfterConditions(f) == IF f.op = "ON" THEN "test" ELSE "drive"

\* Slip: the iterator is not advanced.
NextConditionSame(t) == stack[t]

NextCondition(t) == [stack[t] EXCEPT ![Len(stack[t])].i = Top(t).i + 1]

ConditionHolds(t) ==
    /\ InLoop(t) /\ ~Unmet(t)
    /\ stack' = [stack EXCEPT ![t] = NextCondition(t)]
    /\ UNCHANGED <<state, gpio, pilot, logOwner>>

\* Slip: the required state is never set.
ForceForgotten(t) ==
    /\ InLoop(t) /\ Unmet(t) /\ Condition(t).force = "FORCE_REQUIRED"
    /\ stack' = [stack EXCEPT ![t] = NextCondition(t)]
    /\ UNCHANGED <<state, gpio, pilot, logOwner>>

ForceRequired(t) ==
    /\ InLoop(t) /\ Unmet(t) /\ Condition(t).force = "FORCE_REQUIRED"
    /\ stack' = [stack EXCEPT ![t] =
                    Append(NextCondition(t),
                           Activation(Condition(t).required, Condition(t).relay))]
    /\ UNCHANGED <<state, gpio, pilot, logOwner>>

\* Slip: continue for return.
AbortContinues(t) ==
    /\ InLoop(t) /\ Unmet(t) /\ Condition(t).force = "ABORT_REQUEST"
    /\ stack' = [stack EXCEPT ![t] = NextCondition(t)]
    /\ UNCHANGED <<state, gpio, pilot, logOwner>>

AbortRequest(t) ==
    /\ InLoop(t) /\ Unmet(t) /\ Condition(t).force = "ABORT_REQUEST"
    /\ Goto(t, AfterConditions(Top(t)))
    /\ UNCHANGED <<state, gpio, pilot, logOwner>>

ConditionsDone(t) ==
    /\ At(t, "conditions") /\ ~InLoop(t)
    /\ Goto(t, AfterConditions(Top(t)))
    /\ UNCHANGED <<state, gpio, pilot, logOwner>>

(***************************************************************************)
(* The statements of SwitchOn and SwitchOff.  SwitchOn does nothing more   *)
(* for a relay whose state_ is ON already; SwitchOff has no such test.     *)
(***************************************************************************)
\* Slip: the early return is taken for either state.
AlreadyOnAlways(t) ==
    /\ At(t, "test")
    /\ Return(t)
    /\ UNCHANGED <<state, gpio, pilot, logOwner>>

AlreadyOn(t) ==
    /\ At(t, "test") /\ state[Top(t).relay] = "ON"
    /\ Return(t)
    /\ UNCHANGED <<state, gpio, pilot, logOwner>>

NotYetOn(t) ==
    /\ At(t, "test") /\ state[Top(t).relay] # "ON"
    /\ Goto(t, "drive")
    /\ UNCHANGED <<state, gpio, pilot, logOwner>>

Drive(t) ==
    /\ At(t, "drive")
    /\ gpio' = [gpio EXCEPT ![Top(t).relay] = Top(t).op]
    /\ Goto(t, "assign")
    /\ UNCHANGED <<state, pilot, logOwner>>

\* Slip: state_ is not assigned.
AssignForgotten(t) ==
    /\ At(t, "assign")
    /\ Goto(t, "pilot")
    /\ UNCHANGED <<state, gpio, pilot, logOwner>>

Assign(t) ==
    /\ At(t, "assign")
    /\ state' = [state EXCEPT ![Top(t).relay] = Top(t).op]
    /\ Goto(t, "pilot")
    /\ UNCHANGED <<gpio, pilot, logOwner>>

\* Slip: the pilot light is switched on and never off.
DrivePilotOn(t) ==
    /\ At(t, "pilot")
    /\ pilot' = IF Top(t).relay \in Pilots
                  THEN [pilot EXCEPT ![Top(t).relay] = "ON"]
                  ELSE pilot
    /\ Goto(t, "log")
    /\ UNCHANGED <<state, gpio, logOwner>>

DrivePilot(t) ==
    /\ At(t, "pilot")
    /\ pilot' = IF Top(t).relay \in Pilots
                  THEN [pilot EXCEPT ![Top(t).relay] = Top(t).op]
                  ELSE pilot
    /\ Goto(t, "log")
    /\ UNCHANGED <<state, gpio, logOwner>>

\* PLOG tests the severity first; the appender writes under a mutex that its
\* owner cannot take a second time.
LogDisabled(t) ==
    /\ At(t, "log")
    /\ Return(t)
    /\ UNCHANGED <<state, gpio, pilot, logOwner>>

LogLock(t) ==
    /\ At(t, "log") /\ logOwner = NoThread
    /\ logOwner' = t
    /\ Goto(t, "unlock")
    /\ UNCHANGED <<state, gpio, pilot>>

Log(t) == IF LogInfo THEN LogLock(t) ELSE LogDisabled(t)

\* Slip: the mutex is kept.
LogKept(t) ==
    /\ At(t, "unlock")
    /\ Return(t)
    /\ UNCHANGED <<state, gpio, pilot, logOwner>>

LogUnlock(t) ==
    /\ At(t, "unlock")
    /\ logOwner' = NoThread
    /\ Return(t)
    /\ UNCHANGED <<state, gpio, pilot>>

Step(t) ==
    \/ ConditionHolds(t) \/ ForceRequired(t) \/ AbortRequest(t) \/ ConditionsDone(t)
    \/ AlreadyOn(t) \/ NotYetOn(t)
    \/ Drive(t) \/ Assign(t) \/ DrivePilot(t)
    \/ Log(t) \/ LogUnlock(t)

Next ==
    \E t \in Thread :
        \/ \E r \in Relay, op \in RelayState : Call(t, op, r)
        \/ Step(t)

\* A runnable thread is scheduled; nobody has to call.
Spec == Init /\ [][Next]_vars /\ \A t \in Thread : WF_vars(Step(t))

-----------------------------------------------------------------------------
(***************************************************************************)
(* Properties.                                                             *)
(***************************************************************************)
Busy(r) == \E t \in Thread : \E k \in DOMAIN stack[t] : stack[t][k].relay = r

\* What the HTTP status and the pilot light say of a relay that no call is
\* working on is how the relay is driven (StateStr, RelaySwitcher.cpp:34-41).
StatusTruth ==
    \A r \in Relay : ~Busy(r) =>
        /\ gpio[r] = state[r]
        /\ r \in Pilots => pilot[r] = state[r]

\* A call that has left CheckConditions: one of its conditions aborted it.
Aborted(f) == f.i \in DOMAIN Conditions[f.relay]

\* When the outermost call returns and none of its conditions aborted it, the
\* relay it was asked to switch is switched, whatever its conditions did on the
\* way, and the calls they forced, aborted or not.
Served ==
    [][\A t \in Thread :
          Len(stack[t]) = 1 /\ stack'[t] = << >> /\ ~Aborted(stack[t][1]) =>
              gpio'[stack[t][1].relay] = stack[t][1].op]_vars

\* The conditions listed after one that aborted the check are not forced: an
\* output of another relay changes only if no earlier condition aborts.
AbortForcesNoMore ==
    [][\A r \in Relay : gpio'[r] # gpio[r] =>
          \A t \in Thread : Len(stack[t]) > 1 /\ Top(t).relay = r =>
              LET caller == stack[t][Len(stack[t]) - 1] IN
              \A k \in 1 .. caller.i - 1 :
                  LET c == Conditions[caller.relay][k] IN
                  c.onOff = caller.op /\ c.force = "ABORT_REQUEST" =>
                      state[c.relay] = c.required]_vars

\* Every call returns: the conditions never chase each other.
CallsReturn == \A t \in Thread : ~Idle(t) ~> Idle(t)

=============================================================================
