----------------------------- MODULE PoolRelays -----------------------------
(***************************************************************************)
(* The relays of the pool as main() wires them (PoolSmartz.cpp:515-546)    *)
(* and the threads that operate them: the io_context thread, which runs    *)
(* the HTTP commands and the schedule, and one event-loop thread per push  *)
(* button (MomentarySwitch.cpp, CppGPIO's InputDetect).  Two threads can   *)
(* be inside the same relay, or inside two relays that need each other.    *)
(*                                                                         *)
(* A button thread is named by the relay it toggles.  Buttons may be a     *)
(* subset of the relays that have one: the buttons somebody presses.       *)
(*                                                                         *)
(* The callbacks' PLOG(debug) lines (MomentarySwitch.cpp:20,27) are left   *)
(* out: they hold the logger's mutex for a moment, which can delay the     *)
(* callback and nothing else here (for signals see PoolShutdown).          *)
(***************************************************************************)
EXTENDS RelaySwitcher

CONSTANTS
    Pump,            \* mainPump
    DependentOrder,  \* the relays mainPump's conditions name, in their order
    Ioc,             \* the thread that runs the io_context
    Buttons          \* the relays whose push button is used

Dependents == {DependentOrder[k] : k \in DOMAIN DependentOrder}
Group == Dependents \cup {Pump}

\* Slip: the pump gets no conditions.
WiringOneWay ==
    [r \in Relay |->
        IF r \in Dependents
          THEN <<[relay |-> Pump, onOff |-> "ON",
                  required |-> "ON", force |-> "FORCE_REQUIRED"]>>
          ELSE << >>]

\* Switching the pump off forces its dependents off; switching a dependent
\* on forces the pump on.
Wiring ==
    [r \in Relay |->
        IF r = Pump
          THEN [k \in DOMAIN DependentOrder |->
                  [relay |-> DependentOrder[k], onOff |-> "OFF",
                   required |-> "OFF", force |-> "FORCE_REQUIRED"]]
        ELSE IF r \in Dependents
          THEN <<[relay |-> Pump, onOff |-> "ON",
                  required |-> "ON", force |-> "FORCE_REQUIRED"]>>
        ELSE << >>]

ASSUME PumpAssumption    == Pump \in Relay
ASSUME OrderAssumption   == DependentOrder \in Seq(Relay \ {Pump})
ASSUME WiringAssumption  == Conditions = Wiring
ASSUME ButtonsAssumption == Buttons \subseteq Relay
ASSUME ThreadAssumption  == Ioc \notin Relay /\ Thread = {Ioc} \cup Buttons

VARIABLES
    button_pushed_,  \* button_pushed_[b]: f_pushed has run since the last release
    released         \* released[b]: where f_released of button b is

poolVars == <<vars, button_pushed_, released>>

ReleasePc == {"idle", "off?", "on?"}

PoolTypeOK ==
    /\ TypeOK
    /\ button_pushed_ \in [Buttons -> BOOLEAN]
    /\ released \in [Buttons -> ReleasePc]

PoolInit ==
    /\ Init
    /\ button_pushed_ = [b \in Buttons |-> FALSE]
    /\ released = [b \in Buttons |-> "idle"]

-----------------------------------------------------------------------------
\* The io_context thread serves one request at a time: an HTTP "Set", or an
\* expired start or stop timer of the schedule.
Request(op, r) ==
    /\ Call(Ioc, op, r)
    /\ UNCHANGED <<button_pushed_, released>>

\* The event loop of b calls back only between two calls it made.
EventLoopReady(b) == Idle(b) /\ released[b] = "idle"

Pushed(b) ==
    /\ EventLoopReady(b)
    /\ button_pushed_' = [button_pushed_ EXCEPT ![b] = TRUE]
    /\ UNCHANGED <<vars, released>>

\* A release whose press was never seen does nothing.
Released(b) ==
    /\ EventLoopReady(b) /\ button_pushed_[b]
    /\ button_pushed_' = [button_pushed_ EXCEPT ![b] = FALSE]
    /\ released' = [released EXCEPT ![b] = "off?"]
    /\ UNCHANGED vars

\* f_released reads state_ twice: OFF switches on and returns, ON switches off.
FoundOff(b) ==
    /\ released[b] = "off?" /\ state[b] = "OFF"
    /\ Call(b, "ON", b)
    /\ released' = [released EXCEPT ![b] = "idle"]
    /\ UNCHANGED button_pushed_

NotOff(b) ==
    /\ released[b] = "off?" /\ state[b] # "OFF"
    /\ released' = [released EXCEPT ![b] = "on?"]
    /\ UNCHANGED <<vars, button_pushed_>>

FoundOn(b) ==
    /\ released[b] = "on?" /\ state[b] = "ON"
    /\ Call(b, "OFF", b)
    /\ released' = [released EXCEPT ![b] = "idle"]
    /\ UNCHANGED button_pushed_

NotOn(b) ==
    /\ released[b] = "on?" /\ state[b] # "ON"
    /\ released' = [released EXCEPT ![b] = "idle"]
    /\ UNCHANGED <<vars, button_pushed_>>

RelayStep(t) == Step(t) /\ UNCHANGED <<button_pushed_, released>>
CallbackStep(b) == FoundOff(b) \/ NotOff(b) \/ FoundOn(b) \/ NotOn(b)

PoolNext ==
    \/ \E op \in RelayState, r \in Relay : Request(op, r)
    \/ \E t \in Thread : RelayStep(t)
    \/ \E b \in Buttons : Pushed(b) \/ Released(b) \/ CallbackStep(b)

PoolSpec == PoolInit /\ [][PoolNext]_poolVars

-----------------------------------------------------------------------------
(***************************************************************************)
(* Properties.                                                             *)
(***************************************************************************)

Promise == INSTANCE Interlock WITH output <- gpio

\* At every instant, also in the middle of a call, a dependent relay is
\* energised only while the pump is (RelaySwitcher.h:32-36).
PumpInterlock == Promise!PumpFlows

\* With no call in progress anywhere, the interlock holds.
PumpInterlockAtRest == (\A t \in Thread : Idle(t)) => PumpInterlock

\* Every change of an output is one the interlock allows.
ImplementsInterlock == Promise!Spec

\* The reported state of the pump and its dependents is the driven one
\* whenever no call is working on them.
GroupStatusTruth ==
    \A r \in Group : ~Busy(r) =>
        /\ gpio[r] = state[r]
        /\ r \in Pilots => pilot[r] = state[r]
=============================================================================
