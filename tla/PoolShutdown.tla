---------------------------- MODULE PoolShutdown ----------------------------
(***************************************************************************)
(* How the process of the pool controller ends and comes back: the signal  *)
(* handler terminate_handler (PoolSmartz.cpp:456-465), the exits of main() *)
(* after an exception (564-581), and a new start of the service while the  *)
(* GPIO block keeps driving what it drove.                                 *)
(*                                                                         *)
(* A handler runs on the thread it interrupts, on top of whatever call     *)
(* that thread is in; the calls below it stay where they are, with the     *)
(* mutex they may hold.  A signal blocks only itself while it is handled   *)
(* (sa_mask is empty), so another signal can interrupt the handler.        *)
(*                                                                         *)
(* The handler's other calls that are unsafe in a signal handler           *)
(* (allocation, ioc.stop()'s mutex, exit()) are left out: the logger's     *)
(* mutex stands for them.  So are the PLOG(debug) lines outside of the     *)
(* relays (the buttons' callbacks, the HTTP handlers, the schedule): they  *)
(* hold that mutex for a moment too, and a signal that comes just then     *)
(* finds the handler waiting as StopsUnlessLogging describes it.           *)
(***************************************************************************)
EXTENDS PoolRelays

CONSTANTS
    Signal,          \* the signals whose action is terminate_handler
    EquipmentOrder,  \* the relays of the map `equipment`, in key order
    MaxSignals,      \* bound: signals and exceptions altogether
    MaxStarts        \* bound: starts of the service

ASSUME EquipmentAssumption == EquipmentOrder \in Seq(Relay) /\ Range(EquipmentOrder) = Relay
ASSUME BoundAssumption     == MaxSignals \in Nat /\ MaxStarts \in Nat \ {0}

VARIABLES
    running,      \* the process exists
    signal_seen,  \* signal_seen, the handler's flag
    handlers,     \* handlers[t]: the activations of the handler on thread t;
                  \* base: how deep the interrupted calls are, next: the next equipment
    signals,      \* how many signals and exceptions there were
    starts,       \* how many times the service was started
    cutShort      \* the last process that ended did so before any handler was through

processVars  == <<running, signal_seen, handlers, signals, starts, cutShort>>
shutdownVars == <<poolVars, processVars>>

HandlerPc == {"seen?", "set", "off", "exit"}
Handler == [sig : Signal, pc : HandlerPc, base : Nat, next : Nat \ {0}]

ShutdownTypeOK ==
    /\ PoolTypeOK
    /\ running \in BOOLEAN
    /\ signal_seen \in BOOLEAN
    /\ handlers \in [Thread -> Seq(Handler)]
    /\ signals \in Nat /\ starts \in Nat
    /\ cutShort \in BOOLEAN

ShutdownInit ==
    /\ PoolInit
    /\ running = TRUE
    /\ signal_seen = FALSE
    /\ handlers = [t \in Thread |-> << >>]
    /\ signals = 0
    /\ starts = 1
    /\ cutShort = FALSE

-----------------------------------------------------------------------------
Interrupted(t) == handlers[t] # << >>
Innermost(t)   == Last(handlers[t])

\* The call on top of t's stack is one its innermost handler made.
Runnable(t) ==
    /\ running
    /\ Interrupted(t) => Len(stack[t]) > Innermost(t).base

HandlerAt(t, pc) ==
    /\ running /\ Interrupted(t)
    /\ Len(stack[t]) = Innermost(t).base
    /\ Innermost(t).pc = pc

HandlerGoto(t, pc) == handlers' = [handlers EXCEPT ![t][Len(handlers[t])].pc = pc]

Blocked(t) == {handlers[t][k].sig : k \in DOMAIN handlers[t]}

\* The kernel offers a signal of the process to the main thread first, which
\* is the one that runs the io_context.
Deliver(t, sig) ==
    /\ running /\ signals < MaxSignals
    /\ sig \notin Blocked(t)
    /\ t # Ioc => sig \in Blocked(Ioc)
    /\ signals' = signals + 1
    /\ handlers' = [handlers EXCEPT ![t] =
                      Append(@, [sig |-> sig, pc |-> "seen?",
                                 base |-> Len(stack[t]), next |-> 1])]
    /\ UNCHANGED <<poolVars, running, signal_seen, starts, cutShort>>

TestSeen(t) ==
    /\ HandlerAt(t, "seen?")
    /\ HandlerGoto(t, IF signal_seen THEN "exit" ELSE "set")
    /\ UNCHANGED <<poolVars, running, signal_seen, signals, starts, cutShort>>

SetSeen(t) ==
    /\ HandlerAt(t, "set")
    /\ signal_seen' = TRUE
    /\ HandlerGoto(t, "off")
    /\ UNCHANGED <<poolVars, running, signals, starts, cutShort>>

\* Slip: the iterator is advanced twice.
SwitchEveryOtherOff(t) ==
    /\ HandlerAt(t, "off")
    /\ Innermost(t).next \in DOMAIN EquipmentOrder
    /\ stack' = [stack EXCEPT ![t] =
                   Append(@, Activation("OFF", EquipmentOrder[Innermost(t).next]))]
    /\ handlers' = [handlers EXCEPT ![t][Len(handlers[t])].next = @ + 2]
    /\ UNCHANGED <<state, gpio, pilot, logOwner, button_pushed_, released>>
    /\ UNCHANGED <<running, signal_seen, signals, starts, cutShort>>

\* eq.second->SwitchOff(), for one element of the map.
SwitchNextOff(t) ==
    /\ HandlerAt(t, "off")
    /\ Innermost(t).next \in DOMAIN EquipmentOrder
    /\ stack' = [stack EXCEPT ![t] =
                   Append(@, Activation("OFF", EquipmentOrder[Innermost(t).next]))]
    /\ handlers' = [handlers EXCEPT ![t][Len(handlers[t])].next = @ + 1]
    /\ UNCHANGED <<state, gpio, pilot, logOwner, button_pushed_, released>>
    /\ UNCHANGED <<running, signal_seen, signals, starts, cutShort>>

AllSwitchedOff(t) ==
    /\ HandlerAt(t, "off")
    /\ Innermost(t).next \notin DOMAIN EquipmentOrder
    /\ HandlerGoto(t, "exit")
    /\ UNCHANGED <<poolVars, running, signal_seen, signals, starts, cutShort>>

\* The process is gone with its memory, and its threads die where they are;
\* the output latches hold what they held.
ProcessEnds ==
    /\ running' = FALSE
    /\ state' = [r \in Relay |-> "OFF"]
    /\ stack' = [t \in Thread |-> << >>]
    /\ logOwner' = NoThread
    /\ button_pushed_' = [b \in Buttons |-> FALSE]
    /\ released' = [b \in Buttons |-> "idle"]
    /\ signal_seen' = FALSE
    /\ handlers' = [t \in Thread |-> << >>]
    /\ UNCHANGED <<gpio, pilot, starts>>

\* Some handler has left its loop over the equipment: the one that exits, or one
\* that it interrupted, or one of another thread.
Through(h) == h.pc = "exit" /\ h.next \notin DOMAIN EquipmentOrder
RoundDone  == \E u \in Thread : \E h \in Range(handlers[u]) : Through(h)

\* ioc.stop(); exit(signal_num).  The end is a cut short one if no round over the
\* equipment was through when it came.
HandlerExit(t) ==
    /\ HandlerAt(t, "exit")
    /\ cutShort' = ~RoundDone
    /\ ProcessEnds
    /\ UNCHANGED signals

\* An exception leaves ioc.run(): main() catches it and calls exit(1).
ExceptionExit ==
    /\ running /\ signals < MaxSignals
    /\ Idle(Ioc) /\ ~Interrupted(Ioc)
    /\ cutShort' = TRUE
    /\ signals' = signals + 1
    /\ ProcessEnds

\* systemd or the operator starts the service again.  The constructors assume
\* OFF; those of DigitalOut set the pins to output again and write no level.
Start ==
    /\ ~running /\ starts < MaxStarts
    /\ running' = TRUE
    /\ starts' = starts + 1
    /\ UNCHANGED <<poolVars, signal_seen, handlers, signals, cutShort>>

HandlerStep(t) ==
    TestSeen(t) \/ SetSeen(t) \/ SwitchNextOff(t) \/ AllSwitchedOff(t) \/ HandlerExit(t)

\* The steps of PoolRelays, by threads that are not interrupted.
Serve ==
    /\ running /\ ~Interrupted(Ioc)
    /\ \E op \in RelayState, r \in Relay : Request(op, r)
    /\ UNCHANGED processVars

ThreadStep(t) ==
    /\ Runnable(t)
    /\ RelayStep(t)
    /\ UNCHANGED processVars

ButtonStep(b) ==
    /\ running /\ ~Interrupted(b)
    /\ Pushed(b) \/ Released(b) \/ CallbackStep(b)
    /\ UNCHANGED processVars

ShutdownNext ==
    \/ Serve
    \/ \E t \in Thread :
          ThreadStep(t) \/ HandlerStep(t) \/ \E sig \in Signal : Deliver(t, sig)
    \/ \E b \in Buttons : ButtonStep(b)
    \/ ExceptionExit
    \/ Start

ShutdownSpec ==
    /\ ShutdownInit /\ [][ShutdownNext]_shutdownVars
    /\ \A t \in Thread :
          WF_shutdownVars(ThreadStep(t)) /\ WF_shutdownVars(HandlerStep(t))

-----------------------------------------------------------------------------
(***************************************************************************)
(* Properties.                                                             *)
(***************************************************************************)

\* The program is gone and has left nothing on, whatever it found on when it
\* started, for every relay that only the io_context thread operates; unless a
\* further signal or an exception ended it before any handler's round over the
\* equipment was through.
OffAtExit ==
    ~running /\ ~cutShort => \A r \in Relay \ Buttons : gpio[r] = "OFF"

\* What a started program believes of a relay nobody is switching is true, if
\* the process before it was not cut short in this sense.
TruthAcrossStarts ==
    running /\ ~cutShort /\ ~signal_seen =>
        \A r \in Relay \ Buttons : ~Busy(r) => gpio[r] = state[r]

Halted == \A t \in Thread : ~ENABLED ThreadStep(t) /\ ~ENABLED HandlerStep(t)

\* A process that handles a signal goes on until it ends, however many threads
\* are in a relay and whatever another signal interrupts; unless a call below a
\* handler holds the logger's mutex, which that handler's own calls wait for.
StopsUnlessLogging ==
    running /\ (\E t \in Thread : Interrupted(t)) /\ Halted =>
        \E t \in Thread : \E k \in 1 .. Len(stack[t]) :
            /\ Interrupted(t) /\ k <= Innermost(t).base
            /\ logOwner = t /\ stack[t][k].pc = "unlock"
=============================================================================
