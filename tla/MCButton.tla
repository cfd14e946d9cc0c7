------------------------------ MODULE MCButton ------------------------------
(***************************************************************************)
(* Instances of Button for TLC.  A unit of time stands for a millisecond   *)
(* or more; what counts is which interval is 0 and which is the longer.    *)
(***************************************************************************)
EXTENDS Button

Momentary  == [trigger |-> 1, hold |-> 3]   \* MomentarySwitch: 2 ms, 500 ms
Defaults   == [trigger |-> 2, hold |-> 1]   \* buttons.hpp:99-103: 2 ms, 1 ms
Direct     == [trigger |-> 0, hold |-> 0]   \* DirectIn: no debouncing
NoHold     == [trigger |-> 1, hold |-> 0]

AllIntervals     == {Momentary, Defaults, Direct, NoHold}
DefaultIntervals == {Defaults}
=============================================================================
