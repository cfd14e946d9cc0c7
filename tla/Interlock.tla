----------------------------- MODULE Interlock -----------------------------
(***************************************************************************)
(* What the relay conditions of the pool controller promise, seen at the   *)
(* relay outputs: "states that must exist before a change of relay state   *)
(* is allowed" (PoolSmartz/src/RelaySwitcher.h:32-36), with the conditions *)
(* main() wires up (PoolSmartz.cpp:523-537).  A dependent relay (the salt  *)
(* water generator, the booster pump) is energised only while the main     *)
(* pump's relay is, and the main pump's relay is released only after every *)
(* dependent one.  How SwitchOn and SwitchOff get there is RelaySwitcher's *)
(* business; PoolRelays shows that they do when one thread operates these  *)
(* relays.                                                                 *)
(***************************************************************************)
CONSTANTS
    Relay,       \* the relays on the controller's outputs
    Pump,        \* the relay of the main pump
    Dependents   \* the relays that may be on only while the pump is on

VARIABLE output  \* output[r]: the level that drives relay r

Init == output = [r \in Relay |-> "OFF"]

\* A relay may come on once the relay it needs is on.
Energise(r) ==
    /\ r \in Dependents => output[Pump] = "ON"
    /\ output' = [output EXCEPT ![r] = "ON"]

\* A relay may go off once the relays that need it are off.
Release(r) ==
    /\ r = Pump => \A d \in Dependents : output[d] = "OFF"
    /\ output' = [output EXCEPT ![r] = "OFF"]

Next == \E r \in Relay : Energise(r) \/ Release(r)

Spec == Init /\ [][Next]_output

\* No dependent relay is energised while the pump's relay is released: the
\* salt cell and the booster never run without flow.
PumpFlows == \A d \in Dependents : output[d] = "ON" => output[Pump] = "ON"

=============================================================================
