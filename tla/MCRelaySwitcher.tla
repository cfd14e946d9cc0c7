-------------------------- MODULE MCRelaySwitcher --------------------------
(***************************************************************************)
(* Instances of RelaySwitcher for TLC.                                     *)
(***************************************************************************)
EXTENDS RelaySwitcher

CONSTANTS MainPump, SWG, BoosterPump, Lighting, ioc

When(op, other, required, force) ==
    [relay |-> other, onOff |-> op, required |-> required, force |-> force]

PoolRelay == {MainPump, SWG, BoosterPump, Lighting}

\* The pump and the salt cell as main() wires them (PoolSmartz.cpp:523-537),
\* and a booster with conditions the API offers and main() does not use: it
\* asks for the salt cell without forcing it, then for the light.
AbortConditions ==
    [r \in PoolRelay |->
        CASE r = MainPump -> <<When("OFF", SWG, "OFF", "FORCE_REQUIRED"),
                               When("OFF", BoosterPump, "OFF", "FORCE_REQUIRED")>>
          [] r = SWG -> <<When("ON", MainPump, "ON", "FORCE_REQUIRED")>>
          [] r = BoosterPump -> <<When("ON", SWG, "ON", "ABORT_REQUEST"),
                                  When("ON", Lighting, "ON", "FORCE_REQUIRED"),
                                  When("OFF", MainPump, "OFF", "ABORT_REQUEST")>>
          [] OTHER -> << >>]

AllButLighting == PoolRelay \ {Lighting}
OnlyIoc == {ioc}
=============================================================================
