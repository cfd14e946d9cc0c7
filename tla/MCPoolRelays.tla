---------------------------- MODULE MCPoolRelays ----------------------------
(***************************************************************************)
(* Instances of PoolRelays for TLC: the four relays of the pool and the    *)
(* buttons that are pressed in a run.                                      *)
(***************************************************************************)
EXTENDS PoolRelays

CONSTANTS MainPump, SWG, BoosterPump, Lighting

PoolRelay    == {MainPump, SWG, BoosterPump, Lighting}
PumpNeeders  == <<SWG, BoosterPump>>
LightButton  == {Lighting}
PumpButton   == {MainPump}
IocAndLight  == {Ioc, Lighting}
IocAndPump   == {Ioc, MainPump}
MCWiring     == Wiring
=============================================================================
