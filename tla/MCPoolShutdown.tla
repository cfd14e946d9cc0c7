--------------------------- MODULE MCPoolShutdown ---------------------------
(***************************************************************************)
(* An instance of PoolShutdown for TLC: the pump, a relay that needs it    *)
(* and the light, which a second thread operates.                          *)
(***************************************************************************)
EXTENDS PoolShutdown

CONSTANTS MainPump, SWG, Lighting, SIGINT, SIGTERM

ThreeRelays  == {MainPump, SWG, Lighting}
ThreeKeys    == <<Lighting, MainPump, SWG>>
NeedsPump    == <<SWG>>
TwoSignals   == {SIGINT, SIGTERM}
SameSignals  == Permutations(TwoSignals)
NoButtons    == {}
LightButton  == {Lighting}
IocAndLight  == {Ioc, Lighting}
MCWiring     == Wiring
=============================================================================
