---------------------------- MODULE MCHttpServer ----------------------------
(***************************************************************************)
(* Two clients, the pump with one dependent, whose button is used, and a   *)
(* sensor.  One client sends every kind of request, and closes the         *)
(* connection after some; the other commands the dependent.                *)
(***************************************************************************)
EXTENDS HttpServer

CONSTANTS MainPump, SWG, Controller, c1, c2, zero, warm

TwoClients  == {c1, c2}
TwoRelays   == {MainPump, SWG}
OneSensor   == {Controller}
MapOrder    == <<Controller, MainPump, SWG>>
OneDependent == <<SWG>>
OneButton   == {SWG}
PumpOff     == {<<MainPump, "OFF">>}
TwoReadings == {zero, warm}

Ask(op, name, keep) == [op |-> op, name |-> name, keep |-> keep]
EachKind ==
    {Ask(op, Unknown, FALSE) : op \in {"otherTarget", "badBody", "noSet", "badRequest"}}
    \cup {Ask("status", Unknown, TRUE)}
    \cup {Ask("on", Unknown, FALSE), Ask("on", Controller, FALSE), Ask("off", MainPump, FALSE)}
OneEachKind == [c \in Client |-> IF c = c1 THEN EachKind ELSE {Ask("on", SWG, FALSE)}]
=============================================================================
