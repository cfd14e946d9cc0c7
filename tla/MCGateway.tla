----------------------------- MODULE MCGateway -----------------------------
(***************************************************************************)
(* Three commands: two that fit into an acknowledgement, though not both,  *)
(* and one that does not.                                                  *)
(***************************************************************************)
EXTENDS Gateway

CharsOf == [get |-> 14, set |-> 16, long |-> 30]
Commands == DOMAIN CharsOf
=============================================================================
