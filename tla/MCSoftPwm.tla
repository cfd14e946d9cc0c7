----------------------------- MODULE MCSoftPwm -----------------------------
(***************************************************************************)
(* An instance of SoftPwm for TLC: a pin with soft outputs and a plain one *)
(* in the same register.                                                   *)
(***************************************************************************)
EXTENDS SoftPwm, TLC

CONSTANTS p1, p2

TwoPins     == {p1, p2}
SoftAndRelay == p1 :> {"PWM", "TONE"} @@ p2 :> {"DIGITAL"}
OneTwo       == [c \in Class |-> IF c = "TONE" THEN 2 ELSE 1]
=============================================================================
