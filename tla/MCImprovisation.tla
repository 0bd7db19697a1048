--------------------------- MODULE MCImprovisation ---------------------------
(* The instances of Improvisation that TLC checks.                          *)
EXTENDS ImprovisationInvariants

(* Everybody may die.                                                       *)
Everybody == 0..N+1
==============================================================================
