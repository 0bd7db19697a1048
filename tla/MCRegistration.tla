--------------------------- MODULE MCRegistration ----------------------------
(* The instances of Registration that TLC checks.                           *)
EXTENDS Registration

(* Two hands of one piano (coupling 7) and another piano.                   *)
TrioClass    == [m \in 1..K |-> 1]
TrioCoupling == [m \in 1..K |-> IF m = 2 THEN 0 ELSE 7]

(* Instruments of one class, not coupled.                                   *)
SameClass == [m \in 1..K |-> 1]
Uncoupled == [m \in 1..K |-> 0]
==============================================================================
