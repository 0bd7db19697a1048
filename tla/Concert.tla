------------------------------- MODULE Concert -------------------------------
(***************************************************************************)
(* What an improvisation promises to whoever listens to it, without         *)
(* processes, connections or acknowledgements: the piece is a succession of *)
(* bars, every musician writes each bar exactly once, nobody writes a bar   *)
(* before everybody has written the one before it, and the audience hears   *)
(* the bars in order, each one only when all its parts are written.         *)
(* Improvisation.tla is shown to implement this module.                     *)
(***************************************************************************)
EXTENDS Integers

CONSTANTS N,         \* number of musicians
          Measures   \* length of the piece, in bars

VARIABLES bar,       \* the bar being written
          written,   \* written[m]: how many bars musician m has written
          heard      \* how many bars have been heard

concertVars == <<bar, written, heard>>

Parts == 1..N

ConcertInit ==
  /\ bar = 0
  /\ written = [m \in Parts |-> 0]
  /\ heard = 0

Write(m) ==
  /\ bar < Measures
  /\ written[m] = bar
  /\ written' = [written EXCEPT ![m] = bar + 1]
  /\ UNCHANGED <<bar, heard>>

NextBar ==
  /\ \A m \in Parts : written[m] = bar + 1
  /\ bar' = bar + 1
  /\ UNCHANGED <<written, heard>>

Hear ==
  /\ \A m \in Parts : written[m] > heard
  /\ heard' = heard + 1
  /\ UNCHANGED <<bar, written>>

ConcertNext == NextBar \/ Hear \/ \E m \in Parts : Write(m)

ConcertSpec == ConcertInit /\ [][ConcertNext]_concertVars

FairConcertSpec ==
  ConcertSpec /\ WF_concertVars(NextBar) /\ WF_concertVars(Hear)
              /\ \A m \in Parts : WF_concertVars(Write(m))
==============================================================================
