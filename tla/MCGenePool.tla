------------------------------ MODULE MCGenePool ------------------------------
(* A pool of sixteen, of which the best pair and the worst have a choice   *)
(* of changes; pieces of one to five notes.                                 *)
EXTENDS GenePool

N(pitch, tempo) == [pitch |-> pitch, tempo |-> tempo]

MCInitials == {<<N(60, 2), N(62, 2)>>, <<N(4, 16), N(MIDI_REST_NOTE, 1), N(60, 4)>>}

MCGoals == {<<N(60, 4)>>, <<N(62, 2), N(62, 2)>>,
            <<N(60, 2), N(62, 2), N(60, 2), N(62, 2), N(60, 2)>>}

Small == [r |-> 0, pitch |-> 2, tempo |-> -1]
Large == [r |-> 2, pitch |-> -11, tempo |-> 3]
Last  == [r |-> 1, pitch |-> 0, tempo |-> 0]

MCDraws == [k \in Place |-> IF k >= Top - 1 THEN {Small, Large}
                            ELSE IF k = 0 THEN {Small, Last}
                            ELSE IF k % 2 = 0 THEN {Last} ELSE {Large}]
==============================================================================
