------------------------------- MODULE MCSound -------------------------------
(* Bands and parts for the runs: a grand piano (0), a saxophone (66), a     *)
(* bass (33) and drums, on five channels of which the third is the drums'.  *)
EXTENDS Sound

Note(len, chord) == [len |-> len, chord |-> chord]

MCParts ==
  { <<>>,
    <<Note(3, <<60>>)>>,
    <<Note(2, <<60, 61>>), Note(1, <<60>>)>>,
    <<Note(1, <<61>>), Note(2, <<REST>>)>>,
    <<Note(1, <<60>>), Note(1, <<61>>), Note(1, <<60, 61>>)>>,
    <<Note(3, <<>>)>> }

MCBands == { <<66, 33>>, <<66, 66>>, <<INSTRUMENT_DRUM, 66>>, <<0, 33>> }
==============================================================================
