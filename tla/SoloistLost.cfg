\* The piece of a director started without arguments: twelve measures.
CONSTANTS
  Pieces <- DefaultPieces
  Tonalities = {9}
  UINT = 256
  Beats = 2
  RandomChords <- MCRandomChords
SPECIFICATION Spec
INVARIANT LeaderImproves
