\* Five pieces: twelve-bar blues of three sections and five measures, one of
\* ten sections of two measures, patterns of unequal length, a short piece
\* and one without soloists.
CONSTANTS
  Pieces <- MCPieces
  Tonalities = {9}
  UINT = 256
  Beats = 2
  RandomChords <- MCRandomChords
SPECIFICATION Spec
INVARIANTS TypeOK ScheduleLasts InPattern LeaderFrames ScaleFits
PROPERTY SoloBySection
