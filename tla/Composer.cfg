SPECIFICATION FairSpec
CONSTANTS
  SQS_IN_Q = 2
  Quarters <- MCQuarters
  Musicians <- MCMusicians
  Measures <- MCMeasures
  Drumset <- MCDrumset
INVARIANTS Filled RhythmKept BestMatch PitchInRange SizeKnown
PROPERTY Composed
