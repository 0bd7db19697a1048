SPECIFICATION Spec
CONSTANTS
  SQS_IN_Q = 2
  Quarters <- MCQuarters
  Musicians <- MCMusicians
  Measures <- MCMeasures
  Drumset <- MCDrumset
INVARIANT AskedIsTaken
