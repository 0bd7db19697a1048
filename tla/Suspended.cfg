\* Everybody may die, and the director and the player (N + 1 = 3) may be stopped
\* and continued, once each.  One musician of two is genetic.
CONSTANTS
  N = 2
  Genetics = {2}
  Measures = 2
  Buffer = 2
  FdLimit = 2
  Faulty <- Everybody
  Suspendable = {0, 3}
SPECIFICATION FairSpec
INVARIANT Barrier
PROPERTY AllStop
