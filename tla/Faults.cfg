\* Everybody may die at any moment, the director may be stopped and continued,
\* and the player's sockets hold one part only.
CONSTANTS
  N = 2
  Genetics = {1, 2}
  Measures = 2
  Buffer = 1
  FdLimit = 2
  Faulty <- Everybody
  Suspendable = {0}
SPECIFICATION Spec
INVARIANTS IInv RoundComplete ConcertPrepared NoLostPart
PROPERTY ImplementsConcert
