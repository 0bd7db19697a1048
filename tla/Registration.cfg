\* Three pianists, two of them coupled; the director is told the right number; the
\* director, the player and one of the coupled musicians may be killed.
CONSTANTS
  K = 3
  N = 3
  Class <- TrioClass
  Coupling <- TrioCoupling
  Faulty = {0, 1, 4}
SPECIFICATION FairSpec
INVARIANTS TypeOK SameBand IdCarriesClass
PROPERTIES Registered Settled
