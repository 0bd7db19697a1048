\* Three rounds of a pool of sixteen.
CONSTANTS
  GENETIC_POOL_SIZE = 16
  GENETIC_ROUNDS = 3
  Initials <- MCInitials
  Goals <- MCGoals
  Draws <- MCDraws
  Similarity <- ComputeSimilarity
SPECIFICATION Spec
INVARIANTS IInv Ranked GoalIsBest
PROPERTY Heredity
