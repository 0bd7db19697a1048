\* Three musicians of the same class.
CONSTANTS
  K = 3
  N = 3
  Class <- SameClass
  Coupling <- Uncoupled
  Faulty = {}
SPECIFICATION Spec
INVARIANT UniqueIds
