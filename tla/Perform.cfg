\* Nothing fails: two genetic musicians of three, and room for the whole piece.
CONSTANTS
  N = 3
  Genetics = {2, 3}
  Measures = 2
  Buffer = 2
  FdLimit = 2
  Faulty = {}
  Suspendable = {}
SPECIFICATION FairSpec
PROPERTIES FullPerformance ImplementsFairConcert
