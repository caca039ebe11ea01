CONSTANTS
  SIZE = 5
  LIMIT = 4
SPECIFICATION OrderedFairSpec
INVARIANTS ForkOwnership NoCircularWait
PROPERTIES OrderedImplementsDining SomebodyEatsAgain
