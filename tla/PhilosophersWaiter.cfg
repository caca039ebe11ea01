CONSTANTS
  SIZE = 4
  LIMIT = 3
SPECIFICATION FairSpec
PROPERTIES ImplementsDining EatingGoesOnUnlessFull SleeperIsWoken
CHECK_DEADLOCK FALSE
