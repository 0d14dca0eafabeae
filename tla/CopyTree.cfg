CONSTANTS
  w1 = w1
  w2 = w2
  w3 = w3
  Workers <- ThreeWorkers
  Versions = {"v0", "v1"}
  MaxCopies = 2
  MaxEdits = 1

SPECIFICATION FairSpec

CHECK_DEADLOCK FALSE

PROPERTY EventuallySettled
PROPERTY ShortOnlyExplained
PROPERTY AtRestForGood
