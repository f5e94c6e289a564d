SPECIFICATION FairSpec
CONSTANTS
  Projects = {p, q}
  Poison = {q}
  Writers = {w1, w2}
  Limit = 1
  MaxXid = 3
  MaxFaults = 2
  None = None
INVARIANTS NothingForgotten
PROPERTIES OthersProjected
