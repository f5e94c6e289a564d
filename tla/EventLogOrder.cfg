\* Where every writer draws its id and xid together no event is overtaken.
SPECIFICATION FairSpec
CONSTANTS
  Writers = {w1, w2}
  Consumers = {c1, c2}
  Keys = {k1, k2, k3}
  Paths = {"together"}
  SessionLoss = TRUE
  Limit = 2
  MaxId = 3
  MaxXid = 3
  MaxSeek = 1
  MaxFaults = 1
  None = None
PROPERTIES EveryEventHandled
