SPECIFICATION Spec
CONSTANTS
  Writers = {w1, w2}
  Consumers = {c1, c2}
  Keys = {k1, k2, k3}
  Paths = {"together", "idFirst", "xidFirst"}
  SessionLoss = FALSE
  Limit = 2
  MaxId = 3
  MaxXid = 4
  MaxSeek = 2
  MaxFaults = 2
  None = None
INVARIANTS AppliedOnce AckedHandled HiddenByInversion
SYMMETRY Symmetry
