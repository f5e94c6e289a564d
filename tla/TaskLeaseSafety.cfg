SPECIFICATION Spec
CONSTANTS
  Tasks = {t1}
  Actors = {a1, a2}
  Worktrees = {w1}
  Clients = {c1, c2}
  Sweepers = {s1, s2}
  Ops = {"claim", "release", "session", "manual", "pr", "land", "patch", "review", "start", "assign", "delete"}
  MaxLease = 2
  None = None
INVARIANTS SweptOnce SessionsUnderLease EndedUnleased
PROPERTIES ClaimedFromReady
SYMMETRY Symmetry
