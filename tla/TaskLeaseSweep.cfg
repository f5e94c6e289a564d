SPECIFICATION FairSpec
CONSTANTS
  Tasks = {t1, t2}
  Actors = {a1}
  Worktrees = {w1, w2}
  Clients = {c1}
  Sweepers = {s1}
  Ops = {"claim", "renew", "rebind", "manual", "release"}
  MaxLease = 2
  None = None
PROPERTIES QuietLeasesEnd ImplementsService
