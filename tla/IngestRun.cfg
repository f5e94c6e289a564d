\* One webhook handler beside the reconcile command, people and one crash.
SPECIFICATION FairSpec
CONSTANTS
  Tasks = {1}
  Shas = {1, 2, 3}
  Main = {1, 2}
  Source <- MCSource
  Scenarios <- MCAll
  Foreign <- MCForeign
  PR <- MCPR
  Hooks = {h1}
  Reconciler = reconciler
  Ops = {"claim", "abandon", "reopen"}
  Batch = 2
  MaxReopens = 1
  MaxFaults = 1
  None = None
INVARIANTS TypeOK Backed AppliedIsWhole DeployedIsTrue
PROPERTIES ForwardOnly EventuallyDrained EventuallySettled
CHECK_DEADLOCK FALSE
