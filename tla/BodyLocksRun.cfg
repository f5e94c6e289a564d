SPECIFICATION FairSpec
CONSTANTS
  t1 = t1
  t2 = t2
  t3 = t3
  ann = ann
  bob = bob
  Tabs <- MCTabs
  Person <- MCPerson
  Servers = {e1}
  Sweeper = sweeper
  MaxTakes = 2
  Bodies = {old, new}
  Rendered = TRUE
  MaxFaults = 2
  Absent = Absent
INVARIANTS HeldByOne
PROPERTIES NoSilentOverwrite LockFreed
