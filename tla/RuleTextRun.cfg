\* One rule in two specs; two transactions at once.
SPECIFICATION Spec
CONSTANTS
  Specs = {d, e}
  Rules = {r}
  Clients = {c1, c2}
  Texts = {old, new}
  MaxVersion = 3
  MaxAt = 2
  None = None
SYMMETRY Symmetry
CHECK_DEADLOCK FALSE
INVARIANTS TypeOK
PROPERTIES PublishedStands AcceptanceReaches NeverBack
