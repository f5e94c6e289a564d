\* Four scenes: clients that overlap, and transactions in turn.
SPECIFICATION MCSpec
CONSTANTS
  Tasks = {a, b, x}
  Fresh = {x}
  Clients = {p, q}
  Ops = {"claim", "release", "pr", "land", "facts", "edge", "unlink", "decompose", "patch", "manual", "delete"}
  None = None
SYMMETRY Symmetry
INVARIANTS OneParent Forest
PROPERTIES HeldNotSplit DraftsStayDraft RolledUpAlone
