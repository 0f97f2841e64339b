SPECIFICATION Spec
CONSTANTS
  Threads = {t1, t2}
  Sessions = {"s"}
  Plans = {"p"}
  SessionOf <- OneSession
  Scopes = {"ct1", "ct2"}
  NoScope = NoScope
  Slots = {"week", "final"}
  Cells = {"reach", "cpm"}
  Inputs <- SomeInputs
  MaxPuts = 2
  MaxEdits = 2
  MaxFailures = 1
  MaxCrashes = 1
  None = None
SYMMETRY Symmetry
INVARIANTS
  SourceKnown
  LearnedAsOne
  BannerBacked
CHECK_DEADLOCK FALSE
