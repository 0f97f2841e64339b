SPECIFICATION FairSpec
CONSTANTS
  Sids = {"s1", "s2", "s3"}
  Pids = {"p1", "p2"}
  Clients = {"c"}
  Targets = {"t"}
  Files <- SomeFiles
  PriorRows <- SomeRows
  MaxAges = 1
  MaxCrashes = 2
  None = None
INVARIANTS
  ImportWhole
  ColumnsRepeatPayload
  DeletedStayDeleted
PROPERTY
  ComesUp
CHECK_DEADLOCK FALSE
