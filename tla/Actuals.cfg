SPECIFICATION Spec
CONSTANTS
  Threads = {t1, t2}
  Plans = {p1}
  PlanWeeks = 2
  Batches <- SomeBatches
  Channels = {"tv", "ooh", "radio"}
  Allocated = {"tv", "ooh"}
  Content <- SomeContent
  MaxPuts = 3
  MaxBatch = 2
  MaxCrashes = 1
  None = None
SYMMETRY Symmetry
INVARIANTS
  TypeOK
  KeysUnique
  AuditComplete
  SupersededOnce
  ReportOfLiveRecords
PROPERTIES
  KeepsTrail
CHECK_DEADLOCK FALSE
