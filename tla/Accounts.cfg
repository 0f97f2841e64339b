SPECIFICATION Spec
CONSTANTS
  Threads = {t1, t2}
  UserNames = {admin, planner}
  Admin = admin
  ProjectNames = {Default, other}
  Default = Default
  MaxRequests = 4
  MaxCrashes = 1
  None = None
SYMMETRY Symmetry
INVARIANTS
  UniqueUnlessRaced
  
  SessionsInOwnProject
CHECK_DEADLOCK FALSE
