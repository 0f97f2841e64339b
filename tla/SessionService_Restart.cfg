SPECIFICATION FairSpec
CONSTANTS
  Channels = {c1}
  Weeks = {2}
  Amounts = {1}
  MaxAmount = 1
  None = None
  Threads = {t1, t2}
  Payloads <- MCPayloads
  Seeds <- ManualSeeds
  FirstWeeks = 2
  TTL = 1
  MaxSessions = 2
  MaxRequests = 2
  MaxClock = 2
  MaxCrashes = 1
INVARIANTS
  QuietSessionsKeepPlan
PROPERTIES
  RequestsFinish
CHECK_DEADLOCK FALSE
