SPECIFICATION Spec
CONSTANTS
  Channels = {c1}
  Weeks = {2}
  Amounts = {1}
  MaxAmount = 1
  None = None
  Threads = {t1, t2}
  Payloads <- MCPayloads
  Seeds <- ManualSeeds
  FirstWeeks = 2
  TTL = 1
  MaxSessions = 1
  MaxRequests = 2
  MaxClock = 0
  MaxCrashes = 0
INVARIANTS
  NoLostUpdate
CHECK_DEADLOCK FALSE
