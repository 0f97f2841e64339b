SPECIFICATION Spec
CONSTANTS
  Channels = {c1}
  Weeks = {2}
  Amounts = {1}
  MaxAmount = 1
  None = None
  Threads = {t1, t2}
  Payloads <- MCPayloads
  Seeds <- BothSeeds
  FirstWeeks = 2
  TTL = 1
  MaxSessions = 3
  MaxRequests = 2
  MaxClock = 2
  MaxCrashes = 0
SYMMETRY ThreadSymmetry
INVARIANTS
  LinkedPlanIsOwn
  TurnsGapless
  QuietSessionsExact
  QuietManualOnePlan
PROPERTIES
  OwnSessionSurvivesSweep
  SweptWholly
  KeepsPromise
CHECK_DEADLOCK FALSE
