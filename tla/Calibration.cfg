SPECIFICATION Spec
CONSTANTS
  Threads = {t1, t2}
  Keys <- TwoKeys
  Scopes <- AllScopes
  HalfLives = {30, 180}
  Default = 180
  Thresholds = {high}
  Weights = {0}
  Feeds <- TwoFeeds
  MaxFeed = 2
  MaxRequests = 3
  MaxCrashes = 1
  None = None
SYMMETRY Symmetry
INVARIANTS
  UnstainedFresh
CHECK_DEADLOCK FALSE
