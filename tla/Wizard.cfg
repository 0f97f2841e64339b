SPECIFICATION WizardSpec
CONSTANTS
  Channels = {c1}
  Weeks = {1, 2}
  FirstWeeks = 2
  Amounts = {7, 99}
  MaxAmount = 50
  None = None
  Answers <- MCAnswers
  Edits <- MCEdits
  MaxPlans = 2
  MaxForks = 1
SYMMETRY ChannelSymmetry
INVARIANTS
  WizardTypeOK
  ManualReviewHasPlan
  PointsAtOwnNewestPlan
  NothingBypassed
CHECK_DEADLOCK FALSE
