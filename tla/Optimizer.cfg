SPECIFICATION OptimizerSpec
CONSTANTS
  ch1 = ch1
  ch2 = ch2
  ch3 = ch3
  Pool = {ch1, ch2, ch3}
  Inputs <- MCInputs
  StepCount = 10
  Unset = Unset
INVARIANTS
  SpendsTheBudget
  LimitsBrokenOneWay
  CurveEndsAtPlan
PROPERTIES
  CurveNeverFalls
CHECK_DEADLOCK FALSE
