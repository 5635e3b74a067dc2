CONSTANTS
  w1 = w1
  w2 = w2
  k1 = k1
  k2 = k2
  NoWorker = NoWorker
  CaseKey = k1
  Worker <- MCWorker
  Key <- MCKey
  LastStage = 2
  CaseStage = {2}
  ModelStage = {1}
  PureStage = {1, 2}
  ResolvingStage = {}
  MaxAttempts = 1
  MaxRequests = 2
SPECIFICATION MCFairSpec
INVARIANTS ReplayMatchesRow
PROPERTIES EventuallySettled
CHECK_DEADLOCK FALSE
