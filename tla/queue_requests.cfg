CONSTANTS
  w1 = w1
  w2 = w2
  k1 = k1
  k2 = k2
  NoWorker = NoWorker
  CaseKey = k1
  Worker <- MCWorker
  Key = {k1}
  LastStage = 2
  CaseStage = {1, 2}
  ModelStage = {1}
  PureStage = {1, 2}
  ResolvingStage = {1}
  MaxAttempts = 2
  MaxRequests = 3
SPECIFICATION MCFairSpec
INVARIANTS CallsWithinBudget OpenRequestsOwned AttemptHistory
PROPERTIES EventuallySettled
CHECK_DEADLOCK FALSE
