CONSTANTS
  w1 = w1
  w2 = w2
  k1 = k1
  k2 = k2
  NoWorker = NoWorker
  CaseKey = k1
  Worker <- MCWorker
  Key <- MCKey
  LastStage = 3
  CaseStage = {1, 3}
  ModelStage = {}
  PureStage = {1, 2, 3}
  ResolvingStage = {}
  MaxAttempts = 2
  MaxRequests = 1
SPECIFICATION Spec
SYMMETRY MCSymmetry
INVARIANTS TypeOK StageBarrier ResultOnce ReplayMatchesRow
PROPERTIES SettledJobsStay SuccessIsFinal LockFreezes ImplementsInvestigation
CHECK_DEADLOCK FALSE
