CONSTANTS
  w1 = w1
  w2 = w2
  k1 = k1
  k2 = k2
  NoWorker = NoWorker
  CaseKey = k1
  Worker <- MCWorker
  Key <- MCKey
  LastStage = 2
  CaseStage = {2}
  ModelStage = {1}
  PureStage = {1, 2}
  ResolvingStage = {}
  MaxAttempts = 2
  MaxRequests = 1
SPECIFICATION Spec
SYMMETRY MCSymmetry
PROPERTIES FailureIsTerminal
CHECK_DEADLOCK FALSE
