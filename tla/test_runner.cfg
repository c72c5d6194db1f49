SPECIFICATION FairSpec
CONSTANTS
  w1 = w1
  w2 = w2
  NoExit = NoExit
  NoVerdict = NoVerdict
  N = 4
  Workers <- TwoWorkers
  ToSkip <- FirstSkipped
  Suites <- LastTwo
INVARIANTS
  TypeOK
  AnsweredOnce
  SuccessMeansPassed
  NoStandstill
  RunnerInv
PROPERTIES
  Terminates
  VerdictsImplemented
CHECK_DEADLOCK FALSE
