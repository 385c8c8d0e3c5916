CONSTANTS
  t1 = t1
  c1 = c1
  c2 = c2
  c3 = c3
  NIL = NIL
  Target <- OneTarget
  Call <- TwoCalls
  Sleepers <- OneTarget
  MaxInterrupts = 2
  MaxRetries = 1
SPECIFICATION FairSpec
INVARIANTS RefusalIsTrue
PROPERTIES StoppedResumes CallReturns
CONSTRAINT InStep
CHECK_DEADLOCK FALSE
