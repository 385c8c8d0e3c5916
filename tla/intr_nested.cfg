CONSTANTS
  t1 = t1
  c1 = c1
  c2 = c2
  c3 = c3
  NIL = NIL
  Target <- OneTarget
  Call <- ThreeCalls
  Sleepers <- None
  MaxInterrupts = 2
  MaxRetries = 2
SPECIFICATION Spec
SYMMETRY Sym3
INVARIANTS OneRunner StatusRestored NothingLeftOver ResumeHasEnv
PROPERTY InterruptsNest
CONSTRAINT InStep
CHECK_DEADLOCK FALSE
