CONSTANTS
  t1 = t1
  t2 = t2
  t3 = t3
  NIL = NIL
  Thread <- TwoThreads
  Kinds <- AllKinds
  MaxDepth = 2
  MaxInterrupts = 1
  WithLock <- TwoThreads
  Forced <- None
  NestInInterrupt = FALSE
  Conditions = TRUE
  TimedConditions = FALSE
SPECIFICATION Spec
SYMMETRY Sym2
INVARIANTS MutualExclusion
CHECK_DEADLOCK FALSE
