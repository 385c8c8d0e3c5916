CONSTANTS
  t1 = t1
  t2 = t2
  t3 = t3
  NIL = NIL
  Thread <- ThreeThreads
  Kinds <- AllKinds
  MaxDepth = 2
  MaxInterrupts = 0
  WithLock <- ThreeThreads
  Forced <- None
  NestInInterrupt = FALSE
  Conditions = TRUE
  TimedConditions = TRUE
SPECIFICATION Spec
SYMMETRY Sym3
INVARIANTS MutualExclusion OsAccounting
CHECK_DEADLOCK FALSE
