CONSTANTS
  t1 = t1
  t2 = t2
  t3 = t3
  NIL = NIL
  Thread <- ThreeThreads
  Kinds <- AllKinds
  MaxDepth = 2
  MaxInterrupts = 2
  WithLock <- TwoThreads
  Forced <- OnlyThird
  NestInInterrupt = FALSE
  Conditions = FALSE
  TimedConditions = FALSE
SPECIFICATION Spec
SYMMETRY Sym2
INVARIANTS MutualExclusion OwnerCanGiveUp HolderHoldsLock CounterMatchesDepth InterruptNeverSelfBlocks
CHECK_DEADLOCK FALSE
