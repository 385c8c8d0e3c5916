CONSTANTS
  f1 = f1
  f2 = f2
  f3 = f3
  NIL = NIL
  Interrupt = Interrupt
  Foreign <- ThreeForeign
  GcThreads <- OneKnown
  Batch = 1
  MaxEnv = 3
SPECIFICATION Spec
SYMMETRY Sym
INVARIANTS EnvExclusive NoEnvLost RefillTokens KnownInLisp GcBalanced
CHECK_DEADLOCK FALSE
