CONSTANTS
  t1 = t1
  t2 = t2
  a = a
  b = b
  c = c
  s1 = s1
  s2 = s2
  n1 = n1
  NIL = NIL
  Unborn = Unborn
  Thread <- TwoThreads
  Package <- ThreePackages
  Symbol <- TwoSymbols
  Name <- OneName
  NameOf <- SameName
  Exported <- OneExported
  Usable <- Fork
  Unusable <- TakenBack
  Done <- Divided
SPECIFICATION FairSpec
INVARIANTS HomeIsPresent UsersKnown NoConflict
PROPERTY OperationsEnd
CHECK_DEADLOCK FALSE
