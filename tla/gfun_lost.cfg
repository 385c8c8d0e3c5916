CONSTANTS
  t1 = t1
  t2 = t2
  g1 = g1
  g2 = g2
  k1 = k1
  k2 = k2
  k3 = k3
  k4 = k4
  NIL = NIL
  NoKey = NoKey
  NoValue = NoValue
  Nil = Nil
  Thread <- TwoThreads
  Reused <- None
  Intruding <- None
  Uncached <- None
  Changer <- TwoThreads
  Caller <- OneThread
  Changing <- OneGf
  Gf <- TwoGfs
  Key <- ThreeKeys
  GfOf <- KeyGf
  Hash <- TwoHashes
  Size = 3
  Probes = 2
  MaxDepth = 2
  MaxChanges = 1
SPECIFICATION Spec
INVARIANTS NeverLost

CHECK_DEADLOCK FALSE
