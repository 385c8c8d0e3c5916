CONSTANTS
  a = a
  b = b
  c1 = c1
  c2 = c2
  c3 = c3
  f = f
  g = g
  NIL = NIL
  OBJNULL = OBJNULL
  Terminated = Terminated
  Exited = Exited
  Obj <- OneObj
  Caller <- ThreeCallers
  Fun <- TwoFuns
  Polling <- OneFun
  MaxPthread = 2
  Careful = TRUE
  Reuse = TRUE
SPECIFICATION FairSpec
INVARIANTS  DetachedDoneUnlisted RunningIsListed JoinedUnlisted JoinGivesOutcome
PROPERTIES RequestIsObeyed JoinReturns
CHECK_DEADLOCK FALSE
