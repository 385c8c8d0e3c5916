CONSTANTS
  w1 = w1
  w2 = w2
  i = i
  s = s
  d = d
  c1 = c1
  c2 = c2
  NIL = NIL
  Worker <- OneWorker
  Initial = i
  Shutter = s
  Daemon = d
  Code <- OneCode
  Refusing <- MayRefuse
  Registrations <- InitialCleansUp
  Rounds = 1
SPECIFICATION FairSpec
INVARIANTS OneShutdown ExitCode SeenIsAsked
PROPERTIES ShutdownEnds QueueIsServed
CHECK_DEADLOCK FALSE
