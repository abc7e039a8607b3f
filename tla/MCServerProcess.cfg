SPECIFICATION ProcessFairSpec
CONSTANTS
  c1 = c1
  c2 = c2
  t1 = t1
  t2 = t2
  Conns = {c1, c2}
  Threads = {t1, t2}
  KindsOf <- MCKindsOf
  QueueLimit = 2
  MaxRequests <- MCMaxRequests
  Pipeliners = {c2}
  Prompt = TRUE
  MaxSignals = 1
INVARIANTS
  NeverWedged
  OneThreadPerConnection
PROPERTIES
  AnsweredWhileRunning
  ShutdownCompletes
  EveryoneLetIn
CHECK_DEADLOCK FALSE
