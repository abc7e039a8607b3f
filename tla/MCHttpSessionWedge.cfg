SPECIFICATION FairSpec
CONSTANTS
  c1 = c1
  c2 = c2
  t1 = t1
  t2 = t2
  Conns = {c1}
  Threads = {t1, t2}
  KindsOf <- Gets
  QueueLimit = 2
  MaxRequests <- MCMaxRequests
  Pipeliners = {c1}
  Prompt = FALSE
PROPERTIES
  RequestsAnswered
CHECK_DEADLOCK FALSE
