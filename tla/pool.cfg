CONSTANTS
  w1 = w1
  w2 = w2
  w3 = w3
  Workers = {w1, w2, w3}
  WORKER_CAP = 2
  MaxJobs = 3
SPECIFICATION FairSpec
INVARIANTS TypeOK ExactlyOnce NoLostWork NoLostCompletion Accounting
PROPERTIES ServiceSpec EveryJobFinishes WaitReturns WorkersLeave
CHECK_DEADLOCK FALSE
