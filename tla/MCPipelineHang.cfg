SPECIFICATION FairSpec
CONSTANTS
  w1 = w1
  w2 = w2
  Workers <- TwoWorkers
  Nobody = Nobody
  NoLimit = NoLimit
  PerThread = 2
  Jobs <- HangJobs
PROPERTY WorkersStopWithWriter
CHECK_DEADLOCK FALSE
