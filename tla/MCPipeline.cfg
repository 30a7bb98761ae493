SPECIFICATION FairSpec
CONSTANTS
  w1 = w1
  w2 = w2
  Workers <- TwoWorkers
  Nobody = Nobody
  NoLimit = NoLimit
  PerThread = 1
  Jobs <- PassingJobs
INVARIANTS
  TypeOK
  OnePlace
  NothingLost
  OutputIsDocument
  SuccessIsComplete
PROPERTIES
  Termination
  ImplementsStream
