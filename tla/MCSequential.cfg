SPECIFICATION Spec
CONSTANTS
  NoLimit = NoLimit
  Jobs <- PlainJobs
INVARIANT OutputIsDocument
PROPERTY ImplementsStream
