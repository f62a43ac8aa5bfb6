SPECIFICATION FairSpec
CONSTANTS
  Present = {"eve", "filter"}
  MaxLines = 1
  QueueLimit = 1
  MaxQueue = 1
  LinesPerFile = 2
  Epochs = 2
  MaxFailures = 0
  Disturbances = {"rotate"}
INVARIANTS
  TypeOK
  AnalysedOnce
PROPERTIES
  CatchesUp
  KeepsFeed
