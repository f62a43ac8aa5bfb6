SPECIFICATION FairSpec
CONSTANTS
  Present = {"eve"}
  MaxLines = 2
  QueueLimit = 2
  MaxQueue = 2
  LinesPerFile = 4
  Epochs = 1
  MaxFailures = 0
  Disturbances = {"burst"}
PROPERTIES
  CatchesUp
