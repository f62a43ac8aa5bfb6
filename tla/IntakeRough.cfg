SPECIFICATION Spec
CONSTANTS
  Present = {"eve", "filter"}
  MaxLines = 1
  QueueLimit = 1
  MaxQueue = 1
  LinesPerFile = 2
  Epochs = 2
  MaxFailures = 1
  Disturbances = {"burst", "rotate", "rotate_in_read", "truncate", "unreadable", "save_fails", "db_full", "fail", "offset_lost", "reset", "reset_fails", "reset_live"}
CONSTRAINTS
  OneLogGrows
  OneTrouble
INVARIANTS
  NothingSkipped
  SkipsApart
  LossIsBounded
PROPERTIES
  WaivedForGood
