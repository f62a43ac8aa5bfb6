SPECIFICATION Spec
CONSTANTS
  scanner = scanner
  server = server
  laptop = laptop
  linkLocal = linkLocal
  c2 = c2
  None = None
  Finding <- MCFinding
  Place <- MCPlace
  Internal = {server, laptop}
  Private = {server, laptop, linkLocal}
  Window = 1
  Minute = 2
  Limit = 1
  Slew = 1
  MaxTime = 2
  MaxDetections = 4
INVARIANTS
  TypeOK
  EveryDetectionReported
  Linked
  NoLongGap
  RolesFromCase
  TargetActs
  RateKept
CHECK_DEADLOCK FALSE
