SPECIFICATION Spec
CONSTANTS
  laptop = laptop
  server = server
  outside = outside
  caseLaptop = caseLaptop
  caseOutside = caseOutside
  None = None
  Case = {caseLaptop, caseOutside}
  Host <- MCHost
  Internal = {laptop, server}
  Protected = {}
  Origin <- MCOrigin
  RoleTarget <- MCOrigin
  Sign <- MCSign
  Burst <- MCBurst
  Reached <- MCReached
  Eid <- MCEid2
  Settings <- MCSettings
  Cooldown = 1
  Hour = 3
  MaxPerHour = 1
  Lifetime = 2
  MaxCandidates = 1
  MinCategories = 2
  MinIndicators = 1
  MinEngines = 2
  LearnedAt = 0
  MaxTime = 4
CONSTRAINT
  OwnHosts
INVARIANTS
  TypeOK
  FreshIsolationsApart
  HourKept
  Corroborated
