SPECIFICATION ExpiringSpec
CONSTANTS
  svc = svc
  cli = cli
  cli2 = cli2
  outside = outside
  inside = inside
  gateway = gateway
  caseA = caseA
  caseB = caseB
  None = None
  Service = svc
  Actor = {cli}
  Bid <- MCBid2
  Source = {outside, inside}
  Incident = {caseA}
  Target <- MCTargetOne
  Protected = {}
  MaxConcurrent = 1
  Disturbances = {"retention"}
INVARIANTS
  TypeOK
  NothingLeaks
  OneCurrentPerSource
  WithinLimit
  HostClaimsAreRecorded
PROPERTIES
  ResponseKeepsCase
  KeepsContract
  BlocksAreTemporary
