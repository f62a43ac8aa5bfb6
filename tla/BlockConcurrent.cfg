SPECIFICATION Spec
CONSTANTS
  svc = svc
  cli = cli
  cli2 = cli2
  outside = outside
  inside = inside
  gateway = gateway
  caseA = caseA
  caseB = caseB
  None = None
  Service = svc
  Actor = {svc, cli}
  Bid <- MCBid2
  Source = {outside, gateway}
  Incident = {caseA}
  Target <- MCTargetOne
  Protected = {gateway}
  MaxConcurrent = 1
  Disturbances = {"pf_error", "crash", "reboot", "raw_activate", "reset_keeps_pf", "reset_live", "clock_race", "mixed_versions"}
INVARIANTS
  ProtectedNeverBlocked
  WithinLimitPlusRacers
