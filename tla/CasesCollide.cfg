SPECIFICATION Spec
CONSTANTS
  svc = svc
  scanner = scanner
  intruder = intruder
  web = web
  mail = mail
  scan = scan
  beacon = beacon
  intrusion = intrusion
  d1 = d1
  d2 = d2
  netA = netA
  netB = netB
  Any = Any
  None = None
  Actor = {svc}
  Case = {scan, beacon}
  Host <- MCHost
  Detection = {d1, d2}
  CaseSource <- MCSource
  CaseKey <- MCKey
  CaseTargets <- MCTargets
  NetworkOf <- MCNetworkOf
  CaseEvidence <- MCEvidence
  Marks = {"open", "closed"}
  MaxBatch = 2
  Happens = {"status"}
INVARIANTS
  DetectionsHaveCases
