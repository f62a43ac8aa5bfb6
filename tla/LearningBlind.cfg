SPECIFICATION Spec
CONSTANTS
  desk = desk
  server = server
  web = web
  c2 = c2
  lan = lan
  None = None
  Address <- MCAddress
  Private <- MCPrivate
  Excluded = {}
  Monitored = {lan}
  Direction = "both"
  ExfilBytes = 50
  Traffic <- MCTraffic
  MinObservations = 2
  FeedbackDays = 1
  MaxObservations = 3
INVARIANTS
  AlertsReported
CHECK_DEADLOCK FALSE
