----------------------------- MODULE Detectors -----------------------------
(***************************************************************************)
(* What one poll makes of the lines it has read, a function of them alone: *)
(* the normalizers (normalizers/suricata.py, collectors/filterlog.py), the *)
(* interface filter of service.py, the features of a source                *)
(* (features/aggregator.py) and the rules of detection/detectors.py that   *)
(* need no memory. HostBaselines adds the memory.                          *)
(*                                                                         *)
(* A line is a record of what the rules can tell apart; for a line of      *)
(* Suricata the fields of other event types mean nothing. A batch is a set *)
(* of lines: read_once drops repetitions. Entropy, confidence and anomaly  *)
(* score are in hundredths, times in seconds, ratios in whole parts.       *)
(***************************************************************************)
EXTENDS Integers, FiniteSets, FiniteSetsExt

CONSTANTS
  Address,     \* what valid_ip accepts
  Private,     \* what is_private_ip accepts
  None,        \* a field that is missing or not valid
  Excluded,    \* interfaces the service is told to leave out
  Monitored,   \* those it is told to watch; none means all
  Direction,   \* the direction it is told to watch, or "both"
  ExfilBytes   \* 50_000_000 in the unit bytes are counted in here

ASSUME AddressAssumption == Private \subseteq Address /\ None \notin Address

-----------------------------------------------------------------------------
AtMost(bound, x) == IF x > bound THEN bound ELSE x
AtLeast(bound, x) == IF x < bound THEN bound ELSE x

(* From lines to events. *)

EveTypes == {"flow", "alert", "drop", "dns", "tls", "http", "fileinfo", "anomaly", "stats"}

(* Lines that become events: neither a NormalizationError nor None.         *)
Accepted(l) ==
  IF l.feed = "eve"
  THEN l.type \in EveTypes /\ l.at # None /\ (l.type = "stats" \/ {l.src, l.dst} \subseteq Address)
  ELSE l.action = "block" /\ {l.src, l.dst} \subseteq Address

(* A connection that counts as failed (aggregator.py), read off the flow.   *)
IsFailure(l) == l.state \in {"closed", "new"} /\ l.reason \in {"timeout", "reject", "reset"}

Common(l) ==
  [src |-> l.src, dst |-> l.dst, port |-> l.port, at |-> l.at, nr |-> l.nr, iface |-> l.iface]

EveEvent(l) ==
  [type |-> l.type, line |-> Common(l),
   out |-> IF l.type = "flow" THEN l.out ELSE 0,
   in |-> IF l.type = "flow" THEN l.in ELSE 0,
   failed |-> l.type = "flow" /\ IsFailure(l),
   name |-> IF l.type = "dns" THEN l.name ELSE 0,
   entropy |-> IF l.type = "dns" THEN l.entropy ELSE 0,
   nxdomain |-> l.type = "dns" /\ l.nxdomain,
   print |-> IF l.type = "tls" THEN l.print ELSE None,
   sid |-> IF l.type \in {"alert", "drop"} THEN l.sid ELSE None,
   priority |-> IF l.type \in {"alert", "drop"} THEN l.priority ELSE 0]

(* A blocked packet is a rejected flow of one packet; the rest is not read. *)
FilterEvent(l) ==
  [type |-> "flow", line |-> Common(l), out |-> l.out, in |-> 0, failed |-> TRUE,
   name |-> 0, entropy |-> 0, nxdomain |-> FALSE, print |-> None, sid |-> None, priority |-> 0]

Normalized(l) == IF l.feed = "eve" THEN EveEvent(l) ELSE FilterEvent(l)

(* _direction. _traffic_direction agrees when an address is private, and    *)
(* otherwise says nothing that a direction one can watch is equal to.       *)
DirectionOf(s, d) ==
  IF s \in Private
  THEN (IF d \in Private THEN "internal" ELSE "egress")
  ELSE IF d \in Private THEN "ingress" ELSE IF {s, d} = {None} THEN "unknown" ELSE "external"

(* _filter_events *)
Watched(l) ==
  /\ l.iface \notin Excluded
  /\ Monitored # {} /\ l.iface # None => l.iface \in Monitored
  /\ Direction # "both" => DirectionOf(l.src, l.dst) = Direction

Events(B) == {Normalized(l) : l \in {l \in B : Accepted(l) /\ Watched(l)}}

-----------------------------------------------------------------------------
(* Features of one source; F is the set of its events. *)

Sources(E) == {e.line.src : e \in E} \ {None}
Of(E, h) == {e \in E : e.line.src = h}

Destinations(F) == {e.line.dst : e \in F} \ {None}
Ports(F) == {e.line.port : e \in F} \ {None}
Failed(F) == {e \in F : e.failed}
Names(F) == {e \in F : e.name > 0}
NxDomain(F) == {e \in F : e.nxdomain}

Times(F) == {e.line.at : e \in F}
Span(F) == Max(Times(F)) - Min(Times(F))
Lately(F, seconds) == {e \in F : Max(Times(F)) - e.line.at <= seconds}

Total(F, Field(_)) == MapThenSumSet(Field, F)
Average(F, Field(_)) == IF F = {} THEN 0 ELSE Total(F, Field) \div Cardinality(F)

Sent(F) == Total(F, LAMBDA e : e.out)
Received(F) == Total(F, LAMBDA e : e.in)
UploadRatio(F) == Sent(F) \div AtLeast(1, Received(F))

NameLength(F) == Average(Names(F), LAMBDA e : e.name)
Entropy(F) == Average(Names(F), LAMBDA e : e.entropy)

(* What a baseline remembers of a source, by the names of the code.         *)
Observation(F) ==
  [destination_count |-> Cardinality(Destinations(F)),
   port_count |-> Cardinality(Ports(F)),
   bytes_out |-> Sent(F),
   upload_download_ratio |-> UploadRatio(F),
   dns_entropy |-> Entropy(F),
   dns_name_length |-> NameLength(F),
   connections_60s |-> Cardinality(Lately(F, 60)),
   internal_connections |-> Cardinality({e \in F : e.line.dst \in Private}),
   external_connections |-> Cardinality({e \in F : e.line.dst \notin Private \cup {None}})]

(* burst_score, and the deviation a source has whatever its baseline.       *)
Burst(F) == LET c == Cardinality(Lately(F, 10)) IN IF c > 20 THEN AtMost(100, c) ELSE 0

OwnDeviation(F) ==
  LET transfer == IF UploadRatio(F) > 10 THEN AtMost(100, UploadRatio(F)) ELSE 0
  IN AtLeast(Burst(F), AtLeast(transfer, AtMost(100, Entropy(F) \div 5)))

-----------------------------------------------------------------------------
(* Rules. A finding has the shape Correlation expects. *)

Finding(detector, category, severity, confidence, anomaly, src, dst) ==
  [detector |-> detector, category |-> category, severity |-> AtLeast(1, AtMost(10, severity)),
   confidence |-> confidence, anomaly |-> AtMost(100, anomaly), src |-> src, dst |-> dst]

PortScan(F, h) ==
  LET p == Cardinality(Ports(F))
      f == Cardinality(Failed(F))
  IN IF p >= 12 /\ f >= 3
     THEN {Finding("portscan", "reconnaissance", 7, AtMost(98, 65 + p + f), 2 * p, h, None)}
     ELSE {}

Pairs(F) == {e \in F : e.line.dst # None /\ e.line.port # None}

HorizontalScan(F, h) ==
  {LET n == Cardinality(Destinations({e \in Pairs(F) : e.line.port = p}))
   IN Finding("horizontal_scan", "reconnaissance", 7, AtMost(95, 60 + (5 * n) \div 4),
              (5 * n) \div 2, h, "service") :
   p \in {p \in Ports(F) : Cardinality(Destinations({e \in Pairs(F) : e.line.port = p})) >= 10}}

VerticalScan(F, h) ==
  {LET n == Cardinality(Ports({e \in Pairs(F) : e.line.dst = d}))
   IN Finding("vertical_scan", "reconnaissance", 7, AtMost(95, 60 + (5 * n) \div 4),
              (5 * n) \div 2, h, d) :
   d \in {d \in Destinations(F) : Cardinality(Ports({e \in Pairs(F) : e.line.dst = d})) >= 10}}

DnsTunneling(F, h) ==
  LET names == Cardinality(Names(F))
      seconds == AtLeast(1, Span(F))
  IN IF /\ Entropy(F) >= 380 /\ NameLength(F) >= 45
        /\ 5 * names >= seconds \/ 10 * Cardinality(NxDomain(F)) >= 3 * AtLeast(1, names)
     THEN {Finding("dns_tunneling", "command_and_control", 8,
             AtMost(97, 55 + Entropy(F) \div 10 + (20 * AtMost(names, seconds)) \div seconds),
             Entropy(F) \div 5, h, None)}
     ELSE {}

(* Lateral movement only counts connections between private addresses.      *)
AdminPorts == {22, 135, 139, 445, 3389, 5985, 5986}

LateralMovement(F, h) ==
  LET n == Cardinality(Destinations({e \in F :
             {e.line.src, e.line.dst} \subseteq Private /\ e.line.port \in AdminPorts}))
  IN IF n >= 5
     THEN {Finding("lateral_movement", "lateral_movement", 8, AtMost(95, 60 + 5 * n),
             (20 * n) \div 3, h, "internal")}
     ELSE {}

DataExfiltration(F, h) ==
  IF Sent(F) >= ExfilBytes /\ UploadRatio(F) >= 8
  THEN {Finding("data_exfiltration", "exfiltration", 8, AtMost(96, 55 + AtMost(50, UploadRatio(F))),
          2 * UploadRatio(F), h, None)}
  ELSE {}

UnusualTls(F, h) ==
  LET n == Cardinality({e.print : e \in {e \in F : e.type = "tls"}} \ {None})
  IN IF n >= 8
     THEN {Finding("unusual_tls_fingerprint", "evasion", 6, AtMost(90, 50 + (10 * n) \div 3),
             5 * n, h, None)}
     ELSE {}

UnusualDestination(F, h) ==
  LET n == Cardinality(Destinations(F))
  IN IF n >= 50 /\ Burst(F) >= 20
     THEN {Finding("unusual_destination", "anomaly", 6, AtMost(90, 50 + n \div 2), n, h, None)}
     ELSE {}

(* Periodicity 1 - stddev / mean of the intervals between n + 1 events:     *)
(* at least 85 hundredths. Events of one second are intervals of length 0.  *)
Gap(T, t) == t - Max({u \in T : u < t})
Squares(T) == MapThenSumSet(LAMBDA t : Gap(T, t) * Gap(T, t), T \ {Min(T)})

IsRegular(G) ==
  LET n == Cardinality(G) - 1
  IN Span(G) >= 15 * n /\ 10000 * n * Squares(Times(G)) <= 10225 * Span(G) * Span(G)

(* The score itself is 85 or more; its root is not taken here.              *)
Beaconing(F, h) ==
  {Finding("beaconing", "command_and_control", 8, 88, 85, h, x[1]) :
   x \in {x \in Destinations(F) \X {e.line.port : e \in F} :
            LET G == {e \in F : e.line.dst = x[1] /\ e.line.port = x[2]}
            IN Cardinality(G) >= 5 /\ IsRegular(G)}}

(* Mutant: a rule of low priority has no severity of its own. *)
SuricataSeverityOpen(priority) == 11 - (IF priority = 0 THEN 3 ELSE priority)

SuricataSeverity(priority) ==
  AtLeast(4, AtMost(10, 11 - (IF priority = 0 THEN 3 ELSE priority)))

SuricataAlerts(F, h) ==
  {Finding(IF e.type = "drop" THEN "suricata_drop" ELSE "suricata_alert", "signature",
           SuricataSeverity(e.priority), 90, 0, h, e.line.dst) :
   e \in {e \in F : e.type \in {"alert", "drop"} /\ e.sid # None}}

(* default_detectors without the two that need a model or a baseline.       *)
RuleFindings(E) ==
  UNION {LET F == Of(E, h) IN
    PortScan(F, h) \cup HorizontalScan(F, h) \cup VerticalScan(F, h) \cup DnsTunneling(F, h)
    \cup Beaconing(F, h) \cup UnusualDestination(F, h) \cup LateralMovement(F, h)
    \cup DataExfiltration(F, h) \cup UnusualTls(F, h) \cup SuricataAlerts(F, h) : h \in Sources(E)}
=============================================================================
