------------------------ MODULE HostBaselines_proofs ------------------------
(***************************************************************************)
(* Theorems about HostBaselines, and about the rules of Detectors it uses. *)
(***************************************************************************)
EXTENDS HostBaselines, FiniteSetTheorems, TLAPS

(* The expectation is the mean of what was learnt, of which what was learnt *)
(* last, and many times in a row, is a part.                                *)
StreakPart(h) ==
  /\ baseline[h].n = streak[h].from + streak[h].times
  /\ \A m \in Metric : baseline[h].sum[m] >= streak[h].times * streak[h].obs[m]

Streaks == \A h \in Host : StreakPart(h)

(* A source that deviates is in the detections until the poll is over.      *)
DeviantsReported ==
  batch # None /\ status = "armed" => DeviantIn(batch) \subseteq Reported

(* The detections are of sources of the batch, and fit.                     *)
FoundInBatch ==
  /\ batch = None => found = {}
  /\ batch # None => Reported \subseteq Present[batch]

IInv == TypeOK /\ Streaks /\ DeviantsReported /\ FoundInBatch /\ FindingsFit

-----------------------------------------------------------------------------
(* Finite sets, and numbers. *)

(* A positive factor can be taken off both sides. *)
LEMMA CancelFactor ==
  ASSUME NEW x \in Nat, x > 0, NEW a \in Nat, NEW b \in Nat, a * x >= b * x
  PROVE  a >= b
<1> SUFFICES ASSUME a < b PROVE FALSE
  OBVIOUS
<1>1. (b - a) * x > 0
  BY SMT
<1>2. (b - a) * x = b * x - a * x
  BY SMT
<1> QED
  BY <1>1, <1>2, SMT

-----------------------------------------------------------------------------
(* Events of a batch. *)

LEMMA BatchFacts ==
  ASSUME NEW B \in Batch, NEW h \in Present[B]
  PROVE  /\ h \in Host /\ h \in Address
         /\ Observed[B][h] \in [Metric -> Nat]
<1>1. Present[B] = Sources(Event[B]) /\ Event[B] = Events(Traffic[B])
  BY DEF Present, Event
<1>2. PICK e \in Event[B] : e.line.src = h /\ h # None
  BY <1>1 DEF Sources
<1>3. PICK l \in Traffic[B] : e = Normalized(l)
  BY <1>1, <1>2 DEF Events
<1>4. e.line.src = l.src
  BY <1>3 DEF Normalized, EveEvent, FilterEvent, Common
<1>5. h \in Address
  BY <1>2, <1>4, TrafficAssumption
<1> QED
  BY <1>5, TrafficAssumption DEF Host

LEMMA EventFields ==
  ASSUME NEW B \in Batch, NEW e \in Event[B]
  PROVE  /\ e.line.dst \in Address \cup {None}
         /\ e.priority \in Nat
<1>1. PICK l \in Traffic[B] : e = Normalized(l)
  BY DEF Event, Events
<1>2. e.line.dst = l.dst
  BY <1>1 DEF Normalized, EveEvent, FilterEvent, Common
<1>3. e.line.dst \in Address \cup {None}
  BY <1>2, TrafficAssumption
<1>4. e.priority \in Nat
  <2>1. CASE l.feed = "eve"
    BY <1>1, <2>1, TrafficAssumption DEF Normalized, EveEvent
  <2>2. CASE l.feed # "eve"
    BY <1>1, <2>2 DEF Normalized, FilterEvent
  <2> QED
    BY <2>1, <2>2
<1> QED
  BY <1>3, <1>4

LEMMA EventsFinite ==
  ASSUME NEW B \in Batch
  PROVE  IsFiniteSet(Event[B])
<1> DEFINE L == {l \in Traffic[B] : Accepted(l) /\ Watched(l)}
<1> DEFINE f == [l \in L |-> Normalized(l)]
<1>1. IsFiniteSet(L)
  BY TrafficAssumption, FS_Subset
<1>2. Event[B] = {Normalized(l) : l \in L}
  BY DEF Event, Events
<1>3. f \in Surjection(L, Event[B])
  BY <1>2 DEF Surjection
<1> QED
  BY <1>1, <1>3, FS_Surjection

(* How many of anything that is read off the events, or off some of them. *)
LEMMA CountsAreNat ==
  ASSUME NEW F, IsFiniteSet(F), NEW G \in SUBSET F
  PROVE  /\ Cardinality(G) \in Nat
         /\ Cardinality(Destinations(G)) \in Nat
         /\ Cardinality(Ports(G)) \in Nat
         /\ Cardinality({e.print : e \in G} \ {None}) \in Nat
<1>1. IsFiniteSet(G)
  BY FS_Subset
<1>2. IsFiniteSet({e.line.dst : e \in G})
  <2> DEFINE f == [e \in G |-> e.line.dst]
  <2>1. f \in Surjection(G, {e.line.dst : e \in G})
    BY DEF Surjection
  <2> QED
    BY <1>1, <2>1, FS_Surjection
<1>3. IsFiniteSet({e.line.port : e \in G})
  <2> DEFINE f == [e \in G |-> e.line.port]
  <2>1. f \in Surjection(G, {e.line.port : e \in G})
    BY DEF Surjection
  <2> QED
    BY <1>1, <2>1, FS_Surjection
<1>4. IsFiniteSet({e.print : e \in G})
  <2> DEFINE f == [e \in G |-> e.print]
  <2>1. f \in Surjection(G, {e.print : e \in G})
    BY DEF Surjection
  <2> QED
    BY <1>1, <2>1, FS_Surjection
<1>5. IsFiniteSet(Destinations(G)) /\ IsFiniteSet(Ports(G))
  BY <1>2, <1>3, FS_Subset DEF Destinations, Ports
<1>6. IsFiniteSet({e.print : e \in G} \ {None})
  BY <1>4, FS_Subset
<1> QED
  BY <1>1, <1>5, <1>6, FS_CardinalityType

-----------------------------------------------------------------------------
(* Rules. *)

(* A finding about h that fits. *)
GoodFor(f, h) == Fits(f) /\ f.src = h

LEMMA FindingFits ==
  ASSUME NEW detector, NEW category, NEW severity, NEW confidence, NEW anomaly, NEW h, NEW dst,
         severity \in 4..10, category # "signature" => severity \in 6..10,
         confidence \in 0..100, anomaly \in Nat,
         h \in Address, dst \in Address \cup {None, "internal", "service"}
  PROVE  GoodFor(Finding(detector, category, severity, confidence, anomaly, h, dst), h)
<1> DEFINE f == Finding(detector, category, severity, confidence, anomaly, h, dst)
<1>1. /\ f.category = category /\ f.confidence = confidence /\ f.src = h /\ f.dst = dst
      /\ f.severity = AtLeast(1, AtMost(10, severity)) /\ f.anomaly = AtMost(100, anomaly)
  BY DEF Finding
<1>2. f.severity \in 1..10 /\ f.severity >= 4 /\ (category # "signature" => f.severity >= 6)
  BY <1>1 DEF AtLeast, AtMost
<1>3. f.anomaly \in 0..100
  BY <1>1 DEF AtMost
<1> HIDE DEF f
<1>4. IF f.category = "signature" THEN f.severity >= 4 ELSE f.severity >= 6
  BY <1>1, <1>2
<1>5. GoodFor(f, h)
  BY <1>1, <1>2, <1>3, <1>4 DEF GoodFor, Fits
<1> QED
  BY <1>5 DEF f

(* What the rules may count on, of the events F of one source h. *)
Countable(F, h) ==
  /\ h \in Address /\ IsFiniteSet(F)
  /\ UploadRatio(F) \in Nat /\ Entropy(F) \in Nat /\ Span(F) \in Nat
  /\ Destinations(F) \subseteq Address
  /\ \A e \in F : e.line.dst \in Address \cup {None} /\ e.priority \in Nat

LEMMA FeatureFacts ==
  ASSUME NEW B \in Batch, NEW h \in Present[B]
  PROVE  Countable(Of(Event[B], h), h)
<1> DEFINE F == Of(Event[B], h)
<1>1. F \in SUBSET Event[B]
  BY DEF Of
<1>2. IsFiniteSet(F)
  BY <1>1, EventsFinite, FS_Subset
<1>3. Observed[B][h] = Observation(F)
  BY DEF Observed
<1>4. Observation(F)["upload_download_ratio"] = UploadRatio(F)
  BY DEF Observation
<1>5. Observation(F)["dns_entropy"] = Entropy(F)
  BY DEF Observation
<1>6. {"upload_download_ratio", "dns_entropy"} \subseteq Metric
  BY DEF Metric
<1>7. Observed[B][h] \in [Metric -> Nat] /\ h \in Address
  BY BatchFacts
<1> HIDE DEF F
<1>8. UploadRatio(F) \in Nat /\ Entropy(F) \in Nat
  BY <1>3, <1>4, <1>5, <1>6, <1>7
<1>9. Span(F) \in Nat
  BY TrafficAssumption DEF F
<1>10. \A e \in F : e.line.dst \in Address \cup {None} /\ e.priority \in Nat
  BY <1>1, EventFields
<1>11. Destinations(F) \subseteq Address
  BY <1>10 DEF Destinations
<1>12. Countable(F, h)
  BY <1>2, <1>7, <1>8, <1>9, <1>10, <1>11 DEF Countable
<1> QED
  BY <1>12 DEF F

LEMMA PortScanFits ==
  ASSUME NEW F, NEW h, Countable(F, h),
         NEW f \in PortScan(F, h)
  PROVE  GoodFor(f, h)
<1> DEFINE p == Cardinality(Ports(F))
           k == Cardinality(Failed(F))
<1>1. p \in Nat /\ k \in Nat
  <2>1. Failed(F) \in SUBSET F
    BY DEF Failed
  <2> QED
    BY <2>1, CountsAreNat DEF Countable
<1>2. f = Finding("portscan", "reconnaissance", 7, AtMost(98, 65 + p + k), 2 * p, h, None)
  BY DEF PortScan
<1> HIDE DEF p, k
<1>3. AtMost(98, 65 + p + k) \in 0..100 /\ 2 * p \in Nat
  BY <1>1 DEF AtMost
<1> QED
  BY <1>2, <1>3, FindingFits DEF Countable

LEMMA ScansFit ==
  ASSUME NEW F, NEW h, Countable(F, h),
         NEW f \in HorizontalScan(F, h) \cup VerticalScan(F, h)
  PROVE  GoodFor(f, h)
<1>1. ASSUME NEW n \in Nat
      PROVE  AtMost(95, 60 + (5 * n) \div 4) \in 0..100 /\ (5 * n) \div 2 \in Nat
  <2>1. (5 * n) \div 4 \in Nat /\ (5 * n) \div 2 \in Nat
    BY SMT
  <2> QED
    BY <2>1 DEF AtMost
<1>2. CASE f \in HorizontalScan(F, h)
  <2>1. PICK p \in Ports(F) :
          LET n == Cardinality(Destinations({e \in Pairs(F) : e.line.port = p}))
          IN f = Finding("horizontal_scan", "reconnaissance", 7, AtMost(95, 60 + (5 * n) \div 4),
                         (5 * n) \div 2, h, "service")
    BY <1>2 DEF HorizontalScan
  <2> DEFINE n == Cardinality(Destinations({e \in Pairs(F) : e.line.port = p}))
  <2>2. n \in Nat
    <3>1. {e \in Pairs(F) : e.line.port = p} \in SUBSET F
      BY DEF Pairs
    <3> QED
      BY <3>1, CountsAreNat DEF Countable
  <2>3. f = Finding("horizontal_scan", "reconnaissance", 7, AtMost(95, 60 + (5 * n) \div 4),
                    (5 * n) \div 2, h, "service")
    BY <2>1
  <2> HIDE DEF n
  <2> QED
    BY <1>1, <2>2, <2>3, FindingFits DEF Countable
<1>3. CASE f \in VerticalScan(F, h)
  <2>1. PICK d \in Destinations(F) :
          LET n == Cardinality(Ports({e \in Pairs(F) : e.line.dst = d}))
          IN f = Finding("vertical_scan", "reconnaissance", 7, AtMost(95, 60 + (5 * n) \div 4),
                         (5 * n) \div 2, h, d)
    BY <1>3 DEF VerticalScan
  <2> DEFINE n == Cardinality(Ports({e \in Pairs(F) : e.line.dst = d}))
  <2>2. n \in Nat
    <3>1. {e \in Pairs(F) : e.line.dst = d} \in SUBSET F
      BY DEF Pairs
    <3> QED
      BY <3>1, CountsAreNat DEF Countable
  <2>3. f = Finding("vertical_scan", "reconnaissance", 7, AtMost(95, 60 + (5 * n) \div 4),
                    (5 * n) \div 2, h, d)
    BY <2>1
  <2>4. d \in Address
    BY DEF Countable
  <2> HIDE DEF n
  <2> QED
    BY <1>1, <2>2, <2>3, <2>4, FindingFits DEF Countable
<1> QED
  BY <1>2, <1>3

LEMMA DnsTunnelingFits ==
  ASSUME NEW F, NEW h, Countable(F, h),
         NEW f \in DnsTunneling(F, h)
  PROVE  GoodFor(f, h)
<1> DEFINE names == Cardinality(Names(F))
           seconds == AtLeast(1, Span(F))
           rate == (20 * AtMost(names, seconds)) \div seconds
<1>1. names \in Nat
  <2>1. Names(F) \in SUBSET F
    BY DEF Names
  <2> QED
    BY <2>1, CountsAreNat DEF Countable
<1>2. seconds \in Nat /\ seconds > 0
  BY DEF Countable, AtLeast
<1>3. f = Finding("dns_tunneling", "command_and_control", 8,
                  AtMost(97, 55 + Entropy(F) \div 10 + rate), Entropy(F) \div 5, h, None)
  BY DEF DnsTunneling
<1>4. rate \in Nat
  <2> HIDE DEF names, seconds
  <2>1. 20 * AtMost(names, seconds) \in Nat
    BY <1>1, <1>2 DEF AtMost
  <2> QED
    BY <1>2, <2>1
<1>5. Entropy(F) \div 10 \in Nat /\ Entropy(F) \div 5 \in Nat
  BY DEF Countable
<1> HIDE DEF rate
<1>6. AtMost(97, 55 + Entropy(F) \div 10 + rate) \in 0..100
  BY <1>4, <1>5 DEF AtMost
<1> QED
  BY <1>3, <1>5, <1>6, FindingFits DEF Countable

LEMMA LateralMovementFits ==
  ASSUME NEW F, NEW h, Countable(F, h),
         NEW f \in LateralMovement(F, h)
  PROVE  GoodFor(f, h)
<1> DEFINE G == {e \in F : {e.line.src, e.line.dst} \subseteq Private /\ e.line.port \in AdminPorts}
           n == Cardinality(Destinations(G))
<1>1. n \in Nat
  <2>1. G \in SUBSET F
    OBVIOUS
  <2> QED
    BY <2>1, CountsAreNat DEF Countable
<1>2. f = Finding("lateral_movement", "lateral_movement", 8, AtMost(95, 60 + 5 * n),
                  (20 * n) \div 3, h, "internal")
  BY DEF LateralMovement
<1> HIDE DEF n
<1>3. AtMost(95, 60 + 5 * n) \in 0..100 /\ (20 * n) \div 3 \in Nat
  BY <1>1 DEF AtMost
<1> QED
  BY <1>2, <1>3, FindingFits DEF Countable

LEMMA DataExfiltrationFits ==
  ASSUME NEW F, NEW h, Countable(F, h),
         NEW f \in DataExfiltration(F, h)
  PROVE  GoodFor(f, h)
<1> DEFINE r == UploadRatio(F)
<1>1. f = Finding("data_exfiltration", "exfiltration", 8, AtMost(96, 55 + AtMost(50, r)), 2 * r, h, None)
  BY DEF DataExfiltration
<1>2. r \in Nat
  BY DEF Countable
<1> HIDE DEF r
<1>3. AtMost(96, 55 + AtMost(50, r)) \in 0..100 /\ 2 * r \in Nat
  BY <1>2 DEF AtMost
<1> QED
  BY <1>1, <1>3, FindingFits DEF Countable

LEMMA UnusualTlsFits ==
  ASSUME NEW F, NEW h, Countable(F, h),
         NEW f \in UnusualTls(F, h)
  PROVE  GoodFor(f, h)
<1> DEFINE G == {e \in F : e.type = "tls"}
           n == Cardinality({e.print : e \in G} \ {None})
<1>1. n \in Nat
  <2>1. G \in SUBSET F
    OBVIOUS
  <2> QED
    BY <2>1, CountsAreNat DEF Countable
<1>2. f = Finding("unusual_tls_fingerprint", "evasion", 6, AtMost(90, 50 + (10 * n) \div 3),
                  5 * n, h, None)
  BY DEF UnusualTls
<1> HIDE DEF n
<1>3. (10 * n) \div 3 \in Nat
  BY <1>1
<1>4. AtMost(90, 50 + (10 * n) \div 3) \in 0..100 /\ 5 * n \in Nat
  BY <1>1, <1>3 DEF AtMost
<1> QED
  BY <1>2, <1>4, FindingFits DEF Countable

LEMMA UnusualDestinationFits ==
  ASSUME NEW F, NEW h, Countable(F, h),
         NEW f \in UnusualDestination(F, h)
  PROVE  GoodFor(f, h)
<1> DEFINE n == Cardinality(Destinations(F))
<1>1. n \in Nat
  BY CountsAreNat DEF Countable
<1>2. f = Finding("unusual_destination", "anomaly", 6, AtMost(90, 50 + n \div 2), n, h, None)
  BY DEF UnusualDestination
<1> HIDE DEF n
<1>3. AtMost(90, 50 + n \div 2) \in 0..100
  BY <1>1 DEF AtMost
<1> QED
  BY <1>1, <1>2, <1>3, FindingFits DEF Countable

LEMMA BeaconingFits ==
  ASSUME NEW F, NEW h, Countable(F, h),
         NEW f \in Beaconing(F, h)
  PROVE  GoodFor(f, h)
<1>1. PICK d \in Destinations(F) :
        f = Finding("beaconing", "command_and_control", 8, 88, 85, h, d)
  BY DEF Beaconing
<1>2. h \in Address /\ d \in Address
  BY DEF Countable
<1>3. GoodFor(Finding("beaconing", "command_and_control", 8, 88, 85, h, d), h)
  BY <1>2, FindingFits
<1> QED
  BY <1>1, <1>3

(* A priority Suricata does not know, however large, leaves the severity 4. *)
LEMMA SuricataAlertsFit ==
  ASSUME NEW F, NEW h, Countable(F, h),
         NEW f \in SuricataAlerts(F, h)
  PROVE  GoodFor(f, h)
<1>1. PICK e \in F :
        /\ f = Finding(IF e.type = "drop" THEN "suricata_drop" ELSE "suricata_alert", "signature",
                       SuricataSeverity(e.priority), 90, 0, h, e.line.dst)
        /\ e.type \in {"alert", "drop"}
  BY DEF SuricataAlerts
<1>2. e.line.dst \in Address \cup {None} /\ e.priority \in Nat
  BY <1>1 DEF Countable
<1>3. SuricataSeverity(e.priority) \in 4..10
  BY <1>2 DEF SuricataSeverity, AtLeast, AtMost
<1>4. h \in Address
  BY DEF Countable
<1>5. \A detector : GoodFor(Finding(detector, "signature", SuricataSeverity(e.priority), 90, 0,
                                   h, e.line.dst), h)
  BY <1>2, <1>3, <1>4, FindingFits
<1> QED
  BY <1>1, <1>5

LEMMA RulesFit ==
  ASSUME NEW B \in Batch, NEW f \in Ruled[B]
  PROVE  Fits(f) /\ f.src \in Present[B]
<1>1. PICK h \in Present[B] :
        LET F == Of(Event[B], h) IN
        f \in PortScan(F, h) \cup HorizontalScan(F, h) \cup VerticalScan(F, h) \cup DnsTunneling(F, h)
             \cup Beaconing(F, h) \cup UnusualDestination(F, h) \cup LateralMovement(F, h)
             \cup DataExfiltration(F, h) \cup UnusualTls(F, h) \cup SuricataAlerts(F, h)
  BY DEF Ruled, RuleFindings, Present
<1> DEFINE F == Of(Event[B], h)
<1>2. GoodFor(f, h)
  <2>1. Countable(F, h)
    BY FeatureFacts
  <2> HIDE DEF F
  <2>2. \/ f \in PortScan(F, h) \/ f \in HorizontalScan(F, h) \cup VerticalScan(F, h)
        \/ f \in DnsTunneling(F, h) \/ f \in Beaconing(F, h) \/ f \in UnusualDestination(F, h)
        \/ f \in LateralMovement(F, h) \/ f \in DataExfiltration(F, h) \/ f \in UnusualTls(F, h)
        \/ f \in SuricataAlerts(F, h)
    BY <1>1 DEF F
  <2> QED
    BY <2>1, <2>2, PortScanFits, ScansFit, DnsTunnelingFits, BeaconingFits, UnusualDestinationFits,
       LateralMovementFits, DataExfiltrationFits, UnusualTlsFits, SuricataAlertsFit
<1> QED
  BY <1>2 DEF GoodFor

-----------------------------------------------------------------------------
(* What a poll finds. *)

LEMMA AiFit ==
  ASSUME NEW B \in Batch, NEW judged \in SUBSET Present[B], NEW severity \in {7, 9},
         NEW f \in AiFindings(B, judged, severity)
  PROVE  Fits(f) /\ f.src \in Present[B]
<1>1. CASE f \in {BaselineFinding(h, IsGrave(B, h)) : h \in DeviantIn(B)}
  <2>1. PICK h \in Present[B] : f = BaselineFinding(h, IsGrave(B, h))
    BY <1>1 DEF DeviantIn, EstablishedIn
  <2>2. h \in Address
    BY BatchFacts
  <2>3. \A grave \in BOOLEAN : GoodFor(BaselineFinding(h, grave), h)
    <3>1. GoodFor(Finding("host_baseline_anomaly", "anomaly", 8, 88, 80, h, None), h)
      BY <2>2, FindingFits
    <3>2. GoodFor(Finding("host_baseline_anomaly", "anomaly", 7, 84, 65, h, None), h)
      BY <2>2, FindingFits
    <3> QED
      BY <3>1, <3>2 DEF BaselineFinding
  <2>4. IsGrave(B, h) \in BOOLEAN
    BY DEF IsGrave
  <2> QED
    BY <2>1, <2>3, <2>4 DEF GoodFor
<1>2. CASE f \in {ModelFinding(h, severity) : h \in judged}
  <2>1. PICK h \in Present[B] : f = ModelFinding(h, severity)
    BY <1>2
  <2>2. h \in Address
    BY BatchFacts
  <2>3. GoodFor(Finding("pretrained_ids_model", "machine_learning", 9, 85, 85, h, None), h)
    BY <2>2, FindingFits
  <2>4. GoodFor(Finding("pretrained_ids_model", "machine_learning", 7, 55, 55, h, None), h)
    BY <2>2, FindingFits
  <2>5. GoodFor(ModelFinding(h, severity), h)
    BY <2>3, <2>4 DEF ModelFinding
  <2> QED
    BY <2>1, <2>5 DEF GoodFor
<1> QED
  BY <1>1, <1>2 DEF AiFindings

(* Every detection is of a source of the batch and fits, and while armed    *)
(* each source that deviates is among them.                                 *)
LEMMA FindingsFacts ==
  ASSUME NEW B \in Batch, NEW judged \in SUBSET Present[B], NEW severity \in {7, 9},
         status \in {"learning", "armed", "disabled"}
  PROVE  /\ \A f \in FindingsOf(B, judged, severity) : Fits(f) /\ f.src \in Present[B]
         /\ status = "armed" => DeviantIn(B) \subseteq {f.src : f \in FindingsOf(B, judged, severity)}
<1> DEFINE all == FindingsOf(B, judged, severity)
<1>1. all \subseteq Ruled[B] \cup AiFindings(B, judged, severity)
  BY DEF FindingsOf
<1>2. ASSUME status = "armed", NEW h \in DeviantIn(B)
      PROVE  h \in {f.src : f \in all}
  <2>1. BaselineFinding(h, IsGrave(B, h)) \in all
    BY <1>2 DEF FindingsOf, AiFindings
  <2>2. BaselineFinding(h, IsGrave(B, h)).src = h
    BY DEF BaselineFinding, Finding
  <2> QED
    BY <2>1, <2>2
<1> QED
  BY <1>1, <1>2, RulesFit, AiFit

-----------------------------------------------------------------------------
(* The invariant. *)

LEMMA InitIInv == Init => IInv
<1> SUFFICES ASSUME Init PROVE IInv
  OBVIOUS
<1>1. TypeOK
  BY TrafficAssumption DEF Init, TypeOK, NoRow, Row, Nothing, NoStreak, Reported
<1>2. Streaks
  BY DEF Init, Streaks, StreakPart, NoRow, Nothing, NoStreak
<1> QED
  BY <1>1, <1>2 DEF Init, IInv, DeviantsReported, FoundInBatch, FindingsFit, Reported

LEMMA ScoreKeeps ==
  ASSUME IInv, NEW B \in Batch, Score(B)
  PROVE  IInv'
<1>1. PICK judged \in SUBSET Present[B], severity \in {7, 9} : found' = FindingsOf(B, judged, severity)
  BY DEF Score
<1>2. status \in {"learning", "armed", "disabled"}
  BY DEF IInv, TypeOK
<1>3. /\ \A f \in found' : Fits(f) /\ f.src \in Present[B]
      /\ status = "armed" => DeviantIn(B) \subseteq {f.src : f \in found'}
  BY <1>1, <1>2, FindingsFacts
<1>4. /\ batch' = B
      /\ UNCHANGED <<status, baseline, feedback, blamed, streak>>
      /\ B # None /\ Present[B] \subseteq Host
  BY TrafficAssumption DEF Score, Host
<1>5. TypeOK'
  BY <1>3, <1>4 DEF IInv, TypeOK, Reported
<1>6. Streaks'
  BY <1>4 DEF IInv, Streaks, StreakPart
<1>7. DeviantsReported'
  <2>1. DeviantIn(B)' = DeviantIn(B)
    BY <1>4 DEF DeviantIn, EstablishedIn, IsDeviant, Deviates
  <2> QED
    BY <1>3, <1>4, <2>1 DEF DeviantsReported, Reported, DeviantIn, EstablishedIn, IsDeviant, Deviates
<1>8. FoundInBatch' /\ FindingsFit'
  BY <1>3, <1>4 DEF FoundInBatch, FindingsFit, Reported, Fits
<1> QED
  BY <1>5, <1>6, <1>7, <1>8 DEF IInv

LEMMA LearnTypes ==
  ASSUME IInv, Learn
  PROVE  /\ baseline' \in [Host -> Row]
         /\ streak' \in [Host -> [obs : [Metric -> Nat], from : Nat, times : Nat]]
         /\ Streaks'
<1> DEFINE learners == Present[batch] \ Skipped
<1>1. batch \in Batch /\ TypeOK /\ Streaks
  BY DEF IInv, TypeOK, Learn
<1>2. /\ baseline' = [h \in Host |->
           IF h \in learners THEN Learnt(baseline[h], Observed[batch][h]) ELSE baseline[h]]
      /\ streak' = [h \in Host |->
           IF h \in learners THEN Extended(streak[h], baseline[h].n, Observed[batch][h]) ELSE streak[h]]
  BY DEF Learn
<1>3. \A h \in learners : Observed[batch][h] \in [Metric -> Nat]
  BY <1>1, BatchFacts
<1> HIDE DEF learners
<1>4. ASSUME NEW h \in Host
      PROVE  /\ baseline'[h] \in Row
             /\ streak'[h] \in [obs : [Metric -> Nat], from : Nat, times : Nat]
             /\ StreakPart(h)'
  <2>1. /\ baseline[h] \in Row /\ streak[h] \in [obs : [Metric -> Nat], from : Nat, times : Nat]
        /\ StreakPart(h)
    BY <1>1 DEF TypeOK, Streaks
  <2>2. CASE h \notin learners
    BY <1>2, <2>1, <2>2 DEF StreakPart
  <2>3. CASE h \in learners
    <3> DEFINE x == Observed[batch][h]
               n == baseline[h].n
               sum == baseline[h].sum
               s == streak[h]
    <3>1. /\ baseline'[h] = [n |-> n + 1, sum |-> [m \in Metric |-> sum[m] + x[m]]]
          /\ streak'[h] = Extended(s, n, x)
      BY <1>2, <2>3 DEF Learnt
    <3>2. /\ n \in Nat /\ sum \in [Metric -> Nat] /\ x \in [Metric -> Nat]
          /\ s \in [obs : [Metric -> Nat], from : Nat, times : Nat]
          /\ n = s.from + s.times
          /\ \A m \in Metric : sum[m] >= s.times * s.obs[m]
      BY <1>3, <2>1, <2>3 DEF Row, StreakPart
    <3> HIDE DEF x, n, sum, s
    <3>3. baseline'[h] \in Row
      BY <3>1, <3>2 DEF Row
    <3>4. CASE s.times > 0 /\ s.obs = x
      <4>1. /\ streak'[h] = [s EXCEPT !.times = s.times + 1]
        BY <3>1, <3>4 DEF Extended
      <4>2. streak'[h] \in [obs : [Metric -> Nat], from : Nat, times : Nat]
        BY <3>2, <4>1
      <4>3. /\ streak'[h].from = s.from /\ streak'[h].times = s.times + 1 /\ streak'[h].obs = x
        BY <3>2, <3>4, <4>1
      <4>4. ASSUME NEW m \in Metric PROVE sum[m] + x[m] >= (s.times + 1) * x[m]
        <5>1. sum[m] \in Nat /\ x[m] \in Nat /\ s.times \in Nat /\ sum[m] >= s.times * x[m]
          BY <3>2, <3>4
        <5>2. (s.times + 1) * x[m] = s.times * x[m] + x[m]
          BY <5>1, SMT
        <5>3. s.times * x[m] \in Nat
          BY <5>1, SMT
        <5> QED
          BY <5>1, <5>2, <5>3
      <4>5. StreakPart(h)'
        BY <3>1, <3>2, <4>3, <4>4 DEF StreakPart
      <4> QED
        BY <3>3, <4>2, <4>5
    <3>5. CASE ~(s.times > 0 /\ s.obs = x)
      <4>1. streak'[h] = [obs |-> x, from |-> n, times |-> 1]
        BY <3>1, <3>5 DEF Extended
      <4>2. streak'[h] \in [obs : [Metric -> Nat], from : Nat, times : Nat]
        BY <3>2, <4>1
      <4>3. \A m \in Metric : sum[m] + x[m] >= 1 * x[m]
        BY <3>2
      <4>4. StreakPart(h)'
        BY <3>1, <3>2, <4>1, <4>3 DEF StreakPart
      <4> QED
        BY <3>3, <4>2, <4>4
    <3> QED
      BY <3>4, <3>5
  <2> QED
    BY <2>2, <2>3
<1> QED
  BY <1>2, <1>4 DEF Streaks

LEMMA NextIInv == IInv /\ [Next]_vars => IInv'
<1> SUFFICES ASSUME IInv, [Next]_vars PROVE IInv'
  OBVIOUS
<1> USE DEF Reported
<1>1. CASE \E B \in Batch : Score(B)
  BY <1>1, ScoreKeeps
<1>2. CASE Learn
  <2>1. /\ batch' = None /\ found' = {} /\ UNCHANGED <<status, feedback>>
        /\ blamed' = blamed \cup {f.src : f \in found}
    BY <1>2 DEF Learn
  <2>2. TypeOK'
    BY <1>2, <2>1, LearnTypes DEF IInv, TypeOK
  <2>3. DeviantsReported' /\ FoundInBatch' /\ FindingsFit'
    BY <2>1 DEF DeviantsReported, FoundInBatch, FindingsFit
  <2> QED
    BY <1>2, <2>2, <2>3, LearnTypes DEF IInv
<1>3. CASE Abandon
  <2>1. /\ batch' = None /\ found' = {} /\ UNCHANGED <<status, baseline, feedback, streak>>
        /\ blamed' = blamed \cup {f.src : f \in found}
    BY <1>3 DEF Abandon
  <2>2. TypeOK' /\ Streaks'
    BY <2>1 DEF IInv, TypeOK, Streaks, StreakPart
  <2>3. DeviantsReported' /\ FoundInBatch' /\ FindingsFit'
    BY <2>1 DEF DeviantsReported, FoundInBatch, FindingsFit
  <2> QED
    BY <2>2, <2>3 DEF IInv
<1>4. CASE \E h \in Host : MarkFalsePositive(h)
  <2>1. PICK h \in Host : MarkFalsePositive(h)
    BY <1>4
  <2>2. UNCHANGED <<status, batch, found, baseline, blamed, streak>>
    BY <2>1 DEF MarkFalsePositive
  <2>3. feedback' \in [Host -> 0..FeedbackDays]
    BY <2>1, TrafficAssumption DEF MarkFalsePositive, IInv, TypeOK
  <2>4. TypeOK' /\ Streaks'
    BY <2>2, <2>3 DEF IInv, TypeOK, Streaks, StreakPart
  <2>5. DeviantsReported'
    BY <2>2 DEF IInv, DeviantsReported, DeviantIn, EstablishedIn, IsDeviant, Deviates
  <2>6. FoundInBatch' /\ FindingsFit'
    BY <2>2 DEF IInv, FoundInBatch, FindingsFit
  <2> QED
    BY <2>4, <2>5, <2>6 DEF IInv
<1>5. CASE Day
  <2>1. /\ UNCHANGED <<batch, found, baseline, blamed, streak>>
        /\ status' \in {"learning", "armed", "disabled"}
        /\ batch # None => status' = status
    BY <1>5 DEF Day, IInv, TypeOK
  <2>2. feedback' \in [Host -> 0..FeedbackDays]
    BY <1>5, TrafficAssumption DEF Day, IInv, TypeOK
  <2>3. TypeOK' /\ Streaks'
    BY <2>1, <2>2 DEF IInv, TypeOK, Streaks, StreakPart
  <2>4. DeviantsReported'
    BY <2>1 DEF IInv, DeviantsReported, DeviantIn, EstablishedIn, IsDeviant, Deviates
  <2>5. FoundInBatch' /\ FindingsFit'
    BY <2>1 DEF IInv, FoundInBatch, FindingsFit
  <2> QED
    BY <2>3, <2>4, <2>5 DEF IInv
<1>6. CASE Restart
  <2>1. /\ UNCHANGED <<batch, found, baseline, feedback, blamed, streak>>
        /\ status' \in {"learning", "armed", "disabled"} /\ batch = None
    BY <1>6 DEF Restart
  <2>2. TypeOK' /\ Streaks'
    BY <2>1 DEF IInv, TypeOK, Streaks, StreakPart
  <2>3. DeviantsReported' /\ FoundInBatch' /\ FindingsFit'
    BY <2>1 DEF IInv, DeviantsReported, FoundInBatch, FindingsFit
  <2> QED
    BY <2>2, <2>3 DEF IInv
<1>7. CASE ResetRuntime
  <2>1. /\ UNCHANGED <<status, batch, found>>
        /\ baseline' = [h \in Host |-> NoRow] /\ streak' = [h \in Host |-> NoStreak]
        /\ feedback' = [h \in Host |-> 0] /\ blamed' = {}
    BY <1>7 DEF ResetRuntime
  <2>2. TypeOK'
    BY <2>1, TrafficAssumption DEF IInv, TypeOK, NoRow, Row, Nothing, NoStreak
  <2>3. Streaks'
    BY <2>1 DEF Streaks, StreakPart, NoRow, Nothing, NoStreak
  <2>4. DeviantsReported'
    <3>1. \A B \in Batch : DeviantIn(B)' = {}
      <4>1. \A B \in Batch : Present[B] \subseteq Host
        BY DEF Host
      <4>2. \A h \in Host : ~(baseline'[h].n >= MinObservations)
        BY <2>1, TrafficAssumption DEF NoRow
      <4> QED
        BY <4>1, <4>2 DEF DeviantIn, EstablishedIn
    <3>2. batch' \in Batch \cup {None}
      BY <2>1 DEF IInv, TypeOK
    <3> QED
      BY <3>1, <3>2 DEF DeviantsReported, DeviantIn, EstablishedIn, IsDeviant, Deviates
  <2>5. FoundInBatch' /\ FindingsFit'
    BY <2>1 DEF IInv, FoundInBatch, FindingsFit
  <2> QED
    BY <2>2, <2>3, <2>4, <2>5 DEF IInv
<1>8. CASE UNCHANGED vars
  <2>1. UNCHANGED <<status, batch, found, baseline, feedback, blamed, streak>>
    BY <1>8 DEF vars
  <2>2. TypeOK' /\ Streaks'
    BY <2>1 DEF IInv, TypeOK, Streaks, StreakPart
  <2>3. DeviantsReported'
    BY <2>1 DEF IInv, DeviantsReported, DeviantIn, EstablishedIn, IsDeviant, Deviates
  <2>4. FoundInBatch' /\ FindingsFit'
    BY <2>1 DEF IInv, FoundInBatch, FindingsFit
  <2> QED
    BY <2>2, <2>3, <2>4 DEF IInv
<1> QED
  BY <1>1, <1>2, <1>3, <1>4, <1>5, <1>6, <1>7, <1>8 DEF Next

(* The inductive invariant holds of every behaviour of a poll, an operator  *)
(* and a reset.                                                             *)
THEOREM Invariance == Spec => []IInv
BY InitIInv, NextIInv, PTL DEF Spec

(* Every variable keeps its type: baselines stay counts, feedback never     *)
(* outlasts its days.                                                       *)
THEOREM TypeCorrect == Spec => []TypeOK
<1>1. IInv => TypeOK
  BY DEF IInv
<1> QED
  BY <1>1, Invariance, PTL

(* Every detection of any traffic fits what correlation takes for granted.  *)
THEOREM FindingsFitHolds == Spec => []FindingsFit
<1>1. IInv => FindingsFit
  BY DEF IInv
<1> QED
  BY <1>1, Invariance, PTL

(* What has been learnt k times in a row is part of the mean it is compared *)
(* with, so that 13 * k > 2 * n silences it.                                *)
THEOREM Adapts == Spec => []AdaptsInTime
<1>1. IInv => AdaptsInTime
  <2> SUFFICES ASSUME IInv, NEW h \in Host, streak[h].times > 0, Deviates(streak[h].obs, baseline[h])
               PROVE  13 * streak[h].times <= 2 * streak[h].from
    BY DEF AdaptsInTime
  <2> DEFINE k == streak[h].times
             o == streak[h].from
             n == baseline[h].n
  <2>1. PICK m \in Metric : Exceeds(streak[h].obs, baseline[h], m, 75)
    BY DEF Deviates
  <2> DEFINE x == streak[h].obs[m]
             y == baseline[h].sum[m]
  <2>2. k \in Nat /\ o \in Nat /\ x \in Nat /\ y \in Nat /\ n = o + k /\ y >= k * x
    BY DEF IInv, TypeOK, Row, Streaks, StreakPart
  <2>3. x > 0 /\ 10 * x * n >= 75 * y
    BY <2>1 DEF Exceeds
  <2> HIDE DEF k, o, n, x, y
  <2>4. (10 * n) * x >= (75 * k) * x
    <3>1. 10 * x * n = (10 * n) * x
      BY <2>2, SMT
    <3>2. (75 * k) * x = 75 * (k * x)
      BY <2>2, SMT
    <3>3. k * x \in Nat
      BY <2>2, SMT
    <3>4. 75 * y >= 75 * (k * x)
      BY <2>2, <3>3
    <3>5. 75 * y \in Nat /\ 10 * x * n \in Nat
      BY <2>2, SMT
    <3> QED
      BY <2>3, <3>1, <3>2, <3>3, <3>4, <3>5
  <2>5. 10 * n >= 75 * k
    BY <2>2, <2>3, <2>4, CancelFactor
  <2>6. 13 * k <= 2 * o
    BY <2>2, <2>5
  <2> QED
    BY <2>6 DEF k, o
<1> QED
  BY <1>1, Invariance, PTL

(* Poisoning is slow, however the poll interleaves with the operator, the   *)
(* clock and a reset: who deviated when the poll was scored is in the       *)
(* detections, and those are not learnt from.                               *)
THEOREM DriftHolds == Spec => DriftBounded
<1> DEFINE A ==
      \A h \in Host, m \in Metric :
        LET n == baseline[h].n
            before == baseline[h].sum[m]
            taught == baseline'[h].sum[m] - before
        IN (/\ status = "armed" /\ baseline'[h].n = n + 1
            /\ n >= MinObservations /\ feedback[h] = 0
            /\ before > 0 /\ taught > 0)
           => 10 * taught * n < 75 * before \/ 10 * taught < 75 * Unit(m)
<1>1. IInv /\ [Next]_vars => A
  <2> SUFFICES ASSUME IInv, [Next]_vars, NEW h \in Host, NEW m \in Metric,
                      status = "armed", baseline'[h].n = baseline[h].n + 1,
                      baseline[h].n >= MinObservations, feedback[h] = 0,
                      baseline[h].sum[m] > 0, baseline'[h].sum[m] - baseline[h].sum[m] > 0
               PROVE  \/ 10 * (baseline'[h].sum[m] - baseline[h].sum[m]) * baseline[h].n
                           < 75 * baseline[h].sum[m]
                      \/ 10 * (baseline'[h].sum[m] - baseline[h].sum[m]) < 75 * Unit(m)
    BY DEF A
  <2>1. baseline[h] \in Row
    BY DEF IInv, TypeOK
  <2>2. baseline' # baseline
    BY <2>1 DEF Row
  <2>3. Learn
    <3>1. ~ResetRuntime
      BY <2>1 DEF ResetRuntime, NoRow, Row
    <3> QED
      BY <2>2, <3>1 DEF Next, vars, Score, Abandon, MarkFalsePositive, Day, Restart
  <2>4. batch \in Batch
    BY <2>3 DEF Learn, IInv, TypeOK
  <2>5. h \in Present[batch] /\ h \notin Skipped
    BY <2>1, <2>3 DEF Learn, Row
  <2>6. baseline'[h] = Learnt(baseline[h], Observed[batch][h])
    BY <2>3, <2>5 DEF Learn
  <2>7. h \notin Reported
    BY <2>5 DEF Skipped, Forgiven
  <2>8. h \notin DeviantIn(batch)
    BY <2>4, <2>7, TrafficAssumption DEF IInv, DeviantsReported
  <2>9. ~Exceeds(Observed[batch][h], baseline[h], m, 75)
    BY <2>5, <2>8 DEF DeviantIn, EstablishedIn, IsDeviant, Deviates
  <2>10. Observed[batch][h] \in [Metric -> Nat]
    BY <2>4, <2>5, BatchFacts
  <2> DEFINE x == Observed[batch][h][m]
             y == baseline[h].sum[m]
             n == baseline[h].n
             u == Unit(m)
  <2>11. x \in Nat /\ y \in Nat /\ n \in Nat /\ u \in Nat
    BY <2>1, <2>10 DEF Row, Unit
  <2>12. baseline'[h].sum[m] - y = x
    BY <2>6, <2>11 DEF Learnt
  <2>13. ~(x > 0 /\ y > 0 /\ 10 * x * n >= 75 * y /\ 10 * x >= 75 * u)
    BY <2>9 DEF Exceeds
  <2>14. x > 0 /\ y > 0
    BY <2>12
  <2> HIDE DEF x, y, n, u
  <2>15. 10 * x * n \in Nat
    BY <2>11, SMT
  <2>16. 10 * x * n < 75 * y \/ 10 * x < 75 * u
    BY <2>11, <2>13, <2>14, <2>15
  <2> QED
    BY <2>12, <2>16 DEF y, n, u
<1>2. Spec => [][A]_vars
  BY <1>1, Invariance, PTL DEF Spec
<1> QED
  BY <1>2 DEF DriftBounded

-----------------------------------------------------------------------------
(* Alerts of Suricata, which are meant to be reported in the learning phase, *)
(* too (_enabled_detectors of service.py): they are in any other.            *)

(* What the rules find is there until the poll is over.                      *)
RuledFound == batch # None /\ status # "learning" => Ruled[batch] \subseteq found

(* A line of an alert or a drop that is read and watched, and says who acted *)
(* and by which rule, is a detection of that host, against that target.      *)
AlertsFound ==
  batch # None /\ status # "learning" =>
    \A l \in Traffic[batch] :
      /\ l.feed = "eve" /\ l.type \in {"alert", "drop"} /\ l.sid # None /\ l.src # None
      /\ Accepted(l) /\ Watched(l)
      => \E f \in found : f.category = "signature" /\ f.src = l.src /\ f.dst = l.dst

LEMMA AlertsRuled ==
  ASSUME NEW B \in Batch, NEW l \in Traffic[B],
         l.feed = "eve", l.type \in {"alert", "drop"}, l.sid # None, l.src # None,
         Accepted(l), Watched(l)
  PROVE  \E f \in Ruled[B] : f.category = "signature" /\ f.src = l.src /\ f.dst = l.dst
<1> DEFINE e == EveEvent(l)
           h == l.src
           F == Of(Event[B], h)
           g == Finding(IF e.type = "drop" THEN "suricata_drop" ELSE "suricata_alert", "signature",
                        SuricataSeverity(e.priority), 90, 0, h, e.line.dst)
<1>1. e \in Event[B]
  BY DEF Event, Events, Normalized
<1>2. e.type = l.type /\ e.sid = l.sid /\ e.line.src = h /\ e.line.dst = l.dst
  BY DEF EveEvent, Common
<1> HIDE DEF e
<1>3. h \in Present[B] /\ h \in Sources(Event[B])
  BY <1>1, <1>2 DEF Present, Sources
<1>4. e \in F
  BY <1>1, <1>2 DEF Of
<1>5. g \in SuricataAlerts(F, h)
  <2> HIDE DEF F
  <2>1. e \in {x \in F : x.type \in {"alert", "drop"} /\ x.sid # None}
    BY <1>2, <1>4
  <2>2. QED
    BY <2>1 DEF SuricataAlerts
<1>6. g \in Ruled[B]
  <2> HIDE DEF g
  <2>1. g \in RuleFindings(Event[B])
    BY <1>3, <1>5 DEF RuleFindings
  <2>2. QED
    BY <2>1 DEF Ruled
<1>7. g.category = "signature" /\ g.src = h /\ g.dst = l.dst
  BY <1>2 DEF Finding
<1> HIDE DEF g
<1>8. QED
  BY <1>6, <1>7

(* However the operator, the clock, a restart and a reset interleave with    *)
(* the poll, an alert that is read is missed in the learning phase alone.    *)
THEOREM AlertsMissedOnlyLearning == Spec => []AlertsFound
<1>1. Init => RuledFound
  BY DEF Init, RuledFound
<1>2. IInv /\ RuledFound /\ [Next]_vars => RuledFound'
  <2> SUFFICES ASSUME IInv, RuledFound, [Next]_vars, batch' # None, status' # "learning"
               PROVE  Ruled[batch'] \subseteq found'
    BY DEF RuledFound
  <2>1. ASSUME NEW B \in Batch, Score(B)
        PROVE  Ruled[batch'] \subseteq found'
    <3>1. PICK judged, severity : found' = FindingsOf(B, judged, severity)
      BY <2>1 DEF Score
    <3>2. batch' = B /\ status' = status /\ status \in {"learning", "armed", "disabled"}
      BY <2>1 DEF Score, IInv, TypeOK
    <3>3. QED
      BY <3>1, <3>2 DEF FindingsOf
  <2>2. CASE UNCHANGED <<batch, found, status>>
    BY <2>2 DEF RuledFound
  <2>3. CASE Day
    BY <2>3 DEF Day, RuledFound
  <2>4. CASE Learn \/ Abandon \/ Restart
    BY <2>4 DEF Learn, Abandon, Restart
  <2>5. QED
    BY <2>1, <2>2, <2>3, <2>4 DEF Next, vars, MarkFalsePositive, ResetRuntime
<1>3. IInv /\ RuledFound => AlertsFound
  <2> SUFFICES ASSUME IInv, RuledFound, batch # None, status # "learning", NEW l \in Traffic[batch],
                      l.feed = "eve", l.type \in {"alert", "drop"}, l.sid # None, l.src # None,
                      Accepted(l), Watched(l)
               PROVE  \E f \in found : f.category = "signature" /\ f.src = l.src /\ f.dst = l.dst
    BY DEF AlertsFound
  <2>1. batch \in Batch /\ Ruled[batch] \subseteq found
    BY DEF IInv, TypeOK, RuledFound
  <2>2. QED
    BY <2>1, AlertsRuled
<1>4. QED
  BY <1>1, <1>2, <1>3, Invariance, PTL DEF Spec
=============================================================================
