---------------------------- MODULE Correlation ----------------------------
(***************************************************************************)
(* How one poll of the service turns what its detectors found into cases:  *)
(* make_detection (detection/base.py), correlate_detections and the roles  *)
(* it assigns (correlation.py), the score of a case (risk.py), the limit   *)
(* on cases per minute (service.py) and the host the response to a case    *)
(* will be about (response/engine.py). IncidentStore takes over the cases, *)
(* AutoIsolation decides on them.                                          *)
(*                                                                         *)
(* Times are readings of the wall clock, which may have been set back by   *)
(* up to Slew. Confidence and anomaly score are in hundredths, as integers.*)
(***************************************************************************)
EXTENDS Integers, Sequences, FiniteSets

CONSTANTS
  Finding,        \* what detectors report: [detector, category, severity, confidence, anomaly, src, dst]
  Place,          \* what stands in source_ip and destination_ip: addresses, "port:22", "internal"
  Internal,       \* addresses of INTERNAL_NETWORKS and the loopback
  Private,        \* addresses is_private_ip answers true for
  None,           \* no destination, no role
  Window,         \* correlation_window_minutes * 60, at least 60 seconds
  Minute,         \* the 60 seconds of the rate limit
  Limit,          \* incident_rate_limit_per_minute
  Slew,           \* bounds how far the clock is set back
  MaxTime,        \* bounds the clock
  MaxDetections   \* bounds the detections of a behaviour

(* What the twelve detectors report: each names a source, and all but the   *)
(* adapter of Suricata's alerts claim severity 6 or more. The adapter       *)
(* claims 4 or more.                                                        *)
Reportable(f) ==
  /\ f.src \in Place /\ f.dst \in Place \cup {None}
  /\ f.severity \in 1..10 /\ f.confidence \in 0..100 /\ f.anomaly \in 0..100
  /\ IF f.category = "signature" THEN f.severity >= 4 ELSE f.severity >= 6

ASSUME CorrelationAssumption ==
  /\ \A f \in Finding : Reportable(f)
  /\ Internal \subseteq Private /\ Private \subseteq Place /\ None \notin Place
  /\ {Window, Minute, Limit, Slew, MaxTime, MaxDetections} \subseteq Nat

VARIABLES
  now,       \* the time that has passed
  found,     \* detections of this poll, in the order they were returned
  left,      \* positions of those not yet in a case
  cases,     \* the list correlate_detections builds
  busy,      \* correlate_detections has begun
  accepted,  \* history: the cases let through, [at, stamp], by time and by the clock
  stamps,    \* counters["incident_rate_timestamps"]: those whose stamp still counts
  total      \* history: detections made so far

vars == <<now, found, left, cases, busy, stamps, accepted, total>>

Readings == {r \in 0..MaxTime : now - Slew <= r /\ r <= now}

Init ==
  /\ now = 0
  /\ found = <<>> /\ left = {} /\ cases = <<>> /\ busy = FALSE
  /\ stamps = {} /\ accepted = <<>>
  /\ total = 0

-----------------------------------------------------------------------------
(* Cases. *)

Larger(a, b) == IF a >= b THEN a ELSE b
Smaller(a, b) == IF a <= b THEN a ELSE b

InsideOf(x) == {x} \cap Internal
OutsideOf(x) == {x} \ Internal

(* items are positions in found. severity, trust, anomaly, detectors and    *)
(* categories are what the score will take from the items: a maximum, the   *)
(* sum of the confidences, a maximum and two sets. The code's first_seen    *)
(* and destination_ips are written and never read.                          *)
NewCase(i) ==
  LET d == found[i] IN
  [items |-> <<i>>, last |-> d.at,
   sources |-> {d.src},
   internals |-> InsideOf(d.src) \cup InsideOf(d.dst),
   externals |-> OutsideOf(d.src),
   pairs |-> IF d.dst = None THEN {} ELSE {<<d.src, d.dst>>},
   severity |-> d.severity, trust |-> d.confidence, anomaly |-> d.anomaly,
   detectors |-> {d.detector}, categories |-> {d.category}]

(* _update_case_indexes and last_seen. *)
Grown(c, i) ==
  LET d == found[i] IN
  [items |-> Append(c.items, i), last |-> Larger(c.last, d.at),
   sources |-> c.sources \cup {d.src},
   internals |-> c.internals \cup InsideOf(d.src) \cup InsideOf(d.dst),
   externals |-> c.externals \cup OutsideOf(d.src),
   pairs |-> c.pairs \cup (IF d.dst = None THEN {} ELSE {<<d.src, d.dst>>}),
   severity |-> Larger(c.severity, d.severity),
   trust |-> c.trust + d.confidence,
   anomaly |-> Larger(c.anomaly, d.anomaly),
   detectors |-> c.detectors \cup {d.detector},
   categories |-> c.categories \cup {d.category}]

(* Mutant: only cases that end after the detection are bounded. *)
WithinWindowAfter(c, d) == c.last - d.at <= Window

WithinWindow(c, d) == d.at - c.last <= Window /\ c.last - d.at <= Window

(* Mutant: whoever turns to a host of the case belongs to it. *)
RelatedByVictim(c, d) ==
  \/ d.src \in c.sources
  \/ d.src \in c.internals
  \/ d.dst \in c.sources
  \/ d.dst \in c.internals

Related(c, d) ==
  \/ d.src \in c.sources
  \/ d.src \in c.internals
  \/ d.dst \in c.sources
  \/ d.dst # None /\ <<d.src, d.dst>> \in c.pairs
  \/ d.src \in c.externals /\ d.dst \in c.internals

(* The search runs over reversed(cases): the youngest related case.         *)
Candidates(d) == {k \in DOMAIN cases : WithinWindow(cases[k], d) /\ Related(cases[k], d)}

Youngest(k, d) == k \in Candidates(d) /\ \A j \in Candidates(d) : j <= k

(* sorted is stable, and positions are the order of the list. *)
Earliest(i) ==
  \A j \in left : found[i].at < found[j].at \/ (found[i].at = found[j].at /\ i <= j)

-----------------------------------------------------------------------------
(* The score of a case, and which cases are reported. *)

Bonus(c, category, points) == IF category \in c.categories THEN points ELSE 0

Score(c) ==
  LET n == Len(c.items)
      sum == 5 * c.severity
             + (20 * c.trust) \div (100 * n)
             + (15 * c.anomaly) \div 100
             + Smaller(15, 5 * Cardinality(c.detectors))
             + Smaller(15, 3 * n)
             + Bonus(c, "lateral_movement", 15)
             + Bonus(c, "signature", 12)
             + Bonus(c, "exfiltration", 15)
  IN Larger(1, Smaller(100, sum))

(* Mutant: the threshold of a high severity. *)
ReportedHigh(c) == Score(c) >= 75

Reported(c) == Score(c) >= 35

Incidents == {k \in DOMAIN cases : Reported(cases[k])}

-----------------------------------------------------------------------------
(* Who is who in a case; D is the list of its detections. *)

Detections(c) == [k \in DOMAIN c.items |-> found[c.items[k]]]

Least(K) == CHOOSE k \in K : \A j \in K : k <= j

(* next((... for item in ordered if ...), None) *)
FirstSource(D, K) == IF K = {} THEN None ELSE D[Least(K)].src
FirstDestination(D, K) == IF K = {} THEN None ELSE D[Least(K)].dst

Inbound(D) == {k \in DOMAIN D : D[k].src \notin Internal /\ D[k].dst \in Internal}
FromInside(D) == {k \in DOMAIN D : D[k].src \in Internal}
FromOutside(D) == {k \in DOMAIN D : D[k].src \notin Internal}
ToInside(D) == {k \in DOMAIN D : D[k].dst \in Internal}

ExternalActor(D) ==
  FirstSource(D, IF Inbound(D) # {} THEN Inbound(D) ELSE FromOutside(D))

Victim(D) ==
  FirstDestination(D, IF Inbound(D) # {} THEN Inbound(D) ELSE ToInside(D))

AffectedHost(D) ==
  IF Victim(D) # None THEN Victim(D)
  ELSE IF FromInside(D) # {} THEN FirstSource(D, FromInside(D)) ELSE D[1].src

(* Mutant: any other source is taken for a pivot. *)
PivotAnyone(D) ==
  LET v == Victim(D)
      pivots == {k \in DOMAIN D : \/ D[k].src = v /\ D[k].dst \notin {None, v}
                                  \/ D[k].src # v}
  IN IF v = None THEN None ELSE FirstSource(D, pivots)

(* The victim that goes on to others, or another inside host that acts. *)
PivotHost(D) ==
  LET v == Victim(D)
      pivots == {k \in DOMAIN D : \/ D[k].src = v /\ D[k].dst \notin {None, v}
                                  \/ D[k].src # v /\ D[k].src \in Internal}
  IN IF v = None THEN None ELSE FirstSource(D, pivots)

(* Mutant: without an actor outside the host that was hit is named. *)
ThreatAffected(D) == IF ExternalActor(D) # None THEN ExternalActor(D) ELSE AffectedHost(D)

ThreatSource(D) == IF ExternalActor(D) # None THEN ExternalActor(D) ELSE D[1].src

ResponseTarget(D) == IF ExternalActor(D) # None THEN ExternalActor(D) ELSE AffectedHost(D)

-----------------------------------------------------------------------------
(* _response_target_for_incident: whom the response to the case is about.   *)

Behavior(D, h) ==
  {D[k].category : k \in {j \in DOMAIN D :
     /\ D[j].src = h
     /\ D[j].category \in {"anomaly", "machine_learning", "lateral_movement",
                           "command_and_control", "exfiltration"}}}

Worst(D, h) == {k \in DOMAIN D : D[k].src = h /\ D[k].category \in Behavior(D, h)}

Actors(D) ==
  {h \in Private :
     /\ Cardinality(Behavior(D, h)) >= 2
     /\ Behavior(D, h) \cap {"command_and_control", "exfiltration", "lateral_movement"} # {}
     /\ \E k \in Worst(D, h) : D[k].severity >= 9
     /\ \E k \in Worst(D, h) : D[k].confidence >= 95}

(* The order is by categories, then severity; equal ones come in any order. *)
BehaviorActors(D) ==
  {h \in Actors(D) : \A g \in Actors(D) :
     \/ Cardinality(Behavior(D, g)) < Cardinality(Behavior(D, h))
     \/ /\ Cardinality(Behavior(D, g)) = Cardinality(Behavior(D, h))
        /\ \E k \in Worst(D, h) : \A j \in Worst(D, g) : D[j].severity <= D[k].severity}

Targets(D) ==
  IF ThreatSource(D) \in Private THEN {ThreatSource(D)}
  ELSE IF Actors(D) # {} THEN BehaviorActors(D)
  ELSE IF ResponseTarget(D) \in Private THEN {ResponseTarget(D)}
  ELSE {ThreatSource(D)}

-----------------------------------------------------------------------------
(* Actions. *)

Tick ==
  /\ now < MaxTime
  /\ now' = now + 1
  /\ UNCHANGED <<found, left, cases, busy, stamps, accepted, total>>

(* A detector reports something; make_detection stamps it. *)
Detect(f) ==
  /\ ~busy /\ total < MaxDetections
  /\ \E r \in Readings :
       found' = Append(found,
         [detector |-> f.detector, category |-> f.category, severity |-> f.severity,
          confidence |-> f.confidence, anomaly |-> f.anomaly,
          src |-> f.src, dst |-> f.dst, at |-> r])
  /\ left' = left \cup {Len(found) + 1}
  /\ total' = total + 1
  /\ UNCHANGED <<now, cases, busy, stamps, accepted>>

(* The detectors are done. *)
Begin ==
  /\ ~busy /\ found # <<>>
  /\ busy' = TRUE
  /\ UNCHANGED <<now, found, left, cases, stamps, accepted, total>>

Open(i) ==
  /\ busy /\ i \in left /\ Earliest(i)
  /\ Candidates(found[i]) = {}
  /\ cases' = Append(cases, NewCase(i))
  /\ left' = left \ {i}
  /\ UNCHANGED <<now, found, busy, stamps, accepted, total>>

Join(i) ==
  /\ busy /\ i \in left /\ Earliest(i)
  /\ \E k \in DOMAIN cases :
       /\ Youngest(k, found[i])
       /\ cases' = [cases EXCEPT ![k] = Grown(cases[k], i)]
  /\ left' = left \ {i}
  /\ UNCHANGED <<now, found, busy, stamps, accepted, total>>

(* _limit_rate at reading r: the stamps that still count, and how many of   *)
(* the cases are let through, the oldest first.                             *)
Recent(r) == {k \in stamps : r - accepted[k].stamp < Minute}

(* Mutant: every poll has the whole minute's limit. *)
AllowancePerPoll(r) == Smaller(Cardinality(Incidents), Limit)

Allowance(r) ==
  Smaller(Cardinality(Incidents), Larger(0, Limit - Cardinality(Recent(r))))

(* The cases are handed on and the next poll begins. *)
Report ==
  /\ busy /\ left = {}
  /\ \E r \in Readings :
       /\ accepted' = accepted \o [k \in 1..Allowance(r) |-> [at |-> now, stamp |-> r]]
       /\ stamps' = Recent(r) \cup (Len(accepted) + 1)..(Len(accepted) + Allowance(r))
  /\ found' = <<>> /\ cases' = <<>> /\ busy' = FALSE
  /\ UNCHANGED <<now, left, total>>

(* Mutant: the positions of the old list are kept. *)
RestartStale ==
  /\ found' = <<>> /\ left' = left /\ cases' = <<>> /\ busy' = FALSE
  /\ stamps' = {} /\ accepted' = <<>>
  /\ UNCHANGED <<now, total>>

(* The counters are the service's memory, and gone with it. *)
Restart ==
  /\ found' = <<>> /\ left' = {} /\ cases' = <<>> /\ busy' = FALSE
  /\ stamps' = {} /\ accepted' = <<>>
  /\ UNCHANGED <<now, total>>

Next ==
  \/ Tick \/ Begin \/ Report \/ Restart
  \/ \E f \in Finding : Detect(f)
  \/ \E i \in left : Open(i) \/ Join(i)

Spec == Init /\ [][Next]_vars

-----------------------------------------------------------------------------
(* Properties. *)

Detection ==
  [detector : {f.detector : f \in Finding}, category : {f.category : f \in Finding},
   severity : 1..10, confidence : 0..100, anomaly : 0..100,
   src : Place, dst : Place \cup {None}, at : Nat]

Case ==
  [items : Seq(Nat \ {0}), last : Nat, sources : SUBSET Place, internals : SUBSET Place,
   externals : SUBSET Place, pairs : SUBSET (Place \X Place), severity : Nat, trust : Nat,
   anomaly : Nat, detectors : SUBSET {f.detector : f \in Finding},
   categories : SUBSET {f.category : f \in Finding}]

(* Every variable keeps its type; the items of a case are detections.       *)
TypeOK ==
  /\ now \in Nat /\ total \in Nat /\ busy \in BOOLEAN
  /\ found \in Seq(Detection)
  /\ left \subseteq DOMAIN found
  /\ cases \in Seq(Case)
  /\ accepted \in Seq([at : Nat, stamp : Nat])
  /\ stamps \subseteq DOMAIN accepted

In(i, c) == \E k \in DOMAIN c.items : c.items[k] = i

(* No detection is lost on the way: when correlate_detections is done, each *)
(* detection of the poll is in one case and no more, and every case has a   *)
(* score it is reported with, whatever the detectors and their number.      *)
EveryDetectionReported ==
  busy /\ left = {} =>
    \A i \in DOMAIN found : \E k \in DOMAIN cases :
      /\ In(i, cases[k]) /\ Reported(cases[k])
      /\ \A j \in DOMAIN cases : In(i, cases[j]) => j = k

(* Why a detection joined: its source had acted or been hit from outside or *)
(* inside in an earlier detection of the case, or its destination had acted.*)
LinkedTo(d, e) ==
  \/ d.src = e.src
  \/ d.src = e.dst /\ e.dst \in Internal
  \/ d.dst = e.src

Linked ==
  \A n \in DOMAIN cases : \A k \in DOMAIN cases[n].items :
    k > 1 => \E j \in 1..(k - 1) :
      LinkedTo(found[cases[n].items[k]], found[cases[n].items[j]])

(* A case is one stretch of time: its detections are in the order of their  *)
(* times, and none comes more than a window after the one before it.        *)
NoLongGap ==
  \A n \in DOMAIN cases : \A k \in DOMAIN cases[n].items :
    k > 1 => LET d == found[cases[n].items[k]]
                 e == found[cases[n].items[k - 1]]
             IN e.at <= d.at /\ d.at <= e.at + Window

(* Roles name hosts of the case in that role: the external actor is an      *)
(* outside source, the victim an inside destination, the pivot an inside    *)
(* host that acts.                                                          *)
Acts(h, D) == \E k \in DOMAIN D : D[k].src = h

RolesFromCase ==
  \A n \in DOMAIN cases : LET D == Detections(cases[n]) IN
    /\ ExternalActor(D) # None => Acts(ExternalActor(D), D) /\ ExternalActor(D) \notin Internal
    /\ Victim(D) # None => Victim(D) \in Internal /\ \E k \in DOMAIN D : D[k].dst = Victim(D)
    /\ PivotHost(D) # None => Acts(PivotHost(D), D) /\ PivotHost(D) \in Internal

(* The response to a case is about a host that acts in it, never about one  *)
(* that was only hit, although response_target may name the victim.         *)
TargetActs ==
  \A n \in DOMAIN cases : \A h \in Targets(Detections(cases[n])) :
    Acts(h, Detections(cases[n]))

(* No stretch of a minute has more cases than the limit, wherever it begins;*)
(* a clock that is set back shortens the minute by as much.                 *)
RateKept ==
  \A t \in 0..MaxTime :
    Cardinality({k \in DOMAIN accepted : t <= accepted[k].at /\ accepted[k].at < t + Minute - Slew})
      <= Limit
=============================================================================
