--------------------------- MODULE HostBaselines ---------------------------
(***************************************************************************)
(* What the service learns of each source and what it finds in a poll:     *)
(* score_features_against_baselines and update_host_baselines              *)
(* (storage/database.py), the learning phase (config.py), the choice of    *)
(* detectors and of the sources not to learn from (service.py), and the    *)
(* operator's false positives. The database is shared: between the two     *)
(* halves of a poll other processes may reset it or forgive a source.      *)
(*                                                                         *)
(* The mean the code keeps is sum / n here, without the rounding of floats.*)
(***************************************************************************)
EXTENDS Detectors

CONSTANTS
  Traffic,           \* the batches of lines a poll may read, each under a name
  MinObservations,   \* minimum_observations
  FeedbackDays,      \* false_positive_feedback_days, at least one
  MaxObservations    \* bounds what is learnt of one source

Metric == {"destination_count", "port_count", "bytes_out", "upload_download_ratio",
           "dns_entropy", "dns_name_length", "connections_60s", "internal_connections",
           "external_connections"}

Batch == DOMAIN Traffic

(* Per batch: its events, who is in it, and what the code computes of it.   *)
Event == [B \in Batch |-> Events(Traffic[B])]
Present == [B \in Batch |-> Sources(Event[B])]
Observed == [B \in Batch |-> [h \in Present[B] |-> Observation(Of(Event[B], h))]]
Own == [B \in Batch |-> [h \in Present[B] |-> OwnDeviation(Of(Event[B], h))]]
Ruled == [B \in Batch |-> RuleFindings(Event[B])]

Host == UNION {Present[B] : B \in Batch}

(* A line names addresses or leaves them out. Counts, sums and spans of what*)
(* a batch holds are naturals.                                              *)
ASSUME TrafficAssumption ==
  /\ None \notin Batch
  /\ \A B \in Batch : IsFiniteSet(Traffic[B])
  /\ \A B \in Batch : \A l \in Traffic[B] :
       /\ {l.src, l.dst} \subseteq Address \cup {None}
       /\ l.feed = "eve" => l.priority \in Nat
  /\ \A B \in Batch : Observed[B] \in [Present[B] -> [Metric -> Nat]]
  /\ \A B \in Batch : \A h \in Present[B] : Span(Of(Event[B], h)) \in Nat
  /\ {MinObservations, FeedbackDays, MaxObservations} \subseteq Nat \ {0}

VARIABLES
  status,       \* learning_status: "learning", "armed" (or overridden), "disabled"
  batch,        \* what this poll has read, None between polls
  found,        \* its detections
  baseline,     \* table host_baselines: [n, sum] of each source, n = 0 without a row
  feedback,     \* days for which the newest false positive of a source counts
  blamed,       \* sources that may have a case one can mark a false positive
  streak        \* history: what was learnt of a source last, how often in a row, and the n before

vars == <<status, batch, found, baseline, feedback, blamed, streak>>

Nothing == [m \in Metric |-> 0]
NoRow == [n |-> 0, sum |-> Nothing]
NoStreak == [obs |-> Nothing, from |-> 0, times |-> 0]

Init ==
  /\ status \in {"learning", "armed", "disabled"}
  /\ batch = None /\ found = {}
  /\ baseline = [h \in Host |-> NoRow]
  /\ feedback = [h \in Host |-> 0]
  /\ blamed = {}
  /\ streak = [h \in Host |-> NoStreak]

-----------------------------------------------------------------------------
(* Scoring. *)

(* The 1.0 below which no expectation counts, in the unit of the metric.    *)
Unit(m) == IF m = "dns_entropy" THEN 100 ELSE 1

(* current / max(expected, 1.0) >= tenths / 10. A metric that is 0 now, or  *)
(* never was anything else, is passed over.                                 *)
Exceeds(x, row, m, tenths) ==
  /\ x[m] > 0 /\ row.sum[m] > 0
  /\ 10 * x[m] * row.n >= tenths * row.sum[m]
  /\ 10 * x[m] >= tenths * Unit(m)

(* (ratio - 1) / 10 reaches 0.65 at 7.5 and 0.8 at 9.                       *)
Deviates(x, row) == \E m \in Metric : Exceeds(x, row, m, 75)

IsDeviant(B, h) == Own[B][h] >= 65 \/ Deviates(Observed[B][h], baseline[h])
IsGrave(B, h) == Own[B][h] >= 80 \/ \E m \in Metric : Exceeds(Observed[B][h], baseline[h], m, 90)

(* The anomaly score is the deviation, here its lower bound.                *)
BaselineFinding(h, grave) ==
  Finding("host_baseline_anomaly", "anomaly", IF grave THEN 8 ELSE 7,
          IF grave THEN 88 ELSE 84, IF grave THEN 80 ELSE 65, h, None)

(* The model's verdict is any: here at its two severities.                  *)
ModelFinding(h, severity) ==
  Finding("pretrained_ids_model", "machine_learning", severity,
          IF severity = 9 THEN 85 ELSE 55, IF severity = 9 THEN 85 ELSE 55, h, None)

EstablishedIn(B) == {h \in Present[B] : baseline[h].n >= MinObservations}
DeviantIn(B) == {h \in EstablishedIn(B) : IsDeviant(B, h)}

AiFindings(B, judged, severity) ==
  {BaselineFinding(h, IsGrave(B, h)) : h \in DeviantIn(B)}
  \cup {ModelFinding(h, severity) : h \in judged}

(* _enabled_detectors, and no detector at all in the learning phase.        *)
FindingsOf(B, judged, severity) ==
  CASE status = "learning" -> {}
    [] status = "disabled" -> Ruled[B]
    [] status = "armed" -> Ruled[B] \cup AiFindings(B, judged, severity)

(* The first half of a poll, up to the detections.                          *)
Score(B) ==
  /\ batch = None
  /\ batch' = B
  /\ \E judged \in SUBSET Present[B], severity \in {7, 9} :
       found' = FindingsOf(B, judged, severity)
  /\ UNCHANGED <<status, baseline, feedback, blamed, streak>>

-----------------------------------------------------------------------------
(* Learning. *)

(* Mutant: the count goes up and the expectation stays what it was.         *)
LearntStiff(row, x) ==
  [n |-> row.n + 1,
   sum |-> [m \in Metric |-> IF row.n = 0 THEN x[m] ELSE row.sum[m] + row.sum[m] \div row.n]]

Learnt(row, x) == [n |-> row.n + 1, sum |-> [m \in Metric |-> row.sum[m] + x[m]]]

Extended(s, n, x) ==
  IF s.times > 0 /\ s.obs = x
  THEN [s EXCEPT !.times = s.times + 1]
  ELSE [obs |-> x, from |-> n, times |-> 1]

Reported == {f.src : f \in found}
Forgiven == {h \in Host : feedback[h] > 0}

(* Mutant: a source someone forgave once is forgiven with all the others.   *)
SkippedUnlessAny == IF Forgiven # {} THEN {} ELSE Reported

(* _baseline_skip_sources *)
Skipped == Reported \ Forgiven

(* The second half, after the cases are stored. What was learnt of a source *)
(* is in one transaction, with what other sources of the batch taught.      *)
Learn ==
  /\ batch # None
  /\ LET learners == Present[batch] \ Skipped IN
       /\ \A h \in learners : baseline[h].n < MaxObservations
       /\ baseline' = [h \in Host |->
            IF h \in learners THEN Learnt(baseline[h], Observed[batch][h]) ELSE baseline[h]]
       /\ streak' = [h \in Host |->
            IF h \in learners THEN Extended(streak[h], baseline[h].n, Observed[batch][h])
            ELSE streak[h]]
  /\ blamed' = blamed \cup Reported
  /\ batch' = None /\ found' = {}
  /\ UNCHANGED <<status, feedback>>

(* An exception on the way, or the end of the process.                      *)
Abandon ==
  /\ batch # None
  /\ batch' = None /\ found' = {}
  /\ blamed' = blamed \cup Reported
  /\ UNCHANGED <<status, baseline, feedback, streak>>

-----------------------------------------------------------------------------
(* The operator, the clock, and a restart with other settings. *)

(* Mutant: marks that are repeated add up. *)
MarkFalsePositiveAgain(h) ==
  /\ h \in blamed /\ feedback[h] <= FeedbackDays
  /\ feedback' = [feedback EXCEPT ![h] = feedback[h] + FeedbackDays]
  /\ UNCHANGED <<status, batch, found, baseline, blamed, streak>>

MarkFalsePositive(h) ==
  /\ h \in blamed
  /\ feedback' = [feedback EXCEPT ![h] = FeedbackDays]
  /\ UNCHANGED <<status, batch, found, baseline, blamed, streak>>

(* learning_status follows the clock, and is asked once per poll.           *)
Day ==
  /\ feedback' = [h \in Host |-> IF feedback[h] > 0 THEN feedback[h] - 1 ELSE 0]
  /\ status' \in {status} \cup (IF status = "learning" /\ batch = None THEN {"armed"} ELSE {})
  /\ UNCHANGED <<batch, found, baseline, blamed, streak>>

Restart ==
  /\ batch = None
  /\ status' \in {"learning", "armed", "disabled"}
  /\ UNCHANGED <<batch, found, baseline, feedback, blamed, streak>>

(* reset_runtime_state, by another process and at any time.                 *)
ResetRuntime ==
  /\ baseline' = [h \in Host |-> NoRow]
  /\ feedback' = [h \in Host |-> 0] /\ blamed' = {}
  /\ streak' = [h \in Host |-> NoStreak]
  /\ UNCHANGED <<status, batch, found>>

Next ==
  \/ \E B \in Batch : Score(B)
  \/ Learn \/ Abandon
  \/ \E h \in Host : MarkFalsePositive(h)
  \/ Day \/ Restart \/ ResetRuntime

Spec == Init /\ [][Next]_vars

-----------------------------------------------------------------------------
(* Properties. *)

Row == [n : Nat, sum : [Metric -> Nat]]

(* Every variable keeps its type.                                           *)
TypeOK ==
  /\ status \in {"learning", "armed", "disabled"}
  /\ batch \in Batch \cup {None}
  /\ Reported \subseteq Host /\ blamed \subseteq Host
  /\ baseline \in [Host -> Row]
  /\ feedback \in [Host -> 0..FeedbackDays]
  /\ streak \in [Host -> [obs : [Metric -> Nat], from : Nat, times : Nat]]

(* What Correlation takes for granted of a finding holds of each one that   *)
(* the detectors make of any lines: who acted is an address, and a severity *)
(* below six is only ever claimed by a signature.                           *)
Fits(f) ==
  /\ f.src \in Address
  /\ f.dst \in Address \cup {None, "internal", "service"}
  /\ f.severity \in 1..10 /\ f.confidence \in 0..100 /\ f.anomaly \in 0..100
  /\ IF f.category = "signature" THEN f.severity >= 4 ELSE f.severity >= 6

FindingsFit == \A f \in found : Fits(f)

(* Poisoning is slow: once armed, what a source with an established baseline*)
(* teaches in one poll is below 7.5 times what it taught on average (or the *)
(* unit), unless an operator has just forgiven that very source.            *)
DriftBounded ==
  [][\A h \in Host, m \in Metric :
       LET n == baseline[h].n
           before == baseline[h].sum[m]
           taught == baseline'[h].sum[m] - before
       IN (/\ status = "armed" /\ baseline'[h].n = n + 1
           /\ n >= MinObservations /\ feedback[h] = 0
           /\ before > 0 /\ taught > 0)
          => 10 * taught * n < 75 * before \/ 10 * taught < 75 * Unit(m)]_vars

(* A forgiven change of behaviour stops being reported: what has been learnt*)
(* k times in a row, on top of n other observations, deviates from its      *)
(* baseline only while 13 * k <= 2 * n.                                     *)
AdaptsInTime ==
  \A h \in Host :
    streak[h].times > 0 /\ Deviates(streak[h].obs, baseline[h])
      => 13 * streak[h].times <= 2 * streak[h].from

(* A poll with an alert of Suricata reports it for the host that caused it. *)
AlertsReported ==
  batch # None =>
    \A e \in Event[batch] :
      e.type = "alert" /\ e.sid # None =>
        \E f \in found : f.category = "signature" /\ f.src = e.line.src
=============================================================================
