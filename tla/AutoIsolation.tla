---------------------------- MODULE AutoIsolation ----------------------------
(***************************************************************************)
(* How the detection service decides on its own that a host is isolated:   *)
(* PondSecService._auto_response (service.py), the policy it asks          *)
(* (response/policy.py), the choice of the target and the reuse of entries *)
(* (response/engine.py), the history the rate limits read                  *)
(* (storage/database.py) and the learning period (config.py).              *)
(*                                                                         *)
(* One case is handled in one instant. BlockResponse has the same handlers *)
(* one transaction at a time, among other processes, but neither clock nor *)
(* evidence.                                                               *)
(***************************************************************************)
EXTENDS Naturals, FiniteSets

CONSTANTS
  Case,           \* incident ids
  Host,           \* addresses
  Internal,       \* those is_private_ip answers true for
  Protected,      \* those that are protected or allowlisted
  Origin,         \* source_ip of a case
  RoleTarget,     \* entity_roles.response_target of a case, or its source
  Sign,           \* detections: [detector, category, source, marks, stopped]
  Burst,          \* the sets of detections a poll may add to a case
  Reached,        \* thresholds that such a set of detections reaches together
  Eid,            \* block ids in order of creation; bounds the entries made
  Settings,       \* configurations: [mode, ai, internal, external, halted, learning]
  Cooldown,       \* internal_isolation_cooldown_seconds
  Hour,           \* the 3600 seconds of the hourly limit
  MaxPerHour,     \* max_internal_isolations_per_hour
  Lifetime,       \* auto_isolation_seconds, and default_block_seconds
  MaxCandidates,  \* max_auto_isolation_candidates_per_run
  MinCategories, MinIndicators, MinEngines,
  LearnedAt,      \* learning_started_at + learning_days
  MaxTime,        \* bounds the clock
  None            \* no host

(* The thresholds on a case: minimum_risk_score, minimum_severity and       *)
(* minimum_confidence.                                                      *)
Threshold == {"risk", "severity", "confidence"}

(* The model's detections are of a category of their own.                   *)
ASSUME IsolationAssumption ==
  /\ Internal \subseteq Host /\ Protected \subseteq Host /\ None \notin Host
  /\ Origin \in [Case -> Host] /\ RoleTarget \in [Case -> Host]
  /\ Burst \in [Case -> SUBSET SUBSET Sign]
  /\ Reached \in [UNION {Burst[c] : c \in Case} -> SUBSET Threshold]
  /\ \A d \in Sign : d.detector = "pretrained_ids_model" => d.category = "machine_learning"
  /\ Eid \subseteq Nat
  /\ {Cooldown, Hour, MaxPerHour, Lifetime, MaxCandidates, LearnedAt, MaxTime} \subseteq Nat
  /\ {MinCategories, MinIndicators, MinEngines} \subseteq Nat

VARIABLES
  now,         \* the clock
  settings,    \* the configuration the service has loaded
  evidence,    \* evidence.detections of each case
  grade,       \* the thresholds that risk_score, severity and confidence reach
  steady,      \* hosts with baseline_stable_observations or more
  entry,       \* table block_entries
  queue,       \* cases of this poll not yet responded to
  mass,        \* mass_isolation_safety of this poll
  isolations   \* history: which internal hosts _auto_response has isolated

vars == <<now, settings, evidence, grade, steady, entry, queue, mass, isolations>>

Status == {"absent", "proposed", "active", "removed", "expired"}

Row == [status : Status, host : Host \cup {None}, auto : BOOLEAN, created : Nat]

NoRow == [status |-> "absent", host |-> None, auto |-> FALSE, created |-> 0]

Isolation == [at : Nat, host : Internal, case : Case, entry : Eid,
              auto : BOOLEAN, fresh : BOOLEAN]

TypeOK ==
  /\ now \in Nat
  /\ settings \in Settings
  /\ evidence \in [Case -> SUBSET Sign]
  /\ grade \in [Case -> SUBSET Threshold]
  /\ steady \subseteq Host
  /\ entry \in [Eid -> Row]
  /\ queue \subseteq Case
  /\ mass \in BOOLEAN
  /\ isolations \subseteq Isolation

Init ==
  /\ now = 0
  /\ settings \in Settings
  /\ evidence = [c \in Case |-> {}]
  /\ grade = [c \in Case |-> {}]
  /\ steady = {}
  /\ entry = [e \in Eid |-> NoRow]
  /\ queue = {}
  /\ mass = FALSE
  /\ isolations = {}

-----------------------------------------------------------------------------
(* What a case shows. *)

Learned(d) == d.detector = "pretrained_ids_model" \/ d.category = "machine_learning"

StrongCategories ==
  {"command_and_control", "lateral_movement", "exfiltration", "credential_abuse", "malware"}

NoisyCategories == {"reconnaissance", "signature", "reputation"}

EngineOf(d) ==
  CASE \/ d.detector \in {"suricata_alert", "suricata_drop"}
       \/ "signature_id" \in d.marks -> "suricata"
    [] Learned(d) -> "machine_learning"
    [] d.detector = "dns_tunneling" -> "dns"
    [] d.detector = "unusual_tls_fingerprint" -> "tls"
    [] d.category = "threat_intelligence" -> "threat_intel"
    [] OTHER -> "behavior"

(* The model supports a decision only in AI full decision mode. *)
Indicators(d) ==
  {i \in {"beaconing", "dns_anomaly", "baseline_deviation", "unusual_internal_access",
          "data_transfer", "tls_fingerprint", "threat_intel", "ml_assessment"} :
     \/ i = "beaconing" /\ (d.detector = "beaconing" \/ "periodicity" \in d.marks)
     \/ i = "dns_anomaly" /\ d.detector = "dns_tunneling"
     \/ i = "baseline_deviation" /\ d.detector = "host_baseline_anomaly"
     \/ i = "unusual_internal_access" /\ d.category = "lateral_movement"
     \/ i = "data_transfer" /\ d.category = "exfiltration"
     \/ i = "tls_fingerprint" /\ d.detector = "unusual_tls_fingerprint"
     \/ i = "threat_intel" /\ d.category = "threat_intelligence"
     \/ i = "ml_assessment" /\ settings.ai /\ Learned(d)}

Categories(D) == {d.category : d \in D}

(* Mutant: the strong category is no longer asked for. *)
QuorumAnyCategory(D) ==
  /\ Cardinality(Categories(D)) >= MinCategories
  /\ Cardinality(UNION {Indicators(d) : d \in D}) >= MinIndicators
  /\ Cardinality({EngineOf(d) : d \in D}) >= MinEngines
  /\ \E d \in D : ~Learned(d)
  /\ ~(Categories(D) \subseteq NoisyCategories)
  /\ \E d \in D : ~d.stopped

(* The part of _internal_isolation_reasons that is about evidence; whose    *)
(* detections they are does not matter to it.                               *)
Quorum(D) ==
  /\ Cardinality(Categories(D)) >= MinCategories
  /\ Categories(D) \cap StrongCategories # {}
  /\ Cardinality(UNION {Indicators(d) : d \in D}) >= MinIndicators
  /\ Cardinality({EngineOf(d) : d \in D}) >= MinEngines
  /\ \E d \in D : ~Learned(d)
  /\ ~(Categories(D) \subseteq NoisyCategories)
  /\ \E d \in D : ~d.stopped

(* The scores of a case are the maxima of what its polls reported, each of  *)
(* them by itself.                                                          *)
Grave(c) == grade[c] = Threshold

BehaviorCategories ==
  {"anomaly", "machine_learning", "lateral_movement", "command_and_control", "exfiltration"}

BehaviorOf(c, h) ==
  {d \in evidence[c] : d.source = h /\ d.category \in BehaviorCategories}

(* Internal hosts that behave as if compromised: one detection may have the *)
(* severity of 9 and another the confidence of 0.95.                        *)
Actors(c) ==
  {h \in Internal :
     /\ Cardinality(Categories(BehaviorOf(c, h))) >= 2
     /\ Categories(BehaviorOf(c, h))
          \cap {"command_and_control", "exfiltration", "lateral_movement"} # {}
     /\ {"severe", "sure"} \subseteq UNION {d.marks : d \in BehaviorOf(c, h)}}

(* Whom the response to a case is about; equal actors come in any order. *)
Targets(c) ==
  IF Origin[c] \in Internal THEN {Origin[c]}
  ELSE IF Actors(c) # {}
    THEN {h \in Actors(c) : \A g \in Actors(c) :
            Cardinality(Categories(BehaviorOf(c, g)))
              <= Cardinality(Categories(BehaviorOf(c, h)))}
  ELSE IF RoleTarget[c] \in Internal THEN {RoleTarget[c]} ELSE {Origin[c]}

-----------------------------------------------------------------------------
(* What the policy refuses. *)

LearningStatus ==
  CASE settings.learning = "scheduled" -> IF now < LearnedAt THEN "learning" ELSE "armed"
    [] settings.learning = "off" -> "armed"
    [] OTHER -> settings.learning  \* machine learning "disabled", early "override"

LearningComplete == LearningStatus = "armed" /\ now >= LearnedAt

(* Mutant: what was removed or has expired is not counted. *)
RecentStillActive(w) ==
  {e \in Eid : /\ entry[e].auto /\ entry[e].host \in Internal
               /\ entry[e].status = "active"
               /\ entry[e].created + w >= now}

(* recent_automatic_internal_block_count: by creation, not by activation,   *)
(* and activated or not once the entry is removed or expired.               *)
Recent(w) ==
  {e \in Eid : /\ entry[e].auto /\ entry[e].host \in Internal
               /\ entry[e].status \in {"active", "removed", "expired"}
               /\ entry[e].created + w >= now}

CoolingDown == Cooldown > 0 /\ Recent(Cooldown) # {}

(* Mutant: the isolation that reaches the limit is let through. *)
HourIsOver == Cardinality(Recent(Hour)) > MaxPerHour

HourIsFull == Cardinality(Recent(Hour)) >= MaxPerHour

InternalRefused(c, h) ==
  \/ ~settings.internal
  \/ ~Quorum(evidence[c])
  \/ h \notin steady
  \/ CoolingDown
  \/ HourIsFull

(* evaluate_automatic_response_policy and the checks that follow it.        *)
Refused(c, h) ==
  \/ settings.halted
  \/ h \in Protected
  \/ LearningStatus = "learning"
  \/ ~Grave(c)
  \/ h \in Internal /\ (~LearningComplete \/ InternalRefused(c, h))
  \/ h \notin Internal /\ ~settings.external

ActivationAllowed(h) == settings.mode = "enforce" /\ (h \in Internal => settings.ai)

-----------------------------------------------------------------------------
(* Entries. *)

Live(e) == now < entry[e].created + Lifetime

Current(e) == entry[e].status \in {"proposed", "active"} /\ Live(e)

Existing(h) == {e \in Eid : entry[e].host = h /\ Current(e)}

Unused(e) == entry[e].status = "absent" /\ \A f \in Eid : f < e => entry[f].status # "absent"

(* The entry a proposal for h uses: a current one, or a new one. *)
Usable(h) == IF Existing(h) # {} THEN Existing(h) ELSE {e \in Eid : Unused(e)}

NewRow(h, auto) == [status |-> "proposed", host |-> h, auto |-> auto, created |-> now]

Proposed(h, auto, e) ==
  IF e \in Existing(h) THEN entry ELSE [entry EXCEPT ![e] = NewRow(h, auto)]

(* Mutant: a status of its own for what the service has isolated. *)
ActivatedAsIsolated(t, e) == [t EXCEPT ![e].status = "isolated"]

Activated(t, e) == [t EXCEPT ![e].status = "active"]

-----------------------------------------------------------------------------
(* The service. *)

(* A poll adds detections to some cases and hands them to _auto_response,   *)
(* which does nothing in observe mode. Nothing is detected while learning.  *)
(* A case of which the poll reports only baseline anomalies waits for       *)
(* manual confirmation.                                                     *)
Manual(D) == {d.detector : d \in D} = {"host_baseline_anomaly"}

Poll ==
  /\ queue = {} /\ LearningStatus # "learning"
  /\ \E B \in SUBSET Case \ {{}} : \E found \in [B -> UNION {Burst[c] : c \in B}] :
       /\ \A c \in B : found[c] \in Burst[c]
       /\ evidence' = [c \in Case |-> IF c \in B THEN evidence[c] \cup found[c] ELSE evidence[c]]
       /\ grade' = [c \in Case |-> IF c \in B THEN grade[c] \cup Reached[found[c]] ELSE grade[c]]
       /\ queue' = IF settings.mode = "observe" THEN {} ELSE {c \in B : ~Manual(found[c])}
       /\ mass' = (Cardinality(B) > MaxCandidates /\ queue' # {})
  /\ UNCHANGED <<now, settings, steady, entry, isolations>>

(* The loop over the cases of a poll goes on, or ends with its locals.      *)
Done(c) == queue' = queue \ {c} /\ mass' = (mass /\ queue' # {})

(* Refused by the policy, more than pf_action_rate_limit_per_minute, or an  *)
(* error.                                                                   *)
Skip(c) ==
  /\ c \in queue
  /\ Done(c)
  /\ UNCHANGED <<now, settings, evidence, grade, steady, entry, isolations>>

(* The proposal stands alone when activation is not allowed, when there are *)
(* too many candidates, when the entry is in force already, and when        *)
(* activate_block fails.                                                    *)
Recommend(c) ==
  /\ c \in queue
  /\ \E h \in Targets(c) : \E e \in Usable(h) :
       /\ ~Refused(c, h)
       /\ entry' = Proposed(h, TRUE, e)
  /\ Done(c)
  /\ UNCHANGED <<now, settings, evidence, grade, steady, isolations>>

IsolateOn(c, h, e) ==
  /\ ~Refused(c, h) /\ ActivationAllowed(h)
  /\ Proposed(h, TRUE, e)[e].status # "active"
  /\ entry' = Activated(Proposed(h, TRUE, e), e)
  /\ isolations' = IF h \in Internal
       THEN isolations \cup
              {[at |-> now, host |-> h, case |-> c, entry |-> e,
                auto |-> Proposed(h, TRUE, e)[e].auto, fresh |-> e \notin Existing(h)]}
       ELSE isolations

Isolate(c) ==
  /\ c \in queue /\ ~mass
  /\ \E h \in Targets(c) : \E e \in Usable(h) : IsolateOn(c, h, e)
  /\ Done(c)
  /\ UNCHANGED <<now, settings, evidence, grade, steady>>

(* update_host_baselines has seen h often enough; only internal hosts are   *)
(* asked about.                                                             *)
Settle(h) ==
  /\ queue = {} /\ h \in Internal \ steady
  /\ steady' = steady \cup {h}
  /\ UNCHANGED <<now, settings, evidence, grade, entry, queue, mass, isolations>>

(* A configuration is read when the service starts. *)
Reconfigure ==
  /\ settings' \in Settings \ {settings}
  /\ queue' = {} /\ mass' = FALSE
  /\ UNCHANGED <<now, evidence, grade, steady, entry, isolations>>

-----------------------------------------------------------------------------
(* Operators and the clock. *)

ProposeManual(h) ==
  /\ h \notin Protected /\ Existing(h) = {}
  /\ \E e \in Usable(h) : entry' = Proposed(h, FALSE, e)
  /\ UNCHANGED <<now, settings, evidence, grade, steady, queue, mass, isolations>>

ActivateManual(e) ==
  /\ entry[e].status = "proposed" /\ Live(e) /\ entry[e].host \notin Protected
  /\ entry' = Activated(entry, e)
  /\ UNCHANGED <<now, settings, evidence, grade, steady, queue, mass, isolations>>

Remove(e) ==
  /\ entry[e].status \in {"proposed", "active"}
  /\ entry' = [entry EXCEPT ![e].status = "removed"]
  /\ UNCHANGED <<now, settings, evidence, grade, steady, queue, mass, isolations>>

Lapsed(e) == entry[e].status \in {"proposed", "active"} /\ ~Live(e)

Expire ==
  /\ \E e \in Eid : Lapsed(e)
  /\ entry' = [e \in Eid |-> IF Lapsed(e) THEN [entry[e] EXCEPT !.status = "expired"]
                                          ELSE entry[e]]
  /\ UNCHANGED <<now, settings, evidence, grade, steady, queue, mass, isolations>>

(* reset-runtime with --restart-service; the history starts anew. *)
Reset ==
  /\ evidence' = [c \in Case |-> {}]
  /\ grade' = [c \in Case |-> {}]
  /\ steady' = {}
  /\ entry' = [e \in Eid |-> NoRow]
  /\ queue' = {} /\ mass' = FALSE
  /\ isolations' = {}
  /\ UNCHANGED <<now, settings>>

Tick ==
  /\ now < MaxTime
  /\ now' = now + 1
  /\ UNCHANGED <<settings, evidence, grade, steady, entry, queue, mass, isolations>>

Respond(c) == Skip(c) \/ Recommend(c) \/ Isolate(c)

Next ==
  \/ Poll
  \/ \E c \in Case : Respond(c)
  \/ \E h \in Host : Settle(h) \/ ProposeManual(h)
  \/ \E e \in Eid : ActivateManual(e) \/ Remove(e)
  \/ Reconfigure \/ Expire \/ Reset \/ Tick

Spec == Init /\ [][Next]_vars

-----------------------------------------------------------------------------
(* Properties. *)

(* Internal hosts isolated with entries made for it lie more than the       *)
(* cooldown apart, whatever was removed, expired, activated by hand or      *)
(* reconfigured in between.                                                 *)
FreshIsolationsApart ==
  Cooldown > 0 =>
    \A i, j \in isolations :
      (i.fresh /\ j.fresh /\ i # j) => i.at + Cooldown < j.at \/ j.at + Cooldown < i.at

(* With entries of the service, recommended earlier or not, no more than    *)
(* the hourly limit are isolated in an hour less the lifetime of an entry,  *)
(* for an entry counts from its creation.                                   *)
HourKept ==
  \A i \in isolations :
    Cardinality({j \in isolations :
                   /\ i.auto /\ j.auto
                   /\ j.at <= i.at /\ j.at + Hour >= i.at + Lifetime}) <= MaxPerHour

(* The model's verdict, signatures and what Suricata stopped do not isolate *)
(* an internal host by themselves: something else shows an attack.          *)
Corroborated ==
  \A i \in isolations :
    /\ \E d \in evidence[i.case] : d.category \in StrongCategories /\ ~Learned(d)
    /\ \E d \in evidence[i.case] : ~d.stopped
=============================================================================
