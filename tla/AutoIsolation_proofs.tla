------------------------ MODULE AutoIsolation_proofs ------------------------
(* Theorems about AutoIsolation, for every number of cases, hosts and        *)
(* entries, every evidence, and all limits and periods.                      *)
EXTENDS AutoIsolation, FiniteSetTheorems, TLAPS

-----------------------------------------------------------------------------
(* Type correctness. *)

LEMMA NewRowType ==
  ASSUME TypeOK, NEW h \in Host, NEW auto \in BOOLEAN
  PROVE  NewRow(h, auto) \in Row
  BY DEF NewRow, Row, Status, TypeOK

LEMMA NoRowType == NoRow \in Row
  BY DEF NoRow, Row, Status

(* A proposal changes at most the entry it uses. *)
LEMMA ProposedType ==
  ASSUME TypeOK, NEW h \in Host, NEW auto \in BOOLEAN, NEW e \in Eid
  PROVE  Proposed(h, auto, e) \in [Eid -> Row]
  BY NewRowType DEF Proposed, TypeOK

LEMMA ActivatedType ==
  ASSUME NEW t \in [Eid -> Row], NEW e \in Eid
  PROVE  Activated(t, e) \in [Eid -> Row]
  BY DEF Activated, Row, Status

LEMMA TargetsAreHosts ==
  ASSUME NEW c \in Case
  PROVE  Targets(c) \subseteq Host
  BY IsolationAssumption DEF Targets, Actors

LEMMA UsableAreIds == \A h : Usable(h) \subseteq Eid
  BY DEF Usable, Existing

LEMMA PollType ==
  ASSUME TypeOK, Poll
  PROVE  TypeOK'
<1>1. PICK B \in SUBSET Case : \E found \in [B -> UNION {Burst[c] : c \in B}] :
        /\ \A c \in B : found[c] \in Burst[c]
        /\ evidence' = [c \in Case |-> IF c \in B THEN evidence[c] \cup found[c]
                                                  ELSE evidence[c]]
        /\ grade' = [c \in Case |-> IF c \in B THEN grade[c] \cup Reached[found[c]]
                                               ELSE grade[c]]
        /\ queue' = IF settings.mode = "observe" THEN {} ELSE {c \in B : ~Manual(found[c])}
        /\ mass' = (Cardinality(B) > MaxCandidates /\ queue' # {})
  BY DEF Poll
<1>2. PICK found \in [B -> UNION {Burst[c] : c \in B}] :
        /\ \A c \in B : found[c] \in Burst[c]
        /\ evidence' = [c \in Case |-> IF c \in B THEN evidence[c] \cup found[c]
                                                  ELSE evidence[c]]
        /\ grade' = [c \in Case |-> IF c \in B THEN grade[c] \cup Reached[found[c]]
                                               ELSE grade[c]]
        /\ queue' = IF settings.mode = "observe" THEN {} ELSE {c \in B : ~Manual(found[c])}
        /\ mass' = (Cardinality(B) > MaxCandidates /\ queue' # {})
  BY <1>1
<1>3. \A c \in B : found[c] \subseteq Sign
  BY <1>2, IsolationAssumption
<1>4. evidence' \in [Case -> SUBSET Sign]
  BY <1>2, <1>3 DEF TypeOK
<1>5. queue' \subseteq Case /\ mass' \in BOOLEAN
  BY <1>2
<1>6. grade' \in [Case -> SUBSET Threshold]
  <2>1. \A c \in B : Reached[found[c]] \subseteq Threshold
    <3>1. \A c \in B : found[c] \in UNION {Burst[b] : b \in Case}
      BY <1>2
    <3>2. QED
      BY <3>1, IsolationAssumption
  <2>2. QED
    BY <1>2, <2>1 DEF TypeOK
<1>7. QED
  BY <1>4, <1>5, <1>6 DEF TypeOK, Poll

LEMMA IsolateType ==
  ASSUME TypeOK, NEW c \in Case, Isolate(c)
  PROVE  TypeOK'
<1>1. PICK h \in Targets(c) : \E e \in Usable(h) : IsolateOn(c, h, e)
  BY DEF Isolate
<1>a. PICK e \in Usable(h) : IsolateOn(c, h, e)
  BY <1>1
<1>2. h \in Host /\ e \in Eid
  BY <1>a, TargetsAreHosts, UsableAreIds
<1>3. Proposed(h, TRUE, e) \in [Eid -> Row]
  BY <1>2, ProposedType
<1>4. entry' \in [Eid -> Row]
  BY <1>a, <1>2, <1>3, ActivatedType DEF IsolateOn
<1>5. isolations' \subseteq Isolation
  <2>1. CASE h \in Internal
    <3>1. [at |-> now, host |-> h, case |-> c, entry |-> e,
           auto |-> Proposed(h, TRUE, e)[e].auto, fresh |-> e \notin Existing(h)] \in Isolation
      <4>1. Proposed(h, TRUE, e)[e].auto \in BOOLEAN
        BY <1>2, <1>3 DEF Row
      <4>2. QED
        BY <1>2, <2>1, <4>1 DEF Isolation, TypeOK
    <3>2. QED
      BY <1>a, <2>1, <3>1 DEF IsolateOn, TypeOK
  <2>2. CASE h \notin Internal
    BY <1>a, <2>2 DEF IsolateOn, TypeOK
  <2>3. QED
    BY <2>1, <2>2
<1>6. QED
  BY <1>4, <1>5 DEF TypeOK, Isolate, Done

LEMMA StepType ==
  ASSUME TypeOK, [Next]_vars
  PROVE  TypeOK'
<1>1. CASE Poll
  BY <1>1, PollType
<1>2. ASSUME NEW c \in Case, Skip(c)
      PROVE  TypeOK'
  BY <1>2 DEF TypeOK, Skip, Done
<1>3. ASSUME NEW c \in Case, Recommend(c)
      PROVE  TypeOK'
  <2>1. PICK h \in Targets(c) : \E e \in Usable(h) : entry' = Proposed(h, TRUE, e)
    BY <1>3 DEF Recommend
  <2>a. PICK e \in Usable(h) : entry' = Proposed(h, TRUE, e)
    BY <2>1
  <2>2. entry' \in [Eid -> Row]
    BY <2>a, ProposedType, TargetsAreHosts, UsableAreIds
  <2>3. QED
    BY <1>3, <2>2 DEF TypeOK, Recommend, Done
<1>4. ASSUME NEW c \in Case, Isolate(c)
      PROVE  TypeOK'
  BY <1>4, IsolateType
<1>5. ASSUME NEW h \in Host, Settle(h)
      PROVE  TypeOK'
  BY <1>5 DEF TypeOK, Settle
<1>6. ASSUME NEW h \in Host, ProposeManual(h)
      PROVE  TypeOK'
  <2>1. entry' \in [Eid -> Row]
    BY <1>6, ProposedType, UsableAreIds DEF ProposeManual
  <2>2. QED
    BY <1>6, <2>1 DEF TypeOK, ProposeManual
<1>7. ASSUME NEW e \in Eid, ActivateManual(e) \/ Remove(e)
      PROVE  TypeOK'
  <2>1. entry' \in [Eid -> Row]
    <3>1. CASE ActivateManual(e)
      BY <3>1, ActivatedType DEF ActivateManual, TypeOK
    <3>2. CASE Remove(e)
      BY <3>2 DEF Remove, TypeOK, Row, Status
    <3>3. QED
      BY <1>7, <3>1, <3>2
  <2>2. QED
    BY <1>7, <2>1 DEF TypeOK, ActivateManual, Remove
<1>8. CASE Expire
  <2>1. entry' \in [Eid -> Row]
    BY <1>8 DEF Expire, TypeOK, Row, Status
  <2>2. QED
    BY <1>8, <2>1 DEF TypeOK, Expire
<1>9. CASE Reset
  BY <1>9, NoRowType DEF TypeOK, Reset
<1>10. CASE Reconfigure
  BY <1>10 DEF TypeOK, Reconfigure
<1>11. CASE Tick
  BY <1>11 DEF TypeOK, Tick
<1>12. CASE UNCHANGED vars
  BY <1>12 DEF TypeOK, vars
<1>13. QED
  BY <1>1, <1>2, <1>3, <1>4, <1>5, <1>6, <1>7, <1>8, <1>9, <1>10, <1>11, <1>12
     DEF Next, Respond

LEMMA InitType == Init => TypeOK
<1> SUFFICES ASSUME Init
             PROVE  TypeOK
  OBVIOUS
<1>1. entry \in [Eid -> Row]
  BY NoRowType DEF Init
<1>2. mass \in BOOLEAN
  BY DEF Init
<1>3. QED
  BY <1>1, <1>2 DEF Init, TypeOK

(* Clock, entries and history of the response keep their types, whatever a   *)
(* poll reports and an operator does.                                        *)
THEOREM IsolationTypeCorrect == Spec => []TypeOK
<1>1. QED
  BY InitType, StepType, PTL DEF Spec

-----------------------------------------------------------------------------
(* The cooldown. *)

(* What the cooldown rests on: an isolation with an entry of its own is      *)
(* still found in the table, in a status that counts, under the moment it    *)
(* happened.                                                                 *)
Witnessed(i) ==
  /\ i.at <= now
  /\ entry[i.entry].status \in {"active", "removed", "expired"}
  /\ entry[i.entry].auto
  /\ entry[i.entry].host = i.host
  /\ entry[i.entry].created = i.at

FreshWitnessed == \A i \in isolations : i.fresh => Witnessed(i)

IInv == TypeOK /\ FreshWitnessed /\ FreshIsolationsApart

(* Steps that leave the history alone and no entry that counts: for each     *)
(* entry that was there, its source and its times stay, and its status stays *)
(* among those that count.                                                   *)
Preserved(e) ==
  entry[e].status \in {"active", "removed", "expired"} =>
    /\ entry'[e].status \in {"active", "removed", "expired"}
    /\ entry'[e].auto = entry[e].auto
    /\ entry'[e].host = entry[e].host
    /\ entry'[e].created = entry[e].created

LEMMA HistoryAlone ==
  ASSUME IInv, TypeOK', isolations' = isolations, now' \in {now, now + 1},
         \A e \in Eid : Preserved(e)
  PROVE  IInv'
<1>1. ASSUME NEW i \in isolations, i.fresh
      PROVE  Witnessed(i)'
  <2>1. Witnessed(i) /\ i.entry \in Eid /\ i.at \in Nat /\ now \in Nat
    BY <1>1 DEF IInv, FreshWitnessed, TypeOK, Isolation
  <2>2. Preserved(i.entry)
    BY <2>1
  <2>3. QED
    BY <2>1, <2>2 DEF Witnessed, Preserved
<1>2. FreshWitnessed'
  BY <1>1 DEF FreshWitnessed
<1>3. FreshIsolationsApart'
  BY DEF IInv, FreshIsolationsApart
<1>4. QED
  BY <1>2, <1>3 DEF IInv

(* A proposal uses a current entry as it is, or one that was not there. *)
LEMMA ProposedPreserves ==
  ASSUME TypeOK, NEW h \in Host, NEW auto \in BOOLEAN, NEW e \in Usable(h), NEW f \in Eid,
         entry[f].status # "absent"
  PROVE  Proposed(h, auto, e)[f] = entry[f]
<1>1. CASE e \in Existing(h)
  BY <1>1 DEF Proposed
<1>2. CASE e \notin Existing(h)
  <2>1. entry[e].status = "absent"
    BY <1>2 DEF Usable, Unused
  <2>2. QED
    BY <1>2, <2>1 DEF Proposed, TypeOK
<1>3. QED
  BY <1>1, <1>2

LEMMA NewProposal ==
  ASSUME TypeOK, NEW h \in Host, NEW auto \in BOOLEAN, NEW e \in Eid, e \notin Existing(h)
  PROVE  /\ Proposed(h, auto, e)[e].auto = auto
         /\ Proposed(h, auto, e)[e].host = h
         /\ Proposed(h, auto, e)[e].created = now
  BY DEF Proposed, NewRow, TypeOK

(* No internal host is isolated with a new entry while an earlier isolation  *)
(* of that kind is in its cooldown.                                          *)
LEMMA CooledDown ==
  ASSUME IInv, Cooldown > 0, NEW i \in isolations, i.fresh, ~CoolingDown
  PROVE  i.at + Cooldown < now
<1>1. /\ i.entry \in Eid /\ i.at \in Nat /\ i.host \in Internal /\ now \in Nat
      /\ Cooldown \in Nat
  BY IsolationAssumption DEF IInv, TypeOK, Isolation
<1>2. Witnessed(i)
  BY DEF IInv, FreshWitnessed
<1>3. i.entry \notin Recent(Cooldown)
  BY DEF CoolingDown
<1>4. ~(entry[i.entry].created + Cooldown >= now)
  BY <1>1, <1>2, <1>3 DEF Recent, Witnessed
<1>5. QED
  BY <1>1, <1>2, <1>4 DEF Witnessed

LEMMA IsolatePreserves ==
  ASSUME TypeOK, NEW h \in Host, NEW e \in Usable(h),
         entry' = Activated(Proposed(h, TRUE, e), e), NEW f \in Eid
  PROVE  Preserved(f)
<1>1. e \in Eid /\ Proposed(h, TRUE, e) \in [Eid -> Row]
  BY ProposedType, UsableAreIds
<1>2. entry[f].status \in {"active", "removed", "expired"} => Proposed(h, TRUE, e)[f] = entry[f]
  BY ProposedPreserves
<1>3. QED
  BY <1>1, <1>2 DEF Preserved, Activated, Row

LEMMA IsolateInv ==
  ASSUME IInv, NEW c \in Case, Isolate(c)
  PROVE  IInv'
<1>1. PICK h \in Targets(c) : \E e \in Usable(h) : IsolateOn(c, h, e)
  BY DEF Isolate
<1>a. PICK e \in Usable(h) : IsolateOn(c, h, e)
  BY <1>1
<1>2. h \in Host /\ e \in Eid /\ TypeOK /\ TypeOK' /\ now' = now
  BY <1>a, TargetsAreHosts, UsableAreIds, IsolateType DEF IInv, Isolate
<1> DEFINE P == Proposed(h, TRUE, e)
<1>3. PICK new : new = [at |-> now, host |-> h, case |-> c, entry |-> e,
                        auto |-> P[e].auto, fresh |-> e \notin Existing(h)]
  OBVIOUS
<1>4. P \in [Eid -> Row] /\ entry' = [P EXCEPT ![e].status = "active"]
  BY <1>a, <1>2, ProposedType DEF IsolateOn, Activated
<1>5. \A f \in Eid : Preserved(f)
  BY <1>a, <1>2, IsolatePreserves DEF IsolateOn
<1>6. CASE h \notin Internal
  <2>1. isolations' = isolations
    BY <1>a, <1>6 DEF IsolateOn
  <2>2. QED
    BY <1>2, <1>5, <2>1, HistoryAlone
<1>7. CASE h \in Internal
  <2>1. isolations' = isolations \cup {new}
    BY <1>a, <1>3, <1>7 DEF IsolateOn
  <2>2. ~CoolingDown
    BY <1>a, <1>7 DEF IsolateOn, Refused, InternalRefused
  <2>3. new.fresh => Witnessed(new)'
    <3>1. SUFFICES ASSUME e \notin Existing(h)
                   PROVE  Witnessed(new)'
      BY <1>3
    <3>2. P[e].auto = TRUE /\ P[e].host = h /\ P[e].created = now
      BY <1>2, <3>1, NewProposal, Zenon
    <3>3. /\ entry'[e].status = "active" /\ entry'[e].auto = P[e].auto
          /\ entry'[e].host = P[e].host /\ entry'[e].created = P[e].created
      BY <1>2, <1>4 DEF Row
    <3>4. new.at = now /\ new.host = h /\ new.entry = e /\ now \in Nat
      BY <1>2, <1>3 DEF TypeOK
    <3>5. /\ new.at <= now'
          /\ entry'[new.entry].status \in {"active", "removed", "expired"}
      BY <1>2, <3>3, <3>4
    <3>6. /\ entry'[new.entry].auto = TRUE
          /\ entry'[new.entry].host = new.host
          /\ entry'[new.entry].created = new.at
      BY <3>2, <3>3, <3>4, Zenon
    <3>7. QED
      BY <3>5, <3>6, Zenon DEF Witnessed
  <2>4. \A i \in isolations : i.fresh => Witnessed(i)'
    <3>1. SUFFICES ASSUME NEW i \in isolations, i.fresh
                   PROVE  Witnessed(i)'
      OBVIOUS
    <3>2. Witnessed(i) /\ i.entry \in Eid
      BY <3>1 DEF IInv, FreshWitnessed, TypeOK, Isolation
    <3>3. QED
      BY <1>2, <1>5, <3>2 DEF Witnessed, Preserved
  <2>5. FreshWitnessed'
    BY <2>1, <2>3, <2>4 DEF FreshWitnessed
  <2>6. FreshIsolationsApart'
    <3>1. SUFFICES ASSUME Cooldown > 0
                   PROVE  \A i, j \in isolations \cup {new} :
                            (i.fresh /\ j.fresh /\ i # j)
                              => i.at + Cooldown < j.at \/ j.at + Cooldown < i.at
      BY <2>1 DEF FreshIsolationsApart
    <3>2. \A i \in isolations : i.fresh => i.at + Cooldown < new.at
      BY <1>3, <2>2, <3>1, CooledDown
    <3>3. \A i, j \in isolations : (i.fresh /\ j.fresh /\ i # j)
            => i.at + Cooldown < j.at \/ j.at + Cooldown < i.at
      BY <3>1 DEF IInv, FreshIsolationsApart
    <3>4. QED
      BY <3>2, <3>3
  <2>7. QED
    BY <1>2, <2>5, <2>6 DEF IInv
<1>8. QED
  BY <1>6, <1>7

(* But for a reset, no step takes an entry that counts out of the table. *)
LEMMA StepPreserves ==
  ASSUME TypeOK, [Next]_vars, ~Reset
  PROVE  \A f \in Eid : Preserved(f)
<1>1. CASE entry' = entry
  BY <1>1 DEF Preserved
<1>2. ASSUME NEW c \in Case, Recommend(c)
      PROVE  \A f \in Eid : Preserved(f)
  <2>1. PICK h \in Targets(c) : \E e \in Usable(h) : entry' = Proposed(h, TRUE, e)
    BY <1>2 DEF Recommend
  <2>2. PICK e \in Usable(h) : entry' = Proposed(h, TRUE, e)
    BY <2>1
  <2>3. QED
    BY <2>2, ProposedPreserves, TargetsAreHosts DEF Preserved
<1>3. ASSUME NEW c \in Case, Isolate(c)
      PROVE  \A f \in Eid : Preserved(f)
  <2>1. PICK h \in Targets(c) : \E e \in Usable(h) : IsolateOn(c, h, e)
    BY <1>3 DEF Isolate
  <2>2. PICK e \in Usable(h) : IsolateOn(c, h, e)
    BY <2>1
  <2>3. QED
    BY <2>2, IsolatePreserves, TargetsAreHosts DEF IsolateOn
<1>4. ASSUME NEW h \in Host, ProposeManual(h)
      PROVE  \A f \in Eid : Preserved(f)
  BY <1>4, ProposedPreserves DEF ProposeManual, Preserved
<1>5. ASSUME NEW e \in Eid, ActivateManual(e) \/ Remove(e)
      PROVE  \A f \in Eid : Preserved(f)
  BY <1>5 DEF ActivateManual, Remove, Activated, Preserved, TypeOK, Row
<1>6. CASE Expire
  BY <1>6 DEF Expire, Preserved, TypeOK, Row
<1>7. QED
  BY <1>1, <1>2, <1>3, <1>4, <1>5, <1>6
     DEF Next, Respond, Poll, Skip, Settle, Reconfigure, Tick, vars

(* Only an isolation and a reset write the history. *)
LEMMA HistoryWriters ==
  ASSUME [Next]_vars, isolations' # isolations
  PROVE  Reset \/ \E c \in Case : Isolate(c)
  BY DEF Next, Respond, Poll, Skip, Recommend, Settle, ProposeManual, ActivateManual, Remove,
         Reconfigure, Expire, Tick, vars

LEMMA ClockSteps ==
  ASSUME [Next]_vars
  PROVE  now' \in {now, now + 1}
  BY DEF Next, Respond, Poll, Skip, Recommend, Isolate, Settle, ProposeManual, ActivateManual,
         Remove, Reconfigure, Expire, Reset, Tick, vars

LEMMA StepInv ==
  ASSUME IInv, [Next]_vars
  PROVE  IInv'
<1>1. TypeOK /\ TypeOK'
  BY StepType DEF IInv
<1>2. CASE Reset
  BY <1>1, <1>2 DEF IInv, Reset, FreshWitnessed, FreshIsolationsApart
<1>3. ASSUME NEW c \in Case, Isolate(c)
      PROVE  IInv'
  BY <1>3, IsolateInv
<1>4. CASE ~Reset /\ isolations' = isolations
  BY <1>1, <1>4, StepPreserves, ClockSteps, HistoryAlone
<1>5. QED
  BY <1>2, <1>3, <1>4, HistoryWriters

(* Entries the service makes and activates at once keep the cooldown between *)
(* internal hosts, whatever an operator removes, activates, expires or       *)
(* reconfigures in between: the table the policy counts in never loses them. *)
THEOREM CooldownBetweenFresh == Spec => []FreshIsolationsApart
<1>1. Init => IInv
  BY InitType DEF Init, IInv, FreshWitnessed, FreshIsolationsApart
<1>2. IInv => FreshIsolationsApart
  BY DEF IInv
<1>3. QED
  BY <1>1, <1>2, StepInv, PTL DEF Spec

-----------------------------------------------------------------------------
(* What isolates a host. *)

LEMMA QuorumCorroborates ==
  ASSUME NEW D \in SUBSET Sign, Quorum(D)
  PROVE  /\ \E d \in D : d.category \in StrongCategories /\ ~Learned(d)
         /\ \E d \in D : ~d.stopped
<1>1. PICK d \in D : d.category \in StrongCategories
  BY DEF Quorum, Categories
<1>2. d.category # "machine_learning"
  BY <1>1 DEF StrongCategories
<1>3. ~Learned(d)
  BY <1>2, IsolationAssumption DEF Learned
<1>4. QED
  BY <1>1, <1>3 DEF Quorum

(* Evidence only grows while the history is kept. *)
LEMMA MoreEvidence ==
  ASSUME TypeOK, Corroborated, isolations' = isolations,
         \A c \in Case : evidence[c] \subseteq evidence'[c]
  PROVE  Corroborated'
  BY DEF Corroborated, TypeOK, Isolation

LEMMA IsolateCorroborated ==
  ASSUME TypeOK, Corroborated, NEW c \in Case, Isolate(c)
  PROVE  Corroborated'
<1>1. PICK h \in Targets(c) : \E e \in Usable(h) : IsolateOn(c, h, e)
  BY DEF Isolate
<1>2. PICK e \in Usable(h) : IsolateOn(c, h, e)
  BY <1>1
<1>3. evidence' = evidence
  BY DEF Isolate
<1>4. CASE h \notin Internal
  BY <1>2, <1>3, <1>4, MoreEvidence DEF IsolateOn
<1>5. CASE h \in Internal
  <2>1. Quorum(evidence[c])
    BY <1>2, <1>5 DEF IsolateOn, Refused, InternalRefused
  <2>2. /\ \E d \in evidence[c] : d.category \in StrongCategories /\ ~Learned(d)
        /\ \E d \in evidence[c] : ~d.stopped
    BY <2>1, QuorumCorroborates DEF TypeOK
  <2>3. PICK new : new = [at |-> now, host |-> h, case |-> c, entry |-> e,
                          auto |-> Proposed(h, TRUE, e)[e].auto,
                          fresh |-> e \notin Existing(h)]
    OBVIOUS
  <2>4. isolations' = isolations \cup {new}
    BY <1>2, <1>5, <2>3 DEF IsolateOn
  <2>5. new.case = c
    BY <2>3
  <2>6. QED
    BY <1>3, <2>2, <2>4, <2>5 DEF Corroborated
<1>6. QED
  BY <1>4, <1>5

LEMMA StepCorroborated ==
  ASSUME TypeOK, Corroborated, [Next]_vars
  PROVE  Corroborated'
<1>1. CASE Poll
  <2>1. \A c \in Case : evidence[c] \subseteq evidence'[c]
    <3>1. PICK B \in SUBSET Case : \E found \in [B -> UNION {Burst[c] : c \in B}] :
            evidence' = [c \in Case |-> IF c \in B THEN evidence[c] \cup found[c]
                                                   ELSE evidence[c]]
      BY <1>1 DEF Poll
    <3>2. PICK found \in [B -> UNION {Burst[c] : c \in B}] :
            evidence' = [c \in Case |-> IF c \in B THEN evidence[c] \cup found[c]
                                                   ELSE evidence[c]]
      BY <3>1
    <3>3. QED
      BY <3>2
  <2>2. QED
    BY <1>1, <2>1, MoreEvidence DEF Poll
<1>2. ASSUME NEW c \in Case, Isolate(c)
      PROVE  Corroborated'
  BY <1>2, IsolateCorroborated
<1>3. CASE Reset
  BY <1>3 DEF Reset, Corroborated
<1>4. ASSUME evidence' = evidence, isolations' = isolations
      PROVE  Corroborated'
  BY <1>4, MoreEvidence
<1>5. QED
  BY <1>1, <1>2, <1>3, <1>4
     DEF Next, Respond, Skip, Recommend, Settle, ProposeManual, ActivateManual, Remove,
         Reconfigure, Expire, Tick, vars

(* An internal host is isolated only with an attack in evidence that neither *)
(* the model nor a signature alone has seen, and that was not all stopped.   *)
THEOREM IsolationCorroborated == Spec => []Corroborated
<1>1. Init => Corroborated
  BY DEF Init, Corroborated
<1>2. QED
  BY <1>1, StepCorroborated, IsolationTypeCorrect, PTL DEF Spec

-----------------------------------------------------------------------------
(* The hourly limit. *)

Present == {e \in Eid : entry[e].status # "absent"}

(* Where an isolation is found in the table: its entry has been made at most *)
(* the lifetime of an entry before.                                          *)
Counts(i) ==
  /\ i.at <= now
  /\ entry[i.entry].status \in {"active", "removed", "expired"}
  /\ entry[i.entry].auto = i.auto
  /\ entry[i.entry].host = i.host
  /\ i.at <= entry[i.entry].created + Lifetime

OncePerEntry == \A i, j \in isolations : i.entry = j.entry => i = j

(* What HourKept counts up to i, of the isolations I. *)
WithinHour(I, i) ==
  {j \in I : /\ i.auto /\ j.auto
             /\ j.at <= i.at /\ j.at + Hour >= i.at + Lifetime}

HInv ==
  /\ TypeOK
  /\ IsFiniteSet(Present)
  /\ \A i \in isolations : Counts(i)
  /\ OncePerEntry
  /\ HourKept

(* A step makes at most one entry; a new one has the least id that is free.  *)
LEMMA PresentFinite ==
  ASSUME TypeOK, [Next]_vars, IsFiniteSet(Present)
  PROVE  IsFiniteSet(Present')
<1>1. \A x : \A T \in SUBSET (Present \cup {x}) : IsFiniteSet(T)
  BY FS_AddElement, FS_Subset
<1>2. \E x : Present' \subseteq Present \cup {x}
  <2>1. ASSUME NEW h \in Host, NEW auto \in BOOLEAN, NEW e \in Usable(h), NEW f \in Eid,
               Proposed(h, auto, e)[f].status # "absent", f # e
        PROVE  entry[f].status # "absent"
    BY <2>1 DEF Proposed, TypeOK
  <2>2. CASE \A f \in Eid : entry[f].status = "absent" => entry'[f].status = "absent"
    BY <2>2 DEF Present
  <2>3. ASSUME NEW c \in Case, Recommend(c)
        PROVE  \E x : Present' \subseteq Present \cup {x}
    <3>1. PICK h \in Targets(c) : \E e \in Usable(h) : entry' = Proposed(h, TRUE, e)
      BY <2>3 DEF Recommend
    <3>2. PICK e \in Usable(h) : entry' = Proposed(h, TRUE, e)
      BY <3>1
    <3>3. Present' \subseteq Present \cup {e}
      BY <2>1, <3>2, TargetsAreHosts DEF Present
    <3>4. QED
      BY <3>3
  <2>4. ASSUME NEW c \in Case, Isolate(c)
        PROVE  \E x : Present' \subseteq Present \cup {x}
    <3>1. PICK h \in Targets(c) : \E e \in Usable(h) : IsolateOn(c, h, e)
      BY <2>4 DEF Isolate
    <3>2. PICK e \in Usable(h) : entry' = Activated(Proposed(h, TRUE, e), e)
      BY <3>1 DEF IsolateOn
    <3>3. h \in Host /\ Proposed(h, TRUE, e) \in [Eid -> Row]
      BY TargetsAreHosts, UsableAreIds, ProposedType
    <3>4. \A f \in Eid : f # e => entry'[f] = Proposed(h, TRUE, e)[f]
      BY <3>2, <3>3 DEF Activated
    <3>5. ASSUME NEW f \in Eid, entry'[f].status # "absent", f # e
          PROVE  entry[f].status # "absent"
      <4>1. Proposed(h, TRUE, e)[f].status # "absent"
        BY <3>4, <3>5
      <4>2. QED
        BY <2>1, <3>3, <3>5, <4>1
    <3>6. Present' \subseteq Present \cup {e}
      BY <3>5 DEF Present
    <3>7. QED
      BY <3>6
  <2>5. ASSUME NEW h \in Host, ProposeManual(h)
        PROVE  \E x : Present' \subseteq Present \cup {x}
    <3>1. PICK e \in Usable(h) : entry' = Proposed(h, FALSE, e)
      BY <2>5 DEF ProposeManual
    <3>2. Present' \subseteq Present \cup {e}
      BY <2>1, <3>1 DEF Present
    <3>3. QED
      BY <3>2
  <2>6. ASSUME NEW e \in Eid, ActivateManual(e) \/ Remove(e)
        PROVE  \A f \in Eid : entry[f].status = "absent" => entry'[f].status = "absent"
    BY <2>6 DEF ActivateManual, Remove, Activated, TypeOK
  <2>7. ASSUME Expire
        PROVE  \A f \in Eid : entry[f].status = "absent" => entry'[f].status = "absent"
    BY <2>7 DEF Expire, Lapsed
  <2>8. ASSUME Reset
        PROVE  \A f \in Eid : entry'[f].status = "absent"
    BY <2>8 DEF Reset, NoRow
  <2>9. QED
    BY <2>2, <2>3, <2>4, <2>5, <2>6, <2>7, <2>8
       DEF Next, Respond, Poll, Skip, Settle, Reconfigure, Tick, vars
<1>3. PICK x : Present' \subseteq Present \cup {x}
  BY <1>2
<1>4. QED
  BY <1>1, <1>3

(* What counts goes on counting. *)
LEMMA CountsStay ==
  ASSUME TypeOK, NEW i \in isolations, Counts(i), now' \in {now, now + 1},
         \A f \in Eid : Preserved(f)
  PROVE  Counts(i)'
<1>1. i.entry \in Eid /\ i.at \in Nat /\ now \in Nat
  BY DEF TypeOK, Isolation
<1>2. Preserved(i.entry)
  BY <1>1
<1>3. QED
  BY <1>1, <1>2 DEF Counts, Preserved

(* The isolations of the last hour have entries of their own among those     *)
(* that the query of the limit returns.                                      *)
LEMMA HourIsSeen ==
  ASSUME HInv, NEW i, i.auto, i.at = now
  PROVE  /\ IsFiniteSet(WithinHour(isolations, i))
         /\ IsFiniteSet(Recent(Hour))
         /\ Cardinality(WithinHour(isolations, i)) <= Cardinality(Recent(Hour))
<1> DEFINE S == WithinHour(isolations, i)
           f == [j \in S |-> j.entry]
<1>1. S \subseteq isolations
  BY DEF WithinHour
<1>2. Recent(Hour) \subseteq Present
  BY DEF Recent, Present
<1>3. IsFiniteSet(Recent(Hour))
  BY <1>2, FS_Subset DEF HInv
<1>4. ASSUME NEW j \in S
      PROVE  j.entry \in Recent(Hour)
  <2>1. /\ j.entry \in Eid /\ j.at \in Nat /\ j.host \in Internal /\ now \in Nat
        /\ Hour \in Nat /\ Lifetime \in Nat /\ entry[j.entry] \in Row
    BY <1>1, IsolationAssumption DEF HInv, TypeOK, Isolation
  <2>2. Counts(j) /\ j.auto /\ j.at + Hour >= now + Lifetime
    BY <1>1 DEF HInv, WithinHour
  <2>3. entry[j.entry].created \in Nat
    BY <2>1 DEF Row
  <2>4. entry[j.entry].created + Hour >= now
    BY <2>1, <2>2, <2>3 DEF Counts
  <2>5. QED
    BY <2>1, <2>2, <2>4 DEF Counts, Recent
<1>5. \A j, k \in S : f[j] = f[k] => j = k
  BY <1>1 DEF HInv, OncePerEntry
<1>6. f \in Injection(S, Recent(Hour))
  BY <1>4, <1>5 DEF Injection, IsInjective
<1>7. IsFiniteSet(S) /\ Cardinality(S) <= Cardinality(Recent(Hour))
  BY <1>3, <1>6, FS_Injection
<1>8. QED
  BY <1>3, <1>7

LEMMA IsolateHInv ==
  ASSUME HInv, NEW c \in Case, Isolate(c), TypeOK', IsFiniteSet(Present'),
         \A f \in Eid : Preserved(f)
  PROVE  HInv'
<1>1. PICK h \in Targets(c) : \E e \in Usable(h) : IsolateOn(c, h, e)
  BY DEF Isolate
<1>2. PICK e \in Usable(h) : IsolateOn(c, h, e)
  BY <1>1
<1>3. /\ h \in Host /\ e \in Eid /\ TypeOK /\ now' = now /\ now \in Nat
      /\ Lifetime \in Nat /\ Hour \in Nat /\ MaxPerHour \in Nat
  BY TargetsAreHosts, UsableAreIds, IsolationAssumption DEF HInv, Isolate, TypeOK
<1> DEFINE P == Proposed(h, TRUE, e)
<1>4. PICK new : new = [at |-> now, host |-> h, case |-> c, entry |-> e,
                        auto |-> P[e].auto, fresh |-> e \notin Existing(h)]
  OBVIOUS
<1>5. P \in [Eid -> Row] /\ entry' = [P EXCEPT ![e].status = "active"]
  BY <1>2, <1>3, ProposedType DEF IsolateOn, Activated
<1>6. \A i \in isolations : Counts(i)'
  BY <1>3, CountsStay DEF HInv
<1>7. CASE h \notin Internal
  <2>1. isolations' = isolations
    BY <1>2, <1>7 DEF IsolateOn
  <2>2. OncePerEntry' /\ HourKept'
    BY <2>1 DEF HInv, OncePerEntry, HourKept
  <2>3. QED
    BY <1>6, <2>1, <2>2 DEF HInv
<1>8. CASE h \in Internal
  <2>1. isolations' = isolations \cup {new}
    BY <1>2, <1>4, <1>8 DEF IsolateOn
  <2>2. /\ new.at = now /\ new.host = h /\ new.entry = e /\ new.auto = P[e].auto
    BY <1>4
  <2>3. /\ P[e].host = h /\ P[e].created \in Nat
        /\ now <= P[e].created + Lifetime
    <3>1. P[e].created \in Nat
      BY <1>3, <1>5 DEF Row
    <3>2. CASE e \in Existing(h)
      <4>1. P[e] = entry[e] /\ entry[e].host = h /\ now < entry[e].created + Lifetime
        BY <3>2 DEF Proposed, Existing, Current, Live
      <4>2. P[e].host = h /\ now < P[e].created + Lifetime
        BY <4>1, Zenon
      <4> HIDE DEF P
      <4>3. \A x \in Nat : now < x + Lifetime => now <= x + Lifetime
        BY <1>3
      <4>4. QED
        BY <3>1, <4>2, <4>3
    <3>3. CASE e \notin Existing(h)
      <4>1. P[e].host = h /\ P[e].created = now
        BY <1>3, <3>3, NewProposal, Zenon
      <4> HIDE DEF P
      <4>2. QED
        BY <1>3, <3>1, <4>1
    <3>4. QED
      BY <3>1, <3>2, <3>3
  <2>4. Counts(new)'
    <3>1. /\ entry'[e].status = "active" /\ entry'[e].auto = P[e].auto
          /\ entry'[e].host = P[e].host /\ entry'[e].created = P[e].created
      BY <1>3, <1>5 DEF Row
    <3>2. entry'[new.entry].auto = new.auto /\ entry'[new.entry].host = new.host
      BY <2>2, <2>3, <3>1, Zenon
    <3>3. /\ new.at <= now' /\ entry'[new.entry].status = "active"
          /\ new.at <= entry'[new.entry].created + Lifetime
      <4>1. entry'[new.entry].created = P[e].created
        BY <2>2, <3>1, Zenon
      <4> HIDE DEF P
      <4>2. new.at <= now' /\ entry'[new.entry].status = "active"
        BY <1>3, <2>2, <3>1
      <4>3. QED
        BY <1>3, <2>2, <2>3, <4>1, <4>2
    <3>4. QED
      BY <3>2, <3>3 DEF Counts
  <2>5. \A i \in isolations : i.entry # e
    <3>1. SUFFICES ASSUME NEW i \in isolations, i.entry = e
                   PROVE  FALSE
      OBVIOUS
    <3>2. entry[e].status \in {"active", "removed", "expired"}
      BY <3>1 DEF HInv, Counts
    <3>3. P[e] = entry[e]
      BY <1>3, <3>2, ProposedPreserves
    <3>4. e \in Existing(h) \/ entry[e].status = "absent"
      BY DEF Usable, Unused
    <3>5. P[e].status # "active"
      BY <1>2 DEF IsolateOn
    <3>6. QED
      BY <3>2, <3>3, <3>4, <3>5 DEF Existing, Current
  <2>6. OncePerEntry'
    BY <2>1, <2>2, <2>5 DEF HInv, OncePerEntry
  <2>7. HourKept'
    <3>1. SUFFICES ASSUME NEW i \in isolations \cup {new}
                   PROVE  Cardinality(WithinHour(isolations \cup {new}, i)) <= MaxPerHour
      BY <2>1 DEF HourKept, WithinHour
    <3>2. CASE i \in isolations /\ new \notin WithinHour(isolations \cup {new}, i)
      <4>1. WithinHour(isolations \cup {new}, i) = WithinHour(isolations, i)
        BY <3>2 DEF WithinHour
      <4>2. Cardinality(WithinHour(isolations, i)) <= MaxPerHour
        BY <3>2 DEF HInv, HourKept, WithinHour
      <4>3. QED
        BY <4>1, <4>2
    <3>3. CASE ~i.auto
      <4>1. WithinHour(isolations \cup {new}, i) = {}
        BY <3>3 DEF WithinHour
      <4>2. QED
        BY <1>3, <4>1, FS_EmptySet
    <3>4. CASE i.auto /\ (i = new \/ new \in WithinHour(isolations \cup {new}, i))
      <4>1. i.at = now
        <5>1. CASE i = new
          BY <2>2, <5>1
        <5>2. CASE i \in isolations /\ new \in WithinHour(isolations \cup {new}, i)
          <6>1. i.at <= now /\ i.at \in Nat /\ now <= i.at
            BY <1>3, <2>2, <5>2 DEF HInv, Counts, TypeOK, Isolation, WithinHour
          <6>2. QED
            BY <1>3, <6>1
        <5>3. QED
          BY <3>1, <3>4, <5>1, <5>2
      <4> DEFINE S == WithinHour(isolations, i)
      <4>2. IsFiniteSet(S) /\ IsFiniteSet(Recent(Hour)) /\ Cardinality(S) <= Cardinality(Recent(Hour))
        BY <3>4, <4>1, HourIsSeen
      <4>3. ~HourIsFull
        BY <1>2, <1>8 DEF IsolateOn, Refused, InternalRefused
      <4>4. /\ Cardinality(S) \in Nat /\ Cardinality(Recent(Hour)) \in Nat
            /\ Cardinality(Recent(Hour)) < MaxPerHour
        BY <1>3, <4>2, <4>3, FS_CardinalityType DEF HourIsFull
      <4>5. WithinHour(isolations \cup {new}, i) \subseteq S \cup {new}
        BY DEF WithinHour
      <4>6. /\ IsFiniteSet(S \cup {new})
            /\ Cardinality(S \cup {new}) \in {Cardinality(S), Cardinality(S) + 1}
        BY <4>2, FS_AddElement
      <4>7. /\ Cardinality(WithinHour(isolations \cup {new}, i)) <= Cardinality(S \cup {new})
            /\ Cardinality(WithinHour(isolations \cup {new}, i)) \in Nat
        BY <4>5, <4>6, FS_Subset, FS_CardinalityType
      <4>8. \A m, n, k \in Nat : m <= n /\ n < MaxPerHour /\ k <= m + 1 => k <= MaxPerHour
        BY <1>3
      <4>9. Cardinality(WithinHour(isolations \cup {new}, i)) <= Cardinality(S) + 1
        BY <4>4, <4>6, <4>7
      <4>10. QED
        BY <4>2, <4>4, <4>7, <4>8, <4>9
    <3>5. QED
      BY <3>1, <3>2, <3>3, <3>4
  <2>8. QED
    BY <1>6, <2>1, <2>4, <2>6, <2>7 DEF HInv
<1>9. QED
  BY <1>7, <1>8

LEMMA StepHInv ==
  ASSUME HInv, [Next]_vars
  PROVE  HInv'
<1>1. TypeOK' /\ IsFiniteSet(Present')
  BY StepType, PresentFinite DEF HInv
<1>2. CASE Reset
  BY <1>1, <1>2 DEF HInv, Reset, OncePerEntry, HourKept
<1>3. CASE ~Reset /\ isolations' = isolations
  <2>1. \A f \in Eid : Preserved(f)
    BY <1>3, StepPreserves DEF HInv
  <2>2. \A i \in isolations : Counts(i)'
    BY <2>1, ClockSteps, CountsStay DEF HInv
  <2>3. OncePerEntry' /\ HourKept'
    BY <1>3 DEF HInv, OncePerEntry, HourKept
  <2>4. QED
    BY <1>1, <1>3, <2>2, <2>3 DEF HInv
<1>4. ASSUME NEW c \in Case, Isolate(c), ~Reset
      PROVE  HInv'
  BY <1>1, <1>4, StepPreserves, IsolateHInv DEF HInv
<1>5. QED
  BY <1>2, <1>3, <1>4, HistoryWriters

(* Within an hour, less the lifetime of an entry, the service isolates no    *)
(* more hosts with entries of its own than the limit, whenever these were    *)
(* recommended and whatever was removed or activated by hand meanwhile.      *)
THEOREM HourlyLimitHolds == Spec => []HourKept
<1>1. Init => HInv
  <2> SUFFICES ASSUME Init
               PROVE  HInv
    OBVIOUS
  <2>1. Present = {}
    BY DEF Init, Present, NoRow
  <2>2. QED
    BY <2>1, InitType, FS_EmptySet DEF Init, HInv, OncePerEntry, HourKept
<1>2. HInv => HourKept
  BY DEF HInv
<1>3. QED
  BY <1>1, <1>2, StepHInv, PTL DEF Spec
=============================================================================
