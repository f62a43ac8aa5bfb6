---------------------------- MODULE IncidentStore ----------------------------
(***************************************************************************)
(* The case records of PondSec NDR: how the cases that the correlator      *)
(* reports become rows of table incidents, or are merged into rows that    *)
(* are there already (insert_incidents of storage/database.py), and what   *)
(* the incident commands of cli.py, the retention of the service and       *)
(* reset-runtime do to these rows.                                         *)
(*                                                                         *)
(* correlate_detections derives the id of a case from its source, victim,  *)
(* category and detections, and make_detection the id of a detection from  *)
(* its evidence, without a time.  The same traffic seen again is the same  *)
(* case again: Case is the set of these ids, and everything the correlator *)
(* says about a case is a function of its id.                              *)
(*                                                                         *)
(* SQLite runs one writing transaction at a time and shows readers what    *)
(* has been committed.  sqlite3 begins a transaction at the first INSERT,  *)
(* UPDATE or DELETE, so that what a method selects before is read outside. *)
(***************************************************************************)
EXTENDS Naturals, FiniteSets, Sequences

CONSTANTS
  Actor,        \* processes: the service, protection validate, the operators
  Case,         \* incident ids the correlator can report
  Host,         \* addresses
  Detection,    \* detection ids
  CaseSource,   \* source_ip of each case
  CaseKey,      \* target_key of each case: the network of its destination
  CaseTargets,  \* affected_targets of each case
  NetworkOf,    \* _target_network_key of an address
  CaseEvidence, \* the detections of each case
  Marks,        \* which statuses operators give to cases
  MaxBatch,     \* bound: cases of one call of insert_incidents
  Happens,      \* which of AllThatHappens may happen
  Any,          \* the target key of a case without a destination
  None          \* Python None; a host without a row

AllThatHappens ==
  {"time",        \* rows leave the dedupe window
   "status",      \* operators close, reopen, archive, mark false positives
   "delete",      \* operators delete cases
   "merge",       \* operators merge cases
   "purge",       \* the retention of the service
   "rate_limit",  \* the service reports more cases a minute than it may
   "crash",       \* a process dies between two transactions
   "reset"}       \* maintenance reset-runtime, with the service stopped

ASSUME CaseAssumption ==
  /\ IsFiniteSet(Actor) /\ IsFiniteSet(Case) /\ IsFiniteSet(Detection)
  /\ CaseSource \in [Case -> Host]
  /\ CaseTargets \in [Case -> SUBSET Host]
  /\ CaseEvidence \in [Case -> (SUBSET Detection) \ {{}}]
  /\ Marks \subseteq {"open", "closed", "false_positive", "archived"}
  /\ MaxBatch \in Nat \ {0}
  /\ Happens \subseteq AllThatHappens
  /\ None \notin Case /\ None \notin Nat

VARIABLES
  db,     \* the committed tables: row, link, opened, detections
  draft,  \* the tables as the writing transaction sees them, else db
  lock,   \* the process whose transaction is writing across steps
  pc,     \* the next step of each process
  job     \* the local variables of the handler each process is in

vars == <<db, draft, lock, pc, job>>

Key == {CaseKey[c] : c \in Case}

(* Hosts that cases are about; the rows of other hosts do not matter here. *)
Source == {CaseSource[c] : c \in Case}

(* Bound: counts of detections are cut off at the number there are. *)
MaxCount == Cardinality(Detection)

Row == [status : {"absent", "open", "closed", "false_positive", "archived"},
        recent : BOOLEAN, key : Key \cup {Any}, targets : SUBSET Host,
        evidence : SUBSET Detection, count : 0..MaxCount]

NoRow == [status |-> "absent", recent |-> FALSE, key |-> Any, targets |-> {},
          evidence |-> {}, count |-> 0]

Tables == [row : [Case -> Row], link : SUBSET (Case \X Detection),
           opened : [Source -> 0..Cardinality(Case) \cup {None}],
           detections : SUBSET Detection]

Empty == [row |-> [c \in Case |-> NoRow], link |-> {},
          opened |-> [h \in Source |-> None], detections |-> {}]

Batch == UNION {[1..n -> Case] : n \in 0..MaxBatch}

Job == [batch : Batch, into : Case \cup {None}, old : Row,
        from : Case \cup {None}, new : Row]

NoJob == [batch |-> <<>>, into |-> None, old |-> NoRow, from |-> None, new |-> NoRow]

TypeOK ==
  /\ db \in Tables /\ draft \in Tables
  /\ lock \in Actor \cup {None}
  /\ pc \in [Actor -> {"idle", "detect", "find", "write", "next", "merge"}]
  /\ job \in [Actor -> Job]

Init ==
  /\ db = Empty /\ draft = Empty
  /\ lock = None
  /\ pc = [a \in Actor |-> "idle"]
  /\ job = [a \in Actor |-> NoJob]

-----------------------------------------------------------------------------
(* Rows and what is looked up in them. *)

Present(t, c) == t.row[c].status # "absent"

Links(t, c) == {d \in Detection : <<c, d>> \in t.link}

OpenCases(t, h) == {c \in Case : t.row[c].status = "open" /\ CaseSource[c] = h}

Smaller(m, n) == IF m < n THEN m ELSE n

(* A case as _prepare_incident_record hands it on. *)
Incoming(c) ==
  [status |-> "open", recent |-> TRUE, key |-> CaseKey[c], targets |-> CaseTargets[c],
   evidence |-> CaseEvidence[c], count |-> Cardinality(CaseEvidence[c])]

(* _incident_target_matches, for a row and a case of the same source. *)
TargetMatches(r, c) ==
  \/ Any \in {r.key, CaseKey[c]}
  \/ r.key = CaseKey[c]
  \/ CaseKey[c] \in {NetworkOf[h] : h \in r.targets}
  \/ r.key \in {NetworkOf[h] : h \in CaseTargets[c]}

(* _incident_related: the same source needs a common target, another source *)
(* any address that plays a role in both.                                   *)
Related(t, m, c) ==
  IF CaseSource[m] = CaseSource[c]
    THEN TargetMatches(t.row[m], c)
    ELSE (t.row[m].targets \cup {CaseSource[m]})
           \cap (CaseTargets[c] \cup {CaseSource[c]}) # {}

(* _find_merge_incident; the latest of these rows is taken, which of them   *)
(* that is depends on times the model does not keep.                        *)
MergeCandidates(t, c) ==
  {m \in Case : t.row[m].status = "open" /\ t.row[m].recent /\ Related(t, m, c)}

(* Mutant: the counts are not added up. *)
MergedRowLarger(now, old, new) ==
  [now EXCEPT !.key = IF @ = Any THEN new.key ELSE @,
              !.targets = old.targets \cup new.targets,
              !.evidence = old.evidence \cup new.evidence,
              !.count = IF old.count < new.count THEN new.count ELSE old.count,
              !.recent = old.recent \/ new.recent]

(* Mutant: the evidence of the row is replaced by that of the merged case. *)
MergedRowNewOnly(now, old, new) ==
  [now EXCEPT !.key = IF @ = Any THEN new.key ELSE @,
              !.targets = old.targets \cup new.targets,
              !.evidence = new.evidence,
              !.count = Smaller(old.count + new.count, MaxCount),
              !.recent = old.recent \/ new.recent]

(* The UPDATE of _merge_incident: the row as it is now, the copy that was   *)
(* read, and what is merged into it.  The status stays as it is.            *)
MergedRow(now, old, new) ==
  [now EXCEPT !.key = IF @ = Any THEN new.key ELSE @,
              !.targets = old.targets \cup new.targets,
              !.evidence = old.evidence \cup new.evidence,
              !.count = Smaller(old.count + new.count, MaxCount),
              !.recent = old.recent \/ new.recent]

MergeRow(t, m, old, new) ==
  IF Present(t, m) THEN [t EXCEPT !.row[m] = MergedRow(@, old, new)] ELSE t

(* UPDATE hosts SET open_incidents: a host without a row stays without. *)
RefreshHost(t, h) ==
  [t EXCEPT !.opened[h] = IF @ = None THEN None ELSE Cardinality(OpenCases(t, h))]

(* The links of a case, and the count of its host. *)
LinkCase(t, m, c) ==
  RefreshHost([t EXCEPT !.link = @ \cup ({m} \X CaseEvidence[c])], CaseSource[c])

-----------------------------------------------------------------------------
(* Transactions and control flow. *)

Commit(t) ==
  /\ lock = None
  /\ db' = t /\ draft' = t
  /\ UNCHANGED lock

Return(a) ==
  /\ pc' = [pc EXCEPT ![a] = "idle"]
  /\ job' = [job EXCEPT ![a] = NoJob]

Start(a, step, j) ==
  /\ pc[a] = "idle"
  /\ pc' = [pc EXCEPT ![a] = step]
  /\ job' = [job EXCEPT ![a] = j]

Goto(a, from, to) ==
  /\ pc[a] = from
  /\ pc' = [pc EXCEPT ![a] = to]

-----------------------------------------------------------------------------
(* What the service does with a poll, and protection validate likewise. *)

(* insert_events: _upsert_hosts gives every source of the poll a row. *)
Report(a, batch) ==
  LET sources == {CaseSource[batch[i]] : i \in 1..Len(batch)}
  IN  /\ Start(a, "detect", [NoJob EXCEPT !.batch = batch])
      /\ Commit([db EXCEPT !.opened =
           [h \in Source |-> IF h \in sources /\ @[h] = None THEN 0 ELSE @[h]]])

(* insert_detections; after that _limit_rate cuts the list of cases. *)
Detect(a) ==
  LET batch == job[a].batch
      found == UNION {CaseEvidence[batch[i]] : i \in 1..Len(batch)}
  IN  /\ pc[a] = "detect"
      /\ Commit([db EXCEPT !.detections = @ \cup found])
      /\ \E n \in IF "rate_limit" \in Happens THEN 0..Len(batch) ELSE {Len(batch)} :
           IF n = 0 THEN Return(a)
                    ELSE /\ Goto(a, "detect", "find")
                         /\ job' = [job EXCEPT ![a].batch = SubSeq(batch, 1, n)]

(* insert_incidents looks for a row to merge the first case into: this is   *)
(* read before the transaction begins.                                      *)
Find(a) ==
  LET rows == MergeCandidates(db, Head(job[a].batch))
  IN  /\ Goto(a, "find", "write")
      /\ \/ rows = {} /\ UNCHANGED job
         \/ \E m \in rows : job' = [job EXCEPT ![a].into = m, ![a].old = db.row[m]]
      /\ UNCHANGED <<db, draft, lock>>

(* The case at the head of the batch is done with, leaving the tables t.    *)
Proceed(a, t) ==
  IF Len(job[a].batch) = 1
    THEN db' = t /\ draft' = t /\ lock' = None /\ Return(a)
    ELSE /\ draft' = t /\ lock' = a /\ UNCHANGED db
         /\ pc' = [pc EXCEPT ![a] = "next"]
         /\ job' = [job EXCEPT ![a] = [NoJob EXCEPT !.batch = Tail(job[a].batch)]]

(* INSERT INTO incidents, a plain one: an id that is taken raises           *)
(* IntegrityError, and the rollback takes the whole batch with it.          *)
InsertCase(a, t, c) ==
  IF Present(t, c)
    THEN draft' = db /\ lock' = None /\ UNCHANGED db /\ Return(a)
    ELSE Proceed(a, LinkCase([t EXCEPT !.row[c] = Incoming(c)], c, c))

MergeCase(a, t, m, old, c) == Proceed(a, LinkCase(MergeRow(t, m, old, Incoming(c)), m, c))

WriteFirst(a) ==
  LET c == Head(job[a].batch)
  IN  /\ pc[a] = "write" /\ lock = None
      /\ IF job[a].into = None
           THEN InsertCase(a, db, c)
           ELSE MergeCase(a, db, job[a].into, job[a].old, c)

(* The cases after the first are looked up inside the transaction. *)
WriteNext(a) ==
  LET c == Head(job[a].batch)
      rows == MergeCandidates(draft, c)
  IN  /\ pc[a] = "next" /\ lock = a
      /\ IF rows = {} THEN InsertCase(a, draft, c)
                      ELSE \E m \in rows : MergeCase(a, draft, m, draft.row[m], c)

(* insert_events for hosts whose traffic raises no detection. *)
SeeHost(a, h) ==
  /\ pc[a] = "idle" /\ db.opened[h] = None
  /\ Commit([db EXCEPT !.opened[h] = 0])
  /\ UNCHANGED <<pc, job>>

-----------------------------------------------------------------------------
(* The incident commands, cleanup and reset-runtime. *)

(* Mutant: the host is refreshed for cases that are closed only. *)
UpdateStatusNoReopen(a, c, status) ==
  LET t == [db EXCEPT !.row[c].status = status]
  IN  /\ "status" \in Happens /\ pc[a] = "idle" /\ Present(db, c)
      /\ Commit(IF status = "open" THEN t ELSE RefreshHost(t, CaseSource[c]))
      /\ UNCHANGED <<pc, job>>

(* Mutant: the count of the host is changed by one instead of taken anew. *)
UpdateStatusByOne(a, c, status) ==
  /\ "status" \in Happens /\ pc[a] = "idle" /\ Present(db, c)
  /\ Commit([db EXCEPT !.row[c].status = status,
                       !.opened[CaseSource[c]] =
                         IF @ = None THEN None ELSE IF status = "open" THEN @ + 1 ELSE @ - 1])
  /\ UNCHANGED <<pc, job>>

(* update_incident_status; last_seen stays. *)
UpdateStatus(a, c, status) ==
  /\ "status" \in Happens /\ pc[a] = "idle" /\ Present(db, c)
  /\ Commit(RefreshHost([db EXCEPT !.row[c].status = status], CaseSource[c]))
  /\ UNCHANGED <<pc, job>>

(* Mutant: the links of the case are left behind. *)
DeleteCaseOnly(a, c) ==
  /\ "delete" \in Happens /\ pc[a] = "idle" /\ Present(db, c)
  /\ Commit(RefreshHost([db EXCEPT !.row[c] = NoRow], CaseSource[c]))
  /\ UNCHANGED <<pc, job>>

(* delete_incident, when no response holds the case back (BlockResponse). *)
DeleteCase(a, c) ==
  /\ "delete" \in Happens /\ pc[a] = "idle" /\ Present(db, c)
  /\ Commit(RefreshHost([db EXCEPT !.row[c] = NoRow,
                                   !.link = {l \in @ : l[1] # c}], CaseSource[c]))
  /\ UNCHANGED <<pc, job>>

(* merge_incidents reads both rows, whatever their status is. *)
StartMerge(a, primary, secondary) ==
  /\ "merge" \in Happens /\ primary # secondary
  /\ Present(db, primary) /\ Present(db, secondary)
  /\ Start(a, "merge", [NoJob EXCEPT !.into = primary, !.old = db.row[primary],
                                     !.from = secondary, !.new = db.row[secondary]])
  /\ UNCHANGED <<db, draft, lock>>

(* Mutant: the detections of the secondary case are not linked. *)
MergeIncidentsUnlinked(a) ==
  LET p == job[a].into
      s == job[a].from
      merged == MergeRow(db, p, job[a].old, job[a].new)
  IN  /\ pc[a] = "merge"
      /\ Commit(IF Present(db, s)
                  THEN [merged EXCEPT !.row[s].status = "archived"]
                  ELSE merged)
      /\ Return(a)

(* Mutant: the detections of the secondary case are moved instead of copied. *)
MergeIncidentsMoved(a) ==
  LET p == job[a].into
      s == job[a].from
      linked == [MergeRow(db, p, job[a].old, job[a].new)
                   EXCEPT !.link = {l \in @ : l[1] # s} \cup ({p} \X Links(db, s))]
  IN  /\ pc[a] = "merge"
      /\ Commit(IF Present(db, s)
                  THEN [linked EXCEPT !.row[s].status = "archived"]
                  ELSE linked)
      /\ Return(a)

(* Its transaction: the primary row takes everything over, the secondary is *)
(* archived.  hosts.open_incidents is not brought up to date.               *)
MergeIncidents(a) ==
  LET p == job[a].into
      s == job[a].from
      linked == [MergeRow(db, p, job[a].old, job[a].new)
                   EXCEPT !.link = @ \cup ({p} \X Links(db, s))]
  IN  /\ pc[a] = "merge"
      /\ Commit(IF Present(db, s)
                  THEN [linked EXCEPT !.row[s].status = "archived"]
                  ELSE linked)
      /\ Return(a)

(* purge_before, for the service: detections by their own time, cases that  *)
(* are not open.  Which of those that nothing was heard of for half an hour *)
(* are past the retention, the model leaves open.                           *)
Purge(a) ==
  LET closed == {c \in Case : Present(db, c) /\ db.row[c].status # "open"
                                /\ ~db.row[c].recent}
  IN  /\ "purge" \in Happens /\ pc[a] = "idle"
      /\ \E D \in SUBSET db.detections, gone \in SUBSET closed :
           Commit([db EXCEPT !.detections = D,
                             !.row = [c \in Case |-> IF c \in gone THEN NoRow ELSE @[c]],
                             !.link = {l \in @ : l[1] \notin gone}])
      /\ UNCHANGED <<pc, job>>

(* reset_runtime_state *)
Reset ==
  /\ "reset" \in Happens /\ \A a \in Actor : pc[a] = "idle"
  /\ Commit(Empty)
  /\ UNCHANGED <<pc, job>>

(* Nothing is heard of a case for half an hour (handlers take milliseconds). *)
GrowOld(c) ==
  /\ "time" \in Happens /\ \A a \in Actor : pc[a] = "idle"
  /\ db.row[c].recent
  /\ Commit([db EXCEPT !.row[c].recent = FALSE])
  /\ UNCHANGED <<pc, job>>

Crash(a) ==
  /\ "crash" \in Happens /\ pc[a] # "idle"
  /\ Return(a)
  /\ IF lock = a THEN lock' = None /\ draft' = db ELSE UNCHANGED <<lock, draft>>
  /\ UNCHANGED db

-----------------------------------------------------------------------------
Reported == {b \in Batch : Len(b) > 0 /\ \A i, j \in 1..Len(b) : b[i] = b[j] => i = j}

Continue(a) == Detect(a) \/ Find(a) \/ WriteFirst(a) \/ WriteNext(a) \/ MergeIncidents(a)

Begin(a) ==
  \/ \E b \in Reported : Report(a, b)
  \/ \E c \in Case :
       \/ \E s \in Marks : UpdateStatus(a, c, s)
       \/ DeleteCase(a, c)
       \/ \E s \in Case : StartMerge(a, c, s)
  \/ \E h \in Source : SeeHost(a, h)
  \/ Purge(a)

Environment ==
  \/ \E c \in Case : GrowOld(c)
  \/ Reset
  \/ \E a \in Actor : Crash(a)

Next == (\E a \in Actor : Begin(a) \/ Continue(a)) \/ Environment

Spec == Init /\ [][Next]_vars

-----------------------------------------------------------------------------
(* Properties. *)

Quiescent == \A a \in Actor : pc[a] = "idle"

(* The detection count of a case, which the case list shows, never claims   *)
(* less than the detections that are linked to it (_merge_incident).        *)
CountCoversLinks == \A c \in Case : Cardinality(Links(db, c)) <= db.row[c].count

(* The evidence of a case and its links tell the same story: merging cases, *)
(* by the store or by an operator, carries both along (insert_incidents,    *)
(* merge_incidents), up to the 50 detections that evidence keeps.           *)
EvidenceMatchesLinks ==
  \A c \in Case : Present(db, c) => db.row[c].evidence = Links(db, c)

(* Two processes that merge into the same case may lose what the first of   *)
(* them merged.  What a case was reported with itself is never lost, neither *)
(* from its evidence, as long as that is within the 50 detections evidence  *)
(* keeps, nor from its links, whoever else merges, deletes or reports it    *)
(* meanwhile (_merge_incident writes from a copy of the row).               *)
ReportedEvidenceKept ==
  \A c \in Case : Present(db, c) =>
    CaseEvidence[c] \subseteq db.row[c].evidence \cap Links(db, c)

(* A detection that is linked to a case stays linked to it until the case    *)
(* itself is gone: no merge, and no transaction of a process that has read   *)
(* the tables before another changed them, takes it away (merge_incidents,   *)
(* insert_incidents).                                                        *)
LinksOnlyGrow ==
  [][\A c \in Case : Present(db, c) /\ Present(db', c) =>
       Links(db, c) \subseteq Links(db', c)]_vars

(* No link outlives its case: a case of the same id that is reported anew   *)
(* does not inherit what an operator has deleted.                           *)
NoOrphanLinks == \A l \in db.link : Present(db, l[1])

(* The host list may overstate the open cases of a host, after a merge, but *)
(* it never hides one (_refresh_host_incident_count).                       *)
OpenCasesShow ==
  \A h \in Source : db.opened[h] # None => db.opened[h] >= Cardinality(OpenCases(db, h))

(* Detections are stored and correlated into incidents: once the service is *)
(* through with a poll, every detection it stored belongs to a case.        *)
DetectionsHaveCases ==
  Quiescent => \A d \in db.detections : \E c \in Case : <<c, d>> \in db.link
=============================================================================
