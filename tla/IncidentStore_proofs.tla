------------------------ MODULE IncidentStore_proofs ------------------------
(* Theorems about IncidentStore, for any cases, hosts and detections: what *)
(* holds however many processes write, and what holds for one.             *)
EXTENDS IncidentStore, FiniteSetTheorems, SequenceTheorems, TLAPS

-----------------------------------------------------------------------------
(* Batches. *)

LEMMA BatchIs ==
  ASSUME NEW s
  PROVE  s \in Batch <=> s \in Seq(Case) /\ Len(s) <= MaxBatch
<1>1. ASSUME s \in Batch
      PROVE  s \in Seq(Case) /\ Len(s) <= MaxBatch
  <2>1. PICK n \in 0..MaxBatch : s \in [1..n -> Case]
    BY <1>1 DEF Batch
  <2>2. n \in Nat /\ n <= MaxBatch
    BY CaseAssumption
  <2>3. QED
    BY <2>1, <2>2
<1>2. ASSUME s \in Seq(Case), Len(s) <= MaxBatch
      PROVE  s \in Batch
  <2>1. Len(s) \in 0..MaxBatch /\ s \in [1..Len(s) -> Case]
    BY <1>2, CaseAssumption
  <2>2. QED
    BY <2>1 DEF Batch
<1>3. QED
  BY <1>1, <1>2

LEMMA BatchTail ==
  ASSUME NEW s \in Batch, Len(s) > 0
  PROVE  /\ Head(s) = s[1] /\ s[1] \in Case
         /\ Tail(s) \in Batch /\ Len(Tail(s)) = Len(s) - 1
         /\ \A i \in 1..Len(Tail(s)) : Tail(s)[i] = s[i + 1]
<1>1. s \in Seq(Case) /\ Len(s) <= MaxBatch /\ Len(s) \in Nat
  BY BatchIs
<1>2. /\ Tail(s) \in Seq(Case) /\ Len(Tail(s)) = Len(s) - 1
      /\ \A i \in 1..Len(Tail(s)) : Tail(s)[i] = s[i + 1]
  BY <1>1, HeadTailProperties
<1>3. Head(s) = s[1] /\ s[1] \in Case
  BY <1>1
<1>4. Len(Tail(s)) <= MaxBatch
  BY <1>1, <1>2, CaseAssumption
<1>5. Tail(s) \in Batch
  BY <1>2, <1>4, BatchIs
<1>6. QED
  BY <1>2, <1>3, <1>5

LEMMA BatchCut ==
  ASSUME NEW s \in Batch, NEW n \in 1..Len(s)
  PROVE  /\ SubSeq(s, 1, n) \in Batch /\ Len(SubSeq(s, 1, n)) = n
         /\ \A i \in 1..n : SubSeq(s, 1, n)[i] = s[i]
<1>1. s \in Seq(Case) /\ Len(s) <= MaxBatch /\ Len(s) \in Nat
  BY BatchIs
<1>2. n \in Int /\ 1 <= n /\ n <= MaxBatch
  BY <1>1, CaseAssumption
<1>3. \A i \in 1..n : s[i] \in Case
  BY <1>1
<1>4. /\ SubSeq(s, 1, n) \in Seq(Case) /\ Len(SubSeq(s, 1, n)) = n
      /\ \A i \in 1..n : SubSeq(s, 1, n)[i] = s[i]
  BY <1>2, <1>3, SubSeqProperties
<1>5. SubSeq(s, 1, n) \in Batch
  BY <1>2, <1>4, BatchIs
<1>6. QED
  BY <1>4, <1>5

-----------------------------------------------------------------------------
(* The tables: their types, and the counts of open cases per host.           *)

Covered(t) ==
  \A h \in Source : t.opened[h] # None => t.opened[h] >= Cardinality(OpenCases(t, h))

Seen(t) == \A c \in Case : Present(t, c) => t.opened[CaseSource[c]] # None

Sane(t) == t \in Tables /\ Covered(t) /\ Seen(t)

SameHosts(t, u) == \A h \in Source : t.opened[h] = None <=> u.opened[h] = None

LEMMA CountWithin ==
  ASSUME NEW S, NEW T, IsFiniteSet(T), S \subseteq T
  PROVE  IsFiniteSet(S) /\ Cardinality(S) \in Nat /\ Cardinality(T) \in Nat
         /\ Cardinality(S) <= Cardinality(T)
<1>1. IsFiniteSet(S) /\ Cardinality(S) <= Cardinality(T)
  BY FS_Subset
<1>2. QED
  BY <1>1, FS_CardinalityType

LEMMA OpenCount ==
  ASSUME NEW t, NEW h
  PROVE  /\ Cardinality(OpenCases(t, h)) \in 0..Cardinality(Case)
         /\ Cardinality(OpenCases(t, h)) # None
<1>1. IsFiniteSet(Case) /\ OpenCases(t, h) \subseteq Case
  BY CaseAssumption DEF OpenCases
<1>2. Cardinality(OpenCases(t, h)) \in Nat /\ Cardinality(Case) \in Nat
      /\ Cardinality(OpenCases(t, h)) <= Cardinality(Case)
  BY <1>1, CountWithin
<1>3. QED
  BY <1>2, CaseAssumption

LEMMA EvidenceCount ==
  ASSUME NEW D, D \subseteq Detection
  PROVE  IsFiniteSet(D) /\ Cardinality(D) \in Nat /\ Cardinality(D) <= MaxCount /\ MaxCount \in Nat
  BY CountWithin, CaseAssumption DEF MaxCount

LEMMA RowTypes == NoRow \in Row /\ \A c \in Case : Incoming(c) \in Row
<1>1. MaxCount \in Nat
  BY EvidenceCount
<1>2. NoRow \in Row
  BY <1>1 DEF NoRow, Row
<1>3. ASSUME NEW c \in Case
      PROVE  Incoming(c) \in Row
  <2>1. /\ CaseEvidence[c] \subseteq Detection /\ CaseTargets[c] \subseteq Host
        /\ CaseKey[c] \in Key
    BY CaseAssumption DEF Key
  <2>2. Cardinality(CaseEvidence[c]) \in 0..MaxCount
    BY <2>1, EvidenceCount
  <2>3. QED
    BY <2>1, <2>2 DEF Incoming, Row
<1>4. QED
  BY <1>2, <1>3

LEMMA SourceOf == ASSUME NEW c \in Case PROVE CaseSource[c] \in Source
  BY DEF Source

(* A row that is changed without touching the others. *)
LEMMA RowSet ==
  ASSUME NEW t \in Tables, NEW c \in Case, NEW r \in Row
  PROVE  LET u == [t EXCEPT !.row[c] = r]
         IN  /\ u \in Tables /\ u.row[c] = r /\ \A m \in Case \ {c} : u.row[m] = t.row[m]
             /\ u.link = t.link /\ u.opened = t.opened /\ u.detections = t.detections
  BY DEF Tables

LEMMA LinkSet ==
  ASSUME NEW t \in Tables, NEW L \in SUBSET (Case \X Detection)
  PROVE  LET u == [t EXCEPT !.link = L]
         IN  /\ u \in Tables /\ u.link = L
             /\ u.row = t.row /\ u.opened = t.opened /\ u.detections = t.detections
  BY DEF Tables

(* RefreshHost counts the host it is called for, and no other. *)
LEMMA RefreshSane ==
  ASSUME NEW t \in Tables, NEW h \in Source
  PROVE  LET u == RefreshHost(t, h)
         IN  /\ u \in Tables
             /\ u.row = t.row /\ u.link = t.link /\ u.detections = t.detections
             /\ SameHosts(t, u)
             /\ u.opened[h] # None => u.opened[h] = Cardinality(OpenCases(t, h))
             /\ \A g \in Source \ {h} : u.opened[g] = t.opened[g]
<1> DEFINE n == Cardinality(OpenCases(t, h))
           u == RefreshHost(t, h)
<1>1. n \in 0..Cardinality(Case) /\ n # None
  BY OpenCount
<1>2. u = [t EXCEPT !.opened[h] = IF @ = None THEN None ELSE n]
  BY DEF RefreshHost
<1> HIDE DEF n, u
<1>3. u = [t EXCEPT !.opened = [t.opened EXCEPT ![h] = IF t.opened[h] = None THEN None ELSE n]]
  BY <1>2 DEF Tables
<1>4. QED
  BY <1>1, <1>3 DEF Tables, SameHosts, n, u

(* The open cases of a host depend on the rows alone, and a row may leave    *)
(* them at any time.                                                         *)
LEMMA OpenFewer ==
  ASSUME NEW t, NEW u, NEW h, OpenCases(u, h) \subseteq OpenCases(t, h)
  PROVE  Cardinality(OpenCases(u, h)) <= Cardinality(OpenCases(t, h))
<1>1. IsFiniteSet(OpenCases(t, h))
  BY CountWithin, CaseAssumption DEF OpenCases
<1>2. QED
  BY <1>1, CountWithin

LEMMA OpenAreNat ==
  ASSUME NEW t \in Tables, NEW h \in Source
  PROVE  /\ t.opened[h] # None => t.opened[h] \in Nat
         /\ Cardinality(OpenCases(t, h)) \in Nat
  BY OpenCount DEF Tables

(* Without a new open case, and with no row for a host forgotten or made, a  *)
(* list of hosts that shows the open cases goes on showing them.             *)
LEMMA SaneKept ==
  ASSUME NEW t, Sane(t), NEW u \in Tables,
         \A h \in Source : OpenCases(u, h) \subseteq OpenCases(t, h),
         \A c \in Case : Present(u, c) => Present(t, c),
         u.opened = t.opened
  PROVE  Sane(u)
<1>1. Covered(u)
  <2> SUFFICES ASSUME NEW h \in Source, u.opened[h] # None
               PROVE  u.opened[h] >= Cardinality(OpenCases(u, h))
    BY DEF Covered
  <2>1. t.opened[h] >= Cardinality(OpenCases(t, h))
    BY DEF Sane, Covered
  <2>2. Cardinality(OpenCases(u, h)) <= Cardinality(OpenCases(t, h))
    BY OpenFewer
  <2>3. t.opened[h] \in Nat /\ Cardinality(OpenCases(t, h)) \in Nat
        /\ Cardinality(OpenCases(u, h)) \in Nat
    BY OpenAreNat DEF Sane
  <2>4. QED
    BY <2>1, <2>2, <2>3
<1>2. Seen(u)
  BY DEF Sane, Seen
<1>3. QED
  BY <1>1, <1>2 DEF Sane

(* A case of host h may have been opened or closed, if h is counted anew.    *)
LEMMA SaneRefreshed ==
  ASSUME NEW t \in Tables, NEW h \in Source, Seen(t),
         \A g \in Source \ {h} : t.opened[g] # None => t.opened[g] >= Cardinality(OpenCases(t, g))
  PROVE  Sane(RefreshHost(t, h)) /\ SameHosts(t, RefreshHost(t, h))
<1> DEFINE u == RefreshHost(t, h)
<1>1. /\ u \in Tables
      /\ u.row = t.row /\ u.link = t.link /\ u.detections = t.detections
      /\ SameHosts(t, u)
      /\ u.opened[h] # None => u.opened[h] = Cardinality(OpenCases(t, h))
      /\ \A g \in Source \ {h} : u.opened[g] = t.opened[g]
  BY RefreshSane
<1> HIDE DEF u
<1>2. \A g \in Source : OpenCases(u, g) = OpenCases(t, g)
  BY <1>1 DEF OpenCases
<1>3. Covered(u)
  <2> SUFFICES ASSUME NEW g \in Source, u.opened[g] # None
               PROVE  u.opened[g] >= Cardinality(OpenCases(u, g))
    BY DEF Covered
  <2>1. Cardinality(OpenCases(u, g)) \in Nat
    BY <1>1, OpenAreNat
  <2>2. CASE g = h
    BY <1>1, <1>2, <2>1, <2>2
  <2>3. CASE g # h
    BY <1>1, <1>2, <2>3
  <2>4. QED
    BY <2>2, <2>3
<1>4. Seen(u)
  BY <1>1, SourceOf DEF Seen, Present, SameHosts
<1>5. QED
  BY <1>1, <1>3, <1>4 DEF Sane, u

LEMMA LinkCaseSane ==
  ASSUME NEW t \in Tables, NEW m \in Case, NEW c \in Case, Seen(t),
         \A g \in Source \ {CaseSource[c]} :
           t.opened[g] # None => t.opened[g] >= Cardinality(OpenCases(t, g))
  PROVE  Sane(LinkCase(t, m, c)) /\ SameHosts(t, LinkCase(t, m, c))
<1> DEFINE L == t.link \cup ({m} \X CaseEvidence[c])
           u == [t EXCEPT !.link = L]
<1>1. CaseEvidence[c] \subseteq Detection
  BY CaseAssumption
<1>2. L \in SUBSET (Case \X Detection)
  BY <1>1 DEF Tables
<1>3. /\ u \in Tables /\ u.row = t.row /\ u.opened = t.opened
  BY <1>2, LinkSet
<1>4. LinkCase(t, m, c) = RefreshHost(u, CaseSource[c])
  BY DEF LinkCase, Tables
<1>5. CaseSource[c] \in Source
  BY SourceOf
<1> HIDE DEF u
<1>6. Seen(u) /\ \A g : OpenCases(u, g) = OpenCases(t, g)
  BY <1>3 DEF Seen, Present, OpenCases
<1>7. QED
  BY <1>3, <1>4, <1>5, <1>6, SaneRefreshed DEF SameHosts

(* Merging into a row changes neither which cases are open nor which are     *)
(* there.                                                                    *)
LEMMA MergeRowSane ==
  ASSUME NEW t, Sane(t), NEW m \in Case, NEW old \in Row, NEW new \in Row
  PROVE  LET u == MergeRow(t, m, old, new)
         IN  /\ Sane(u) /\ u.opened = t.opened /\ u.link = t.link
             /\ u.detections = t.detections
             /\ \A c \in Case : u.row[c].status = t.row[c].status
<1> DEFINE r == MergedRow(t.row[m], old, new)
           u == MergeRow(t, m, old, new)
<1>1. t \in Tables /\ t.row[m] \in Row
  BY DEF Sane, Tables
<1>2. MaxCount \in Nat
  BY EvidenceCount
<1>3. Smaller(old.count + new.count, MaxCount) \in 0..MaxCount
  BY <1>2 DEF Row, Smaller
<1>4. r \in Row /\ r.status = t.row[m].status
  BY <1>1, <1>3 DEF MergedRow, Row
<1>5. CASE Present(t, m)
  <2>1. u = [t EXCEPT !.row[m] = r]
    BY <1>1, <1>5 DEF MergeRow
  <2> HIDE DEF r
  <2>2. /\ u \in Tables /\ u.opened = t.opened /\ u.link = t.link
        /\ u.detections = t.detections
        /\ \A c \in Case : u.row[c].status = t.row[c].status
    BY <1>1, <1>4, <2>1, RowSet
  <2> HIDE DEF u
  <2>3. Sane(u)
    BY <2>2, SaneKept DEF OpenCases, Present
  <2>4. QED
    BY <2>2, <2>3 DEF u
<1>6. CASE ~Present(t, m)
  BY <1>6 DEF MergeRow
<1>7. QED
  BY <1>5, <1>6

LEMMA MergeCaseSane ==
  ASSUME NEW t, Sane(t), NEW m \in Case, NEW old \in Row, NEW c \in Case
  PROVE  LET u == LinkCase(MergeRow(t, m, old, Incoming(c)), m, c)
         IN  Sane(u) /\ SameHosts(t, u)
<1> DEFINE v == MergeRow(t, m, old, Incoming(c))
<1>1. Incoming(c) \in Row
  BY RowTypes
<1>2. Sane(v) /\ v.opened = t.opened
  BY <1>1, MergeRowSane
<1> HIDE DEF v
<1>3. Sane(LinkCase(v, m, c)) /\ SameHosts(v, LinkCase(v, m, c))
  BY <1>2, LinkCaseSane DEF Sane, Covered
<1>4. QED
  BY <1>2, <1>3 DEF v, SameHosts

(* A case that is inserted needs a host that is known. *)
LEMMA InsertCaseSane ==
  ASSUME NEW t, Sane(t), NEW c \in Case, t.opened[CaseSource[c]] # None
  PROVE  LET u == LinkCase([t EXCEPT !.row[c] = Incoming(c)], c, c)
         IN  Sane(u) /\ SameHosts(t, u)
<1> DEFINE v == [t EXCEPT !.row[c] = Incoming(c)]
<1>1. t \in Tables /\ Incoming(c) \in Row
  BY RowTypes DEF Sane
<1>2. /\ v \in Tables /\ v.opened = t.opened
      /\ \A m \in Case \ {c} : v.row[m] = t.row[m]
  BY <1>1, RowSet
<1> HIDE DEF v
<1>3. Seen(v)
  BY <1>2 DEF Sane, Seen, Present
<1>4. \A g \in Source \ {CaseSource[c]} : OpenCases(v, g) = OpenCases(t, g)
  BY <1>2 DEF OpenCases
<1>5. Sane(LinkCase(v, c, c)) /\ SameHosts(v, LinkCase(v, c, c))
  BY <1>2, <1>3, <1>4, LinkCaseSane DEF Sane, Covered
<1>6. QED
  BY <1>2, <1>5 DEF v, SameHosts

-----------------------------------------------------------------------------
(* The invariant of any number of processes: the tables are sane, in the     *)
(* database and in the open transaction, and the hosts of the cases that a   *)
(* process has in hand have been given rows.                                 *)

Steps == {"idle", "detect", "find", "write", "next", "merge"}

JobReady(t, step, j) ==
  /\ step \in {"detect", "find", "write", "next"} =>
       /\ Len(j.batch) > 0
       /\ \A i \in 1..Len(j.batch) : t.opened[CaseSource[j.batch[i]]] # None
  /\ step = "merge" => j.into \in Case /\ j.from \in Case

JobsReady == \A a \in Actor : JobReady(db, pc[a], job[a])

StoreInv == TypeOK /\ Sane(db) /\ Sane(draft) /\ SameHosts(db, draft) /\ JobsReady

Keeps(t, u) == \A h \in Source : t.opened[h] # None => u.opened[h] # None

LEMMA BatchCase == ASSUME NEW s \in Batch, NEW i \in 1..Len(s)
                   PROVE  s[i] \in Case /\ CaseSource[s[i]] \in Source
  BY BatchIs, SourceOf

LEMMA NoJobType == NoJob \in Job
<1>1. <<>> \in Batch
  <2>1. <<>> \in Seq(Case) /\ Len(<<>>) = 0
    OBVIOUS
  <2>2. Len(<<>>) <= MaxBatch
    BY <2>1, CaseAssumption
  <2>3. QED
    BY <2>1, <2>2, BatchIs
<1>2. QED
  BY <1>1, RowTypes DEF NoJob, Job

LEMMA ReadyKept ==
  ASSUME NEW t, NEW u, NEW step, NEW j \in Job, JobReady(t, step, j), Keeps(t, u)
  PROVE  JobReady(u, step, j)
  BY BatchCase DEF JobReady, Keeps, Job

(* A step that leaves sane tables behind and goes on with a job it can do.   *)
LEMMA StepInv ==
  ASSUME StoreInv, NEW a \in Actor, NEW step \in Steps, NEW j \in Job,
         pc' = [pc EXCEPT ![a] = step], job' = [job EXCEPT ![a] = j],
         Sane(db'), Sane(draft'), SameHosts(db', draft'), Keeps(db, db'),
         lock' \in Actor \cup {None}, JobReady(db', step, j)
  PROVE  StoreInv'
<1>1. TypeOK'
  BY DEF StoreInv, TypeOK, Sane, Steps
<1>2. JobsReady'
  <2> SUFFICES ASSUME NEW b \in Actor
               PROVE  JobReady(db', pc'[b], job'[b])
    BY DEF JobsReady
  <2>1. CASE b = a
    BY <2>1 DEF StoreInv, TypeOK
  <2>2. CASE b # a
    <3>1. pc'[b] = pc[b] /\ job'[b] = job[b] /\ job[b] \in Job
      BY <2>2 DEF StoreInv, TypeOK
    <3>2. JobReady(db, pc[b], job[b])
      BY DEF StoreInv, JobsReady
    <3>3. QED
      BY <3>1, <3>2, ReadyKept
  <2>3. QED
    BY <2>1, <2>2
<1>3. QED
  BY <1>1, <1>2 DEF StoreInv, Sane, Covered, Seen, SameHosts

(* A transaction of one step that leaves every process where it is. *)
LEMMA CommitInv ==
  ASSUME StoreInv, NEW t, Commit(t), Sane(t), Keeps(db, t), UNCHANGED <<pc, job>>
  PROVE  StoreInv'
<1>1. db' = t /\ draft' = t /\ lock' = lock
  BY DEF Commit
<1>2. TypeOK'
  BY <1>1 DEF StoreInv, TypeOK, Sane
<1>3. JobsReady'
  BY <1>1, ReadyKept DEF StoreInv, JobsReady, TypeOK
<1>4. QED
  BY <1>1, <1>2, <1>3 DEF StoreInv, Sane, Covered, Seen, SameHosts

(* A row made for a host without one starts at no cases, as there are none.  *)
LEMMA HostSeen ==
  ASSUME NEW t, Sane(t), NEW S, NEW u,
         u = [t EXCEPT !.opened =
               [h \in Source |-> IF h \in S /\ t.opened[h] = None THEN 0 ELSE t.opened[h]]]
  PROVE  Sane(u) /\ Keeps(t, u) /\ \A h \in Source \cap S : u.opened[h] # None
<1>0. 0 # None /\ t \in Tables /\ Cardinality(Case) \in Nat
  BY CaseAssumption, FS_CardinalityType DEF Sane
<1>1. u \in Tables /\ u.row = t.row
  <2>1. [h \in Source |-> IF h \in S /\ t.opened[h] = None THEN 0 ELSE t.opened[h]]
          \in [Source -> 0..Cardinality(Case) \cup {None}]
    BY <1>0 DEF Tables
  <2>2. QED
    BY <1>0, <2>1 DEF Tables
<1>2. \A h \in Source : u.opened[h] = IF h \in S /\ t.opened[h] = None THEN 0 ELSE t.opened[h]
  BY <1>0 DEF Tables
<1>3. \A h \in Source : OpenCases(u, h) = OpenCases(t, h)
  BY <1>1 DEF OpenCases
<1>4. ASSUME NEW h \in Source, u.opened[h] # None
      PROVE  u.opened[h] >= Cardinality(OpenCases(u, h))
  <2>1. CASE t.opened[h] # None
    BY <1>2, <1>3, <2>1 DEF Sane, Covered
  <2>2. CASE t.opened[h] = None
    <3>1. OpenCases(t, h) = {}
      BY <2>2 DEF OpenCases, Sane, Seen, Present
    <3>2. u.opened[h] = 0
      BY <1>2, <1>4, <2>2
    <3>3. QED
      BY <1>3, <3>1, <3>2, FS_EmptySet
  <2>3. QED
    BY <2>1, <2>2
<1>5. Seen(u)
  BY <1>0, <1>1, <1>2, SourceOf DEF Sane, Seen, Present
<1>6. QED
  BY <1>0, <1>1, <1>2, <1>4, <1>5 DEF Sane, Covered, Keeps

LEMMA ReportInv ==
  ASSUME StoreInv, NEW a \in Actor, NEW b \in Reported, Report(a, b)
  PROVE  StoreInv'
<1> DEFINE sources == {CaseSource[b[i]] : i \in 1..Len(b)}
           t == [db EXCEPT !.opened =
                  [h \in Source |-> IF h \in sources /\ db.opened[h] = None THEN 0
                                    ELSE db.opened[h]]]
           j == [NoJob EXCEPT !.batch = b]
<1>1. b \in Batch /\ Len(b) > 0
  BY DEF Reported
<1>2. Commit(t) /\ pc' = [pc EXCEPT ![a] = "detect"] /\ job' = [job EXCEPT ![a] = j]
  BY DEF Report, Start, StoreInv, Sane, Tables
<1>3. j \in Job /\ j.batch = b
  BY <1>1, NoJobType DEF Job, NoJob
<1>4. Sane(t) /\ Keeps(db, t) /\ \A h \in Source \cap sources : t.opened[h] # None
  BY HostSeen DEF StoreInv
<1>5. \A i \in 1..Len(b) : CaseSource[b[i]] \in Source \cap sources
  BY <1>1, BatchCase
<1> HIDE DEF t, j, sources
<1>6. JobReady(t, "detect", j)
  BY <1>1, <1>3, <1>4, <1>5 DEF JobReady
<1>7. db' = t /\ draft' = t /\ lock' \in Actor \cup {None}
  BY <1>2 DEF Commit, StoreInv, TypeOK
<1>8. QED
  BY <1>2, <1>3, <1>4, <1>6, <1>7, StepInv DEF Steps, SameHosts

LEMMA ReturnInv ==
  ASSUME StoreInv, NEW a \in Actor, Return(a), Sane(db'), Sane(draft'),
         SameHosts(db', draft'), Keeps(db, db'), lock' \in Actor \cup {None}
  PROVE  StoreInv'
<1>1. pc' = [pc EXCEPT ![a] = "idle"] /\ job' = [job EXCEPT ![a] = NoJob]
  BY DEF Return
<1>2. JobReady(db', "idle", NoJob)
  BY DEF JobReady
<1>3. QED
  BY <1>1, <1>2, NoJobType, StepInv DEF Steps

LEMMA DetectInv ==
  ASSUME StoreInv, NEW a \in Actor, Detect(a)
  PROVE  StoreInv'
<1> DEFINE b == job[a].batch
           found == UNION {CaseEvidence[b[i]] : i \in 1..Len(b)}
           t == [db EXCEPT !.detections = @ \cup found]
<1>1. job[a] \in Job /\ b \in Batch /\ pc[a] = "detect"
  BY DEF StoreInv, TypeOK, Detect, Job
<1>2. JobReady(db, "detect", job[a])
  BY <1>1 DEF StoreInv, JobsReady
<1>3. found \subseteq Detection
  BY <1>1, BatchCase, CaseAssumption
<1>4. db \in Tables
  BY DEF StoreInv, Sane
<1>5. /\ t \in Tables /\ t.row = db.row /\ t.opened = db.opened
  <2> HIDE DEF found
  <2>1. QED
    BY <1>3, <1>4 DEF Tables
<1>6. Commit(t)
  BY DEF Detect
<1> HIDE DEF t
<1>7. Sane(t) /\ Keeps(db, t)
  BY <1>5, SaneKept DEF StoreInv, OpenCases, Present, Keeps
<1>8. db' = t /\ draft' = t /\ lock' \in Actor \cup {None}
  BY <1>6 DEF Commit, StoreInv, TypeOK
<1>9. CASE Return(a)
  BY <1>7, <1>8, <1>9, ReturnInv DEF SameHosts
<1>10. ASSUME NEW n \in 1..Len(b),
              Goto(a, "detect", "find"), job' = [job EXCEPT ![a].batch = SubSeq(b, 1, n)]
       PROVE  StoreInv'
  <2> DEFINE j == [job[a] EXCEPT !.batch = SubSeq(b, 1, n)]
  <2>1. /\ SubSeq(b, 1, n) \in Batch /\ Len(SubSeq(b, 1, n)) = n
        /\ \A i \in 1..n : SubSeq(b, 1, n)[i] = b[i]
    BY <1>1, BatchCut
  <2>2. j \in Job /\ j.batch = SubSeq(b, 1, n)
    BY <1>1, <2>1 DEF Job
  <2>3. pc' = [pc EXCEPT ![a] = "find"] /\ job' = [job EXCEPT ![a] = j]
    BY <1>10 DEF Goto, StoreInv, TypeOK
  <2>4. b \in Seq(Case) /\ Len(b) \in Nat
    BY <1>1, BatchIs
  <2>5. n > 0 /\ \A i \in 1..n : i \in 1..Len(b)
    BY <2>4
  <2> HIDE DEF j
  <2>6. JobReady(t, "find", j)
    BY <1>2, <1>5, <2>1, <2>2, <2>5 DEF JobReady
  <2>7. QED
    BY <1>7, <1>8, <2>2, <2>3, <2>6, StepInv DEF Steps, SameHosts
<1>11. QED
  <2>1. b \in Seq(Case) /\ Len(b) \in Nat /\ Len(b) > 0
    BY <1>1, <1>2, BatchIs DEF JobReady
  <2>2. PICK n \in 0..Len(b) :
          IF n = 0 THEN Return(a)
          ELSE Goto(a, "detect", "find") /\ job' = [job EXCEPT ![a].batch = SubSeq(b, 1, n)]
    BY <2>1 DEF Detect
  <2>3. QED
    BY <1>9, <1>10, <2>1, <2>2

LEMMA FindInv ==
  ASSUME StoreInv, NEW a \in Actor, Find(a)
  PROVE  StoreInv'
<1>1. job[a] \in Job /\ pc[a] = "find" /\ UNCHANGED <<db, draft, lock>>
      /\ pc' = [pc EXCEPT ![a] = "write"]
  BY DEF StoreInv, TypeOK, Find, Goto
<1>2. JobReady(db, "find", job[a])
  BY <1>1 DEF StoreInv, JobsReady
<1>3. PICK j \in Job : job' = [job EXCEPT ![a] = j] /\ j.batch = job[a].batch
  <2>1. CASE UNCHANGED job
    <3>1. job' = [job EXCEPT ![a] = job[a]]
      BY <2>1 DEF StoreInv, TypeOK
    <3>2. QED
      BY <1>1, <3>1
  <2>2. ASSUME NEW m \in Case, job' = [job EXCEPT ![a].into = m, ![a].old = db.row[m]]
        PROVE  \E j \in Job : job' = [job EXCEPT ![a] = j] /\ j.batch = job[a].batch
    <3> DEFINE j == [job[a] EXCEPT !.into = m, !.old = db.row[m]]
    <3>1. db.row[m] \in Row
      BY DEF StoreInv, Sane, Tables
    <3>2. j \in Job /\ j.batch = job[a].batch
      BY <1>1, <3>1 DEF Job
    <3>3. job' = [job EXCEPT ![a] = j]
      BY <2>2 DEF StoreInv, TypeOK
    <3>4. QED
      BY <3>2, <3>3
  <2>3. QED
    BY <2>1, <2>2 DEF Find, MergeCandidates
<1>4. JobReady(db', "write", j)
  BY <1>1, <1>2, <1>3 DEF JobReady
<1>5. Sane(db') /\ Sane(draft') /\ SameHosts(db', draft') /\ Keeps(db, db')
      /\ lock' \in Actor \cup {None}
  BY <1>1 DEF StoreInv, TypeOK, Keeps
<1>6. QED
  BY <1>1, <1>3, <1>4, <1>5, StepInv DEF Steps

(* A case is done with and leaves the tables t.                              *)
LEMMA ProceedInv ==
  ASSUME StoreInv, NEW a \in Actor, pc[a] \in {"write", "next"},
         NEW t, Proceed(a, t), Sane(t), SameHosts(db, t)
  PROVE  StoreInv'
<1> DEFINE b == job[a].batch
<1>1. job[a] \in Job /\ b \in Batch
  BY DEF StoreInv, TypeOK, Job
<1>2. /\ Len(b) > 0
      /\ \A i \in 1..Len(b) : db.opened[CaseSource[b[i]]] # None
  BY DEF StoreInv, JobsReady, JobReady
<1>3. CASE Len(b) = 1
  <2>1. db' = t /\ draft' = t /\ lock' = None /\ Return(a)
    BY <1>3 DEF Proceed
  <2>2. QED
    BY <2>1, ReturnInv DEF SameHosts, Keeps
<1>4. CASE Len(b) # 1
  <2> DEFINE j == [NoJob EXCEPT !.batch = Tail(b)]
  <2>1. /\ draft' = t /\ lock' = a /\ UNCHANGED db
        /\ pc' = [pc EXCEPT ![a] = "next"]
        /\ job' = [job EXCEPT ![a] = j]
    BY <1>4 DEF Proceed
  <2>2. /\ Tail(b) \in Batch /\ Len(Tail(b)) = Len(b) - 1
        /\ \A i \in 1..Len(Tail(b)) : Tail(b)[i] = b[i + 1]
    BY <1>1, <1>2, BatchTail
  <2>3. j \in Job /\ j.batch = Tail(b)
    BY <2>2, NoJobType DEF Job, NoJob
  <2>4. Len(b) \in Nat
    BY <1>1, BatchIs
  <2>5. Len(Tail(b)) > 0 /\ \A i \in 1..Len(Tail(b)) : i + 1 \in 1..Len(b)
    <3>1. \A m, n \in Nat : n > 0 /\ n # 1 /\ m = n - 1
                              => m > 0 /\ \A i \in 1..m : i + 1 \in 1..n
      OBVIOUS
    <3>2. Len(Tail(b)) \in Nat
      BY <2>2, BatchIs
    <3>3. QED
      BY <1>2, <1>4, <2>2, <2>4, <3>1, <3>2
  <2> HIDE DEF j, b
  <2>6. JobReady(db, "next", j)
    BY <1>2, <2>2, <2>3, <2>5 DEF JobReady
  <2>7. Sane(db') /\ Sane(draft') /\ SameHosts(db', draft') /\ Keeps(db, db')
        /\ lock' \in Actor \cup {None}
    BY <2>1 DEF StoreInv, Keeps
  <2>8. QED
    BY <2>1, <2>3, <2>6, <2>7, StepInv DEF Steps
<1>5. QED
  BY <1>3, <1>4

LEMMA InsertCaseInv ==
  ASSUME StoreInv, NEW a \in Actor, pc[a] \in {"write", "next"},
         NEW t, Sane(t), SameHosts(db, t), InsertCase(a, t, Head(job[a].batch))
  PROVE  StoreInv'
<1> DEFINE b == job[a].batch
           c == Head(b)
<1>1. b \in Batch /\ Len(b) > 0 /\ db.opened[CaseSource[b[1]]] # None
  <2>1. b \in Batch
    BY DEF StoreInv, TypeOK, Job
  <2>2. Len(b) > 0 /\ \A i \in 1..Len(b) : db.opened[CaseSource[b[i]]] # None
    BY DEF StoreInv, JobsReady, JobReady
  <2>3. 1 \in 1..Len(b)
    BY <2>1, <2>2, BatchIs
  <2>4. QED
    BY <2>1, <2>2, <2>3
<1>2. c = b[1] /\ c \in Case
  BY <1>1, BatchTail
<1>3. t.opened[CaseSource[c]] # None
  BY <1>1, <1>2, SourceOf DEF SameHosts
<1> HIDE DEF c
<1>4. CASE Present(t, c)
  <2>1. draft' = db /\ lock' = None /\ UNCHANGED db /\ Return(a)
    BY <1>4 DEF InsertCase, c
  <2>2. QED
    BY <2>1, ReturnInv DEF StoreInv, SameHosts, Keeps
<1>5. CASE ~Present(t, c)
  <2> DEFINE u == LinkCase([t EXCEPT !.row[c] = Incoming(c)], c, c)
  <2>1. Proceed(a, u)
    BY <1>5 DEF InsertCase, c
  <2>2. Sane(u) /\ SameHosts(t, u)
    BY <1>2, <1>3, InsertCaseSane
  <2> HIDE DEF u
  <2>3. QED
    BY <2>1, <2>2, ProceedInv DEF SameHosts
<1>6. QED
  BY <1>4, <1>5

LEMMA MergeCaseInv ==
  ASSUME StoreInv, NEW a \in Actor, pc[a] \in {"write", "next"},
         NEW t, Sane(t), SameHosts(db, t), NEW m \in Case, NEW old \in Row,
         MergeCase(a, t, m, old, Head(job[a].batch))
  PROVE  StoreInv'
<1> DEFINE c == Head(job[a].batch)
           u == LinkCase(MergeRow(t, m, old, Incoming(c)), m, c)
<1>1. c \in Case
  <2>1. job[a].batch \in Batch /\ Len(job[a].batch) > 0
    BY DEF StoreInv, TypeOK, Job, JobsReady, JobReady
  <2>2. QED
    BY <2>1, BatchTail
<1>2. Sane(u) /\ SameHosts(t, u)
  BY <1>1, MergeCaseSane
<1>3. Proceed(a, u)
  BY DEF MergeCase
<1> HIDE DEF u
<1>4. QED
  BY <1>2, <1>3, ProceedInv DEF SameHosts

LEMMA WriteInv ==
  ASSUME StoreInv, NEW a \in Actor, WriteFirst(a) \/ WriteNext(a)
  PROVE  StoreInv'
<1> DEFINE c == Head(job[a].batch)
<1>1. CASE WriteFirst(a)
  <2>1. pc[a] = "write" /\ Sane(db) /\ SameHosts(db, db) /\ job[a] \in Job
    BY <1>1 DEF WriteFirst, StoreInv, SameHosts, TypeOK
  <2>2. CASE InsertCase(a, db, c)
    BY <2>1, <2>2, InsertCaseInv
  <2>3. CASE job[a].into # None /\ MergeCase(a, db, job[a].into, job[a].old, c)
    <3>1. job[a].into \in Case /\ job[a].old \in Row
      BY <2>1, <2>3 DEF Job
    <3>2. QED
      BY <2>1, <2>3, <3>1, MergeCaseInv
  <2>4. QED
    BY <1>1, <2>2, <2>3 DEF WriteFirst
<1>2. CASE WriteNext(a)
  <2>1. pc[a] = "next" /\ Sane(draft) /\ SameHosts(db, draft)
    BY <1>2 DEF WriteNext, StoreInv
  <2>2. CASE InsertCase(a, draft, c)
    BY <2>1, <2>2, InsertCaseInv
  <2>3. ASSUME NEW m \in Case, MergeCase(a, draft, m, draft.row[m], c)
        PROVE  StoreInv'
    <3>1. draft.row[m] \in Row
      BY <2>1 DEF Sane, Tables
    <3>2. QED
      BY <2>1, <2>3, <3>1, MergeCaseInv
  <2>4. QED
    BY <1>2, <2>2, <2>3 DEF WriteNext, MergeCandidates
<1>3. QED
  BY <1>1, <1>2

-----------------------------------------------------------------------------
(* The commands, cleanup and reset. *)

LEMMA SeeHostInv ==
  ASSUME StoreInv, NEW a \in Actor, NEW h \in Source, SeeHost(a, h)
  PROVE  StoreInv'
<1> DEFINE t == [db EXCEPT !.opened[h] = 0]
<1>1. Commit(t) /\ UNCHANGED <<pc, job>> /\ db.opened[h] = None
  BY DEF SeeHost
<1>2. t = [db EXCEPT !.opened = [g \in Source |->
              IF g \in {h} /\ db.opened[g] = None THEN 0 ELSE db.opened[g]]]
  BY <1>1 DEF StoreInv, Sane, Tables
<1>3. Sane(t) /\ Keeps(db, t)
  BY <1>2, HostSeen DEF StoreInv
<1>4. QED
  BY <1>1, <1>3, CommitInv

LEMMA UpdateStatusInv ==
  ASSUME StoreInv, NEW a \in Actor, NEW c \in Case, NEW status \in Marks,
         UpdateStatus(a, c, status)
  PROVE  StoreInv'
<1> DEFINE r == [db.row[c] EXCEPT !.status = status]
           t == [db EXCEPT !.row[c] = r]
<1>1. /\ Commit(RefreshHost([db EXCEPT !.row[c].status = status], CaseSource[c]))
      /\ UNCHANGED <<pc, job>> /\ Present(db, c)
  BY DEF UpdateStatus
<1>2. Sane(db) /\ db \in Tables /\ db.row[c] \in Row
  BY DEF StoreInv, Sane, Tables
<1>3. r \in Row
  BY <1>2, CaseAssumption DEF Row
<1>4. [db EXCEPT !.row[c].status = status] = t
  BY <1>2 DEF Tables
<1> HIDE DEF r
<1>5. /\ t \in Tables /\ t.opened = db.opened
      /\ \A m \in Case \ {c} : t.row[m] = db.row[m]
  BY <1>2, <1>3, RowSet
<1> HIDE DEF t
<1>6. Seen(t)
  BY <1>1, <1>2, <1>5 DEF Sane, Seen, Present
<1>7. \A g \in Source \ {CaseSource[c]} : OpenCases(t, g) = OpenCases(db, g)
  BY <1>5 DEF OpenCases
<1>8. Sane(RefreshHost(t, CaseSource[c])) /\ SameHosts(t, RefreshHost(t, CaseSource[c]))
  BY <1>2, <1>5, <1>6, <1>7, SourceOf, SaneRefreshed DEF Sane, Covered
<1>9. Keeps(db, RefreshHost(t, CaseSource[c]))
  BY <1>5, <1>8 DEF Keeps, SameHosts
<1>10. QED
  BY <1>1, <1>4, <1>8, <1>9, CommitInv

LEMMA DeleteCaseInv ==
  ASSUME StoreInv, NEW a \in Actor, NEW c \in Case, DeleteCase(a, c)
  PROVE  StoreInv'
<1> DEFINE v == [db EXCEPT !.row[c] = NoRow]
           L == {l \in db.link : l[1] # c}
           t == [v EXCEPT !.link = L]
<1>1. /\ Commit(RefreshHost([db EXCEPT !.row[c] = NoRow,
                                       !.link = {l \in @ : l[1] # c}], CaseSource[c]))
      /\ UNCHANGED <<pc, job>>
  BY DEF DeleteCase
<1>2. Sane(db) /\ db \in Tables
  BY DEF StoreInv, Sane
<1>3. /\ v \in Tables /\ v.opened = db.opened /\ v.link = db.link /\ v.row[c] = NoRow
      /\ \A m \in Case \ {c} : v.row[m] = db.row[m]
  BY <1>2, RowTypes, RowSet
<1>4. [db EXCEPT !.row[c] = NoRow, !.link = {l \in @ : l[1] # c}] = t
  BY <1>2 DEF Tables
<1> HIDE DEF v
<1>5. t \in Tables /\ t.row = v.row /\ t.opened = db.opened
  <2>1. L \in SUBSET (Case \X Detection)
    BY <1>2 DEF Tables
  <2>2. QED
    BY <1>3, <2>1, LinkSet
<1> HIDE DEF t
<1>6. Seen(t)
  BY <1>2, <1>3, <1>5 DEF Sane, Seen, Present, NoRow
<1>7. \A g \in Source \ {CaseSource[c]} : OpenCases(t, g) = OpenCases(db, g)
  BY <1>3, <1>5 DEF OpenCases
<1>8. Sane(RefreshHost(t, CaseSource[c])) /\ SameHosts(t, RefreshHost(t, CaseSource[c]))
  BY <1>2, <1>5, <1>6, <1>7, SourceOf, SaneRefreshed DEF Sane, Covered
<1>9. Keeps(db, RefreshHost(t, CaseSource[c]))
  BY <1>5, <1>8 DEF Keeps, SameHosts
<1>10. QED
  BY <1>1, <1>4, <1>8, <1>9, CommitInv

LEMMA StartMergeInv ==
  ASSUME StoreInv, NEW a \in Actor, NEW p \in Case, NEW s \in Case, StartMerge(a, p, s)
  PROVE  StoreInv'
<1> DEFINE j == [NoJob EXCEPT !.into = p, !.old = db.row[p], !.from = s, !.new = db.row[s]]
<1>1. /\ pc' = [pc EXCEPT ![a] = "merge"] /\ job' = [job EXCEPT ![a] = j]
      /\ UNCHANGED <<db, draft, lock>>
  BY DEF StartMerge, Start
<1>2. j \in Job /\ j.into = p /\ j.from = s
  <2>1. db.row[p] \in Row /\ db.row[s] \in Row
    BY DEF StoreInv, Sane, Tables
  <2>2. QED
    BY <2>1, NoJobType DEF NoJob, Job
<1> HIDE DEF j
<1>3. JobReady(db', "merge", j)
  BY <1>2 DEF JobReady
<1>4. Sane(db') /\ Sane(draft') /\ SameHosts(db', draft') /\ Keeps(db, db')
      /\ lock' \in Actor \cup {None}
  BY <1>1 DEF StoreInv, TypeOK, Keeps
<1>5. QED
  BY <1>1, <1>2, <1>3, <1>4, StepInv DEF Steps

(* The tables that merge_incidents leaves behind. *)
MergedTables(t, p, s, old, new) ==
  [MergeRow(t, p, old, new) EXCEPT !.link = @ \cup ({p} \X Links(t, s))]

Archived(t, s) == [t EXCEPT !.row[s].status = "archived"]

LEMMA MergedTablesSane ==
  ASSUME NEW t, Sane(t), NEW p \in Case, NEW s \in Case, NEW old \in Row, NEW new \in Row
  PROVE  LET u == MergedTables(t, p, s, old, new)
         IN  /\ Sane(u) /\ u.opened = t.opened
             /\ u.link = t.link \cup ({p} \X Links(t, s))
             /\ u.row = MergeRow(t, p, old, new).row
             /\ \A c \in Case : u.row[c].status = t.row[c].status
<1> DEFINE v == MergeRow(t, p, old, new)
           L == v.link \cup ({p} \X Links(t, s))
           u == [v EXCEPT !.link = L]
<1>1. /\ Sane(v) /\ v.opened = t.opened /\ v.link = t.link
      /\ \A c \in Case : v.row[c].status = t.row[c].status
  BY MergeRowSane
<1>2. MergedTables(t, p, s, old, new) = u
  <2> HIDE DEF v
  <2>1. [v EXCEPT !.link = @ \cup ({p} \X Links(t, s))] = u
    BY <1>1 DEF Sane, Tables
  <2>2. QED
    BY <2>1 DEF MergedTables, v
<1> HIDE DEF v
<1>3. /\ u \in Tables /\ u.link = L /\ u.row = v.row /\ u.opened = v.opened
  <2>1. L \in SUBSET (Case \X Detection)
    BY <1>1 DEF Sane, Tables, Links
  <2>2. QED
    BY <1>1, <2>1, LinkSet DEF Sane
<1> HIDE DEF u
<1>4. Sane(u)
  BY <1>1, <1>3, SaneKept DEF OpenCases, Present
<1>5. QED
  BY <1>1, <1>2, <1>3, <1>4 DEF v

LEMMA ArchivedSane ==
  ASSUME NEW t, Sane(t), NEW s \in Case, Present(t, s)
  PROVE  LET u == Archived(t, s)
         IN  /\ Sane(u) /\ u.opened = t.opened /\ u.link = t.link
             /\ u.row[s] = [t.row[s] EXCEPT !.status = "archived"]
             /\ \A c \in Case \ {s} : u.row[c] = t.row[c]
<1> DEFINE r == [t.row[s] EXCEPT !.status = "archived"]
           u == [t EXCEPT !.row[s] = r]
<1>1. t \in Tables /\ t.row[s] \in Row
  BY DEF Sane, Tables
<1>2. r \in Row /\ r.status = "archived"
  BY <1>1 DEF Row
<1>3. Archived(t, s) = u
  BY <1>1 DEF Archived, Tables
<1> HIDE DEF r
<1>4. /\ u \in Tables /\ u.opened = t.opened /\ u.link = t.link /\ u.row[s] = r
      /\ \A c \in Case \ {s} : u.row[c] = t.row[c]
  BY <1>1, <1>2, RowSet
<1> HIDE DEF u
<1>5. Sane(u)
  BY <1>2, <1>4, SaneKept DEF OpenCases, Present
<1>6. QED
  BY <1>3, <1>4, <1>5 DEF r

LEMMA MergeIncidentsInv ==
  ASSUME StoreInv, NEW a \in Actor, MergeIncidents(a)
  PROVE  StoreInv'
<1> DEFINE p == job[a].into
           s == job[a].from
           u == MergedTables(db, p, s, job[a].old, job[a].new)
           t == IF Present(db, s) THEN Archived(u, s) ELSE u
<1>1. pc[a] = "merge" /\ Commit(t) /\ Return(a)
  <2>1. pc[a] = "merge" /\ Return(a)
    BY DEF MergeIncidents
  <2>2. Commit(IF Present(db, s) THEN [u EXCEPT !.row[s].status = "archived"] ELSE u)
    BY Zenon DEF MergeIncidents, MergedTables
  <2>3. QED
    BY <2>1, <2>2, Zenon DEF Archived
<1>2. job[a] \in Job /\ JobReady(db, "merge", job[a])
  BY <1>1 DEF StoreInv, TypeOK, JobsReady
<1>3. p \in Case /\ s \in Case /\ job[a].old \in Row /\ job[a].new \in Row
  BY <1>2 DEF JobReady, Job
<1>4. Sane(u) /\ u.opened = db.opened /\ (Present(db, s) => Present(u, s))
  <2>1. Sane(db)
    BY DEF StoreInv
  <2> HIDE DEF p, s
  <2>2. Sane(u) /\ u.opened = db.opened /\ u.row[s].status = db.row[s].status
    BY <1>3, <2>1, MergedTablesSane
  <2> HIDE DEF u
  <2>3. QED
    BY <2>2 DEF Present
<1> HIDE DEF u
<1>5. Sane(t) /\ t.opened = db.opened
  BY <1>3, <1>4, ArchivedSane
<1> HIDE DEF t
<1>6. QED
  BY <1>1, <1>5, ReturnInv DEF Commit, StoreInv, TypeOK, SameHosts, Keeps

LEMMA PurgeInv ==
  ASSUME StoreInv, NEW a \in Actor, Purge(a)
  PROVE  StoreInv'
<1> DEFINE closed == {c \in Case : Present(db, c) /\ db.row[c].status # "open"
                                     /\ ~db.row[c].recent}
<1>1. UNCHANGED <<pc, job>>
  BY DEF Purge
<1>2. PICK D \in SUBSET db.detections, gone \in SUBSET closed :
        Commit([db EXCEPT !.detections = D,
                          !.row = [c \in Case |-> IF c \in gone THEN NoRow ELSE @[c]],
                          !.link = {l \in @ : l[1] \notin gone}])
  BY DEF Purge
<1> DEFINE t == [db EXCEPT !.detections = D,
                           !.row = [c \in Case |-> IF c \in gone THEN NoRow ELSE @[c]],
                           !.link = {l \in @ : l[1] \notin gone}]
<1>3. /\ t \in Tables /\ t.opened = db.opened
      /\ t.row = [c \in Case |-> IF c \in gone THEN NoRow ELSE db.row[c]]
  <2>1. db \in Tables
    BY DEF StoreInv, Sane
  <2>2. [c \in Case |-> IF c \in gone THEN NoRow ELSE db.row[c]] \in [Case -> Row]
    BY <2>1, RowTypes DEF Tables
  <2> HIDE DEF closed
  <2>3. QED
    BY <2>1, <2>2 DEF Tables
<1> HIDE DEF t
<1>4. Sane(t)
  BY <1>3, SaneKept DEF OpenCases, Present, NoRow, StoreInv
<1>5. QED
  BY <1>1, <1>2, <1>3, <1>4, CommitInv DEF Keeps, t

LEMMA EmptySane == Sane(Empty)
<1>1. Empty \in Tables
  BY RowTypes DEF Empty, Tables
<1>2. \A c \in Case : Empty.row[c].status = "absent"
  BY DEF Empty, NoRow
<1>3. \A h \in Source : Empty.opened[h] = None
  BY DEF Empty
<1>4. QED
  BY <1>1, <1>2, <1>3 DEF Sane, Covered, Seen, Present

LEMMA ResetInv ==
  ASSUME StoreInv, Reset
  PROVE  StoreInv'
<1>1. /\ db' = Empty /\ draft' = Empty /\ UNCHANGED <<lock, pc, job>>
      /\ \A a \in Actor : pc[a] = "idle"
  BY DEF Reset, Commit
<1>2. JobsReady'
  BY <1>1 DEF JobsReady, JobReady
<1>3. TypeOK'
  BY <1>1, EmptySane DEF StoreInv, TypeOK, Sane
<1>4. QED
  BY <1>1, <1>2, <1>3, EmptySane DEF StoreInv, Sane, Covered, Seen, SameHosts

LEMMA GrowOldInv ==
  ASSUME StoreInv, NEW c \in Case, GrowOld(c)
  PROVE  StoreInv'
<1> DEFINE r == [db.row[c] EXCEPT !.recent = FALSE]
           t == [db EXCEPT !.row[c] = r]
<1>1. db \in Tables /\ db.row[c] \in Row
  BY DEF StoreInv, Sane, Tables
<1>2. r \in Row /\ r.status = db.row[c].status
  BY <1>1 DEF Row
<1>3. [db EXCEPT !.row[c].recent = FALSE] = t
  BY <1>1 DEF Tables
<1>4. Commit(t) /\ UNCHANGED <<pc, job>>
  BY <1>3 DEF GrowOld
<1> HIDE DEF r
<1>5. /\ t \in Tables /\ t.opened = db.opened /\ t.row[c] = r
      /\ \A m \in Case \ {c} : t.row[m] = db.row[m]
  BY <1>1, <1>2, RowSet
<1> HIDE DEF t
<1>6. Sane(t)
  BY <1>2, <1>5, SaneKept DEF OpenCases, Present, StoreInv
<1>7. QED
  BY <1>4, <1>5, <1>6, CommitInv DEF Keeps

LEMMA CrashInv ==
  ASSUME StoreInv, NEW a \in Actor, Crash(a)
  PROVE  StoreInv'
<1>1. Return(a) /\ UNCHANGED db
  BY DEF Crash
<1>2. draft' \in {draft, db} /\ lock' \in {lock, None}
  BY DEF Crash
<1>3. QED
  BY <1>1, <1>2, ReturnInv DEF StoreInv, TypeOK, SameHosts, Keeps

LEMMA InitInv == Init => StoreInv
<1> SUFFICES ASSUME Init
             PROVE  StoreInv
  OBVIOUS
<1>1. TypeOK
  BY EmptySane, NoJobType DEF Init, TypeOK, Sane
<1>2. JobsReady
  BY DEF Init, JobsReady, JobReady
<1>3. QED
  BY <1>1, <1>2, EmptySane DEF Init, StoreInv, SameHosts

LEMMA NextInv == StoreInv /\ [Next]_vars => StoreInv'
<1> SUFFICES ASSUME StoreInv, [Next]_vars
             PROVE  StoreInv'
  OBVIOUS
<1>1. ASSUME NEW a \in Actor, Begin(a)
      PROVE  StoreInv'
  BY <1>1, ReportInv, UpdateStatusInv, DeleteCaseInv, StartMergeInv, SeeHostInv, PurgeInv DEF Begin
<1>2. ASSUME NEW a \in Actor, Continue(a)
      PROVE  StoreInv'
  BY <1>2, DetectInv, FindInv, WriteInv, MergeIncidentsInv DEF Continue
<1>3. CASE Environment
  BY <1>3, GrowOldInv, ResetInv, CrashInv DEF Environment
<1>4. CASE UNCHANGED vars
  BY <1>4 DEF vars, StoreInv, TypeOK, Sane, Covered, Seen, OpenCases, Present, SameHosts,
              JobsReady, JobReady
<1>5. QED
  BY <1>1, <1>2, <1>3, <1>4 DEF Next

(* Tables and locals keep to their types, with any number of processes. *)
THEOREM StoreTypeCorrect == Spec => []TypeOK
<1>1. StoreInv => TypeOK
  BY DEF StoreInv
<1>2. QED
  BY <1>1, InitInv, NextInv, PTL DEF Spec

(* However many processes write and operators delete, merge and reset: a     *)
(* host that has a row never shows fewer open cases than it has, although    *)
(* its count is kept by hand (_refresh_host_incident_count) and not brought  *)
(* up to date by every method.                                               *)
THEOREM NoOpenCaseHidden == Spec => []OpenCasesShow
<1>1. StoreInv => OpenCasesShow
  BY DEF StoreInv, Sane, Covered, OpenCasesShow
<1>2. QED
  BY <1>1, InitInv, NextInv, PTL DEF Spec

-----------------------------------------------------------------------------
(* One process: rows, links and counts agree. *)

Alone == \A a, b \in Actor : a = b

(* A row that is there is told by its links; one that is not, has none.      *)
Coherent(t) ==
  \A c \in Case :
    IF Present(t, c)
      THEN /\ t.row[c].evidence = Links(t, c)
           /\ Cardinality(Links(t, c)) <= t.row[c].count
      ELSE Links(t, c) = {}

(* The copies that a process has read of rows are what the rows still are.   *)
Fresh(t, step, j) ==
  /\ step \in {"detect", "find"} => j.into = None
  /\ step = "write" /\ j.into # None => Present(t, j.into) /\ j.old = t.row[j.into]
  /\ step = "merge" => /\ j.into # j.from /\ Present(t, j.into) /\ Present(t, j.from)
                       /\ j.old = t.row[j.into] /\ j.new = t.row[j.from]

AloneInv ==
  /\ Coherent(db) /\ Coherent(draft)
  /\ \A a \in Actor : Fresh(db, pc[a], job[a])

LEMMA CoherentSame ==
  ASSUME NEW t, Coherent(t), NEW u, u.row = t.row, u.link = t.link
  PROVE  Coherent(u)
  BY DEF Coherent, Present, Links

(* A case gains detections, or is new: its row has to say so.                *)
LEMMA CoherentGrows ==
  ASSUME NEW t, Coherent(t), NEW m \in Case, NEW D, D \subseteq Detection,
         NEW u, u.link = t.link \cup ({m} \X D),
         \A c \in Case \ {m} : u.row[c] = t.row[c],
         Present(u, m), u.row[m].evidence = Links(t, m) \cup D,
         Cardinality(Links(t, m) \cup D) <= u.row[m].count
  PROVE  Coherent(u)
<1> SUFFICES ASSUME NEW c \in Case
             PROVE  IF Present(u, c)
                      THEN /\ u.row[c].evidence = Links(u, c)
                           /\ Cardinality(Links(u, c)) <= u.row[c].count
                      ELSE Links(u, c) = {}
  BY DEF Coherent
<1>1. CASE c = m
  <2>1. Links(u, c) = Links(t, m) \cup D
    BY <1>1 DEF Links
  <2>2. QED
    BY <1>1, <2>1
<1>2. CASE c # m
  <2>1. Links(u, c) = Links(t, c) /\ u.row[c] = t.row[c]
    BY <1>2 DEF Links
  <2>2. QED
    BY <2>1 DEF Coherent, Present
<1>3. QED
  BY <1>1, <1>2

(* Counts that are added up cover the detections of both.                    *)
LEMMA CountsAdd ==
  ASSUME NEW old \in Row, NEW new \in Row, NEW now \in Row,
         NEW A, NEW B, A \subseteq Detection, B \subseteq Detection,
         Cardinality(A) <= old.count, Cardinality(B) <= new.count
  PROVE  Cardinality(A \cup B) <= MergedRow(now, old, new).count
<1>1. /\ IsFiniteSet(A) /\ Cardinality(A) \in Nat
      /\ IsFiniteSet(B) /\ Cardinality(B) \in Nat
      /\ Cardinality(A \cup B) <= MaxCount /\ MaxCount \in Nat
      /\ Cardinality(A \cup B) \in Nat
  BY EvidenceCount
<1>2. Cardinality(A \cup B) <= Cardinality(A) + Cardinality(B)
  <2>1. Cardinality(A \cup B) = Cardinality(A) + Cardinality(B) - Cardinality(A \cap B)
    BY <1>1, FS_Union
  <2>2. Cardinality(A \cap B) \in Nat
    BY EvidenceCount
  <2>3. QED
    BY <1>1, <2>1, <2>2
<1>3. MergedRow(now, old, new).count = Smaller(old.count + new.count, MaxCount)
  BY DEF MergedRow, Row
<1>4. old.count \in Nat /\ new.count \in Nat
  BY <1>1 DEF Row
<1>5. Cardinality(A \cup B) <= old.count + new.count
  BY <1>1, <1>2, <1>4
<1>6. QED
  BY <1>1, <1>3, <1>4, <1>5 DEF Smaller

LEMMA MergedRowIs ==
  ASSUME NEW t \in Tables, NEW m \in Case, Present(t, m), NEW old \in Row, NEW new \in Row
  PROVE  LET u == MergeRow(t, m, old, new)
         IN  /\ u.row[m] = MergedRow(t.row[m], old, new)
             /\ \A c \in Case \ {m} : u.row[c] = t.row[c]
             /\ u.link = t.link
             /\ u.row[m].evidence = old.evidence \cup new.evidence
             /\ u.row[m].status = t.row[m].status
<1> DEFINE r == MergedRow(t.row[m], old, new)
<1>1. t.row[m] \in Row
  BY DEF Tables
<1>2. r.evidence = old.evidence \cup new.evidence /\ r.status = t.row[m].status
  BY <1>1 DEF MergedRow, Row
<1>3. MergeRow(t, m, old, new) = [t EXCEPT !.row[m] = r]
  BY DEF MergeRow, Tables
<1> HIDE DEF r
<1>4. QED
  BY <1>2, <1>3 DEF Tables, r

LEMMA LinksAre == ASSUME NEW t, NEW c PROVE Links(t, c) \subseteq Detection
  BY DEF Links

LEMMA EvidenceOf ==
  ASSUME NEW c \in Case
  PROVE  /\ Incoming(c) \in Row /\ Incoming(c).evidence = CaseEvidence[c]
         /\ Incoming(c).count = Cardinality(CaseEvidence[c])
         /\ Incoming(c).status = "open" /\ CaseEvidence[c] \subseteq Detection
         /\ Cardinality(CaseEvidence[c]) \in Nat
  BY RowTypes, EvidenceCount, CaseAssumption DEF Incoming

(* Linking changes no row, and counts a host. *)
LEMMA LinkCaseIs ==
  ASSUME NEW t \in Tables, NEW m \in Case, NEW c \in Case
  PROVE  /\ LinkCase(t, m, c).row = t.row
         /\ LinkCase(t, m, c).link = t.link \cup ({m} \X CaseEvidence[c])
         /\ LinkCase(t, m, c).detections = t.detections
<1> DEFINE L == t.link \cup ({m} \X CaseEvidence[c])
           u == [t EXCEPT !.link = L]
<1>1. L \in SUBSET (Case \X Detection)
  BY EvidenceOf DEF Tables
<1>2. u \in Tables /\ u.row = t.row /\ u.link = L /\ u.detections = t.detections
  BY <1>1, LinkSet
<1>3. LinkCase(t, m, c) = RefreshHost(u, CaseSource[c])
  BY DEF LinkCase, Tables
<1> HIDE DEF u, L
<1>4. /\ RefreshHost(u, CaseSource[c]).row = u.row /\ RefreshHost(u, CaseSource[c]).link = u.link
      /\ RefreshHost(u, CaseSource[c]).detections = u.detections
  BY <1>2, SourceOf, RefreshSane
<1>5. QED
  BY <1>2, <1>3, <1>4 DEF L

LEMMA MergeCaseCoherent ==
  ASSUME NEW t, Sane(t), Coherent(t), NEW m \in Case, Present(t, m), NEW c \in Case
  PROVE  Coherent(LinkCase(MergeRow(t, m, t.row[m], Incoming(c)), m, c))
<1> DEFINE v == MergeRow(t, m, t.row[m], Incoming(c))
           u == LinkCase(v, m, c)
<1>1. t \in Tables /\ t.row[m] \in Row
  BY DEF Sane, Tables
<1>2. /\ Incoming(c) \in Row /\ Incoming(c).evidence = CaseEvidence[c]
      /\ Cardinality(CaseEvidence[c]) <= Incoming(c).count /\ CaseEvidence[c] \subseteq Detection
  BY EvidenceOf
<1>3. /\ v.row[m] = MergedRow(t.row[m], t.row[m], Incoming(c))
      /\ \A x \in Case \ {m} : v.row[x] = t.row[x]
      /\ v.link = t.link
      /\ v.row[m].evidence = t.row[m].evidence \cup Incoming(c).evidence
      /\ v.row[m].status = t.row[m].status
  BY <1>1, <1>2, MergedRowIs
<1>4. v \in Tables
  BY <1>1, <1>2, MergeRowSane DEF Sane
<1> HIDE DEF v
<1>5. u.row = v.row /\ u.link = t.link \cup ({m} \X CaseEvidence[c])
  BY <1>3, <1>4, LinkCaseIs
<1>6. t.row[m].evidence = Links(t, m) /\ Cardinality(Links(t, m)) <= t.row[m].count
  BY DEF Coherent
<1>7. Cardinality(Links(t, m) \cup CaseEvidence[c]) <= u.row[m].count
  BY <1>1, <1>2, <1>3, <1>5, <1>6, LinksAre, CountsAdd
<1> HIDE DEF u
<1>8. Coherent(u)
  <2>1. Present(u, m) /\ u.row[m].evidence = Links(t, m) \cup CaseEvidence[c]
    BY <1>2, <1>3, <1>5, <1>6 DEF Present
  <2>2. \A x \in Case \ {m} : u.row[x] = t.row[x]
    BY <1>3, <1>5
  <2>3. QED
    BY <1>2, <1>5, <1>7, <2>1, <2>2, CoherentGrows
<1>9. QED
  BY <1>8 DEF u, v

LEMMA InsertCaseCoherent ==
  ASSUME NEW t, Sane(t), Coherent(t), NEW c \in Case, ~Present(t, c)
  PROVE  Coherent(LinkCase([t EXCEPT !.row[c] = Incoming(c)], c, c))
<1> DEFINE v == [t EXCEPT !.row[c] = Incoming(c)]
           u == LinkCase(v, c, c)
<1>1. t \in Tables
  BY DEF Sane
<1>2. /\ Incoming(c) \in Row /\ Incoming(c).evidence = CaseEvidence[c]
      /\ Incoming(c).count = Cardinality(CaseEvidence[c]) /\ CaseEvidence[c] \subseteq Detection
      /\ Incoming(c).status = "open" /\ Cardinality(CaseEvidence[c]) \in Nat
  BY EvidenceOf
<1>3. /\ v \in Tables /\ v.row[c] = Incoming(c) /\ v.link = t.link
      /\ \A x \in Case \ {c} : v.row[x] = t.row[x]
  BY <1>1, <1>2, RowSet
<1> HIDE DEF v
<1>4. u.row = v.row /\ u.link = t.link \cup ({c} \X CaseEvidence[c])
  BY <1>3, LinkCaseIs
<1> HIDE DEF u
<1>5. Links(t, c) = {}
  BY DEF Coherent
<1>6. /\ Present(u, c) /\ u.row[c].evidence = Links(t, c) \cup CaseEvidence[c]
      /\ Cardinality(Links(t, c) \cup CaseEvidence[c]) <= u.row[c].count
  <2>1. Links(t, c) \cup CaseEvidence[c] = CaseEvidence[c]
    BY <1>5
  <2>2. Cardinality(Links(t, c) \cup CaseEvidence[c]) = Cardinality(CaseEvidence[c])
    BY <2>1, Zenon
  <2>3. u.row[c] = Incoming(c)
    BY <1>3, <1>4
  <2>4. Present(u, c) /\ u.row[c].evidence = Links(t, c) \cup CaseEvidence[c]
    BY <1>2, <2>1, <2>3 DEF Present
  <2>5. Cardinality(CaseEvidence[c]) <= u.row[c].count
    BY <1>2, <2>3
  <2>6. QED
    BY <2>2, <2>4, <2>5, Zenon
<1>7. \A x \in Case \ {c} : u.row[x] = t.row[x]
  BY <1>3, <1>4
<1>8. Coherent(u)
  BY <1>2, <1>4, <1>6, <1>7, CoherentGrows
<1>9. QED
  BY <1>8 DEF u, v

LEMMA MergedTablesCoherent ==
  ASSUME NEW t, Sane(t), Coherent(t), NEW p \in Case, NEW s \in Case,
         Present(t, p), Present(t, s)
  PROVE  Coherent(MergedTables(t, p, s, t.row[p], t.row[s]))
<1> DEFINE u == MergedTables(t, p, s, t.row[p], t.row[s])
           v == MergeRow(t, p, t.row[p], t.row[s])
<1>1. t \in Tables /\ t.row[p] \in Row /\ t.row[s] \in Row
  BY DEF Sane, Tables
<1>2. /\ v.row[p] = MergedRow(t.row[p], t.row[p], t.row[s])
      /\ \A x \in Case \ {p} : v.row[x] = t.row[x]
      /\ v.row[p].evidence = t.row[p].evidence \cup t.row[s].evidence
      /\ v.row[p].status = t.row[p].status
  BY <1>1, MergedRowIs
<1>3. u.row = v.row /\ u.link = t.link \cup ({p} \X Links(t, s))
  BY <1>1, MergedTablesSane
<1> HIDE DEF u, v
<1>4. /\ t.row[p].evidence = Links(t, p) /\ Cardinality(Links(t, p)) <= t.row[p].count
      /\ t.row[s].evidence = Links(t, s) /\ Cardinality(Links(t, s)) <= t.row[s].count
  BY DEF Coherent
<1>5. Cardinality(Links(t, p) \cup Links(t, s)) <= u.row[p].count
  BY <1>1, <1>2, <1>3, <1>4, LinksAre, CountsAdd
<1>6. Present(u, p) /\ u.row[p].evidence = Links(t, p) \cup Links(t, s)
  BY <1>2, <1>3, <1>4 DEF Present
<1>7. \A x \in Case \ {p} : u.row[x] = t.row[x]
  BY <1>2, <1>3
<1>8. Coherent(u)
  BY <1>3, <1>5, <1>6, <1>7, LinksAre, CoherentGrows
<1>9. QED
  BY <1>8 DEF u

(* What a row is worth to its links does not depend on the rest of it.       *)
LEMMA CoherentRow ==
  ASSUME NEW t, Coherent(t), NEW u, NEW c \in Case, Present(t, c), Present(u, c),
         u.row[c].evidence = t.row[c].evidence, u.row[c].count = t.row[c].count,
         u.link = t.link, \A m \in Case \ {c} : u.row[m] = t.row[m]
  PROVE  Coherent(u)
<1> SUFFICES ASSUME NEW m \in Case
             PROVE  IF Present(u, m)
                      THEN /\ u.row[m].evidence = Links(u, m)
                           /\ Cardinality(Links(u, m)) <= u.row[m].count
                      ELSE Links(u, m) = {}
  BY DEF Coherent
<1>1. Links(u, m) = Links(t, m)
  BY DEF Links
<1>2. CASE m = c
  BY <1>1, <1>2 DEF Coherent
<1>3. CASE m # c
  BY <1>1, <1>3 DEF Coherent, Present
<1>4. QED
  BY <1>2, <1>3

LEMMA FreshAlone ==
  ASSUME Alone, StoreInv, NEW a \in Actor, NEW step, NEW j, NEW t, Fresh(t, step, j),
         pc' = [pc EXCEPT ![a] = step], job' = [job EXCEPT ![a] = j]
  PROVE  \A b \in Actor : Fresh(t, pc'[b], job'[b])
  BY DEF Alone, StoreInv, TypeOK

LEMMA FreshIdle == ASSUME NEW t, NEW j, NEW step \in {"idle", "next"} PROVE Fresh(t, step, j)
  BY DEF Fresh

(* A transaction of a handler that is over. *)
LEMMA ReturnAlone ==
  ASSUME Alone, StoreInv, NEW a \in Actor, Return(a), Coherent(db'), Coherent(draft')
  PROVE  AloneInv'
<1>1. \A b \in Actor : Fresh(db', pc'[b], job'[b])
  BY FreshIdle, FreshAlone DEF Return
<1>2. QED
  BY <1>1 DEF AloneInv, Coherent, Fresh, Present, Links

(* A transaction while every process is idle. *)
LEMMA CommitAlone ==
  ASSUME NEW t, Commit(t), Coherent(t), \A b \in Actor : pc'[b] = "idle"
  PROVE  AloneInv'
<1>1. db' = t /\ draft' = t
  BY DEF Commit
<1>2. \A b \in Actor : Fresh(db', pc'[b], job'[b])
  BY FreshIdle
<1>3. QED
  BY <1>1, <1>2 DEF AloneInv, Coherent, Fresh, Present, Links

LEMMA ProceedAlone ==
  ASSUME Alone, StoreInv, AloneInv, NEW a \in Actor, NEW t, Proceed(a, t), Coherent(t)
  PROVE  AloneInv'
<1>1. CASE Len(job[a].batch) = 1
  BY <1>1, ReturnAlone DEF Proceed
<1>2. CASE Len(job[a].batch) # 1
  <2> DEFINE j == [NoJob EXCEPT !.batch = Tail(job[a].batch)]
  <2>1. /\ draft' = t /\ UNCHANGED db
        /\ pc' = [pc EXCEPT ![a] = "next"] /\ job' = [job EXCEPT ![a] = j]
    BY <1>2 DEF Proceed
  <2>2. \A b \in Actor : Fresh(db', pc'[b], job'[b])
    BY <2>1, FreshIdle, FreshAlone
  <2>3. QED
    BY <2>1, <2>2 DEF AloneInv, Coherent, Fresh, Present, Links
<1>3. QED
  BY <1>1, <1>2

LEMMA InsertCaseAlone ==
  ASSUME Alone, StoreInv, AloneInv, NEW a \in Actor, NEW t, Sane(t), Coherent(t),
         NEW c \in Case, InsertCase(a, t, c)
  PROVE  AloneInv'
<1>1. CASE Present(t, c)
  <2>1. draft' = db /\ UNCHANGED db /\ Return(a)
    BY <1>1 DEF InsertCase
  <2>2. QED
    BY <2>1, ReturnAlone DEF AloneInv
<1>2. CASE ~Present(t, c)
  <2> DEFINE u == LinkCase([t EXCEPT !.row[c] = Incoming(c)], c, c)
  <2>1. Proceed(a, u) /\ Coherent(u)
    BY <1>2, InsertCaseCoherent DEF InsertCase
  <2> HIDE DEF u
  <2>2. QED
    BY <2>1, ProceedAlone
<1>3. QED
  BY <1>1, <1>2

LEMMA MergeCaseAlone ==
  ASSUME Alone, StoreInv, AloneInv, NEW a \in Actor, NEW t, Sane(t), Coherent(t),
         NEW c \in Case, NEW m \in Case, Present(t, m), MergeCase(a, t, m, t.row[m], c)
  PROVE  AloneInv'
<1> DEFINE u == LinkCase(MergeRow(t, m, t.row[m], Incoming(c)), m, c)
<1>1. Proceed(a, u) /\ Coherent(u)
  BY MergeCaseCoherent DEF MergeCase
<1> HIDE DEF u
<1>2. QED
  BY <1>1, ProceedAlone

LEMMA HeadOfBatch ==
  ASSUME StoreInv, NEW a \in Actor, pc[a] \in {"write", "next"}
  PROVE  Head(job[a].batch) \in Case
<1>1. job[a].batch \in Batch /\ Len(job[a].batch) > 0
  BY DEF StoreInv, TypeOK, Job, JobsReady, JobReady
<1>2. QED
  BY <1>1, BatchTail

LEMMA WriteAlone ==
  ASSUME Alone, StoreInv, AloneInv, NEW a \in Actor, WriteFirst(a) \/ WriteNext(a)
  PROVE  AloneInv'
<1> DEFINE c == Head(job[a].batch)
<1>1. CASE WriteFirst(a)
  <2>1. pc[a] = "write" /\ c \in Case /\ Sane(db) /\ Coherent(db)
    BY <1>1, HeadOfBatch DEF WriteFirst, StoreInv, AloneInv
  <2> HIDE DEF c
  <2>2. CASE InsertCase(a, db, c)
    BY <2>1, <2>2, InsertCaseAlone
  <2>3. CASE job[a].into # None /\ MergeCase(a, db, job[a].into, job[a].old, c)
    <3>1. job[a].into \in Case
      BY <2>3 DEF StoreInv, TypeOK, Job
    <3>2. Present(db, job[a].into) /\ job[a].old = db.row[job[a].into]
      BY <2>1, <2>3 DEF AloneInv, Fresh
    <3>3. QED
      BY <2>1, <2>3, <3>1, <3>2, MergeCaseAlone
  <2>4. QED
    BY <1>1, <2>2, <2>3 DEF WriteFirst, c
<1>2. CASE WriteNext(a)
  <2>1. pc[a] = "next" /\ c \in Case /\ Sane(draft) /\ Coherent(draft)
    BY <1>2, HeadOfBatch DEF WriteNext, StoreInv, AloneInv
  <2> HIDE DEF c
  <2>2. CASE InsertCase(a, draft, c)
    BY <2>1, <2>2, InsertCaseAlone
  <2>3. ASSUME NEW m \in MergeCandidates(draft, c), MergeCase(a, draft, m, draft.row[m], c)
        PROVE  AloneInv'
    <3>1. m \in Case /\ Present(draft, m)
      BY <2>3 DEF MergeCandidates, Present
    <3>2. QED
      BY <2>1, <2>3, <3>1, MergeCaseAlone
  <2>4. QED
    BY <1>2, <2>2, <2>3 DEF WriteNext, c
<1>3. QED
  BY <1>1, <1>2

(* Handlers that begin with one step, or prepare the next. *)
LEMMA PrepareAlone ==
  ASSUME Alone, StoreInv, AloneInv, NEW a \in Actor,
         \/ \E b \in Reported : Report(a, b)
         \/ Detect(a) \/ Find(a)
         \/ \E p, s \in Case : StartMerge(a, p, s)
  PROVE  AloneInv'
<1>1. ASSUME NEW t, Commit(t), t.row = db.row, t.link = db.link, NEW step, NEW j,
             pc' = [pc EXCEPT ![a] = step], job' = [job EXCEPT ![a] = j], Fresh(t, step, j)
      PROVE  AloneInv'
  <2>1. Coherent(t)
    BY <1>1, CoherentSame DEF AloneInv
  <2>2. db' = t /\ draft' = t
    BY <1>1 DEF Commit
  <2>3. \A b \in Actor : Fresh(t, pc'[b], job'[b])
    BY <1>1, FreshAlone
  <2>4. QED
    BY <2>1, <2>2, <2>3 DEF AloneInv, Coherent, Fresh, Present, Links
<1>2. ASSUME UNCHANGED <<db, draft>>, NEW step, NEW j,
             pc' = [pc EXCEPT ![a] = step], job' = [job EXCEPT ![a] = j], Fresh(db, step, j)
      PROVE  AloneInv'
  <2>1. \A b \in Actor : Fresh(db, pc'[b], job'[b])
    BY <1>2, FreshAlone
  <2>2. db' = db /\ draft' = draft /\ Coherent(db) /\ Coherent(draft)
    BY <1>2 DEF AloneInv
  <2>3. Coherent(db') /\ Coherent(draft') /\ \A b \in Actor : Fresh(db', pc'[b], job'[b])
    BY <2>1, <2>2
  <2>4. QED
    BY <2>3 DEF AloneInv, Coherent, Fresh, Present, Links
<1>3. ASSUME NEW b \in Reported, Report(a, b)
      PROVE  AloneInv'
  <2> DEFINE j == [NoJob EXCEPT !.batch = b]
  <2>1. PICK f : Commit([db EXCEPT !.opened = f])
    BY <1>3 DEF Report, StoreInv, Sane, Tables
  <2>2. pc' = [pc EXCEPT ![a] = "detect"] /\ job' = [job EXCEPT ![a] = j]
    BY <1>3 DEF Report, Start
  <2>3. Fresh([db EXCEPT !.opened = f], "detect", j)
    BY DEF Fresh, NoJob
  <2> HIDE DEF j
  <2>4. /\ [db EXCEPT !.opened = f].row = db.row
        /\ [db EXCEPT !.opened = f].link = db.link
    BY DEF StoreInv, Sane, Tables
  <2>5. QED
    BY <1>1, <2>1, <2>2, <2>3, <2>4
<1>4. CASE Detect(a)
  <2> DEFINE found == UNION {CaseEvidence[job[a].batch[i]] : i \in 1..Len(job[a].batch)}
  <2>1. PICK D : Commit([db EXCEPT !.detections = D])
    <3>1. Commit([db EXCEPT !.detections = @ \cup found])
      BY <1>4, Zenon DEF Detect
    <3> HIDE DEF found
    <3>2. [db EXCEPT !.detections = @ \cup found] = [db EXCEPT !.detections = db.detections \cup found]
      BY DEF StoreInv, Sane, Tables
    <3>3. QED
      BY <3>1, <3>2
  <2>2. /\ [db EXCEPT !.detections = D].row = db.row
        /\ [db EXCEPT !.detections = D].link = db.link
    BY DEF StoreInv, Sane, Tables
  <2>3. CASE Return(a)
    BY <1>1, <2>1, <2>2, <2>3, FreshIdle DEF Return
  <2>4. ASSUME NEW n, Goto(a, "detect", "find"),
               job' = [job EXCEPT ![a].batch = SubSeq(job[a].batch, 1, n)]
        PROVE  AloneInv'
    <3> DEFINE j == [job[a] EXCEPT !.batch = SubSeq(job[a].batch, 1, n)]
    <3>1. pc[a] = "detect" /\ pc' = [pc EXCEPT ![a] = "find"] /\ job' = [job EXCEPT ![a] = j]
      BY <2>4 DEF Goto, StoreInv, TypeOK
    <3>2. j.into = None
      BY <3>1 DEF AloneInv, Fresh, StoreInv, TypeOK, Job
    <3> HIDE DEF j
    <3>3. Fresh([db EXCEPT !.detections = D], "find", j)
      BY <3>2 DEF Fresh
    <3>4. QED
      BY <1>1, <2>1, <2>2, <3>1, <3>3
  <2>5. QED
    BY <1>4, <2>3, <2>4 DEF Detect
<1>5. CASE Find(a)
  <2>1. pc[a] = "find" /\ pc' = [pc EXCEPT ![a] = "write"] /\ UNCHANGED <<db, draft>>
    BY <1>5 DEF Find, Goto
  <2>2. CASE UNCHANGED job
    <3>1. job' = [job EXCEPT ![a] = job[a]] /\ job[a].into = None
      BY <2>1, <2>2 DEF StoreInv, TypeOK, AloneInv, Fresh
    <3>2. Fresh(db, "write", job[a])
      BY <3>1 DEF Fresh
    <3>3. QED
      BY <1>2, <2>1, <3>1, <3>2
  <2>3. ASSUME NEW m \in Case, Present(db, m),
               job' = [job EXCEPT ![a].into = m, ![a].old = db.row[m]]
        PROVE  AloneInv'
    <3> DEFINE j == [job[a] EXCEPT !.into = m, !.old = db.row[m]]
    <3>1. job' = [job EXCEPT ![a] = j] /\ j.into = m /\ j.old = db.row[m]
      BY <2>3 DEF StoreInv, TypeOK, Job
    <3> HIDE DEF j
    <3>2. Fresh(db, "write", j)
      BY <2>3, <3>1 DEF Fresh
    <3>3. QED
      BY <1>2, <2>1, <3>1, <3>2
  <2>4. QED
    BY <1>5, <2>2, <2>3 DEF Find, MergeCandidates, Present
<1>6. ASSUME NEW p \in Case, NEW s \in Case, StartMerge(a, p, s)
      PROVE  AloneInv'
  <2> DEFINE j == [NoJob EXCEPT !.into = p, !.old = db.row[p], !.from = s, !.new = db.row[s]]
  <2>1. /\ pc' = [pc EXCEPT ![a] = "merge"] /\ job' = [job EXCEPT ![a] = j]
        /\ UNCHANGED <<db, draft>>
        /\ p # s /\ Present(db, p) /\ Present(db, s)
    BY <1>6 DEF StartMerge, Start
  <2>2. j.into = p /\ j.from = s /\ j.old = db.row[p] /\ j.new = db.row[s]
    BY DEF NoJob
  <2> HIDE DEF j
  <2>3. Fresh(db, "merge", j)
    BY <2>1, <2>2 DEF Fresh
  <2>4. QED
    BY <1>2, <2>1, <2>3
<1>7. QED
  BY <1>3, <1>4, <1>5, <1>6

LEMMA MergeIncidentsAlone ==
  ASSUME Alone, StoreInv, AloneInv, NEW a \in Actor, MergeIncidents(a)
  PROVE  AloneInv'
<1> DEFINE p == job[a].into
           s == job[a].from
           u == MergedTables(db, p, s, job[a].old, job[a].new)
           t == IF Present(db, s) THEN Archived(u, s) ELSE u
<1>1. pc[a] = "merge" /\ Commit(t) /\ Return(a)
  <2>1. pc[a] = "merge" /\ Return(a)
    BY DEF MergeIncidents
  <2>2. Commit(IF Present(db, s) THEN [u EXCEPT !.row[s].status = "archived"] ELSE u)
    BY Zenon DEF MergeIncidents, MergedTables
  <2>3. QED
    BY <2>1, <2>2, Zenon DEF Archived
<1>2. p \in Case /\ s \in Case /\ job[a] \in Job
  BY <1>1 DEF StoreInv, TypeOK, JobsReady, JobReady
<1>3. /\ p # s /\ Present(db, p) /\ Present(db, s)
      /\ job[a].old = db.row[p] /\ job[a].new = db.row[s]
  BY <1>1 DEF AloneInv, Fresh
<1>4. Sane(db) /\ Coherent(db) /\ db.row[p] \in Row /\ db.row[s] \in Row
  BY <1>2 DEF StoreInv, AloneInv, Sane, Tables
<1> HIDE DEF p, s
<1>5. u = MergedTables(db, p, s, db.row[p], db.row[s])
  BY <1>3
<1> HIDE DEF u
<1>6. Coherent(u)
  BY <1>2, <1>3, <1>4, <1>5, MergedTablesCoherent
<1>7. Sane(u) /\ u.row[s].status = db.row[s].status
  BY <1>2, <1>4, <1>5, MergedTablesSane
<1>8. Present(u, s) /\ t = Archived(u, s)
  BY <1>3, <1>7 DEF Present
<1> HIDE DEF t
<1>9. Coherent(t)
  <2>1. /\ t.link = u.link /\ t.row[s] = [u.row[s] EXCEPT !.status = "archived"]
        /\ \A c \in Case \ {s} : t.row[c] = u.row[c]
    BY <1>2, <1>7, <1>8, ArchivedSane
  <2>2. u.row[s] \in Row
    BY <1>2, <1>7 DEF Sane, Tables
  <2>3. /\ t.row[s].evidence = u.row[s].evidence /\ t.row[s].count = u.row[s].count
        /\ Present(t, s)
    BY <2>1, <2>2 DEF Row, Present
  <2>4. QED
    BY <1>2, <1>6, <1>8, <2>1, <2>3, CoherentRow
<1>10. QED
  BY <1>1, <1>9, ReturnAlone DEF Commit

LEMMA CommandAlone ==
  ASSUME Alone, StoreInv, AloneInv, NEW a \in Actor,
         \/ \E c \in Case : DeleteCase(a, c) \/ \E s \in Marks : UpdateStatus(a, c, s)
         \/ \E h \in Source : SeeHost(a, h)
         \/ Purge(a)
  PROVE  AloneInv'
<1>1. \A b \in Actor : pc'[b] = "idle"
  <2>1. pc[a] = "idle" /\ UNCHANGED pc
    BY DEF DeleteCase, UpdateStatus, SeeHost, Purge
  <2>2. QED
    BY <2>1 DEF Alone
<1>2. ASSUME NEW t, Commit(t), Coherent(t)
      PROVE  AloneInv'
  BY <1>1, <1>2, CommitAlone
<1>3. db \in Tables /\ Coherent(db)
  BY DEF StoreInv, Sane, AloneInv
<1>4. ASSUME NEW c \in Case, NEW status \in Marks, UpdateStatus(a, c, status)
      PROVE  AloneInv'
  <2> DEFINE r == [db.row[c] EXCEPT !.status = status]
             t == [db EXCEPT !.row[c] = r]
  <2>1. Commit(RefreshHost([db EXCEPT !.row[c].status = status], CaseSource[c]))
        /\ Present(db, c)
    BY <1>4 DEF UpdateStatus
  <2>2. db.row[c] \in Row
    BY <1>3 DEF Tables
  <2>3. /\ r \in Row /\ r.evidence = db.row[c].evidence /\ r.count = db.row[c].count
        /\ r.status # "absent"
    BY <2>2, CaseAssumption DEF Row
  <2>4. [db EXCEPT !.row[c].status = status] = t
    BY <1>3 DEF Tables
  <2> HIDE DEF r
  <2>5. /\ t \in Tables /\ t.row[c] = r /\ t.link = db.link
        /\ \A m \in Case \ {c} : t.row[m] = db.row[m]
    BY <1>3, <2>3, RowSet
  <2> HIDE DEF t
  <2>6. Coherent(t)
    BY <1>3, <2>1, <2>3, <2>5, CoherentRow DEF Present
  <2>7. Coherent(RefreshHost(t, CaseSource[c]))
    <3>1. /\ RefreshHost(t, CaseSource[c]).row = t.row
          /\ RefreshHost(t, CaseSource[c]).link = t.link
      BY <2>5, SourceOf, RefreshSane
    <3>2. QED
      BY <2>6, <3>1, CoherentSame
  <2>8. QED
    BY <1>2, <2>1, <2>4, <2>7
<1>5. ASSUME NEW t \in Tables, NEW gone \in SUBSET Case,
             t.row = [c \in Case |-> IF c \in gone THEN NoRow ELSE db.row[c]],
             t.link = {l \in db.link : l[1] \notin gone}
      PROVE  Coherent(t)
  <2> SUFFICES ASSUME NEW c \in Case
               PROVE  IF Present(t, c)
                        THEN /\ t.row[c].evidence = Links(t, c)
                             /\ Cardinality(Links(t, c)) <= t.row[c].count
                        ELSE Links(t, c) = {}
    BY DEF Coherent
  <2>1. CASE c \in gone
    <3>1. ~Present(t, c) /\ Links(t, c) = {}
      BY <1>5, <2>1 DEF Present, NoRow, Links
    <3>2. QED
      BY <3>1
  <2>2. CASE c \notin gone
    <3>1. t.row[c] = db.row[c] /\ Links(t, c) = Links(db, c)
      BY <1>5, <2>2 DEF Links
    <3>2. QED
      BY <1>3, <3>1 DEF Coherent, Present
  <2>3. QED
    BY <2>1, <2>2
<1>6. ASSUME NEW c \in Case, DeleteCase(a, c)
      PROVE  AloneInv'
  <2> DEFINE t == [db EXCEPT !.row[c] = NoRow, !.link = {l \in @ : l[1] # c}]
  <2>1. Commit(RefreshHost(t, CaseSource[c]))
    BY <1>6 DEF DeleteCase
  <2>2. /\ t \in Tables
        /\ t.row = [m \in Case |-> IF m \in {c} THEN NoRow ELSE db.row[m]]
        /\ t.link = {l \in db.link : l[1] \notin {c}}
    BY <1>3, RowTypes DEF Tables
  <2> HIDE DEF t
  <2>3. Coherent(t)
    BY <1>5, <2>2
  <2>4. /\ RefreshHost(t, CaseSource[c]).row = t.row
        /\ RefreshHost(t, CaseSource[c]).link = t.link
    BY <2>2, SourceOf, RefreshSane
  <2>5. QED
    BY <1>2, <2>1, <2>3, <2>4, CoherentSame
<1>7. ASSUME NEW h \in Source, SeeHost(a, h)
      PROVE  AloneInv'
  <2>1. Commit([db EXCEPT !.opened[h] = 0])
    BY <1>7 DEF SeeHost
  <2>2. [db EXCEPT !.opened[h] = 0].row = db.row /\ [db EXCEPT !.opened[h] = 0].link = db.link
    BY <1>3 DEF Tables
  <2>3. QED
    BY <1>2, <1>3, <2>1, <2>2, CoherentSame
<1>8. CASE Purge(a)
  <2> DEFINE closed == {c \in Case : Present(db, c) /\ db.row[c].status # "open"
                                       /\ ~db.row[c].recent}
  <2>1. PICK D \in SUBSET db.detections, gone \in SUBSET closed :
          Commit([db EXCEPT !.detections = D,
                            !.row = [c \in Case |-> IF c \in gone THEN NoRow ELSE @[c]],
                            !.link = {l \in @ : l[1] \notin gone}])
    BY <1>8 DEF Purge
  <2> DEFINE t == [db EXCEPT !.detections = D,
                             !.row = [c \in Case |-> IF c \in gone THEN NoRow ELSE @[c]],
                             !.link = {l \in @ : l[1] \notin gone}]
  <2>2. gone \in SUBSET Case
    OBVIOUS
  <2>3. /\ t \in Tables
        /\ t.row = [c \in Case |-> IF c \in gone THEN NoRow ELSE db.row[c]]
        /\ t.link = {l \in db.link : l[1] \notin gone}
    <3>1. [c \in Case |-> IF c \in gone THEN NoRow ELSE db.row[c]] \in [Case -> Row]
      BY <1>3, RowTypes DEF Tables
    <3> HIDE DEF closed
    <3>2. QED
      BY <1>3, <3>1 DEF Tables
  <2> HIDE DEF t
  <2>4. Coherent(t)
    BY <1>5, <2>2, <2>3
  <2>5. QED
    BY <1>2, <2>1, <2>4 DEF t
<1>9. QED
  BY <1>4, <1>6, <1>7, <1>8

LEMMA EnvironmentAlone ==
  ASSUME Alone, StoreInv, AloneInv, Environment
  PROVE  AloneInv'
<1>1. ASSUME NEW a \in Actor, Crash(a)
      PROVE  AloneInv'
  <2>1. Return(a) /\ db' = db /\ draft' \in {draft, db}
    BY <1>1 DEF Crash
  <2>2. Coherent(db') /\ Coherent(draft')
    BY <2>1 DEF AloneInv
  <2>3. QED
    BY <2>1, <2>2, ReturnAlone
<1>2. CASE Reset
  <2>1. Commit(Empty) /\ \A b \in Actor : pc'[b] = "idle"
    BY <1>2 DEF Reset
  <2>2. Coherent(Empty)
    BY DEF Empty, NoRow, Coherent, Present, Links
  <2>3. QED
    BY <2>1, <2>2, CommitAlone
<1>3. ASSUME NEW c \in Case, GrowOld(c)
      PROVE  AloneInv'
  <2> DEFINE r == [db.row[c] EXCEPT !.recent = FALSE]
             t == [db EXCEPT !.row[c] = r]
  <2>1. db \in Tables /\ db.row[c] \in Row /\ Coherent(db)
    BY DEF StoreInv, Sane, Tables, AloneInv
  <2>2. /\ r \in Row /\ r.status = db.row[c].status
        /\ r.evidence = db.row[c].evidence /\ r.count = db.row[c].count
    BY <2>1 DEF Row
  <2>3. [db EXCEPT !.row[c].recent = FALSE] = t
    BY <2>1 DEF Tables
  <2>4. Commit(t) /\ \A b \in Actor : pc'[b] = "idle"
    BY <1>3, <2>3 DEF GrowOld
  <2> HIDE DEF r
  <2>5. /\ t.link = db.link /\ t.row[c] = r
        /\ \A m \in Case \ {c} : t.row[m] = db.row[m]
    BY <2>1, <2>2, RowSet
  <2> HIDE DEF t
  <2>6. CASE Present(db, c)
    <3>1. Coherent(t)
      BY <2>1, <2>2, <2>5, <2>6, CoherentRow DEF Present
    <3>2. QED
      BY <2>4, <3>1, CommitAlone
  <2>7. CASE ~Present(db, c)
    <3>1. Coherent(t)
      BY <2>1, <2>2, <2>5, <2>7 DEF Coherent, Present, Links
    <3>2. QED
      BY <2>4, <3>1, CommitAlone
  <2>8. QED
    BY <2>6, <2>7
<1>4. QED
  BY <1>1, <1>2, <1>3 DEF Environment

LEMMA InitAlone == Init => AloneInv
  BY DEF Init, AloneInv, Empty, NoRow, Coherent, Present, Links, Fresh

LEMMA NextAlone == Alone /\ StoreInv /\ AloneInv /\ [Next]_vars => AloneInv'
<1> SUFFICES ASSUME Alone, StoreInv, AloneInv, [Next]_vars
             PROVE  AloneInv'
  OBVIOUS
<1>1. ASSUME NEW a \in Actor, Begin(a)
      PROVE  AloneInv'
  BY <1>1, PrepareAlone, CommandAlone DEF Begin
<1>2. ASSUME NEW a \in Actor, Continue(a)
      PROVE  AloneInv'
  BY <1>2, PrepareAlone, WriteAlone, MergeIncidentsAlone DEF Continue
<1>3. CASE UNCHANGED vars
  BY <1>3 DEF vars, AloneInv, Coherent, Present, Links, Fresh
<1>4. QED
  BY <1>1, <1>2, <1>3, EnvironmentAlone DEF Next

LEMMA AloneHolds == Alone => (Spec => [](StoreInv /\ AloneInv))
<1> SUFFICES ASSUME Alone
             PROVE  Spec => [](StoreInv /\ AloneInv)
  OBVIOUS
<1>1. Init => StoreInv /\ AloneInv
  BY InitInv, InitAlone
<1>2. StoreInv /\ AloneInv /\ [Next]_vars => (StoreInv /\ AloneInv)'
  BY NextInv, NextAlone
<1>3. QED
  BY <1>1, <1>2, PTL DEF Spec

(* While one process writes at a time, a merge by the store or an operator,  *)
(* a deletion, the retention or a crash between the steps leaves evidence    *)
(* and links of every case the same.                                         *)
THEOREM EvidenceAgrees == ASSUME Alone PROVE Spec => []EvidenceMatchesLinks
<1>1. StoreInv /\ AloneInv => EvidenceMatchesLinks
  BY DEF AloneInv, Coherent, EvidenceMatchesLinks
<1>2. QED
  BY <1>1, AloneHolds, PTL

(* Then, too, no link outlives its case, so that a case whose id comes again *)
(* inherits nothing.                                                         *)
THEOREM LinksHaveCases == ASSUME Alone PROVE Spec => []NoOrphanLinks
<1>1. StoreInv /\ AloneInv => NoOrphanLinks
  <2> SUFFICES ASSUME StoreInv, AloneInv, NEW l \in db.link
               PROVE  Present(db, l[1])
    BY DEF NoOrphanLinks
  <2>1. l \in Case \X Detection
    BY DEF StoreInv, Sane, Tables
  <2>2. l[1] \in Case /\ l[2] \in Links(db, l[1])
    BY <2>1 DEF Links
  <2>3. QED
    BY <2>2 DEF AloneInv, Coherent
<1>2. QED
  BY <1>1, AloneHolds, PTL

(* Then, too, the count of a case covers the detections linked to it.        *)
THEOREM CountsCover == ASSUME Alone PROVE Spec => []CountCoversLinks
<1>1. StoreInv /\ AloneInv => CountCoversLinks
  <2> SUFFICES ASSUME StoreInv, AloneInv, NEW c \in Case
               PROVE  Cardinality(Links(db, c)) <= db.row[c].count
    BY DEF CountCoversLinks
  <2>1. CASE Present(db, c)
    BY <2>1 DEF AloneInv, Coherent
  <2>2. CASE ~Present(db, c)
    <3>1. Cardinality(Links(db, c)) = 0
      BY <2>2, FS_EmptySet DEF AloneInv, Coherent
    <3>2. db.row[c].count \in Nat
      BY EvidenceCount DEF StoreInv, Sane, Tables, Row
    <3>3. QED
      BY <3>1, <3>2
  <2>3. QED
    BY <2>1, <2>2
<1>2. QED
  BY <1>1, AloneHolds, PTL

-----------------------------------------------------------------------------
(* Any number of processes: what a case was reported with stays with it.     *)

Told(r, c) == CaseEvidence[c] \subseteq r.evidence

Kept(t) ==
  \A c \in Case : Present(t, c) => Told(t.row[c], c) /\ CaseEvidence[c] \subseteq Links(t, c)

(* A row that a process has read, perhaps long ago, tells it as well.        *)
Held(j) == j.into # None => Told(j.old, j.into)

KeptInv == Kept(db) /\ Kept(draft) /\ \A a \in Actor : Held(job[a])

LEMMA KeptSame ==
  ASSUME NEW t, Kept(t), NEW u, u.row = t.row, u.link = t.link
  PROVE  Kept(u)
  BY DEF Kept, Present, Links, Told

(* Whatever becomes of one row, links are only added for it or it is told of. *)
LEMMA KeptGrows ==
  ASSUME NEW t, Kept(t), NEW m \in Case, NEW u, t.link \subseteq u.link,
         \A c \in Case \ {m} : u.row[c] = t.row[c],
         Present(u, m) => Told(u.row[m], m) /\ CaseEvidence[m] \subseteq Links(u, m)
  PROVE  Kept(u)
<1> SUFFICES ASSUME NEW c \in Case, Present(u, c), c # m
             PROVE  Told(u.row[c], c) /\ CaseEvidence[c] \subseteq Links(u, c)
  BY DEF Kept
<1>1. u.row[c] = t.row[c] /\ Links(t, c) \subseteq Links(u, c)
  BY DEF Links
<1>2. QED
  BY <1>1 DEF Kept, Present

(* A row that changes keeps what it tells, or takes it from a copy.          *)
LEMMA KeptRow ==
  ASSUME NEW t, Kept(t), NEW m \in Case, NEW u, t.link \subseteq u.link,
         \A c \in Case \ {m} : u.row[c] = t.row[c],
         Present(t, m), Told(u.row[m], m)
  PROVE  Kept(u)
<1>1. CaseEvidence[m] \subseteq Links(u, m)
  BY DEF Kept, Links
<1>2. QED
  BY <1>1, KeptGrows

LEMMA KeptWithout ==
  ASSUME NEW t, Kept(t), NEW u, NEW gone \in SUBSET Case,
         u.row = [c \in Case |-> IF c \in gone THEN NoRow ELSE t.row[c]],
         u.link = {l \in t.link : l[1] \notin gone}
  PROVE  Kept(u)
<1> SUFFICES ASSUME NEW c \in Case, Present(u, c)
             PROVE  Told(u.row[c], c) /\ CaseEvidence[c] \subseteq Links(u, c)
  BY DEF Kept
<1>1. c \notin gone
  BY DEF Present, NoRow
<1>2. u.row[c] = t.row[c] /\ Links(u, c) = Links(t, c)
  BY <1>1 DEF Links
<1>3. QED
  BY <1>2 DEF Kept, Present

(* The tables and the copy that a step leaves behind.                        *)
LEMMA StepKept ==
  ASSUME StoreInv, KeptInv, NEW a \in Actor, NEW t, Kept(t),
         db' \in {db, t}, draft' \in {db, draft, t},
         NEW j, Held(j), job' \in {job, [job EXCEPT ![a] = j]}
  PROVE  KeptInv'
<1>1. Kept(db') /\ Kept(draft')
  BY DEF KeptInv
<1>2. \A b \in Actor : Held(job'[b])
  <2>1. job \in [Actor -> Job]
    BY DEF StoreInv, TypeOK
  <2>2. QED
    BY <2>1 DEF KeptInv
<1>3. QED
  BY <1>1, <1>2 DEF KeptInv, Kept, Held, Told, Present, Links

LEMMA HeldNone == Held(NoJob) /\ \A b : Held([NoJob EXCEPT !.batch = b])
  BY DEF Held, NoJob

LEMMA CommitKept ==
  ASSUME StoreInv, KeptInv, NEW t, Commit(t), Kept(t), NEW a \in Actor,
         job' = job \/ Return(a)
  PROVE  KeptInv'
  BY StepKept, HeldNone DEF Commit, Return

LEMMA ProceedKept ==
  ASSUME StoreInv, KeptInv, NEW a \in Actor, NEW t, Proceed(a, t), Kept(t)
  PROVE  KeptInv'
<1> DEFINE j == [NoJob EXCEPT !.batch = Tail(job[a].batch)]
<1>1. /\ db' \in {db, t} /\ draft' = t
      /\ job' \in {[job EXCEPT ![a] = NoJob], [job EXCEPT ![a] = j]}
  BY DEF Proceed, Return
<1>2. Held(j) /\ Held(NoJob)
  BY HeldNone
<1> HIDE DEF j
<1>3. QED
  BY <1>1, <1>2, StepKept

LEMMA InsertCaseKept ==
  ASSUME StoreInv, KeptInv, NEW a \in Actor, NEW t, Sane(t), Kept(t),
         NEW c \in Case, InsertCase(a, t, c)
  PROVE  KeptInv'
<1>1. CASE Present(t, c)
  <2>1. draft' = db /\ db' = db /\ job' = [job EXCEPT ![a] = NoJob]
    BY <1>1 DEF InsertCase, Return
  <2>2. QED
    BY <2>1, StepKept, HeldNone
<1>2. CASE ~Present(t, c)
  <2> DEFINE v == [t EXCEPT !.row[c] = Incoming(c)]
             u == LinkCase(v, c, c)
  <2>1. Proceed(a, u)
    BY <1>2 DEF InsertCase
  <2>2. /\ v \in Tables /\ v.row[c] = Incoming(c) /\ v.link = t.link
        /\ \A x \in Case \ {c} : v.row[x] = t.row[x]
    BY EvidenceOf, RowSet DEF Sane
  <2> HIDE DEF v
  <2>3. u.row = v.row /\ u.link = t.link \cup ({c} \X CaseEvidence[c])
    BY <2>2, LinkCaseIs
  <2> HIDE DEF u
  <2>4. Told(u.row[c], c) /\ CaseEvidence[c] \subseteq Links(u, c)
    BY <2>2, <2>3, EvidenceOf DEF Told, Links
  <2>5. Kept(u)
    BY <2>2, <2>3, <2>4, KeptGrows
  <2>6. QED
    BY <2>1, <2>5, ProceedKept
<1>3. QED
  BY <1>1, <1>2

(* Merging writes the row anew from a copy, which told of the case as well.  *)
LEMMA MergeRowKept ==
  ASSUME NEW t, Sane(t), Kept(t), NEW m \in Case, NEW old \in Row, NEW new \in Row,
         Told(old, m)
  PROVE  LET u == MergeRow(t, m, old, new)
         IN  Kept(u) /\ u.link = t.link /\ u \in Tables
<1> DEFINE u == MergeRow(t, m, old, new)
<1>1. u \in Tables /\ u.link = t.link
  BY MergeRowSane DEF Sane
<1>2. CASE Present(t, m)
  <2>1. /\ \A c \in Case \ {m} : u.row[c] = t.row[c]
        /\ u.row[m].evidence = old.evidence \cup new.evidence
    BY <1>2, MergedRowIs DEF Sane
  <2> HIDE DEF u
  <2>2. Told(u.row[m], m)
    BY <2>1 DEF Told
  <2>3. Kept(u)
    BY <1>1, <1>2, <2>1, <2>2, KeptRow
  <2>4. QED
    BY <1>1, <2>3 DEF u
<1>3. CASE ~Present(t, m)
  BY <1>1, <1>3 DEF MergeRow
<1>4. QED
  BY <1>2, <1>3

LEMMA MergeCaseKept ==
  ASSUME StoreInv, KeptInv, NEW a \in Actor, NEW t, Sane(t), Kept(t),
         NEW c \in Case, NEW m \in Case, NEW old \in Row, Told(old, m),
         MergeCase(a, t, m, old, c)
  PROVE  KeptInv'
<1> DEFINE v == MergeRow(t, m, old, Incoming(c))
           u == LinkCase(v, m, c)
<1>1. Proceed(a, u)
  BY DEF MergeCase
<1>2. Kept(v) /\ v \in Tables
  BY EvidenceOf, MergeRowKept
<1> HIDE DEF v
<1>3. u.row = v.row /\ v.link \subseteq u.link
  BY <1>2, LinkCaseIs
<1> HIDE DEF u
<1>4. Kept(u)
  BY <1>2, <1>3 DEF Kept, Present, Links
<1>5. QED
  BY <1>1, <1>4, ProceedKept

LEMMA WriteKept ==
  ASSUME StoreInv, KeptInv, NEW a \in Actor, WriteFirst(a) \/ WriteNext(a)
  PROVE  KeptInv'
<1> DEFINE c == Head(job[a].batch)
<1>1. CASE WriteFirst(a)
  <2>1. pc[a] = "write" /\ c \in Case /\ Sane(db) /\ Kept(db)
    BY <1>1, HeadOfBatch DEF WriteFirst, StoreInv, KeptInv
  <2> HIDE DEF c
  <2>2. CASE InsertCase(a, db, c)
    BY <2>1, <2>2, InsertCaseKept
  <2>3. CASE job[a].into # None /\ MergeCase(a, db, job[a].into, job[a].old, c)
    <3>1. job[a].into \in Case /\ job[a].old \in Row
      BY <2>3 DEF StoreInv, TypeOK, Job
    <3>2. Told(job[a].old, job[a].into)
      BY <2>3 DEF KeptInv, Held
    <3>3. QED
      BY <2>1, <2>3, <3>1, <3>2, MergeCaseKept
  <2>4. QED
    BY <1>1, <2>2, <2>3 DEF WriteFirst, c
<1>2. CASE WriteNext(a)
  <2>1. pc[a] = "next" /\ c \in Case /\ Sane(draft) /\ Kept(draft)
    BY <1>2, HeadOfBatch DEF WriteNext, StoreInv, KeptInv
  <2> HIDE DEF c
  <2>2. CASE InsertCase(a, draft, c)
    BY <2>1, <2>2, InsertCaseKept
  <2>3. ASSUME NEW m \in MergeCandidates(draft, c), MergeCase(a, draft, m, draft.row[m], c)
        PROVE  KeptInv'
    <3>1. m \in Case /\ Present(draft, m)
      BY <2>3 DEF MergeCandidates, Present
    <3>2. draft.row[m] \in Row /\ Told(draft.row[m], m)
      BY <2>1, <3>1 DEF Kept, Sane, Tables
    <3>3. QED
      BY <2>1, <2>3, <3>1, <3>2, MergeCaseKept
  <2>4. QED
    BY <1>2, <2>2, <2>3 DEF WriteNext, c
<1>3. QED
  BY <1>1, <1>2

(* Handlers that begin with one step, or prepare the next: a copy that is    *)
(* read tells what the row does.                                             *)
LEMMA PrepareKept ==
  ASSUME StoreInv, KeptInv, NEW a \in Actor,
         \/ \E b \in Reported : Report(a, b)
         \/ Detect(a) \/ Find(a)
         \/ \E p, s \in Case : StartMerge(a, p, s)
  PROVE  KeptInv'
<1>1. db \in Tables /\ Kept(db) /\ job \in [Actor -> Job] /\ Held(job[a])
  BY DEF StoreInv, TypeOK, KeptInv
<1>2. ASSUME NEW b \in Reported, Report(a, b)
      PROVE  KeptInv'
  <2>1. PICK f : Commit([db EXCEPT !.opened = f])
    BY <1>2 DEF Report, StoreInv, Sane, Tables
  <2>2. Kept([db EXCEPT !.opened = f])
    BY <1>1, KeptSame DEF Tables
  <2>3. job' = [job EXCEPT ![a] = [NoJob EXCEPT !.batch = b]]
    BY <1>2 DEF Report, Start
  <2>4. QED
    BY <2>1, <2>2, <2>3, HeldNone, StepKept DEF Commit
<1>3. CASE Detect(a)
  <2> DEFINE found == UNION {CaseEvidence[job[a].batch[i]] : i \in 1..Len(job[a].batch)}
  <2>1. PICK D : Commit([db EXCEPT !.detections = D])
    <3>1. Commit([db EXCEPT !.detections = @ \cup found])
      BY <1>3, Zenon DEF Detect
    <3> HIDE DEF found
    <3>2. [db EXCEPT !.detections = @ \cup found] = [db EXCEPT !.detections = db.detections \cup found]
      BY <1>1 DEF Tables
    <3>3. QED
      BY <3>1, <3>2
  <2>2. Kept([db EXCEPT !.detections = D])
    BY <1>1, KeptSame DEF Tables
  <2>3. CASE Return(a)
    BY <2>1, <2>2, <2>3, CommitKept
  <2>4. ASSUME NEW n, job' = [job EXCEPT ![a].batch = SubSeq(job[a].batch, 1, n)]
        PROVE  KeptInv'
    <3> DEFINE j == [job[a] EXCEPT !.batch = SubSeq(job[a].batch, 1, n)]
    <3>1. job' = [job EXCEPT ![a] = j] /\ Held(j)
      BY <1>1, <2>4 DEF Job, Held
    <3> HIDE DEF j
    <3>2. QED
      BY <2>1, <2>2, <3>1, StepKept DEF Commit
  <2>5. QED
    BY <1>3, <2>3, <2>4 DEF Detect
<1>4. CASE Find(a)
  <2>1. db' = db /\ draft' = draft
    BY <1>4 DEF Find
  <2>2. CASE UNCHANGED job
    BY <1>1, <2>1, <2>2, StepKept
  <2>3. ASSUME NEW m \in Case, Present(db, m),
               job' = [job EXCEPT ![a].into = m, ![a].old = db.row[m]]
        PROVE  KeptInv'
    <3> DEFINE j == [job[a] EXCEPT !.into = m, !.old = db.row[m]]
    <3>1. job' = [job EXCEPT ![a] = j] /\ j.into = m /\ j.old = db.row[m]
      BY <1>1, <2>3 DEF Job
    <3> HIDE DEF j
    <3>2. Held(j)
      BY <1>1, <2>3, <3>1 DEF Held, Kept
    <3>3. QED
      BY <1>1, <2>1, <3>1, <3>2, StepKept
  <2>4. QED
    BY <1>4, <2>2, <2>3 DEF Find, MergeCandidates, Present
<1>5. ASSUME NEW p \in Case, NEW s \in Case, StartMerge(a, p, s)
      PROVE  KeptInv'
  <2> DEFINE j == [NoJob EXCEPT !.into = p, !.old = db.row[p], !.from = s, !.new = db.row[s]]
  <2>1. /\ job' = [job EXCEPT ![a] = j] /\ db' = db /\ draft' = draft /\ Present(db, p)
    BY <1>5 DEF StartMerge, Start
  <2>2. j.into = p /\ j.old = db.row[p]
    BY DEF NoJob
  <2> HIDE DEF j
  <2>3. Held(j)
    BY <1>1, <2>1, <2>2 DEF Held, Kept
  <2>4. QED
    BY <1>1, <2>1, <2>3, StepKept
<1>6. QED
  BY <1>2, <1>3, <1>4, <1>5

LEMMA MergedTablesKept ==
  ASSUME NEW t, Sane(t), Kept(t), NEW p \in Case, NEW s \in Case,
         NEW old \in Row, NEW new \in Row, Told(old, p)
  PROVE  LET u == MergedTables(t, p, s, old, new)
         IN  Kept(u) /\ Sane(u) /\ \A c \in Case : u.row[c].status = t.row[c].status
<1> DEFINE u == MergedTables(t, p, s, old, new)
           v == MergeRow(t, p, old, new)
<1>1. Kept(v) /\ v.link = t.link
  BY MergeRowKept
<1>2. /\ Sane(u) /\ u.row = v.row /\ u.link = t.link \cup ({p} \X Links(t, s))
      /\ \A c \in Case : u.row[c].status = t.row[c].status
  BY MergedTablesSane
<1> HIDE DEF v
<1>3. Kept(u)
  <2> HIDE DEF u
  <2>1. v.link \subseteq u.link
    BY <1>1, <1>2
  <2>2. QED
    BY <1>1, <1>2, <2>1 DEF Kept, Present, Links
<1>4. QED
  BY <1>2, <1>3

LEMMA MergeIncidentsKept ==
  ASSUME StoreInv, KeptInv, NEW a \in Actor, MergeIncidents(a)
  PROVE  KeptInv'
<1> DEFINE p == job[a].into
           s == job[a].from
           u == MergedTables(db, p, s, job[a].old, job[a].new)
           t == IF Present(db, s) THEN Archived(u, s) ELSE u
<1>1. Commit(t) /\ Return(a) /\ pc[a] = "merge"
  <2>1. pc[a] = "merge" /\ Return(a)
    BY DEF MergeIncidents
  <2>2. Commit(IF Present(db, s) THEN [u EXCEPT !.row[s].status = "archived"] ELSE u)
    BY Zenon DEF MergeIncidents, MergedTables
  <2>3. QED
    BY <2>1, <2>2, Zenon DEF Archived
<1>2. p \in Case /\ s \in Case /\ job[a].old \in Row /\ job[a].new \in Row
  BY <1>1 DEF StoreInv, TypeOK, JobsReady, JobReady, Job
<1>3. p # None /\ Told(job[a].old, p)
  <2>1. p # None
    BY <1>2, CaseAssumption
  <2>2. QED
    BY <2>1 DEF KeptInv, Held
<1> HIDE DEF p, s
<1>4. Sane(db) /\ Kept(db)
  BY DEF StoreInv, KeptInv
<1>5. PICK old \in Row, new \in Row : old = job[a].old /\ new = job[a].new
  BY <1>2
<1>6. u = MergedTables(db, p, s, old, new)
  BY <1>5, Zenon
<1> HIDE DEF u
<1>7. Told(old, p)
  BY <1>3, <1>5
<1>8. Kept(u) /\ Sane(u) /\ u.row[s].status = db.row[s].status
  BY <1>2, <1>4, <1>6, <1>7, MergedTablesKept
<1>9. Kept(t)
  <2>1. CASE Present(db, s)
    <3>1. t = Archived(u, s) /\ Present(u, s)
      BY <1>2, <1>8, <2>1 DEF Present
    <3>2. /\ t.link = u.link /\ t.row[s] = [u.row[s] EXCEPT !.status = "archived"]
          /\ \A c \in Case \ {s} : t.row[c] = u.row[c]
      BY <1>2, <1>8, <3>1, ArchivedSane
    <3>3. Told(t.row[s], s)
      BY <1>2, <1>8, <3>1, <3>2 DEF Kept, Told, Sane, Tables, Row
    <3> HIDE DEF t
    <3>4. QED
      BY <1>2, <1>8, <3>1, <3>2, <3>3, KeptRow
  <2>2. CASE ~Present(db, s)
    BY <1>8, <2>2
  <2>3. QED
    BY <2>1, <2>2
<1> HIDE DEF t
<1>10. QED
  BY <1>1, <1>9, CommitKept

LEMMA CommandKept ==
  ASSUME StoreInv, KeptInv, NEW a \in Actor,
         \/ \E c \in Case : DeleteCase(a, c) \/ \E s \in Marks : UpdateStatus(a, c, s)
         \/ \E h \in Source : SeeHost(a, h)
         \/ Purge(a)
  PROVE  KeptInv'
<1>1. job' = job
  BY DEF DeleteCase, UpdateStatus, SeeHost, Purge
<1>2. ASSUME NEW t, Commit(t), Kept(t)
      PROVE  KeptInv'
  BY <1>1, <1>2, CommitKept
<1>3. db \in Tables /\ Kept(db)
  BY DEF StoreInv, Sane, KeptInv
<1>4. ASSUME NEW c \in Case, NEW status \in Marks, UpdateStatus(a, c, status)
      PROVE  KeptInv'
  <2> DEFINE r == [db.row[c] EXCEPT !.status = status]
             t == [db EXCEPT !.row[c] = r]
  <2>1. Commit(RefreshHost([db EXCEPT !.row[c].status = status], CaseSource[c]))
        /\ Present(db, c)
    BY <1>4 DEF UpdateStatus
  <2>2. db.row[c] \in Row
    BY <1>3 DEF Tables
  <2>3. r \in Row /\ r.evidence = db.row[c].evidence
    BY <2>2, CaseAssumption DEF Row
  <2>4. [db EXCEPT !.row[c].status = status] = t
    BY <1>3 DEF Tables
  <2> HIDE DEF r
  <2>5. /\ t \in Tables /\ t.row[c] = r /\ t.link = db.link
        /\ \A m \in Case \ {c} : t.row[m] = db.row[m]
    BY <1>3, <2>3, RowSet
  <2> HIDE DEF t
  <2>6. Kept(t)
    BY <1>3, <2>1, <2>3, <2>5, KeptRow DEF Told, Kept
  <2>7. /\ RefreshHost(t, CaseSource[c]).row = t.row
        /\ RefreshHost(t, CaseSource[c]).link = t.link
    BY <2>5, SourceOf, RefreshSane
  <2>8. QED
    BY <1>2, <2>1, <2>4, <2>6, <2>7, KeptSame
<1>5. ASSUME NEW c \in Case, DeleteCase(a, c)
      PROVE  KeptInv'
  <2> DEFINE t == [db EXCEPT !.row[c] = NoRow, !.link = {l \in @ : l[1] # c}]
  <2>1. Commit(RefreshHost(t, CaseSource[c]))
    BY <1>5 DEF DeleteCase
  <2>2. /\ t \in Tables
        /\ t.row = [m \in Case |-> IF m \in {c} THEN NoRow ELSE db.row[m]]
        /\ t.link = {l \in db.link : l[1] \notin {c}}
    BY <1>3, RowTypes DEF Tables
  <2> HIDE DEF t
  <2>3. Kept(t)
    BY <1>3, <2>2, KeptWithout
  <2>4. /\ RefreshHost(t, CaseSource[c]).row = t.row
        /\ RefreshHost(t, CaseSource[c]).link = t.link
    BY <2>2, SourceOf, RefreshSane
  <2>5. QED
    BY <1>2, <2>1, <2>3, <2>4, KeptSame
<1>6. ASSUME NEW h \in Source, SeeHost(a, h)
      PROVE  KeptInv'
  <2>1. Commit([db EXCEPT !.opened[h] = 0])
    BY <1>6 DEF SeeHost
  <2>2. [db EXCEPT !.opened[h] = 0].row = db.row /\ [db EXCEPT !.opened[h] = 0].link = db.link
    BY <1>3 DEF Tables
  <2>3. QED
    BY <1>2, <1>3, <2>1, <2>2, KeptSame
<1>7. CASE Purge(a)
  <2> DEFINE closed == {c \in Case : Present(db, c) /\ db.row[c].status # "open"
                                       /\ ~db.row[c].recent}
  <2>1. PICK D \in SUBSET db.detections, gone \in SUBSET closed :
          Commit([db EXCEPT !.detections = D,
                            !.row = [c \in Case |-> IF c \in gone THEN NoRow ELSE @[c]],
                            !.link = {l \in @ : l[1] \notin gone}])
    BY <1>7 DEF Purge
  <2> DEFINE t == [db EXCEPT !.detections = D,
                             !.row = [c \in Case |-> IF c \in gone THEN NoRow ELSE @[c]],
                             !.link = {l \in @ : l[1] \notin gone}]
  <2>2. gone \in SUBSET Case
    OBVIOUS
  <2>3. /\ t.row = [c \in Case |-> IF c \in gone THEN NoRow ELSE db.row[c]]
        /\ t.link = {l \in db.link : l[1] \notin gone}
    BY <1>3 DEF Tables
  <2> HIDE DEF t
  <2>4. Kept(t)
    BY <1>3, <2>2, <2>3, KeptWithout
  <2>5. QED
    BY <1>2, <2>1, <2>4 DEF t
<1>8. QED
  BY <1>4, <1>5, <1>6, <1>7

LEMMA EnvironmentKept ==
  ASSUME StoreInv, KeptInv, Environment
  PROVE  KeptInv'
<1>1. ASSUME NEW a \in Actor, Crash(a)
      PROVE  KeptInv'
  <2>1. job' = [job EXCEPT ![a] = NoJob] /\ db' = db /\ draft' \in {draft, db}
    BY <1>1 DEF Crash, Return
  <2>2. QED
    BY <2>1, HeldNone, StepKept DEF KeptInv
<1>2. ASSUME NEW t, Commit(t), Kept(t), job' = job
      PROVE  KeptInv'
  <2>1. Kept(db') /\ Kept(draft')
    BY <1>2 DEF Commit
  <2>2. \A b \in Actor : Held(job'[b])
    BY <1>2 DEF KeptInv
  <2>3. QED
    BY <2>1, <2>2 DEF KeptInv, Kept, Held, Told, Present, Links
<1>3. CASE Reset
  <2>1. Commit(Empty) /\ job' = job
    BY <1>3 DEF Reset
  <2>2. Kept(Empty)
    BY DEF Empty, NoRow, Kept, Present
  <2>3. QED
    BY <1>2, <2>1, <2>2
<1>4. ASSUME NEW c \in Case, GrowOld(c)
      PROVE  KeptInv'
  <2> DEFINE r == [db.row[c] EXCEPT !.recent = FALSE]
             t == [db EXCEPT !.row[c] = r]
  <2>1. db \in Tables /\ db.row[c] \in Row /\ Kept(db)
    BY DEF StoreInv, Sane, Tables, KeptInv
  <2>2. r \in Row /\ r.status = db.row[c].status /\ r.evidence = db.row[c].evidence
    BY <2>1 DEF Row
  <2>3. [db EXCEPT !.row[c].recent = FALSE] = t
    BY <2>1 DEF Tables
  <2>4. Commit(t) /\ job' = job
    BY <1>4, <2>3 DEF GrowOld
  <2> HIDE DEF r
  <2>5. /\ t.link = db.link /\ t.row[c] = r
        /\ \A m \in Case \ {c} : t.row[m] = db.row[m]
    BY <2>1, <2>2, RowSet
  <2> HIDE DEF t
  <2>6. Present(t, c) => Told(t.row[c], c) /\ CaseEvidence[c] \subseteq Links(t, c)
    BY <2>1, <2>2, <2>5 DEF Kept, Present, Told, Links
  <2>7. Kept(t)
    BY <2>1, <2>5, <2>6, KeptGrows
  <2>8. QED
    BY <1>2, <2>4, <2>7
<1>5. QED
  BY <1>1, <1>3, <1>4 DEF Environment

LEMMA NextKept == StoreInv /\ KeptInv /\ [Next]_vars => KeptInv'
<1> SUFFICES ASSUME StoreInv, KeptInv, [Next]_vars
             PROVE  KeptInv'
  OBVIOUS
<1>1. ASSUME NEW a \in Actor, Begin(a)
      PROVE  KeptInv'
  BY <1>1, PrepareKept, CommandKept DEF Begin
<1>2. ASSUME NEW a \in Actor, Continue(a)
      PROVE  KeptInv'
  BY <1>2, PrepareKept, WriteKept, MergeIncidentsKept DEF Continue
<1>3. CASE UNCHANGED vars
  BY <1>3 DEF vars, KeptInv, Kept, Held, Told, Present, Links
<1>4. QED
  BY <1>1, <1>2, <1>3, EnvironmentKept DEF Next

(* However many processes merge from copies they have read before, delete,   *)
(* report again or die: a case that is there has the detections it was       *)
(* reported with, in its evidence and in its links.                          *)
THEOREM ReportsStay == Spec => []ReportedEvidenceKept
<1>1. Init => StoreInv /\ KeptInv
  <2>1. Init => KeptInv
    BY DEF Init, KeptInv, Empty, NoRow, NoJob, Kept, Present, Held
  <2>2. QED
    BY <2>1, InitInv
<1>2. StoreInv /\ KeptInv /\ [Next]_vars => (StoreInv /\ KeptInv)'
  BY NextInv, NextKept
<1>3. StoreInv /\ KeptInv => ReportedEvidenceKept
  BY DEF KeptInv, Kept, Told, ReportedEvidenceKept
<1>4. QED
  BY <1>1, <1>2, <1>3, PTL DEF Spec

-----------------------------------------------------------------------------
(* Any number of processes: links go with their case, and with it only.      *)

Grown(t, u) ==
  \A c \in Case : Present(t, c) /\ Present(u, c) => Links(t, c) \subseteq Links(u, c)

(* An open transaction has not taken anything away, either.                  *)
Ahead == db.link \subseteq draft.link

LEMMA GrownMore ==
  ASSUME NEW t, NEW u, t.link \subseteq u.link
  PROVE  Grown(t, u)
  BY DEF Grown, Links

LEMMA GrownWithout ==
  ASSUME NEW t \in Tables, NEW u, NEW gone \in SUBSET Case,
         u.row = [c \in Case |-> IF c \in gone THEN NoRow ELSE t.row[c]],
         u.link = {l \in t.link : l[1] \notin gone}
  PROVE  Grown(t, u)
<1> SUFFICES ASSUME NEW c \in Case, Present(u, c)
             PROVE  Links(t, c) \subseteq Links(u, c)
  BY DEF Grown
<1>1. c \notin gone
  BY DEF Present, NoRow
<1>2. QED
  BY <1>1 DEF Links

LEMMA GrownSame == \A t : Grown(t, t)
  BY DEF Grown

LEMMA CommitGrown ==
  ASSUME NEW t, Commit(t), Grown(db, t)
  PROVE  Ahead' /\ Grown(db, db')
  BY DEF Commit, Ahead

LEMMA ProceedGrown ==
  ASSUME Ahead, NEW a \in Actor, NEW t, Proceed(a, t), db.link \subseteq t.link
  PROVE  Ahead' /\ Grown(db, db')
<1>1. draft' = t /\ db' \in {db, t}
  BY DEF Proceed
<1>2. QED
  BY <1>1, GrownMore, GrownSame DEF Ahead

LEMMA InsertCaseGrown ==
  ASSUME Ahead, NEW a \in Actor, NEW t, Sane(t), db.link \subseteq t.link,
         NEW c \in Case, InsertCase(a, t, c)
  PROVE  Ahead' /\ Grown(db, db')
<1>1. CASE Present(t, c)
  <2>1. draft' = db /\ db' = db
    BY <1>1 DEF InsertCase
  <2>2. QED
    BY <2>1, GrownSame DEF Ahead
<1>2. CASE ~Present(t, c)
  <2> DEFINE v == [t EXCEPT !.row[c] = Incoming(c)]
             u == LinkCase(v, c, c)
  <2>1. Proceed(a, u)
    BY <1>2 DEF InsertCase
  <2>2. v \in Tables /\ v.link = t.link
    BY EvidenceOf, RowSet DEF Sane
  <2> HIDE DEF v
  <2>3. t.link \subseteq u.link
    BY <2>2, LinkCaseIs
  <2> HIDE DEF u
  <2>4. QED
    BY <2>1, <2>3, ProceedGrown
<1>3. QED
  BY <1>1, <1>2

LEMMA MergeCaseGrown ==
  ASSUME Ahead, NEW a \in Actor, NEW t, Sane(t), db.link \subseteq t.link,
         NEW c \in Case, NEW m \in Case, NEW old \in Row, MergeCase(a, t, m, old, c)
  PROVE  Ahead' /\ Grown(db, db')
<1> DEFINE v == MergeRow(t, m, old, Incoming(c))
           u == LinkCase(v, m, c)
<1>1. Proceed(a, u)
  BY DEF MergeCase
<1>2. v \in Tables /\ v.link = t.link
  BY EvidenceOf, MergeRowSane DEF Sane
<1> HIDE DEF v
<1>3. t.link \subseteq u.link
  BY <1>2, LinkCaseIs
<1> HIDE DEF u
<1>4. QED
  BY <1>1, <1>3, ProceedGrown

LEMMA WriteGrown ==
  ASSUME StoreInv, Ahead, NEW a \in Actor, WriteFirst(a) \/ WriteNext(a)
  PROVE  Ahead' /\ Grown(db, db')
<1> DEFINE c == Head(job[a].batch)
<1>1. CASE WriteFirst(a)
  <2>1. c \in Case /\ Sane(db)
    BY <1>1, HeadOfBatch DEF WriteFirst, StoreInv
  <2> HIDE DEF c
  <2>2. CASE InsertCase(a, db, c)
    BY <2>1, <2>2, InsertCaseGrown
  <2>3. CASE job[a].into # None /\ MergeCase(a, db, job[a].into, job[a].old, c)
    <3>1. job[a].into \in Case /\ job[a].old \in Row
      BY <2>3 DEF StoreInv, TypeOK, Job
    <3>2. QED
      BY <2>1, <2>3, <3>1, MergeCaseGrown
  <2>4. QED
    BY <1>1, <2>2, <2>3 DEF WriteFirst, c
<1>2. CASE WriteNext(a)
  <2>1. c \in Case /\ Sane(draft) /\ db.link \subseteq draft.link
    BY <1>2, HeadOfBatch DEF WriteNext, StoreInv, Ahead
  <2> HIDE DEF c
  <2>2. CASE InsertCase(a, draft, c)
    BY <2>1, <2>2, InsertCaseGrown
  <2>3. ASSUME NEW m \in MergeCandidates(draft, c), MergeCase(a, draft, m, draft.row[m], c)
        PROVE  Ahead' /\ Grown(db, db')
    <3>1. m \in Case /\ draft.row[m] \in Row
      BY <2>1, <2>3 DEF MergeCandidates, Sane, Tables
    <3>2. QED
      BY <2>1, <2>3, <3>1, MergeCaseGrown
  <2>4. QED
    BY <1>2, <2>2, <2>3 DEF WriteNext, c
<1>3. QED
  BY <1>1, <1>2

(* Reads and transactions that concern neither rows nor links.               *)
LEMMA PrepareGrown ==
  ASSUME StoreInv, Ahead, NEW a \in Actor,
         \/ \E b \in Reported : Report(a, b)
         \/ Detect(a) \/ Find(a)
         \/ \E p, s \in Case : StartMerge(a, p, s)
  PROVE  Ahead' /\ Grown(db, db')
<1>1. db \in Tables
  BY DEF StoreInv, TypeOK
<1>2. ASSUME NEW b \in Reported, Report(a, b)
      PROVE  Ahead' /\ Grown(db, db')
  <2>1. PICK f : Commit([db EXCEPT !.opened = f])
    BY <1>2 DEF Report, StoreInv, Sane, Tables
  <2>2. [db EXCEPT !.opened = f].link = db.link
    BY <1>1 DEF Tables
  <2>3. QED
    BY <2>1, <2>2, GrownMore, CommitGrown
<1>3. CASE Detect(a)
  <2> DEFINE found == UNION {CaseEvidence[job[a].batch[i]] : i \in 1..Len(job[a].batch)}
  <2>1. Commit([db EXCEPT !.detections = @ \cup found])
    BY <1>3, Zenon DEF Detect
  <2> HIDE DEF found
  <2>2. [db EXCEPT !.detections = @ \cup found].link = db.link
    BY <1>1 DEF Tables
  <2>3. QED
    BY <2>1, <2>2, GrownMore, CommitGrown
<1>4. CASE Find(a) \/ \E p, s \in Case : StartMerge(a, p, s)
  <2>1. db' = db /\ draft' = draft
    BY <1>4 DEF Find, StartMerge
  <2>2. QED
    BY <2>1, GrownSame DEF Ahead
<1>5. QED
  BY <1>2, <1>3, <1>4

LEMMA MergedTablesGrown ==
  ASSUME NEW t, Sane(t), NEW p \in Case, NEW s \in Case, NEW old \in Row, NEW new \in Row
  PROVE  LET u == MergedTables(t, p, s, old, new)
         IN  t.link \subseteq u.link /\ Sane(u) /\ \A c \in Case : u.row[c].status = t.row[c].status
<1> DEFINE u == MergedTables(t, p, s, old, new)
<1>1. /\ Sane(u) /\ u.link = t.link \cup ({p} \X Links(t, s))
      /\ \A c \in Case : u.row[c].status = t.row[c].status
  BY MergedTablesSane
<1> HIDE DEF u
<1>2. t.link \subseteq u.link
  BY <1>1
<1>3. QED
  BY <1>1, <1>2 DEF u

LEMMA MergeIncidentsGrown ==
  ASSUME StoreInv, NEW a \in Actor, MergeIncidents(a)
  PROVE  Ahead' /\ Grown(db, db')
<1> DEFINE p == job[a].into
           s == job[a].from
           u == MergedTables(db, p, s, job[a].old, job[a].new)
           t == IF Present(db, s) THEN Archived(u, s) ELSE u
<1>1. Commit(t) /\ pc[a] = "merge"
  <2>1. pc[a] = "merge"
    BY DEF MergeIncidents
  <2>2. Commit(IF Present(db, s) THEN [u EXCEPT !.row[s].status = "archived"] ELSE u)
    BY Zenon DEF MergeIncidents, MergedTables
  <2>3. QED
    BY <2>1, <2>2, Zenon DEF Archived
<1>2. /\ p \in Case /\ s \in Case /\ job[a].old \in Row /\ job[a].new \in Row
      /\ db \in Tables /\ Sane(db)
  BY <1>1 DEF StoreInv, TypeOK, JobsReady, JobReady, Job
<1> HIDE DEF p, s
<1>3. PICK old \in Row, new \in Row : old = job[a].old /\ new = job[a].new
  BY <1>2
<1>4. u = MergedTables(db, p, s, old, new)
  BY <1>3, Zenon
<1> HIDE DEF u
<1>5. Sane(u) /\ db.link \subseteq u.link /\ u.row[s].status = db.row[s].status
  BY <1>2, <1>4, MergedTablesGrown
<1>6. db.link \subseteq t.link
  <2>1. CASE Present(db, s)
    <3>1. Present(u, s)
      BY <1>2, <1>5, <2>1 DEF Present
    <3>2. Archived(u, s).link = u.link
      BY <1>2, <1>5, <3>1, ArchivedSane
    <3>3. QED
      BY <1>5, <2>1, <3>2
  <2>2. CASE ~Present(db, s)
    BY <1>5, <2>2
  <2>3. QED
    BY <2>1, <2>2
<1> HIDE DEF t
<1>7. QED
  BY <1>1, <1>6, GrownMore, CommitGrown

LEMMA CommandGrown ==
  ASSUME StoreInv, NEW a \in Actor,
         \/ \E c \in Case : DeleteCase(a, c) \/ \E s \in Marks : UpdateStatus(a, c, s)
         \/ \E h \in Source : SeeHost(a, h)
         \/ Purge(a)
  PROVE  Ahead' /\ Grown(db, db')
<1>1. db \in Tables
  BY DEF StoreInv, TypeOK
<1>2. ASSUME NEW c \in Case, NEW status \in Marks, UpdateStatus(a, c, status)
      PROVE  Ahead' /\ Grown(db, db')
  <2> DEFINE r == [db.row[c] EXCEPT !.status = status]
             t == [db EXCEPT !.row[c] = r]
  <2>1. Commit(RefreshHost([db EXCEPT !.row[c].status = status], CaseSource[c]))
    BY <1>2 DEF UpdateStatus
  <2>2. db.row[c] \in Row
    BY <1>1 DEF Tables
  <2>3. r \in Row
    BY <2>2, CaseAssumption DEF Row
  <2>4. [db EXCEPT !.row[c].status = status] = t
    BY <1>1 DEF Tables
  <2> HIDE DEF r
  <2>5. t \in Tables /\ t.link = db.link
    BY <1>1, <2>3, RowSet
  <2> HIDE DEF t
  <2>6. RefreshHost(t, CaseSource[c]).link = db.link
    BY <2>5, SourceOf, RefreshSane
  <2>7. QED
    BY <2>1, <2>4, <2>6, GrownMore, CommitGrown
<1>3. ASSUME NEW c \in Case, DeleteCase(a, c)
      PROVE  Ahead' /\ Grown(db, db')
  <2> DEFINE t == [db EXCEPT !.row[c] = NoRow, !.link = {l \in @ : l[1] # c}]
  <2>1. Commit(RefreshHost(t, CaseSource[c]))
    BY <1>3 DEF DeleteCase
  <2>2. /\ t \in Tables
        /\ t.row = [m \in Case |-> IF m \in {c} THEN NoRow ELSE db.row[m]]
        /\ t.link = {l \in db.link : l[1] \notin {c}}
    BY <1>1, RowTypes DEF Tables
  <2> HIDE DEF t
  <2>3. /\ RefreshHost(t, CaseSource[c]).row = t.row
        /\ RefreshHost(t, CaseSource[c]).link = t.link
    BY <2>2, SourceOf, RefreshSane
  <2> DEFINE v == RefreshHost(t, CaseSource[c])
  <2>4. Grown(db, v)
    <3> HIDE DEF v
    <3>1. /\ {c} \in SUBSET Case /\ v.link = {l \in db.link : l[1] \notin {c}}
          /\ v.row = [m \in Case |-> IF m \in {c} THEN NoRow ELSE db.row[m]]
      BY <2>2, <2>3 DEF v
    <3>2. PICK gone \in SUBSET Case : gone = {c}
      BY <3>1
    <3>3. /\ v.link = {l \in db.link : l[1] \notin gone}
          /\ v.row = [m \in Case |-> IF m \in gone THEN NoRow ELSE db.row[m]]
      BY <3>1, <3>2, Zenon
    <3>4. QED
      BY <1>1, <3>3, GrownWithout
  <2>5. QED
    BY <2>1, <2>4, CommitGrown
<1>4. ASSUME NEW h \in Source, SeeHost(a, h)
      PROVE  Ahead' /\ Grown(db, db')
  <2>1. Commit([db EXCEPT !.opened[h] = 0])
    BY <1>4 DEF SeeHost
  <2>2. [db EXCEPT !.opened[h] = 0].link = db.link
    BY <1>1 DEF Tables
  <2>3. QED
    BY <2>1, <2>2, GrownMore, CommitGrown
<1>5. CASE Purge(a)
  <2> DEFINE closed == {c \in Case : Present(db, c) /\ db.row[c].status # "open"
                                       /\ ~db.row[c].recent}
  <2>1. PICK D \in SUBSET db.detections, gone \in SUBSET closed :
          Commit([db EXCEPT !.detections = D,
                            !.row = [c \in Case |-> IF c \in gone THEN NoRow ELSE @[c]],
                            !.link = {l \in @ : l[1] \notin gone}])
    BY <1>5 DEF Purge
  <2> DEFINE t == [db EXCEPT !.detections = D,
                             !.row = [c \in Case |-> IF c \in gone THEN NoRow ELSE @[c]],
                             !.link = {l \in @ : l[1] \notin gone}]
  <2>2. gone \in SUBSET Case
    OBVIOUS
  <2>3. /\ t.row = [c \in Case |-> IF c \in gone THEN NoRow ELSE db.row[c]]
        /\ t.link = {l \in db.link : l[1] \notin gone}
    BY <1>1 DEF Tables
  <2> HIDE DEF t
  <2>4. Grown(db, t)
    BY <1>1, <2>2, <2>3, GrownWithout
  <2>5. QED
    BY <2>1, <2>4, CommitGrown DEF t
<1>6. QED
  BY <1>2, <1>3, <1>4, <1>5

LEMMA EnvironmentGrown ==
  ASSUME StoreInv, Ahead, Environment
  PROVE  Ahead' /\ Grown(db, db')
<1>1. ASSUME NEW a \in Actor, Crash(a)
      PROVE  Ahead' /\ Grown(db, db')
  <2>1. db' = db /\ draft' \in {draft, db}
    BY <1>1 DEF Crash
  <2>2. QED
    BY <2>1, GrownSame DEF Ahead
<1>2. CASE Reset
  <2>1. Commit(Empty)
    BY <1>2 DEF Reset
  <2>2. Grown(db, Empty)
    BY DEF Grown, Empty, NoRow, Present
  <2>3. QED
    BY <2>1, <2>2, CommitGrown
<1>3. ASSUME NEW c \in Case, GrowOld(c)
      PROVE  Ahead' /\ Grown(db, db')
  <2>1. Commit([db EXCEPT !.row[c].recent = FALSE])
    BY <1>3 DEF GrowOld
  <2>2. [db EXCEPT !.row[c].recent = FALSE].link = db.link
    BY DEF StoreInv, TypeOK, Tables
  <2>3. QED
    BY <2>1, <2>2, GrownMore, CommitGrown
<1>4. QED
  BY <1>1, <1>2, <1>3 DEF Environment

LEMMA NextGrown == StoreInv /\ Ahead /\ [Next]_vars => Ahead' /\ Grown(db, db')
<1> SUFFICES ASSUME StoreInv, Ahead, [Next]_vars
             PROVE  Ahead' /\ Grown(db, db')
  OBVIOUS
<1>1. ASSUME NEW a \in Actor, Begin(a)
      PROVE  Ahead' /\ Grown(db, db')
  BY <1>1, PrepareGrown, CommandGrown DEF Begin
<1>2. ASSUME NEW a \in Actor, Continue(a)
      PROVE  Ahead' /\ Grown(db, db')
  BY <1>2, PrepareGrown, WriteGrown, MergeIncidentsGrown DEF Continue
<1>3. CASE UNCHANGED vars
  BY <1>3, GrownSame DEF vars, Ahead
<1>4. QED
  BY <1>1, <1>2, <1>3, EnvironmentGrown DEF Next

(* However many processes merge, report, delete and die: a case loses a      *)
(* detection only by being removed itself.                                   *)
THEOREM LinksGrow == Spec => LinksOnlyGrow
<1> DEFINE A == \A c \in Case : Present(db, c) /\ Present(db', c) =>
                                  Links(db, c) \subseteq Links(db', c)
<1>1. Init => StoreInv /\ Ahead
  <2>1. Init => Ahead
    BY DEF Init, Ahead
  <2>2. QED
    BY <2>1, InitInv
<1>2. StoreInv /\ Ahead /\ [Next]_vars => (StoreInv /\ Ahead)'
  BY NextInv, NextGrown
<1>3. StoreInv /\ Ahead /\ [Next]_vars => A
  BY NextGrown DEF Grown
<1>4. Spec => [][A]_vars
  BY <1>1, <1>2, <1>3, PTL DEF Spec
<1>5. QED
  BY <1>4 DEF LinksOnlyGrow

-----------------------------------------------------------------------------
(* What it takes for every detection to have a case: one process that is not *)
(* interrupted, and rows that stay open and recent.                          *)

Undisturbed == (\E a : Actor = {a}) /\ Happens \subseteq {"reset", "purge"}

(* A case that is reported again then finds its own row, at least.           *)
Tidy(t) ==
  \A c \in Case : Present(t, c) =>
    /\ t.row[c].status = "open" /\ t.row[c].recent
    /\ t.row[c].key = CaseKey[c] \/ CaseKey[c] = Any

EvidenceIn(s) == UNION {CaseEvidence[s[i]] : i \in 1..Len(s)}

(* Detections that are stored are linked, or still in hand.                  *)
Rest(step, j) == IF step \in {"find", "write", "next"} THEN EvidenceIn(j.batch) ELSE {}

Linked(t) == {d \in Detection : \E c \in Case : <<c, d>> \in t.link}

InHand(t, step, j) ==
  /\ t.detections \subseteq Linked(t) \cup Rest(step, j)
  /\ step = "write" /\ j.into = None => ~Present(t, Head(j.batch))

TidyInv ==
  /\ Tidy(draft)
  /\ \A a \in Actor : /\ InHand(draft, pc[a], job[a])
                      /\ pc[a] # "next" => draft = db
                      /\ pc[a] # "merge"

LEMMA TidyFound ==
  ASSUME NEW t, Tidy(t), NEW c \in Case, Present(t, c)
  PROVE  c \in MergeCandidates(t, c)
<1>1. TargetMatches(t.row[c], c)
  BY DEF Tidy, TargetMatches
<1>2. QED
  BY <1>1 DEF Tidy, MergeCandidates, Related

LEMMA EvidenceOfTail ==
  ASSUME NEW s \in Batch, Len(s) > 0
  PROVE  /\ EvidenceIn(s) \subseteq CaseEvidence[Head(s)] \cup EvidenceIn(Tail(s))
         /\ Len(s) = 1 => EvidenceIn(s) \subseteq CaseEvidence[Head(s)]
<1>1. /\ Head(s) = s[1] /\ Len(Tail(s)) = Len(s) - 1 /\ Len(s) \in Nat
      /\ \A i \in 1..Len(Tail(s)) : Tail(s)[i] = s[i + 1]
  BY BatchTail, BatchIs
<1>2. ASSUME NEW i \in 1..Len(s), NEW d \in CaseEvidence[s[i]], i # 1
      PROVE  d \in EvidenceIn(Tail(s))
  <2>1. i - 1 \in 1..Len(Tail(s)) /\ (i - 1) + 1 = i
    BY <1>1, <1>2
  <2>2. Tail(s)[i - 1] = s[i]
    BY <1>1, <2>1
  <2>3. QED
    BY <1>2, <2>1, <2>2 DEF EvidenceIn
<1>3. ASSUME NEW i \in 1..Len(s), Len(s) = 1
      PROVE  i = 1
  BY <1>3
<1>4. QED
  BY <1>1, <1>2, <1>3 DEF EvidenceIn

(* The one process is the only one there is.                                 *)
LEMMA StepTidy ==
  ASSUME Undisturbed, StoreInv, NEW a \in Actor, NEW step, NEW j,
         pc' = [pc EXCEPT ![a] = step], job' = [job EXCEPT ![a] = j],
         Tidy(draft'), InHand(draft', step, j), step # "next" => draft' = db',
         step # "merge"
  PROVE  TidyInv'
<1>1. \A b \in Actor : b = a /\ pc'[b] = step /\ job'[b] = j
  BY DEF Undisturbed, StoreInv, TypeOK
<1>2. \A b \in Actor : /\ InHand(draft', pc'[b], job'[b])
                       /\ pc'[b] # "next" => draft' = db'
                       /\ pc'[b] # "merge"
  BY <1>1
<1>3. Tidy(draft)'
  BY DEF Tidy, Present
<1>4. ASSUME NEW b \in Actor
      PROVE  InHand(draft, pc[b], job[b])' /\ (pc'[b] # "next" => draft' = db') /\ pc'[b] # "merge"
  <2>1. EvidenceIn(job[b].batch)' = EvidenceIn(job'[b].batch)
    BY DEF EvidenceIn
  <2>2. Rest(pc[b], job[b])' = Rest(pc'[b], job'[b])
    BY <2>1, Zenon DEF Rest
  <2>3. Linked(draft)' = Linked(draft') /\ Present(draft, Head(job[b].batch))' = Present(draft', Head(job'[b].batch))
    BY DEF Linked, Present
  <2>4. InHand(draft', pc'[b], job'[b])
    BY <1>2
  <2>5. InHand(draft, pc[b], job[b])'
    BY <2>2, <2>3, <2>4 DEF InHand
  <2>6. QED
    BY <1>2, <2>5
<1>5. QED
  BY <1>3, <1>4 DEF TidyInv

(* The rows and links of another state of the tables.                        *)
LEMMA TidySame ==
  ASSUME NEW t, Tidy(t), NEW u, u.row = t.row
  PROVE  Tidy(u)
  BY DEF Tidy, Present

LEMMA LinkedCase ==
  ASSUME NEW t, NEW u, NEW m \in Case, NEW c \in Case,
         u.link = t.link \cup ({m} \X CaseEvidence[c])
  PROVE  Linked(t) \cup CaseEvidence[c] \subseteq Linked(u)
<1>1. CaseEvidence[c] \subseteq Detection
  BY EvidenceOf
<1>2. QED
  BY <1>1 DEF Linked

(* The case at the head of the batch has been taken care of in u.            *)
LEMMA ProceedTidy ==
  ASSUME Undisturbed, StoreInv, NEW a \in Actor, pc[a] \in {"write", "next"},
         NEW t, InHand(t, pc[a], job[a]), NEW u, Proceed(a, u), Tidy(u),
         u.detections = t.detections,
         Linked(t) \cup CaseEvidence[Head(job[a].batch)] \subseteq Linked(u)
  PROVE  TidyInv'
<1> DEFINE b == job[a].batch
<1>1. b \in Batch /\ Len(b) > 0
  BY DEF StoreInv, TypeOK, Job, JobsReady, JobReady
<1>2. t.detections \subseteq Linked(t) \cup EvidenceIn(b)
  BY DEF InHand, Rest
<1>3. CASE Len(b) = 1
  <2>1. db' = u /\ draft' = u /\ Return(a)
    BY <1>3 DEF Proceed
  <2>2. EvidenceIn(b) \subseteq CaseEvidence[Head(b)]
    BY <1>1, <1>3, EvidenceOfTail
  <2>3. InHand(u, "idle", NoJob)
    BY <1>2, <2>2 DEF InHand, Rest
  <2>4. QED
    BY <2>1, <2>3, StepTidy DEF Return
<1>4. CASE Len(b) # 1
  <2> DEFINE j == [NoJob EXCEPT !.batch = Tail(b)]
  <2>1. /\ draft' = u /\ pc' = [pc EXCEPT ![a] = "next"] /\ job' = [job EXCEPT ![a] = j]
    BY <1>4 DEF Proceed
  <2>2. j.batch = Tail(b)
    BY DEF NoJob
  <2>3. EvidenceIn(b) \subseteq CaseEvidence[Head(b)] \cup EvidenceIn(Tail(b))
    BY <1>1, EvidenceOfTail
  <2> HIDE DEF j
  <2>4. InHand(u, "next", j)
    BY <1>2, <2>2, <2>3 DEF InHand, Rest
  <2>5. QED
    BY <2>1, <2>4, StepTidy
<1>5. QED
  BY <1>3, <1>4

LEMMA InsertCaseTidy ==
  ASSUME Undisturbed, StoreInv, NEW a \in Actor, pc[a] \in {"write", "next"},
         NEW t, Sane(t), Tidy(t), InHand(t, pc[a], job[a]),
         ~Present(t, Head(job[a].batch)), InsertCase(a, t, Head(job[a].batch))
  PROVE  TidyInv'
<1> DEFINE c == Head(job[a].batch)
           v == [t EXCEPT !.row[c] = Incoming(c)]
           u == LinkCase(v, c, c)
<1>1. c \in Case /\ t \in Tables
  BY HeadOfBatch DEF Sane
<1>2. Proceed(a, u)
  BY DEF InsertCase
<1> HIDE DEF c
<1>3. /\ v \in Tables /\ v.row[c] = Incoming(c) /\ v.link = t.link
      /\ v.detections = t.detections /\ \A x \in Case \ {c} : v.row[x] = t.row[x]
  BY <1>1, EvidenceOf, RowSet
<1> HIDE DEF v
<1>4. u.row = v.row /\ u.link = t.link \cup ({c} \X CaseEvidence[c])
  BY <1>1, <1>3, LinkCaseIs
<1>5. u.detections = t.detections
  BY <1>1, <1>3, LinkCaseIs
<1> HIDE DEF u
<1>6. Tidy(u)
  <2>1. Incoming(c).status = "open" /\ Incoming(c).recent /\ Incoming(c).key = CaseKey[c]
    BY DEF Incoming
  <2>2. QED
    BY <1>3, <1>4, <2>1 DEF Tidy, Present
<1>7. Linked(t) \cup CaseEvidence[c] \subseteq Linked(u)
  BY <1>1, <1>4, LinkedCase
<1>8. QED
  BY <1>2, <1>5, <1>6, <1>7, ProceedTidy DEF c

LEMMA MergeCaseTidy ==
  ASSUME Undisturbed, StoreInv, NEW a \in Actor, pc[a] \in {"write", "next"},
         NEW t, Sane(t), Tidy(t), InHand(t, pc[a], job[a]), NEW m \in Case, NEW old \in Row,
         MergeCase(a, t, m, old, Head(job[a].batch))
  PROVE  TidyInv'
<1> DEFINE c == Head(job[a].batch)
           new == Incoming(c)
           v == MergeRow(t, m, old, new)
           u == LinkCase(v, m, c)
<1>1. c \in Case /\ t \in Tables
  BY HeadOfBatch DEF Sane
<1>2. Proceed(a, u)
  BY DEF MergeCase
<1> HIDE DEF c
<1>3. new \in Row /\ new.recent
  BY <1>1, EvidenceOf DEF Incoming
<1> HIDE DEF new
<1>4. v \in Tables /\ v.link = t.link /\ v.detections = t.detections
  BY <1>3, MergeRowSane DEF Sane
<1>5. Tidy(v)
  <2>1. CASE ~Present(t, m)
    BY <2>1 DEF MergeRow
  <2>2. CASE Present(t, m)
    <3> DEFINE r == MergedRow(t.row[m], old, new)
    <3>1. v.row[m] = r /\ \A x \in Case \ {m} : v.row[x] = t.row[x]
      BY <1>1, <1>3, <2>2, MergedRowIs
    <3>2. t.row[m] \in Row
      BY <1>1 DEF Tables
    <3>3. /\ r.status = t.row[m].status /\ r.recent
          /\ r.key = IF t.row[m].key = Any THEN new.key ELSE t.row[m].key
      BY <1>3, <3>2 DEF MergedRow, Row
    <3> HIDE DEF r, v
    <3>4. r.status = "open" /\ (r.key = CaseKey[m] \/ CaseKey[m] = Any)
      BY <2>2, <3>3 DEF Tidy
    <3>5. QED
      BY <3>1, <3>3, <3>4 DEF Tidy, Present
  <2>3. QED
    BY <2>1, <2>2
<1> HIDE DEF v
<1>6. /\ u.row = v.row /\ u.link = t.link \cup ({m} \X CaseEvidence[c])
      /\ u.detections = t.detections
  BY <1>1, <1>4, LinkCaseIs
<1> HIDE DEF u
<1>7. Tidy(u)
  BY <1>5, <1>6, TidySame
<1>8. Linked(t) \cup CaseEvidence[c] \subseteq Linked(u)
  BY <1>1, <1>6, LinkedCase
<1>9. QED
  BY <1>2, <1>6, <1>7, <1>8, ProceedTidy DEF c

LEMMA WriteTidy ==
  ASSUME Undisturbed, StoreInv, TidyInv, NEW a \in Actor, WriteFirst(a) \/ WriteNext(a)
  PROVE  TidyInv'
<1> DEFINE c == Head(job[a].batch)
<1>1. InHand(draft, pc[a], job[a]) /\ (pc[a] # "next" => draft = db) /\ Tidy(draft)
  BY DEF TidyInv
<1>2. CASE WriteFirst(a)
  <2>1. pc[a] = "write" /\ draft = db /\ Sane(db) /\ InHand(db, pc[a], job[a]) /\ Tidy(db)
    BY <1>1, <1>2 DEF WriteFirst, StoreInv
  <2>2. CASE job[a].into = None /\ InsertCase(a, db, c)
    <3>1. ~Present(db, c)
      BY <2>1, <2>2 DEF InHand
    <3>2. QED
      BY <2>1, <2>2, <3>1, InsertCaseTidy
  <2>3. CASE job[a].into # None /\ MergeCase(a, db, job[a].into, job[a].old, c)
    <3>1. job[a].into \in Case /\ job[a].old \in Row
      BY <2>3 DEF StoreInv, TypeOK, Job
    <3>2. QED
      BY <2>1, <2>3, <3>1, MergeCaseTidy
  <2>4. QED
    BY <1>2, <2>2, <2>3 DEF WriteFirst
<1>3. CASE WriteNext(a)
  <2>1. pc[a] = "next" /\ Sane(draft) /\ c \in Case
    BY <1>3, HeadOfBatch DEF WriteNext, StoreInv
  <2>2. CASE MergeCandidates(draft, c) = {} /\ InsertCase(a, draft, c)
    <3>1. ~Present(draft, c)
      BY <1>1, <2>1, <2>2, TidyFound
    <3>2. QED
      BY <1>1, <2>1, <2>2, <3>1, InsertCaseTidy
  <2>3. ASSUME NEW m \in MergeCandidates(draft, c), MergeCase(a, draft, m, draft.row[m], c)
        PROVE  TidyInv'
    <3>1. m \in Case /\ draft.row[m] \in Row
      BY <2>1, <2>3 DEF MergeCandidates, Sane, Tables
    <3>2. QED
      BY <1>1, <2>1, <2>3, <3>1, MergeCaseTidy
  <2>4. QED
    BY <1>3, <2>2, <2>3 DEF WriteNext
<1>4. QED
  BY <1>2, <1>3

LEMMA ReportTidy ==
  ASSUME Undisturbed, StoreInv, TidyInv, NEW a \in Actor, NEW b \in Reported, Report(a, b)
  PROVE  TidyInv'
<1>1. PICK f : Commit([db EXCEPT !.opened = f])
  BY DEF Report, StoreInv, Sane, Tables
<1> DEFINE j == [NoJob EXCEPT !.batch = b]
           t == [db EXCEPT !.opened = f]
<1>2. pc[a] = "idle" /\ pc' = [pc EXCEPT ![a] = "detect"] /\ job' = [job EXCEPT ![a] = j]
  BY DEF Report, Start
<1>3. t.row = db.row /\ t.link = db.link /\ t.detections = db.detections
  BY DEF StoreInv, TypeOK, Tables
<1>4. draft = db /\ Tidy(db) /\ InHand(db, "idle", job[a])
  BY <1>2 DEF TidyInv
<1>5. db' = t /\ draft' = t
  BY <1>1 DEF Commit
<1> HIDE DEF t, j
<1>6. Tidy(t) /\ InHand(t, "detect", j)
  BY <1>3, <1>4, TidySame DEF InHand, Linked, Rest
<1>7. QED
  BY <1>2, <1>5, <1>6, StepTidy

LEMMA DetectTidy ==
  ASSUME Undisturbed, StoreInv, TidyInv, NEW a \in Actor, Detect(a)
  PROVE  TidyInv'
<1> DEFINE b == job[a].batch
           found == EvidenceIn(b)
           t == [db EXCEPT !.detections = db.detections \cup found]
           j == [job[a] EXCEPT !.batch = SubSeq(b, 1, Len(b))]
<1>1. pc[a] = "detect" /\ job[a] \in Job /\ b \in Batch /\ Len(b) > 0 /\ Len(b) \in Nat
  BY BatchIs DEF Detect, StoreInv, TypeOK, Job, JobsReady, JobReady
<1>2. db' = t /\ draft' = t
  <2>1. Commit([db EXCEPT !.detections = @ \cup found])
    BY Zenon DEF Detect, EvidenceIn
  <2> HIDE DEF found
  <2>2. [db EXCEPT !.detections = @ \cup found] = t
    BY DEF StoreInv, TypeOK, Tables
  <2>3. QED
    BY <2>1, <2>2 DEF Commit
<1>3. pc' = [pc EXCEPT ![a] = "find"] /\ job' = [job EXCEPT ![a] = j]
  <2>1. "rate_limit" \notin Happens
    BY DEF Undisturbed
  <2>2. Goto(a, "detect", "find") /\ job' = [job EXCEPT ![a].batch = SubSeq(b, 1, Len(b))]
    BY <1>1, <2>1 DEF Detect
  <2>3. QED
    BY <2>2 DEF Goto, StoreInv, TypeOK
<1> HIDE DEF found
<1>4. t.row = db.row /\ t.link = db.link /\ t.detections = db.detections \cup found
  BY DEF StoreInv, TypeOK, Tables
<1>5. draft = db /\ Tidy(db) /\ InHand(db, "detect", job[a])
  BY <1>1 DEF TidyInv
<1>6. j.batch = SubSeq(b, 1, Len(b))
  BY <1>1 DEF Job
<1>7. found \subseteq EvidenceIn(j.batch)
  <2>1. Len(b) \in 1..Len(b)
    BY <1>1
  <2>2. Len(j.batch) = Len(b) /\ \A i \in 1..Len(b) : j.batch[i] = b[i]
    BY <1>1, <1>6, <2>1, BatchCut
  <2>3. QED
    BY <2>2 DEF found, EvidenceIn
<1> HIDE DEF t, j
<1>8. Tidy(t) /\ InHand(t, "find", j)
  BY <1>4, <1>5, <1>7, TidySame DEF InHand, Linked, Rest
<1>9. QED
  BY <1>2, <1>3, <1>8, StepTidy

LEMMA FindTidy ==
  ASSUME Undisturbed, StoreInv, TidyInv, NEW a \in Actor, Find(a)
  PROVE  TidyInv'
<1> DEFINE b == job[a].batch
           c == Head(b)
<1>1. /\ pc[a] = "find" /\ pc' = [pc EXCEPT ![a] = "write"]
      /\ db' = db /\ draft' = draft /\ job[a] \in Job
  BY DEF Find, Goto, StoreInv, TypeOK
<1>2. draft = db /\ Tidy(db) /\ InHand(db, "find", job[a])
  BY <1>1 DEF TidyInv
<1>3. c \in Case
  <2>1. b \in Batch /\ Len(b) > 0
    BY <1>1 DEF StoreInv, TypeOK, Job, JobsReady, JobReady
  <2>2. QED
    BY <2>1, BatchTail
<1>4. ASSUME NEW j, j.batch = b, job' = [job EXCEPT ![a] = j],
             j.into = None => ~Present(db, c)
      PROVE  TidyInv'
  <2>1. InHand(db, "write", j)
    BY <1>2, <1>4 DEF InHand, Rest
  <2>2. QED
    BY <1>1, <1>2, <1>4, <2>1, StepTidy
<1>5. CASE MergeCandidates(db, c) = {} /\ UNCHANGED job
  <2>1. ~Present(db, c)
    BY <1>2, <1>3, <1>5, TidyFound
  <2>2. job' = [job EXCEPT ![a] = job[a]]
    BY <1>5 DEF StoreInv, TypeOK
  <2>3. QED
    BY <1>4, <2>1, <2>2
<1>6. ASSUME NEW m \in Case, job' = [job EXCEPT ![a].into = m, ![a].old = db.row[m]]
      PROVE  TidyInv'
  <2> DEFINE j == [job[a] EXCEPT !.into = m, !.old = db.row[m]]
  <2>1. job' = [job EXCEPT ![a] = j] /\ j.batch = b /\ j.into = m
    BY <1>1, <1>6 DEF StoreInv, TypeOK, Job
  <2>2. m # None
    BY CaseAssumption
  <2> HIDE DEF j
  <2>3. QED
    BY <1>4, <2>1, <2>2
<1>7. QED
  BY <1>5, <1>6 DEF Find, MergeCandidates

LEMMA OtherTidy ==
  ASSUME Undisturbed, StoreInv, TidyInv, NEW a \in Actor,
         (\E h \in Source : SeeHost(a, h)) \/ Purge(a)
  PROVE  TidyInv'
<1>1. pc[a] = "idle" /\ UNCHANGED <<pc, job>>
  BY DEF SeeHost, Purge
<1>2. draft = db /\ Tidy(db) /\ InHand(db, "idle", job[a]) /\ db \in Tables
  BY <1>1 DEF TidyInv, StoreInv, TypeOK
<1>3. ASSUME NEW t, Commit(t), t.row = db.row, t.link = db.link, t.detections \subseteq db.detections
      PROVE  TidyInv'
  <2>1. db' = t /\ draft' = t
    BY <1>3 DEF Commit
  <2>2. Tidy(t) /\ InHand(t, "idle", job[a])
    BY <1>2, <1>3, TidySame DEF InHand, Linked, Rest
  <2>3. pc' = [pc EXCEPT ![a] = "idle"] /\ job' = [job EXCEPT ![a] = job[a]]
    BY <1>1 DEF StoreInv, TypeOK
  <2>4. QED
    BY <2>1, <2>2, <2>3, StepTidy
<1>4. ASSUME NEW h \in Source, SeeHost(a, h)
      PROVE  TidyInv'
  <2>1. Commit([db EXCEPT !.opened[h] = 0])
    BY <1>4 DEF SeeHost
  <2>2. /\ [db EXCEPT !.opened[h] = 0].row = db.row /\ [db EXCEPT !.opened[h] = 0].link = db.link
        /\ [db EXCEPT !.opened[h] = 0].detections = db.detections
    BY <1>2 DEF Tables
  <2>3. QED
    BY <1>3, <2>1, <2>2
<1>5. CASE Purge(a)
  <2> DEFINE closed == {c \in Case : Present(db, c) /\ db.row[c].status # "open"
                                       /\ ~db.row[c].recent}
  <2>1. PICK D \in SUBSET db.detections, gone \in SUBSET closed :
          Commit([db EXCEPT !.detections = D,
                            !.row = [c \in Case |-> IF c \in gone THEN NoRow ELSE @[c]],
                            !.link = {l \in @ : l[1] \notin gone}])
    BY <1>5 DEF Purge
  <2> DEFINE t == [db EXCEPT !.detections = D,
                             !.row = [c \in Case |-> IF c \in gone THEN NoRow ELSE @[c]],
                             !.link = {l \in @ : l[1] \notin gone}]
  <2>2. gone = {}
    <3>1. closed = {}
      BY <1>2 DEF Tidy
    <3>2. QED
      BY <3>1
  <2>3. /\ t.row = [c \in Case |-> IF c \in gone THEN NoRow ELSE db.row[c]]
        /\ t.link = {l \in db.link : l[1] \notin gone} /\ t.detections = D
    BY <1>2 DEF Tables
  <2> HIDE DEF t
  <2>4. t.row = db.row /\ t.link = db.link
    BY <1>2, <2>2, <2>3 DEF Tables
  <2>5. QED
    BY <1>3, <2>1, <2>3, <2>4 DEF t
<1>6. QED
  BY <1>4, <1>5

LEMMA ResetTidy ==
  ASSUME Undisturbed, StoreInv, TidyInv, Reset
  PROVE  TidyInv'
<1>1. db' = Empty /\ draft' = Empty /\ UNCHANGED <<pc, job>> /\ \A a \in Actor : pc[a] = "idle"
  BY DEF Reset, Commit
<1>2. Tidy(Empty) /\ \A j : InHand(Empty, "idle", j)
  BY DEF Tidy, InHand, Empty, NoRow, Present
<1>3. QED
  BY <1>1, <1>2 DEF TidyInv, Tidy, Present, InHand, Linked, Rest

LEMMA NextTidy == Undisturbed /\ StoreInv /\ TidyInv /\ [Next]_vars => TidyInv'
<1> SUFFICES ASSUME Undisturbed, StoreInv, TidyInv, [Next]_vars
             PROVE  TidyInv'
  OBVIOUS
<1>1. Happens \cap {"time", "status", "delete", "merge", "rate_limit", "crash"} = {}
  BY DEF Undisturbed
<1>2. ASSUME NEW a \in Actor, Begin(a)
      PROVE  TidyInv'
  <2>1. \A c, s : ~StartMerge(a, c, s) /\ ~UpdateStatus(a, c, s) /\ ~DeleteCase(a, c)
    BY <1>1 DEF StartMerge, UpdateStatus, DeleteCase
  <2>2. QED
    BY <1>2, <2>1, ReportTidy, OtherTidy DEF Begin
<1>3. ASSUME NEW a \in Actor, Continue(a)
      PROVE  TidyInv'
  <2>1. ~MergeIncidents(a)
    <3>1. pc[a] # "merge"
      BY DEF TidyInv
    <3>2. QED
      BY <3>1 DEF MergeIncidents
  <2>2. QED
    BY <1>3, <2>1, DetectTidy, FindTidy, WriteTidy DEF Continue
<1>4. ASSUME Environment
      PROVE  TidyInv'
  <2>1. \A c, a : ~GrowOld(c) /\ ~Crash(a)
    BY <1>1 DEF GrowOld, Crash
  <2>2. QED
    BY <1>4, <2>1, ResetTidy DEF Environment
<1>5. CASE UNCHANGED vars
  BY <1>5 DEF vars, TidyInv, Tidy, Present, InHand, Linked, Rest
<1>6. QED
  BY <1>2, <1>3, <1>4, <1>5 DEF Next

(* Cases are lost, as run CasesCollide shows, because rows are closed, grow  *)
(* old, are merged or deleted, because lists are cut, or because a process   *)
(* dies or another one writes: otherwise, and with any resets and purges,    *)
(* every detection that is stored belongs to a case after each poll.         *)
THEOREM DetectionsKept == ASSUME Undisturbed PROVE Spec => []DetectionsHaveCases
<1>1. Init => StoreInv /\ TidyInv
  <2>1. Init => TidyInv
    BY DEF Init, TidyInv, Tidy, InHand, Empty, NoRow, Present
  <2>2. QED
    BY <2>1, InitInv
<1>2. StoreInv /\ TidyInv /\ [Next]_vars => (StoreInv /\ TidyInv)'
  BY NextInv, NextTidy
<1>3. StoreInv /\ TidyInv => DetectionsHaveCases
  <2> SUFFICES ASSUME StoreInv, TidyInv, Quiescent, NEW d \in db.detections
               PROVE  \E c \in Case : <<c, d>> \in db.link
    BY DEF DetectionsHaveCases
  <2>1. PICK a : Actor = {a}
    BY DEF Undisturbed
  <2>2. pc[a] = "idle" /\ draft = db /\ InHand(db, "idle", job[a])
    BY <2>1 DEF Quiescent, TidyInv
  <2>3. QED
    BY <2>2 DEF InHand, Linked, Rest
<1>4. QED
  BY <1>1, <1>2, <1>3, PTL DEF Spec
=============================================================================
