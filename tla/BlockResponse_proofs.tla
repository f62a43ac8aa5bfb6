------------------------ MODULE BlockResponse_proofs ------------------------
(* Theorems about BlockResponse, for every number of processes, entries,   *)
(* addresses and cases, and every combination of disturbances.             *)
EXTENDS BlockResponse, FiniteSetTheorems, TLAPS

-----------------------------------------------------------------------------
(* Type correctness. *)

LEMMA NoJobType == NoJob \in Job
  BY DEF NoJob, Job

LEMMA NoRowType == NoRow \in Row
  BY DEF NoRow, Row, Status

HostStatus == {"missing", "none", "proposed", "active"}

(* Whatever table it reads, _current_host_block_status answers with a        *)
(* status that the host row can hold, and the refresh keeps the rows typed.  *)
LEMMA RefreshType ==
  ASSUME NEW S, NEW tbl, host \in [Source -> HostStatus], RefreshHosts(S, tbl)
  PROVE  host' \in [Source -> HostStatus]
<1>1. \A s \in Source : HostBlockStatus(tbl, s) \in HostStatus
  BY DEF HostBlockStatus, HostStatus
<1>2. QED
  BY <1>1 DEF RefreshHosts, HostStatus

LEMMA UpdateBlockStatusType ==
  ASSUME TypeOK, NEW b \in Bid \cup {None}, b \in Bid \/ ~Exists(b),
         NEW new \in Status, UpdateBlockStatus(b, new)
  PROVE  /\ block' \in [Bid -> Row]
         /\ host' \in [Source -> HostStatus]
<1>0. host \in [Source -> HostStatus] /\ block \in [Bid -> Row]
  BY DEF TypeOK, HostStatus
<1>1. CASE Exists(b)
  <2>1. /\ block' = [block EXCEPT ![b].status = new]
        /\ RefreshHosts({block[b].source}, block')
    BY <1>1 DEF UpdateBlockStatus
  <2>2. block' \in [Bid -> Row]
    BY <1>0, <1>1, <2>1 DEF Row
  <2>3. QED
    BY <1>0, <2>1, <2>2, RefreshType
<1>2. CASE ~Exists(b)
  BY <1>0, <1>2 DEF UpdateBlockStatus
<1>3. QED
  BY <1>1, <1>2

-----------------------------------------------------------------------------
(* The inductive invariant of type correctness and protection.  A handler    *)
(* that may still touch an entry knows a real one, and one that may still    *)
(* hand an address to an entry or to PF knows one that is not protected.     *)

JobSafe(step, j) ==
  /\ step \in ActivateSteps \cup {"r_update"} => j.blk \in Bid
  /\ step \in ProposeSteps \cup (ActivateSteps \ {"a_get"})
       => j.src \in Source \ Protected

JobsSafe == \A a \in Actor : JobSafe(pc[a], job[a])

EntriesSafe == \A b \in Bid : Exists(b) => block[b].source \in Source \ Protected

Safe == TypeOK /\ JobsSafe /\ EntriesSafe /\ ProtectedNeverBlocked

(* A process that moves on to a step with locals fit for it stays safe. *)
LEMMA MoveSafe ==
  ASSUME Safe, NEW a \in Actor, NEW step \in Steps, NEW j \in Job, JobSafe(step, j),
         pc' = [pc EXCEPT ![a] = step], job' = [job EXCEPT ![a] = j]
  PROVE  pc' \in [Actor -> Steps] /\ job' \in [Actor -> Job] /\ JobsSafe'
  BY DEF Safe, TypeOK, JobsSafe, JobSafe

LEMMA ReturnSafe ==
  ASSUME Safe, NEW a \in Actor, Return(a)
  PROVE  pc' \in [Actor -> Steps] /\ job' \in [Actor -> Job] /\ JobsSafe'
<1>1. JobSafe("idle", NoJob) /\ "idle" \in Steps
  BY DEF JobSafe, Steps, ActivateSteps, ProposeSteps
<1>2. QED
  BY <1>1, NoJobType, MoveSafe DEF Return

(* A step of the control flow alone: the store and PF are as they were. *)
LEMMA ControlSafe ==
  ASSUME Safe, pc' \in [Actor -> Steps], job' \in [Actor -> Job], JobsSafe',
         UNCHANGED <<store, pf>>
  PROVE  Safe'
  BY DEF Safe, TypeOK, EntriesSafe, Exists, ProtectedNeverBlocked, store

(* The beginning of a handler, and the steps that only read the store. *)
LEMMA StartSafe ==
  ASSUME Safe, NEW a \in Actor, NEW step \in Steps, NEW j \in Job, JobSafe(step, j),
         Start(a, step, j)
  PROVE  pc' \in [Actor -> Steps] /\ job' \in [Actor -> Job] /\ JobsSafe'
  BY MoveSafe DEF Start

LEMMA GotoSafe ==
  ASSUME Safe, NEW a \in Actor, NEW from, NEW to \in Steps, Goto(a, from, to),
         JobSafe(from, job[a]) => JobSafe(to, job[a]), UNCHANGED job
  PROVE  pc' \in [Actor -> Steps] /\ job' \in [Actor -> Job] /\ JobsSafe'
<1>1. JobSafe(to, job[a])
  BY DEF Safe, JobsSafe, Goto
<1>2. job' = [job EXCEPT ![a] = job[a]] /\ job[a] \in Job
  BY DEF Safe, TypeOK
<1>3. QED
  BY <1>1, <1>2, MoveSafe DEF Goto

LEMMA BeginSafe ==
  ASSUME Safe, NEW a \in Actor, Begin(a)
  PROVE  Safe'
<1> USE DEF Steps, ProposeSteps, ActivateSteps, RemoveSteps, ExpireSteps
<1>1. ASSUME NEW i \in Incident, NEW auto \in BOOLEAN, ProposeForIncident(a, i, auto)
      PROVE  Safe'
  <2> DEFINE j == [NoJob EXCEPT !.src = Target[i], !.inc = i, !.auto = auto]
  <2>1. j \in Job /\ JobSafe("p_allow", j) /\ Start(a, "p_allow", j)
    BY <1>1, ResponseAssumption DEF ProposeForIncident, Job, NoJob, JobSafe
  <2>2. QED
    BY <1>1, <2>1, StartSafe, ControlSafe DEF ProposeForIncident
<1>2. ASSUME NEW s \in Source, ProposeManual(a, s)
      PROVE  Safe'
  <2> DEFINE j == [NoJob EXCEPT !.src = s]
  <2>1. j \in Job /\ JobSafe("p_allow", j) /\ Start(a, "p_allow", j)
    BY <1>2 DEF ProposeManual, Job, NoJob, JobSafe
  <2>2. QED
    BY <1>2, <2>1, StartSafe, ControlSafe DEF ProposeManual
<1>3. ASSUME NEW b \in Bid, StartActivate(a, b)
      PROVE  Safe'
  <2> DEFINE j == [NoJob EXCEPT !.blk = b]
  <2>1. j \in Job /\ JobSafe("a_get", j) /\ Start(a, "a_get", j)
    BY <1>3 DEF StartActivate, Job, NoJob, JobSafe
  <2>2. QED
    BY <1>3, <2>1, StartSafe, ControlSafe DEF StartActivate
<1>4. ASSUME NEW b \in Bid, StartRemove(a, b)
      PROVE  Safe'
  <2> DEFINE j == [NoJob EXCEPT !.todo = {b}]
  <2>1. j \in Job /\ JobSafe("r_get", j) /\ Start(a, "r_get", j)
    BY <1>4 DEF StartRemove, Job, NoJob, JobSafe
  <2>2. QED
    BY <1>4, <2>1, StartSafe, ControlSafe DEF StartRemove
<1>5. ASSUME NEW i \in Incident, StartRelease(a, i)
      PROVE  Safe'
  <2> DEFINE j == [NoJob EXCEPT !.todo = {b \in Bid : Current(b) /\ block[b].incident = i}]
  <2>1. j \in Job /\ JobSafe("r_get", j) /\ Start(a, "r_get", j)
    BY <1>5 DEF StartRelease, Job, NoJob, JobSafe
  <2>2. QED
    BY <1>5, <2>1, StartSafe, ControlSafe DEF StartRelease
<1>6. ASSUME StartExpire(a)
      PROVE  Safe'
  <2> DEFINE j == [NoJob EXCEPT !.srcs = ExpiredActiveBlockSources]
  <2>1. ExpiredActiveBlockSources \subseteq Source
    BY DEF ExpiredActiveBlockSources, Safe, EntriesSafe, Exists
  <2>2. j \in Job /\ JobSafe("x_select", j) /\ Start(a, "x_select", j)
    BY <1>6, <2>1 DEF StartExpire, Job, NoJob, JobSafe
  <2>3. QED
    BY <1>6, <2>2, StartSafe, ControlSafe DEF StartExpire
<1>7. ASSUME NEW i \in Incident, StartDelete(a, i)
      PROVE  Safe'
  <2> DEFINE j == [NoJob EXCEPT !.inc = i]
  <2>1. j \in Job /\ JobSafe("d_delete", j) /\ Start(a, "d_delete", j)
    BY <1>7 DEF StartDelete, Job, NoJob, JobSafe
  <2>2. QED
    BY <1>7, <2>1, StartSafe, ControlSafe DEF StartDelete
<1>8. ASSUME StartReset(a)
      PROVE  Safe'
  <2> DEFINE j == [NoJob EXCEPT !.srcs = pf]
  <2>1. j \in Job /\ JobSafe("z_delete", j) /\ Start(a, "z_delete", j)
    BY <1>8 DEF StartReset, Job, NoJob, JobSafe, Safe, TypeOK
  <2>2. pc' \in [Actor -> Steps] /\ job' \in [Actor -> Job] /\ JobsSafe'
    BY <2>1, StartSafe
  <2>3. pf' \subseteq pf /\ UNCHANGED store
    BY <1>8 DEF StartReset
  <2>4. QED
    BY <2>2, <2>3 DEF Safe, TypeOK, EntriesSafe, Exists, ProtectedNeverBlocked, store
<1>9. ASSUME NEW s \in Source, EditAllowlist(a, s)
      PROVE  Safe'
  BY <1>9 DEF EditAllowlist, Safe, TypeOK, JobsSafe, JobSafe, EntriesSafe, Exists,
              ProtectedNeverBlocked
<1>10. CASE Purge(a)
  BY <1>10 DEF Purge, Safe, TypeOK, JobsSafe, JobSafe, EntriesSafe, Exists,
               ProtectedNeverBlocked
<1>11. QED
  BY <1>1, <1>2, <1>3, <1>4, <1>5, <1>6, <1>7, <1>8, <1>9, <1>10 DEF Begin

(* A proposal handed back carries the entry it names and keeps its source. *)
LEMMA ProposedSafe ==
  ASSUME Safe, NEW a \in Actor, NEW b \in Bid, NEW st, pc[a] \in ProposeSteps,
         Proposed(a, b, st)
  PROVE  pc' \in [Actor -> Steps] /\ job' \in [Actor -> Job] /\ JobsSafe'
<1>1. CASE Return(a)
  BY <1>1, ReturnSafe
<1>2. CASE /\ pc' = [pc EXCEPT ![a] = "a_get"]
           /\ job' = [job EXCEPT ![a].blk = b]
  <2> DEFINE j == [job[a] EXCEPT !.blk = b]
  <2>1. j \in Job /\ job' = [job EXCEPT ![a] = j]
    BY <1>2 DEF Safe, TypeOK, Job
  <2>2. JobSafe("a_get", j) /\ "a_get" \in Steps
    BY DEF Safe, TypeOK, Job, JobSafe, Steps, ActivateSteps, ProposeSteps
  <2>3. QED
    BY <1>2, <2>1, <2>2, MoveSafe
<1>3. QED
  BY <1>1, <1>2 DEF Proposed

LEMMA ProposeSafe ==
  ASSUME Safe, NEW a \in Actor,
         \/ ProposeDenied(a) \/ ProposeCheckAllow(a)
         \/ ProposeFindCase(a) \/ ProposeFindSource(a) \/ ProposeInsert(a)
  PROVE  Safe'
<1> USE DEF ProposeSteps
<1>1. CASE ProposeDenied(a)
  BY <1>1, ReturnSafe, ControlSafe DEF ProposeDenied
<1>2. CASE ProposeCheckAllow(a)
  <2>1. \A to \in {"p_source", "p_case"} :
          to \in Steps /\ (JobSafe("p_allow", job[a]) => JobSafe(to, job[a]))
    BY DEF Steps, JobSafe, ActivateSteps
  <2>2. QED
    BY <1>2, <2>1, GotoSafe, ControlSafe DEF ProposeCheckAllow
<1>3. CASE ProposeFindCase(a)
  <2>1. "p_source" \in Steps /\ (JobSafe("p_case", job[a]) => JobSafe("p_source", job[a]))
    BY DEF Steps, JobSafe, ActivateSteps
  <2>2. CASE Goto(a, "p_case", "p_source") /\ UNCHANGED job
    BY <1>3, <2>1, <2>2, GotoSafe, ControlSafe DEF ProposeFindCase
  <2>3. ASSUME NEW b \in Bid, Proposed(a, b, block[b].status)
        PROVE  Safe'
    BY <1>3, <2>3, ProposedSafe, ControlSafe DEF ProposeFindCase
  <2>4. QED
    BY <1>3, <2>2, <2>3 DEF ProposeFindCase, IsLatest
<1>4. CASE ProposeFindSource(a)
  <2>1. "p_insert" \in Steps /\ (JobSafe("p_source", job[a]) => JobSafe("p_insert", job[a]))
    BY DEF Steps, JobSafe, ActivateSteps
  <2>2. CASE Goto(a, "p_source", "p_insert") /\ UNCHANGED job
    BY <1>4, <2>1, <2>2, GotoSafe, ControlSafe DEF ProposeFindSource
  <2>3. ASSUME NEW b \in Bid, Proposed(a, b, block[b].status)
        PROVE  Safe'
    BY <1>4, <2>3, ProposedSafe, ControlSafe DEF ProposeFindSource
  <2>4. QED
    BY <1>4, <2>2, <2>3 DEF ProposeFindSource, IsLatest
<1>5. CASE ProposeInsert(a)
  <2> DEFINE row == [status |-> "proposed", source |-> job[a].src,
                     incident |-> job[a].inc, live |-> TRUE]
  <2>1. PICK b \in Bid :
          /\ block' = [block EXCEPT ![b] = row]
          /\ host' = [host EXCEPT ![job[a].src] = IF @ = "missing" THEN @ ELSE "proposed"]
          /\ Proposed(a, b, "proposed")
    BY <1>5 DEF ProposeInsert
  <2>2. pc[a] \in ProposeSteps /\ UNCHANGED <<allow, incidents, aged, pf>>
    BY <1>5 DEF ProposeInsert
  <2>3. job[a] \in Job /\ job[a].src \in Source \ Protected
    BY <2>2 DEF Safe, TypeOK, JobsSafe, JobSafe
  <2>4. row \in Row /\ row.source \in Source \ Protected
    BY <2>3 DEF Row, Job, Status
  <2>5. pc' \in [Actor -> Steps] /\ job' \in [Actor -> Job] /\ JobsSafe'
    BY <2>1, <2>2, ProposedSafe
  <2>6. block' \in [Bid -> Row] /\ host' \in [Source -> HostStatus]
    BY <2>1, <2>3, <2>4 DEF Safe, TypeOK, HostStatus
  <2>7. EntriesSafe' /\ \A c \in Bid : block'[c].source \notin Protected
    BY <2>1, <2>4 DEF Safe, TypeOK, EntriesSafe, Exists, ProtectedNeverBlocked
  <2>8. QED
    BY <2>2, <2>5, <2>6, <2>7 DEF Safe, TypeOK, HostStatus, ProtectedNeverBlocked
<1>6. QED
  BY <1>1, <1>2, <1>3, <1>4, <1>5

(* A change of an entry's status leaves its source as it was. *)
LEMMA UpdateSafe ==
  ASSUME Safe, NEW b \in Bid, NEW new \in Status, UpdateBlockStatus(b, new),
         pc' \in [Actor -> Steps], job' \in [Actor -> Job], JobsSafe',
         UNCHANGED <<allow, incidents, aged, pf>>
  PROVE  Safe'
<1>1. block' \in [Bid -> Row] /\ host' \in [Source -> HostStatus]
  BY UpdateBlockStatusType DEF Safe
<1>2. \A c \in Bid : /\ block'[c].source = block[c].source
                     /\ Exists(c)' => Exists(c)
  BY DEF UpdateBlockStatus, Exists, Safe, TypeOK, Row
<1>3. QED
  BY <1>1, <1>2 DEF Safe, TypeOK, HostStatus, EntriesSafe, ProtectedNeverBlocked

LEMMA ActivateSafe ==
  ASSUME Safe, NEW a \in Actor,
         \/ ActivateGet(a) \/ ActivateCheckAllow(a) \/ ActivateCount(a)
         \/ ActivateAdd(a) \/ ActivateUpdate(a)
  PROVE  Safe'
<1> USE DEF ActivateSteps
<1>0. \A from, to \in ActivateSteps \ {"a_get"} :
        to \in Steps /\ (JobSafe(from, job[a]) => JobSafe(to, job[a]))
  BY DEF Steps, JobSafe
<1>1. CASE ActivateGet(a)
  <2>1. CASE Return(a)
    BY <1>1, <2>1, ReturnSafe, ControlSafe DEF ActivateGet
  <2>2. CASE ~Return(a)
    <3> DEFINE b == job[a].blk
               j == [job[a] EXCEPT !.src = block[b].source]
    <3>1. /\ pc[a] = "a_get" /\ Exists(b) /\ Goto(a, "a_get", "a_allow")
          /\ job' = [job EXCEPT ![a] = j] /\ UNCHANGED <<store, pf>>
      BY <1>1, <2>2 DEF ActivateGet
    <3>2. b \in Bid /\ block[b].source \in Source \ Protected
      BY <3>1 DEF Safe, JobsSafe, JobSafe, EntriesSafe
    <3>3. j \in Job /\ JobSafe("a_allow", j) /\ "a_allow" \in Steps
      BY <3>2 DEF Safe, TypeOK, Job, JobSafe, Steps
    <3>4. QED
      BY <3>1, <3>3, MoveSafe, ControlSafe DEF Goto
  <2>3. QED
    BY <2>1, <2>2
<1>2. CASE ActivateCheckAllow(a)
  BY <1>0, <1>2, ReturnSafe, GotoSafe, ControlSafe DEF ActivateCheckAllow
<1>3. CASE ActivateCount(a)
  BY <1>0, <1>3, ReturnSafe, GotoSafe, ControlSafe DEF ActivateCount
<1>4. CASE ActivateAdd(a)
  <2>1. pc' \in [Actor -> Steps] /\ job' \in [Actor -> Job] /\ JobsSafe'
    BY <1>0, <1>4, ReturnSafe, GotoSafe DEF ActivateAdd
  <2>2. job[a].src \in Source \ Protected
    BY <1>4 DEF ActivateAdd, Safe, JobsSafe, JobSafe
  <2>3. pf' \subseteq pf \cup {job[a].src} /\ UNCHANGED store
    BY <1>4 DEF ActivateAdd
  <2>4. QED
    BY <2>1, <2>2, <2>3 DEF Safe, TypeOK, EntriesSafe, Exists, ProtectedNeverBlocked, store
<1>5. CASE ActivateUpdate(a)
  <2>1. job[a].blk \in Bid /\ "active" \in Status
    BY <1>5 DEF ActivateUpdate, Safe, JobsSafe, JobSafe, Status
  <2>2. QED
    BY <1>5, <2>1, ReturnSafe, UpdateSafe DEF ActivateUpdate
<1>6. QED
  BY <1>1, <1>2, <1>3, <1>4, <1>5

LEMMA RemoveSafe ==
  ASSUME Safe, NEW a \in Actor,
         \/ RemoveGet(a) \/ RemoveUpdate(a) \/ RemoveCheck(a) \/ RemoveDelete(a)
  PROVE  Safe'
<1> USE DEF RemoveSteps
<1>0. \A to \in {"r_get", "r_check", "r_delete"} : to \in Steps /\ JobSafe(to, job[a])
  BY DEF Steps, JobSafe, ActivateSteps, ProposeSteps
<1>1. ASSUME RemoveNext(a)
      PROVE  pc' \in [Actor -> Steps] /\ job' \in [Actor -> Job] /\ JobsSafe'
  <2>1. (job' = [job EXCEPT ![a] = job[a]] /\ job[a] \in Job) \/ Return(a)
    BY <1>1 DEF RemoveNext, Safe, TypeOK
  <2>2. QED
    BY <1>0, <1>1, <2>1, ReturnSafe, MoveSafe DEF RemoveNext
<1>2. CASE RemoveGet(a)
  <2>1. PICK b \in Bid :
          IF Exists(b)
            THEN /\ Goto(a, "r_get", "r_update")
                 /\ job' = [job EXCEPT ![a].blk = b, ![a].src = block[b].source,
                                       ![a].todo = @ \ {b}]
            ELSE Return(a)
    BY <1>2 DEF RemoveGet, Safe, TypeOK, Job
  <2>2. CASE Exists(b)
    <3> DEFINE j == [job[a] EXCEPT !.blk = b, !.src = block[b].source, !.todo = @ \ {b}]
    <3>1. j \in Job /\ JobSafe("r_update", j) /\ "r_update" \in Steps
      BY DEF Safe, TypeOK, Job, Row, JobSafe, Steps, ActivateSteps, ProposeSteps
    <3>2. job' = [job EXCEPT ![a] = j] /\ pc' = [pc EXCEPT ![a] = "r_update"]
      BY <2>1, <2>2 DEF Goto, Safe, TypeOK
    <3>3. QED
      BY <1>2, <3>1, <3>2, MoveSafe, ControlSafe DEF RemoveGet
  <2>3. CASE ~Exists(b)
    BY <1>2, <2>1, <2>3, ReturnSafe, ControlSafe DEF RemoveGet
  <2>4. QED
    BY <2>2, <2>3
<1>3. CASE RemoveUpdate(a)
  <2>1. job[a].blk \in Bid /\ "removed" \in Status
    BY <1>3 DEF RemoveUpdate, Goto, Safe, JobsSafe, JobSafe, Status
  <2>2. QED
    BY <1>0, <1>3, <2>1, GotoSafe, UpdateSafe DEF RemoveUpdate
<1>4. CASE RemoveCheck(a)
  BY <1>0, <1>1, <1>4, GotoSafe, ControlSafe DEF RemoveCheck
<1>5. CASE RemoveDelete(a)
  <2>1. pc' \in [Actor -> Steps] /\ job' \in [Actor -> Job] /\ JobsSafe'
    BY <1>1, <1>5, ReturnSafe DEF RemoveDelete
  <2>2. pf' \subseteq pf /\ UNCHANGED store
    BY <1>5 DEF RemoveDelete
  <2>3. QED
    BY <2>1, <2>2 DEF Safe, TypeOK, EntriesSafe, Exists, ProtectedNeverBlocked, store
<1>6. QED
  BY <1>2, <1>3, <1>4, <1>5

LEMMA ExpireSafe ==
  ASSUME Safe, NEW a \in Actor,
         \/ ExpireSelect(a) \/ ExpireUpdate(a) \/ ExpireDone(a)
         \/ (\E s \in Source : ExpireCheck(a, s)) \/ ExpireDelete(a)
  PROVE  Safe'
<1> USE DEF ExpireSteps
<1>0. \A to \in ExpireSteps, j \in Job : to \in Steps /\ JobSafe(to, j)
  BY DEF Steps, JobSafe, ActivateSteps, ProposeSteps
<1>1. ASSUME NEW to \in ExpireSteps, NEW j \in Job, pc' = [pc EXCEPT ![a] = to],
             job' = [job EXCEPT ![a] = j]
      PROVE  pc' \in [Actor -> Steps] /\ job' \in [Actor -> Job] /\ JobsSafe'
  BY <1>0, <1>1, MoveSafe
<1>2. job \in [Actor -> Job] /\ pc \in [Actor -> Steps]
  BY DEF Safe, TypeOK
<1>3. CASE ExpireSelect(a)
  <2> DEFINE j == [job[a] EXCEPT !.todo =
       {b \in Bid : block[b].status \in {"proposed", "active"} /\ ~block[b].live}]
  <2>1. j \in Job
    BY <1>2 DEF Job
  <2>2. job' = [job EXCEPT ![a] = j] /\ pc' = [pc EXCEPT ![a] = "x_update"]
    BY <1>2, <1>3 DEF ExpireSelect, Goto
  <2>3. QED
    BY <1>1, <1>3, <2>1, <2>2, ControlSafe DEF ExpireSelect
<1>4. CASE ExpireUpdate(a)
  <2> DEFINE gone == {b \in job[a].todo : Exists(b)}
             j == [job[a] EXCEPT !.todo = {}]
  <2>1. j \in Job
    BY <1>2 DEF Job
  <2>2. job' = [job EXCEPT ![a] = j] /\ pc' = [pc EXCEPT ![a] = "x_check"]
    BY <1>2, <1>4 DEF ExpireUpdate, Goto
  <2>3. /\ block' = [b \in Bid |-> IF b \in gone
                        THEN [block[b] EXCEPT !.status = "expired"] ELSE block[b]]
        /\ RefreshHosts({block[b].source : b \in gone}, block')
        /\ UNCHANGED <<allow, incidents, aged, pf>>
    BY <1>4 DEF ExpireUpdate
  <2>4. block \in [Bid -> Row] /\ host \in [Source -> HostStatus]
    BY DEF Safe, TypeOK, HostStatus
  <2>5. block' \in [Bid -> Row] /\ \A b \in Bid : block'[b].source = block[b].source
    BY <2>3, <2>4 DEF Row, Status
  <2>6. host' \in [Source -> HostStatus]
    BY <2>3, <2>4, RefreshType
  <2>7. \A b \in Bid : Exists(b)' => Exists(b)
    BY <2>3 DEF Exists
  <2>8. pc' \in [Actor -> Steps] /\ job' \in [Actor -> Job] /\ JobsSafe'
    BY <1>1, <2>1, <2>2
  <2>9. QED
    BY <2>3, <2>5, <2>6, <2>7, <2>8
       DEF Safe, TypeOK, HostStatus, EntriesSafe, ProtectedNeverBlocked
<1>5. CASE ExpireDone(a)
  BY <1>5, ReturnSafe, ControlSafe DEF ExpireDone
<1>6. ASSUME NEW s \in Source, ExpireCheck(a, s)
      PROVE  Safe'
  <2> DEFINE done == [job[a] EXCEPT !.srcs = @ \ {s}]
             next == [job[a] EXCEPT !.src = s]
  <2>1. done \in Job /\ next \in Job
    BY <1>2 DEF Job
  <2>2. \/ job' = [job EXCEPT ![a] = done] /\ pc' = [pc EXCEPT ![a] = "x_check"]
        \/ job' = [job EXCEPT ![a] = next] /\ pc' = [pc EXCEPT ![a] = "x_delete"]
    BY <1>2, <1>6 DEF ExpireCheck, Goto
  <2>3. QED
    BY <1>1, <1>6, <2>1, <2>2, ControlSafe DEF ExpireCheck
<1>7. CASE ExpireDelete(a)
  <2> DEFINE j == [job[a] EXCEPT !.srcs = @ \ {job[a].src}, !.src = None]
  <2>1. j \in Job
    BY <1>2 DEF Job
  <2>2. \/ job' = [job EXCEPT ![a] = j] /\ pc' = [pc EXCEPT ![a] = "x_check"]
        \/ Return(a)
    BY <1>2, <1>7 DEF ExpireDelete, Goto
  <2>3. pc' \in [Actor -> Steps] /\ job' \in [Actor -> Job] /\ JobsSafe'
    BY <1>1, <2>1, <2>2, ReturnSafe
  <2>4. pf' \subseteq pf /\ UNCHANGED store
    BY <1>7 DEF ExpireDelete
  <2>5. QED
    BY <2>3, <2>4 DEF Safe, TypeOK, EntriesSafe, Exists, ProtectedNeverBlocked, store
<1>8. QED
  BY <1>3, <1>4, <1>5, <1>6, <1>7

LEMMA EnvironmentSafe ==
  ASSUME Safe, Environment
  PROVE  Safe'
<1>1. ASSUME NEW i \in Incident, OpenIncident(i) \/ AgeIncident(i)
      PROVE  Safe'
  BY <1>1 DEF OpenIncident, AgeIncident, Safe, TypeOK, JobsSafe, JobSafe, EntriesSafe, Exists,
              ProtectedNeverBlocked
<1>2. ASSUME NEW s \in Source, SeeHost(s)
      PROVE  Safe'
  BY <1>2 DEF SeeHost, Safe, TypeOK, JobsSafe, JobSafe, EntriesSafe, Exists,
              ProtectedNeverBlocked
<1>3. ASSUME NEW b \in Bid, Lapse(b)
      PROVE  Safe'
  <2>1. /\ block' \in [Bid -> Row]
        /\ \A c \in Bid : /\ block'[c].source = block[c].source
                          /\ block'[c].status = block[c].status
    BY <1>3 DEF Lapse, Safe, TypeOK, Row
  <2>2. QED
    BY <1>3, <2>1 DEF Lapse, Safe, TypeOK, JobsSafe, JobSafe, EntriesSafe, Exists,
                      ProtectedNeverBlocked
<1>4. ASSUME NEW a \in Actor, Crash(a)
      PROVE  Safe'
  BY <1>4, ReturnSafe, ControlSafe DEF Crash
<1>5. CASE Reboot
  <2>1. /\ pc' \in [Actor -> Steps] /\ job' \in [Actor -> Job] /\ JobsSafe'
    BY <1>5, NoJobType DEF Reboot, JobsSafe, JobSafe, Steps, ActivateSteps, ProposeSteps
  <2>2. pf' \subseteq pf /\ UNCHANGED store
    BY <1>5 DEF Reboot
  <2>3. QED
    BY <2>1, <2>2 DEF Safe, TypeOK, EntriesSafe, Exists, ProtectedNeverBlocked, store
<1>6. QED
  BY <1>1, <1>2, <1>3, <1>4, <1>5 DEF Environment

LEMMA ContinueSafe ==
  ASSUME Safe, NEW a \in Actor, Continue(a)
  PROVE  Safe'
<1>1. CASE DeleteIncident(a)
  <2>1. pc' \in [Actor -> Steps] /\ job' \in [Actor -> Job] /\ JobsSafe'
    BY <1>1, ReturnSafe DEF DeleteIncident
  <2>2. QED
    BY <1>1, <2>1 DEF DeleteIncident, Safe, TypeOK, EntriesSafe, Exists,
                      ProtectedNeverBlocked
<1>2. CASE ResetDelete(a)
  <2>1. pc' \in [Actor -> Steps] /\ job' \in [Actor -> Job] /\ JobsSafe'
    BY <1>2, ReturnSafe DEF ResetDelete
  <2>2. /\ block' \in [Bid -> Row]
        /\ \A b \in Bid : block'[b].source = block[b].source /\ ~Exists(b)'
    BY <1>2 DEF ResetDelete, Safe, TypeOK, Row, Status, Exists
  <2>3. QED
    BY <1>2, <2>1, <2>2 DEF ResetDelete, Safe, TypeOK, EntriesSafe,
                            ProtectedNeverBlocked
<1>3. QED
  BY <1>1, <1>2, ProposeSafe, ActivateSafe, RemoveSafe, ExpireSafe DEF Continue

LEMMA InitSafe == Init => Safe
<1> SUFFICES ASSUME Init
             PROVE  Safe
  OBVIOUS
<1>1. TypeOK
  BY NoJobType, NoRowType DEF Init, TypeOK, Steps
<1>2. JobsSafe
  BY DEF Init, JobsSafe, JobSafe, ActivateSteps, ProposeSteps
<1>3. EntriesSafe /\ ProtectedNeverBlocked
  BY ResponseAssumption DEF Init, NoRow, EntriesSafe, Exists, ProtectedNeverBlocked
<1>4. QED
  BY <1>1, <1>2, <1>3 DEF Safe

LEMMA StutterSafe ==
  ASSUME Safe, UNCHANGED vars
  PROVE  Safe'
  BY DEF Safe, TypeOK, JobsSafe, JobSafe, EntriesSafe, Exists, ProtectedNeverBlocked,
         vars, store

LEMMA AlwaysSafe == Spec => []Safe
<1>1. Safe /\ [Next]_vars => Safe'
  BY BeginSafe, ContinueSafe, EnvironmentSafe, StutterSafe DEF Next
<1>2. QED
  BY <1>1, InitSafe, PTL DEF Spec

(* Every variable keeps its type, through every interleaving and failure. *)
THEOREM TypeCorrect == Spec => []TypeOK
<1>1. Safe => TypeOK
  BY DEF Safe
<1>2. QED
  BY <1>1, AlwaysSafe, PTL

(* The protected check at the three ways in (propose for a case, propose by  *)
(* hand, activate) keeps every protected address out of the entries and out  *)
(* of PF, whichever steps interleave, fail or are cut short.                 *)
THEOREM ProtectionHolds == Spec => []ProtectedNeverBlocked
<1>1. Safe => ProtectedNeverBlocked
  BY DEF Safe
<1>2. QED
  BY <1>1, AlwaysSafe, PTL

-----------------------------------------------------------------------------
(* The limit on blocks in force.  The count of activate_block and the UPDATE *)
(* that follows it are two transactions; the sum of the blocks in force and  *)
(* the processes between the two is what stays bounded.                      *)

Racing == {"a_add", "a_update"}

LEMMA Finite ==
  /\ IsFiniteSet(LiveActive) /\ IsFiniteSet(LiveActive')
  /\ IsFiniteSet(PastCount) /\ IsFiniteSet(PastCount') /\ IsFiniteSet(Actor)
  /\ Cardinality(LiveActive) \in Nat /\ Cardinality(LiveActive') \in Nat
  /\ Cardinality(PastCount) \in Nat /\ Cardinality(PastCount') \in Nat
  /\ Cardinality(Actor) \in Nat
<1>1. LiveActive \subseteq Bid /\ LiveActive' \subseteq Bid
  BY DEF LiveActive
<1>2. PastCount \subseteq Actor /\ PastCount' \subseteq Actor
  BY DEF PastCount
<1>3. IsFiniteSet(Bid) /\ IsFiniteSet(Actor)
  BY ResponseAssumption
<1>4. /\ IsFiniteSet(LiveActive) /\ IsFiniteSet(LiveActive')
      /\ IsFiniteSet(PastCount) /\ IsFiniteSet(PastCount')
  BY <1>1, <1>2, <1>3, FS_Subset
<1>5. QED
  BY <1>3, <1>4, FS_CardinalityType

(* A step that adds neither a block in force nor a racer keeps the sum. *)
LEMMA NoMoreBlocks ==
  ASSUME WithinLimitPlusRacers, LiveActive' \subseteq LiveActive,
         PastCount' \subseteq PastCount
  PROVE  WithinLimitPlusRacers'
<1>1. /\ Cardinality(LiveActive') <= Cardinality(LiveActive)
      /\ Cardinality(PastCount') <= Cardinality(PastCount)
  BY Finite, FS_Subset
<1>2. QED
  BY <1>1, Finite, ResponseAssumption DEF WithinLimitPlusRacers

(* Processes outside the two steps of the race do not enter it by moving to  *)
(* some other step, and those inside do not leave others behind.             *)
LEMMA NoMoreRacers ==
  ASSUME TypeOK, NEW a \in Actor, NEW step,
         pc' = [pc EXCEPT ![a] = step], step \in Racing => pc[a] \in Racing
  PROVE  PastCount' \subseteq PastCount
  BY DEF TypeOK, PastCount, Racing

(* Entries that do not become active, and do not come back to life, do not   *)
(* add to the blocks in force.                                               *)
LEMMA UpdateNoMore ==
  ASSUME TypeOK, NEW b \in Bid, NEW new \in Status \ {"active"}, UpdateBlockStatus(b, new)
  PROVE  LiveActive' \subseteq LiveActive
  BY DEF UpdateBlockStatus, TypeOK, Row, LiveActive

LEMMA BeginWithinLimit ==
  ASSUME Safe, WithinLimitPlusRacers, NEW a \in Actor, Begin(a)
  PROVE  WithinLimitPlusRacers'
<1>1. UNCHANGED block
  BY DEF Begin, ProposeForIncident, ProposeManual, StartActivate, StartRemove, StartRelease,
         StartExpire, StartDelete, StartReset, Purge, EditAllowlist, store
<1>2. \/ UNCHANGED pc
      \/ \E step \in {"p_allow", "a_get", "r_get", "x_select", "d_delete", "z_delete"} :
           pc' = [pc EXCEPT ![a] = step]
  BY DEF Begin, ProposeForIncident, ProposeManual, StartActivate, StartRemove, StartRelease,
         StartExpire, StartDelete, StartReset, Purge, EditAllowlist, Start
<1>3. UNCHANGED pc => PastCount' \subseteq PastCount
  BY DEF PastCount
<1>4. PastCount' \subseteq PastCount
  BY <1>2, <1>3, NoMoreRacers DEF Racing, Safe
<1>5. LiveActive' \subseteq LiveActive
  BY <1>1 DEF LiveActive
<1>6. QED
  BY <1>4, <1>5, NoMoreBlocks

LEMMA ActivateWithinLimit ==
  ASSUME Safe, WithinLimitPlusRacers, NEW a \in Actor,
         \/ ActivateGet(a) \/ ActivateCheckAllow(a) \/ ActivateCount(a)
         \/ ActivateAdd(a) \/ ActivateUpdate(a)
  PROVE  WithinLimitPlusRacers'
<1>0. TypeOK /\ pc \in [Actor -> Steps]
  BY DEF Safe, TypeOK
<1>1. Return(a) => PastCount' \subseteq PastCount
  BY <1>0 DEF Return, PastCount
<1>2. UNCHANGED block => LiveActive' \subseteq LiveActive
  BY DEF LiveActive
<1>3. CASE ActivateGet(a)
  BY <1>0, <1>1, <1>2, <1>3, NoMoreRacers, NoMoreBlocks DEF ActivateGet, Goto, Racing, store
<1>4. CASE ActivateCheckAllow(a)
  BY <1>0, <1>1, <1>2, <1>4, NoMoreRacers, NoMoreBlocks
     DEF ActivateCheckAllow, Goto, Racing, store
<1>5. CASE ActivateCount(a)
  <2>1. CASE Return(a)
    BY <1>1, <1>2, <1>5, <2>1, NoMoreBlocks DEF ActivateCount, store
  <2>2. CASE ~Return(a)
    <3>1. ~(Cardinality(LiveActive) >= MaxConcurrent) /\ UNCHANGED block
      BY <1>5, <2>2 DEF ActivateCount, store
    <3>2. LiveActive' = LiveActive
      BY <3>1 DEF LiveActive
    <3>3. Cardinality(PastCount') <= Cardinality(Actor)
      BY Finite, FS_Subset DEF PastCount
    <3>4. Cardinality(LiveActive') < MaxConcurrent
      BY <3>1, <3>2, Finite, ResponseAssumption
    <3>5. QED
      BY <3>3, <3>4, Finite, ResponseAssumption DEF WithinLimitPlusRacers
  <2>3. QED
    BY <2>1, <2>2
<1>6. CASE ActivateAdd(a)
  BY <1>0, <1>1, <1>2, <1>6, NoMoreRacers, NoMoreBlocks DEF ActivateAdd, Goto, Racing, store
<1>7. CASE ActivateUpdate(a)
  <2> DEFINE b == job[a].blk
  <2>1. pc[a] = "a_update" /\ Return(a) /\ UpdateBlockStatus(b, "active") /\ b \in Bid
    BY <1>7 DEF ActivateUpdate, Safe, JobsSafe, JobSafe, ActivateSteps
  <2>2. PastCount' = PastCount \ {a} /\ a \in PastCount
    BY <1>0, <2>1 DEF Return, PastCount
  <2>3. LiveActive' \subseteq LiveActive \cup {b}
    BY <2>1 DEF UpdateBlockStatus, Safe, TypeOK, Row, LiveActive
  <2>4. Cardinality(PastCount') = Cardinality(PastCount) - 1
    BY <2>2, Finite, FS_RemoveElement
  <2>5. Cardinality(LiveActive') <= Cardinality(LiveActive) + 1
    <3>0. /\ IsFiniteSet(LiveActive \cup {b})
          /\ Cardinality(LiveActive \cup {b}) =
               IF b \in LiveActive THEN Cardinality(LiveActive) ELSE Cardinality(LiveActive) + 1
      BY Finite, FS_AddElement
    <3>1. /\ IsFiniteSet(LiveActive \cup {b})
          /\ Cardinality(LiveActive \cup {b}) <= Cardinality(LiveActive) + 1
      BY <3>0, Finite
    <3>2. Cardinality(LiveActive') <= Cardinality(LiveActive \cup {b})
      BY <2>3, <3>1, FS_Subset
    <3>3. Cardinality(LiveActive \cup {b}) \in Nat
      BY <3>1, FS_CardinalityType
    <3>4. QED
      BY <3>1, <3>2, <3>3, Finite
  <2>6. QED
    BY <2>4, <2>5, Finite, ResponseAssumption DEF WithinLimitPlusRacers
<1>8. QED
  BY <1>3, <1>4, <1>5, <1>6, <1>7

LEMMA ContinueWithinLimit ==
  ASSUME Safe, WithinLimitPlusRacers, NEW a \in Actor, Continue(a)
  PROVE  WithinLimitPlusRacers'
<1>0. TypeOK /\ pc \in [Actor -> Steps] /\ block \in [Bid -> Row]
  BY DEF Safe, TypeOK
<1>1. UNCHANGED block => LiveActive' \subseteq LiveActive
  BY DEF LiveActive
<1>2. (\E step \in {"idle", "a_get", "p_case", "p_source", "p_insert", "r_get", "r_update",
                     "r_check", "r_delete", "x_update", "x_check", "x_delete"} :
         pc' = [pc EXCEPT ![a] = step])
        => PastCount' \subseteq PastCount
  BY <1>0, NoMoreRacers DEF Racing
<1>3. UNCHANGED pc => PastCount' \subseteq PastCount
  BY DEF PastCount
<1>4. CASE \/ ProposeDenied(a) \/ ProposeCheckAllow(a)
           \/ ProposeFindCase(a) \/ ProposeFindSource(a)
           \/ RemoveGet(a) \/ RemoveCheck(a) \/ RemoveDelete(a)
           \/ ExpireSelect(a) \/ ExpireDone(a)
           \/ (\E s \in Source : ExpireCheck(a, s)) \/ ExpireDelete(a)
           \/ DeleteIncident(a)
  <2>1. UNCHANGED block
    BY <1>4 DEF ProposeDenied, ProposeCheckAllow, ProposeFindCase, ProposeFindSource, RemoveGet,
                RemoveCheck, RemoveDelete, ExpireSelect, ExpireDone, ExpireCheck, ExpireDelete,
                DeleteIncident, store
  <2>2. CASE ProposeDenied(a) \/ ProposeCheckAllow(a)
    BY <1>1, <1>2, <2>1, <2>2, NoMoreBlocks DEF ProposeDenied, ProposeCheckAllow, Return, Goto
  <2>3. CASE ProposeFindCase(a) \/ ProposeFindSource(a)
    <3>1. \A b, st : Proposed(a, b, st) => PastCount' \subseteq PastCount
      BY <1>2 DEF Proposed, Return
    <3>2. \A from : Goto(a, from, "p_source") \/ Goto(a, from, "p_insert")
                      => PastCount' \subseteq PastCount
      BY <1>2 DEF Goto
    <3>3. PastCount' \subseteq PastCount
      BY <2>3, <3>1, <3>2 DEF ProposeFindCase, ProposeFindSource
    <3>4. QED
      BY <1>1, <2>1, <3>3, NoMoreBlocks
  <2>4. CASE RemoveGet(a) \/ RemoveCheck(a) \/ RemoveDelete(a)
    <3>1. PastCount' \subseteq PastCount
      BY <1>2, <1>3, <2>4 DEF RemoveGet, RemoveCheck, RemoveDelete, RemoveNext, Return, Goto
    <3>2. QED
      BY <1>1, <2>1, <3>1, NoMoreBlocks
  <2>5. CASE \/ ExpireSelect(a) \/ ExpireDone(a)
             \/ (\E s \in Source : ExpireCheck(a, s)) \/ ExpireDelete(a)
    <3>1. PastCount' \subseteq PastCount
      BY <1>2, <1>3, <2>5 DEF ExpireSelect, ExpireDone, ExpireCheck, ExpireDelete, Return, Goto
    <3>2. QED
      BY <1>1, <2>1, <3>1, NoMoreBlocks
  <2>6. CASE DeleteIncident(a)
    BY <1>1, <1>2, <2>1, <2>6, NoMoreBlocks DEF DeleteIncident, Return
  <2>7. QED
    BY <1>4, <2>2, <2>3, <2>4, <2>5, <2>6
<1>5. CASE ProposeInsert(a)
  <2>1. PICK b \in Bid :
          /\ block' = [block EXCEPT ![b] =
               [status |-> "proposed", source |-> job[a].src,
                incident |-> job[a].inc, live |-> TRUE]]
          /\ Proposed(a, b, "proposed")
    BY <1>5 DEF ProposeInsert
  <2>2. LiveActive' \subseteq LiveActive
    BY <1>0, <2>1 DEF LiveActive
  <2>3. PastCount' \subseteq PastCount
    BY <1>2, <2>1 DEF Proposed, Return
  <2>4. QED
    BY <2>2, <2>3, NoMoreBlocks
<1>6. CASE RemoveUpdate(a)
  <2>1. job[a].blk \in Bid /\ "removed" \in Status \ {"active"}
    BY <1>6 DEF RemoveUpdate, Goto, Safe, JobsSafe, JobSafe, Status
  <2>2. LiveActive' \subseteq LiveActive
    BY <1>0, <1>6, <2>1, UpdateNoMore DEF RemoveUpdate
  <2>3. PastCount' \subseteq PastCount
    BY <1>2, <1>6 DEF RemoveUpdate, Goto
  <2>4. QED
    BY <2>2, <2>3, NoMoreBlocks
<1>7. CASE ExpireUpdate(a)
  <2>1. LiveActive' \subseteq LiveActive
    BY <1>0, <1>7 DEF ExpireUpdate, LiveActive, Row
  <2>2. PastCount' \subseteq PastCount
    BY <1>2, <1>7 DEF ExpireUpdate, Goto
  <2>3. QED
    BY <2>1, <2>2, NoMoreBlocks
<1>8. CASE ResetDelete(a)
  <2>1. LiveActive' \subseteq LiveActive
    BY <1>0, <1>8 DEF ResetDelete, LiveActive, Row
  <2>2. PastCount' \subseteq PastCount
    BY <1>2, <1>8 DEF ResetDelete, Return
  <2>3. QED
    BY <2>1, <2>2, NoMoreBlocks
<1>9. QED
  BY <1>4, <1>5, <1>6, <1>7, <1>8, ActivateWithinLimit DEF Continue

LEMMA EnvironmentWithinLimit ==
  ASSUME Safe, WithinLimitPlusRacers, Environment
  PROVE  WithinLimitPlusRacers'
<1>0. TypeOK /\ pc \in [Actor -> Steps] /\ block \in [Bid -> Row]
  BY DEF Safe, TypeOK
<1>1. LiveActive' \subseteq LiveActive
  BY <1>0 DEF Environment, OpenIncident, AgeIncident, SeeHost, Lapse, Crash, Reboot, LiveActive, Row, store
<1>2. PastCount' \subseteq PastCount
  BY <1>0 DEF Environment, OpenIncident, AgeIncident, SeeHost, Lapse, Crash, Reboot, Return, PastCount
<1>3. QED
  BY <1>1, <1>2, NoMoreBlocks

(* activate_block counts the blocks in force in one transaction and adds to  *)
(* them in another: with n processes the limit can be exceeded, but never by *)
(* more than n - 1, whatever else the processes and the firewall do.         *)
THEOREM LimitHolds == Spec => []WithinLimitPlusRacers
<1>1. Init => WithinLimitPlusRacers
  <2> SUFFICES ASSUME Init
               PROVE  WithinLimitPlusRacers
    OBVIOUS
  <2>1. LiveActive = {} /\ PastCount = {}
    BY DEF Init, NoRow, LiveActive, PastCount
  <2>2. Cardinality(Actor) # 0
    BY ResponseAssumption, FS_EmptySet
  <2>3. QED
    BY <2>1, <2>2, Finite, FS_EmptySet, ResponseAssumption DEF WithinLimitPlusRacers
<1>2. Safe /\ WithinLimitPlusRacers /\ [Next]_vars => WithinLimitPlusRacers'
  <2> SUFFICES ASSUME Safe, WithinLimitPlusRacers, [Next]_vars
               PROVE  WithinLimitPlusRacers'
    OBVIOUS
  <2>1. CASE UNCHANGED vars
    BY <2>1, NoMoreBlocks DEF vars, store, LiveActive, PastCount
  <2>2. QED
    BY <2>1, BeginWithinLimit, ContinueWithinLimit, EnvironmentWithinLimit DEF Next
<1>3. QED
  BY <1>1, <1>2, AlwaysSafe, PTL DEF Spec

(* With one process at a time, as in the tests and in a session without the  *)
(* GUI, max_concurrent_blocks is a limit in the strict sense, and every       *)
(* crash, reboot and PF failure respects it.                                  *)
THEOREM LimitHoldsAlone ==
  ASSUME Cardinality(Actor) = 1
  PROVE  Spec => []WithinLimit
<1>1. WithinLimitPlusRacers => WithinLimit
  BY Finite, ResponseAssumption DEF WithinLimitPlusRacers, WithinLimit
<1>2. QED
  BY <1>1, LimitHolds, PTL

-----------------------------------------------------------------------------
(* How many current entries one source can have.  propose_* look for an      *)
(* entry in one transaction and add theirs in another, and an activation     *)
(* under way brings back an entry that was removed meanwhile.                *)

CurrentOf(s) == {b \in Bid : Current(b) /\ block[b].source = s}

(* A source has no more entries in force or on offer than there are          *)
(* processes, where propose_* with one process make one at most.             *)
DuplicatesBounded == \A s \in Source : Cardinality(CurrentOf(s)) <= Cardinality(Actor)

(* An entry is wanted if it is current or an activation of it is under way.  *)
Wanted(b) == Current(b) \/ \E a \in Actor : pc[a] \in ActivateSteps /\ job[a].blk = b

WantedOf(s) == {b \in Bid : Wanted(b) /\ block[b].source = s}

(* Processes that have found no current entry of a source.                   *)
Inserting(s) == {a \in Actor : pc[a] = "p_insert" /\ job[a].src = s}

DuplicateInv ==
  \A s \in Source :
    Cardinality(WantedOf(s)) + Cardinality(Inserting(s)) <= Cardinality(Actor)

LEMMA FewOf ==
  ASSUME NEW s
  PROVE  /\ IsFiniteSet(CurrentOf(s)) /\ Cardinality(CurrentOf(s)) \in Nat
         /\ IsFiniteSet(WantedOf(s)) /\ Cardinality(WantedOf(s)) \in Nat
         /\ IsFiniteSet(Inserting(s)) /\ Cardinality(Inserting(s)) \in Nat
         /\ Cardinality(CurrentOf(s)) <= Cardinality(WantedOf(s))
<1>1. /\ CurrentOf(s) \subseteq WantedOf(s) /\ WantedOf(s) \subseteq Bid
      /\ Inserting(s) \subseteq Actor
  BY DEF CurrentOf, WantedOf, Wanted, Inserting
<1>2. IsFiniteSet(CurrentOf(s)) /\ IsFiniteSet(WantedOf(s)) /\ IsFiniteSet(Inserting(s))
  BY <1>1, ResponseAssumption, FS_Subset
<1>3. QED
  BY <1>1, <1>2, FS_Subset, FS_CardinalityType

LEMMA FewOfNext ==
  ASSUME NEW s
  PROVE  /\ IsFiniteSet(WantedOf(s)') /\ Cardinality(WantedOf(s)') \in Nat
         /\ IsFiniteSet(Inserting(s)') /\ Cardinality(Inserting(s)') \in Nat
<1>1. WantedOf(s)' \subseteq Bid /\ Inserting(s)' \subseteq Actor
  BY DEF WantedOf, Inserting
<1>2. IsFiniteSet(WantedOf(s)') /\ IsFiniteSet(Inserting(s)')
  BY <1>1, ResponseAssumption, FS_Subset
<1>3. QED
  BY <1>2, FS_CardinalityType

(* A step wants no entry that was not wanted before, and no process newly    *)
(* finds that there is none.                                                 *)
KeepsTo(a) ==
  /\ pc'[a] \in ActivateSteps => Wanted(job'[a].blk)
  /\ pc'[a] = "p_insert" => pc[a] = "p_insert" /\ job'[a].src = job[a].src

NoneWanted ==
  \A b \in Bid : block'[b].source = block[b].source /\ (Current(b)' => Wanted(b))

LEMMA NoMoreWanted ==
  ASSUME DuplicateInv, NoneWanted, \A a \in Actor : KeepsTo(a)
  PROVE  DuplicateInv'
<1> SUFFICES ASSUME NEW s \in Source
             PROVE  Cardinality(WantedOf(s)') + Cardinality(Inserting(s)')
                      <= Cardinality(Actor)
  BY DEF DuplicateInv
<1>1. WantedOf(s)' \subseteq WantedOf(s) /\ Inserting(s)' \subseteq Inserting(s)
  BY DEF WantedOf, Inserting, Wanted, NoneWanted, KeepsTo
<1>2. /\ Cardinality(WantedOf(s)') <= Cardinality(WantedOf(s))
      /\ Cardinality(Inserting(s)') <= Cardinality(Inserting(s))
  BY <1>1, FewOf, FS_Subset
<1>3. Cardinality(WantedOf(s)) + Cardinality(Inserting(s)) <= Cardinality(Actor)
  BY DEF DuplicateInv
<1>4. QED
  BY <1>2, <1>3, FewOf, FewOfNext, Finite

LEMMA IdleKeeps ==
  ASSUME NEW a \in Actor, pc'[a] = pc[a], job'[a] = job[a]
  PROVE  KeepsTo(a)
  BY DEF KeepsTo, Wanted

(* All other processes stay where they are while one takes a step.           *)
LEMMA OneMoves ==
  ASSUME TypeOK, DuplicateInv, NoneWanted, NEW a \in Actor, KeepsTo(a),
         \A c \in Actor \ {a} : pc'[c] = pc[c] /\ job'[c] = job[c]
  PROVE  DuplicateInv'
  BY IdleKeeps, NoMoreWanted

LEMMA SameWanted == ASSUME UNCHANGED block PROVE NoneWanted
  BY DEF NoneWanted, Current, Wanted

(* Steps that neither activate nor add an entry.                             *)
Elsewhere == {"idle", "p_allow", "p_case", "p_source", "r_get", "r_update", "r_check", "r_delete",
              "x_select", "x_update", "x_check", "x_delete", "d_delete", "z_delete"}

LEMMA ElsewhereKeeps ==
  ASSUME TypeOK, NEW a \in Actor,
         \/ \E step \in Elsewhere : pc' = [pc EXCEPT ![a] = step]
         \/ pc[a] \in Elsewhere /\ UNCHANGED pc
  PROVE  KeepsTo(a)
  BY DEF TypeOK, KeepsTo, Elsewhere, ActivateSteps

LEMMA OthersStay ==
  ASSUME TypeOK, NEW a \in Actor, Begin(a) \/ Continue(a)
  PROVE  \A c \in Actor \ {a} : pc'[c] = pc[c] /\ job'[c] = job[c]
<1>0. pc \in [Actor -> Steps] /\ job \in [Actor -> Job]
  BY DEF TypeOK
<1>1. CASE Begin(a)
  BY <1>0, <1>1 DEF Begin, ProposeForIncident, ProposeManual, StartActivate, StartRemove,
     StartRelease, StartExpire, StartDelete, StartReset, Purge, EditAllowlist, Start
<1>2. CASE \/ ProposeDenied(a) \/ ProposeCheckAllow(a)
           \/ ProposeFindCase(a) \/ ProposeFindSource(a) \/ ProposeInsert(a)
  BY <1>0, <1>2 DEF ProposeDenied, ProposeCheckAllow, ProposeFindCase, ProposeFindSource,
     ProposeInsert, Proposed, Return, Goto
<1>3. CASE \/ ActivateGet(a) \/ ActivateCheckAllow(a) \/ ActivateCount(a)
           \/ ActivateAdd(a) \/ ActivateUpdate(a)
  BY <1>0, <1>3 DEF ActivateGet, ActivateCheckAllow, ActivateCount, ActivateAdd, ActivateUpdate,
     Return, Goto
<1>4. CASE RemoveGet(a) \/ RemoveUpdate(a) \/ RemoveCheck(a) \/ RemoveDelete(a)
  BY <1>0, <1>4 DEF RemoveGet, RemoveUpdate, RemoveCheck, RemoveDelete, RemoveNext, Return, Goto
<1>5. CASE \/ ExpireSelect(a) \/ ExpireUpdate(a) \/ ExpireDone(a)
           \/ (\E s \in Source : ExpireCheck(a, s)) \/ ExpireDelete(a)
           \/ DeleteIncident(a) \/ ResetDelete(a)
  BY <1>0, <1>5 DEF ExpireSelect, ExpireUpdate, ExpireDone, ExpireCheck, ExpireDelete,
     DeleteIncident, ResetDelete, Return, Goto
<1>6. QED
  BY <1>1, <1>2, <1>3, <1>4, <1>5 DEF Continue

LEMMA BeginDuplicates ==
  ASSUME "raw_activate" \notin Disturbances, Safe, DuplicateInv, NEW a \in Actor, Begin(a)
  PROVE  DuplicateInv'
<1>0. TypeOK /\ pc \in [Actor -> Steps] /\ job \in [Actor -> Job]
  BY DEF Safe, TypeOK
<1>1. NoneWanted
  BY SameWanted DEF Begin, ProposeForIncident, ProposeManual, StartActivate, StartRemove,
     StartRelease, StartExpire, StartDelete, StartReset, Purge, EditAllowlist, store
<1>2. ASSUME NEW b \in Bid, StartActivate(a, b)
      PROVE  KeepsTo(a)
  <2>1. pc'[a] = "a_get" /\ job'[a].blk = b /\ Current(b)
    BY <1>0, <1>2 DEF StartActivate, Start, NoJob
  <2>2. QED
    BY <2>1 DEF KeepsTo, Wanted
<1>3. ASSUME Purge(a) \/ \E s \in Source : EditAllowlist(a, s)
      PROVE  KeepsTo(a)
  BY <1>3, IdleKeeps DEF EditAllowlist, Purge, MayStart
<1>4. ASSUME \/ \E i \in Incident :
                  \/ \E auto \in BOOLEAN : ProposeForIncident(a, i, auto)
                  \/ StartRelease(a, i) \/ StartDelete(a, i)
             \/ \E s \in Source : ProposeManual(a, s)
             \/ \E b \in Bid : StartRemove(a, b)
             \/ StartExpire(a) \/ StartReset(a)
      PROVE  KeepsTo(a)
  <2>1. \E step \in Elsewhere : pc' = [pc EXCEPT ![a] = step]
    BY <1>4 DEF ProposeForIncident, ProposeManual, StartRemove, StartRelease, StartExpire,
       StartDelete, StartReset, Start, Elsewhere
  <2>2. QED
    BY <1>0, <2>1, ElsewhereKeeps
<1>5. KeepsTo(a)
  BY <1>2, <1>3, <1>4 DEF Begin
<1>6. QED
  BY <1>0, <1>1, <1>5, OthersStay, OneMoves

(* A source without a current entry has at most as many wanted ones as there *)
(* are activations under way, and those are of processes that do not insert. *)
LEMMA FindDuplicates ==
  ASSUME TypeOK, NEW a \in Actor, pc[a] = "p_source", UNCHANGED <<block, job>>,
         pc' = [pc EXCEPT ![a] = "p_insert"], DuplicateInv,
         \A b \in Bid : Current(b) => block[b].source # job[a].src
  PROVE  DuplicateInv'
<1> SUFFICES ASSUME NEW s \in Source
             PROVE  Cardinality(WantedOf(s)') + Cardinality(Inserting(s)')
                      <= Cardinality(Actor)
  BY DEF DuplicateInv
<1>0. pc \in [Actor -> Steps] /\ pc'[a] = "p_insert"
      /\ \A c \in Actor \ {a} : pc'[c] = pc[c]
  BY DEF TypeOK
<1>1. WantedOf(s)' \subseteq WantedOf(s)
  BY <1>0 DEF WantedOf, Wanted, Current, ActivateSteps
<1>2. CASE s # job[a].src
  <2>1. Inserting(s)' \subseteq Inserting(s)
    BY <1>0, <1>2 DEF Inserting
  <2>2. /\ Cardinality(WantedOf(s)') <= Cardinality(WantedOf(s))
        /\ Cardinality(Inserting(s)') <= Cardinality(Inserting(s))
    BY <1>1, <2>1, FewOf, FS_Subset
  <2>3. Cardinality(WantedOf(s)) + Cardinality(Inserting(s)) <= Cardinality(Actor)
    BY DEF DuplicateInv
  <2>4. QED
    BY <2>2, <2>3, FewOf, FewOfNext, Finite
<1>3. CASE s = job[a].src
  <2> DEFINE busy == {c \in Actor : pc[c] \in ActivateSteps}
             blk == [c \in busy |-> job[c].blk]
             hit == {blk[c] : c \in busy}
  <2>1. WantedOf(s)' \subseteq hit
    BY <1>1, <1>3 DEF WantedOf, Wanted
  <2>2. IsFiniteSet(busy) /\ Cardinality(busy) \in Nat
    BY ResponseAssumption, FS_Subset, FS_CardinalityType
  <2>3. busy \cap Inserting(s)' = {} /\ busy \cup Inserting(s)' \subseteq Actor
    BY <1>0 DEF Inserting, ActivateSteps
  <2>4. blk \in Surjection(busy, hit)
    BY DEF Surjection
  <2> HIDE DEF busy, blk, hit
  <2>5. IsFiniteSet(hit) /\ Cardinality(hit) \in Nat /\ Cardinality(hit) <= Cardinality(busy)
    BY <2>2, <2>4, FS_Surjection, FS_CardinalityType
  <2>6. Cardinality(WantedOf(s)') <= Cardinality(hit)
    BY <2>1, <2>5, FS_Subset
  <2>7. Cardinality(busy \cup Inserting(s)') = Cardinality(busy) + Cardinality(Inserting(s)')
    <3>1. IsFiniteSet(Inserting(s)') /\ Cardinality(Inserting(s)') \in Nat
      BY FewOfNext
    <3>2. Cardinality(busy \cup Inserting(s)') =
            Cardinality(busy) + Cardinality(Inserting(s)') - Cardinality(busy \cap Inserting(s)')
      BY <2>2, <3>1, FS_Union
    <3>3. Cardinality(busy \cap Inserting(s)') = 0
      BY <2>3, FS_EmptySet
    <3>4. QED
      BY <2>2, <3>1, <3>2, <3>3
  <2>8. Cardinality(busy \cup Inserting(s)') <= Cardinality(Actor)
    BY <2>3, Finite, FS_Subset
  <2>9. QED
    BY <2>2, <2>5, <2>6, <2>7, <2>8, FewOfNext, Finite
<1>4. QED
  BY <1>2, <1>3

(* The entry that is added takes the place of the process that adds it.      *)
LEMMA InsertDuplicates ==
  ASSUME Safe, DuplicateInv, NEW a \in Actor, ProposeInsert(a)
  PROVE  DuplicateInv'
<1> SUFFICES ASSUME NEW s \in Source
             PROVE  Cardinality(WantedOf(s)') + Cardinality(Inserting(s)')
                      <= Cardinality(Actor)
  BY DEF DuplicateInv
<1>0. TypeOK /\ pc \in [Actor -> Steps] /\ job \in [Actor -> Job] /\ job[a] \in Job
      /\ block \in [Bid -> Row]
  BY DEF Safe, TypeOK
<1>1. PICK b \in Bid :
        /\ block' = [block EXCEPT ![b] =
             [status |-> "proposed", source |-> job[a].src,
              incident |-> job[a].inc, live |-> TRUE]]
        /\ Proposed(a, b, "proposed")
  BY DEF ProposeInsert
<1>2. /\ block'[b].source = job[a].src
      /\ \A c \in Bid \ {b} : block'[c] = block[c]
      /\ pc[a] = "p_insert"
  BY <1>0, <1>1 DEF ProposeInsert
<1>3. /\ pc'[a] \notin {"p_insert"}
      /\ pc'[a] \in ActivateSteps => job'[a].blk = b
      /\ \A c \in Actor \ {a} : pc'[c] = pc[c] /\ job'[c] = job[c]
  BY <1>0, <1>1 DEF Proposed, Return, ActivateSteps, Job
<1>4. Inserting(s)' = Inserting(s) \ {a}
  BY <1>3 DEF Inserting
<1>5. WantedOf(s)' \subseteq WantedOf(s) \cup {b}
  BY <1>2, <1>3 DEF WantedOf, Wanted, Current
<1>6. Cardinality(WantedOf(s)) + Cardinality(Inserting(s)) <= Cardinality(Actor)
  BY DEF DuplicateInv
<1>7. CASE s = job[a].src
  <2>1. Cardinality(Inserting(s)') = Cardinality(Inserting(s)) - 1
    <3>1. a \in Inserting(s)
      BY <1>2, <1>7 DEF Inserting
    <3>2. QED
      BY <1>4, <3>1, FewOf, FS_RemoveElement
  <2>2. /\ IsFiniteSet(WantedOf(s) \cup {b})
        /\ Cardinality(WantedOf(s) \cup {b}) <= Cardinality(WantedOf(s)) + 1
        /\ Cardinality(WantedOf(s) \cup {b}) \in Nat
    <3>1. /\ IsFiniteSet(WantedOf(s) \cup {b})
          /\ Cardinality(WantedOf(s) \cup {b}) =
               IF b \in WantedOf(s) THEN Cardinality(WantedOf(s))
                                    ELSE Cardinality(WantedOf(s)) + 1
      BY FewOf, FS_AddElement
    <3>2. QED
      BY <3>1, FewOf
  <2>3. Cardinality(WantedOf(s)') <= Cardinality(WantedOf(s) \cup {b})
    BY <1>5, <2>2, FS_Subset
  <2>4. QED
    BY <1>6, <2>1, <2>2, <2>3, FewOf, FewOfNext, Finite
<1>8. CASE s # job[a].src
  <2>1. WantedOf(s)' \subseteq WantedOf(s)
    BY <1>2, <1>5, <1>8 DEF WantedOf
  <2>2. /\ Cardinality(WantedOf(s)') <= Cardinality(WantedOf(s))
        /\ Cardinality(Inserting(s)') <= Cardinality(Inserting(s))
    BY <1>4, <2>1, FewOf, FS_Subset
  <2>3. QED
    BY <1>6, <2>2, FewOf, FewOfNext, Finite
<1>9. QED
  BY <1>7, <1>8

LEMMA ProposeDuplicates ==
  ASSUME Safe, DuplicateInv, NEW a \in Actor,
         \/ ProposeDenied(a) \/ ProposeCheckAllow(a)
         \/ ProposeFindCase(a) \/ ProposeFindSource(a)
  PROVE  DuplicateInv'
<1>0. TypeOK /\ pc \in [Actor -> Steps] /\ job \in [Actor -> Job] /\ job[a] \in Job
  BY DEF Safe, TypeOK
<1>1. UNCHANGED block
  BY DEF ProposeDenied, ProposeCheckAllow, ProposeFindCase, ProposeFindSource, store
<1>2. NoneWanted
  BY <1>1, SameWanted
<1>3. \A c \in Actor \ {a} : pc'[c] = pc[c] /\ job'[c] = job[c]
  BY <1>0, OthersStay DEF Continue
<1>4. \/ \E step \in Elsewhere : pc' = [pc EXCEPT ![a] = step]
      \/ \E b \in Bid : pc'[a] = "a_get" /\ job'[a].blk = b /\ Current(b)
      \/ /\ pc[a] = "p_source" /\ pc' = [pc EXCEPT ![a] = "p_insert"] /\ UNCHANGED job
         /\ \A b \in Bid : Current(b) => block[b].source # job[a].src
  <2>1. ASSUME NEW b \in Bid, NEW st, Current(b), Proposed(a, b, st)
        PROVE  \/ \E step \in Elsewhere : pc' = [pc EXCEPT ![a] = step]
               \/ pc'[a] = "a_get" /\ job'[a].blk = b /\ Current(b)
    BY <1>0, <2>1 DEF Proposed, Return, Elsewhere, Job
  <2>2. CASE ProposeDenied(a) \/ ProposeCheckAllow(a)
    BY <2>2 DEF ProposeDenied, ProposeCheckAllow, Return, Goto, Elsewhere
  <2>3. CASE ProposeFindCase(a)
    <3>1. \/ \E b \in Bid : Current(b) /\ \E st : Proposed(a, b, st)
          \/ pc' = [pc EXCEPT ![a] = "p_source"]
      BY <2>3 DEF ProposeFindCase, Goto, IsLatest
    <3>2. QED
      BY <2>1, <3>1 DEF Elsewhere
  <2>4. CASE ProposeFindSource(a)
    <3>1. \/ \E b \in Bid : Current(b) /\ \E st : Proposed(a, b, st)
          \/ /\ pc[a] = "p_source" /\ pc' = [pc EXCEPT ![a] = "p_insert"] /\ UNCHANGED job
             /\ \A b \in Bid : Current(b) => block[b].source # job[a].src
      BY <2>4 DEF ProposeFindSource, Goto, IsLatest
    <3>2. QED
      BY <2>1, <3>1
  <2>5. QED
    BY <2>2, <2>3, <2>4
<1>5. CASE \E step \in Elsewhere : pc' = [pc EXCEPT ![a] = step]
  BY <1>0, <1>2, <1>3, <1>5, ElsewhereKeeps, OneMoves
<1>6. CASE \E b \in Bid : pc'[a] = "a_get" /\ job'[a].blk = b /\ Current(b)
  <2>1. KeepsTo(a)
    BY <1>6 DEF KeepsTo, Wanted
  <2>2. QED
    BY <1>0, <1>2, <1>3, <2>1, OneMoves
<1>7. QED
  BY <1>0, <1>1, <1>4, <1>5, <1>6, FindDuplicates

LEMMA ActivateDuplicates ==
  ASSUME Safe, DuplicateInv, NEW a \in Actor,
         \/ ActivateGet(a) \/ ActivateCheckAllow(a) \/ ActivateCount(a)
         \/ ActivateAdd(a) \/ ActivateUpdate(a)
  PROVE  DuplicateInv'
<1>0. /\ TypeOK /\ pc \in [Actor -> Steps] /\ job \in [Actor -> Job] /\ job[a] \in Job
      /\ block \in [Bid -> Row]
  BY DEF Safe, TypeOK
<1>1. pc[a] \in ActivateSteps /\ Wanted(job[a].blk) /\ job[a].blk \in Bid
  BY DEF ActivateGet, ActivateCheckAllow, ActivateCount, ActivateAdd, ActivateUpdate, Goto,
     ActivateSteps, Wanted, Safe, JobsSafe, JobSafe
<1>2. \/ UNCHANGED block
      \/ block' = [block EXCEPT ![job[a].blk].status = "active"]
  BY DEF ActivateGet, ActivateCheckAllow, ActivateCount, ActivateAdd, ActivateUpdate,
     UpdateBlockStatus, store
<1>3. NoneWanted
  <2>1. CASE block' = [block EXCEPT ![job[a].blk].status = "active"]
    <3>1. /\ \A b \in Bid \ {job[a].blk} : block'[b] = block[b]
          /\ block'[job[a].blk].source = block[job[a].blk].source
      BY <1>0, <1>1, <2>1 DEF Row
    <3>2. QED
      BY <1>1, <3>1 DEF NoneWanted, Current, Wanted
  <2>2. QED
    BY <1>2, <2>1, SameWanted
<1>4. KeepsTo(a)
  <2>1. \/ pc' = [pc EXCEPT ![a] = "idle"]
        \/ pc'[a] \in ActivateSteps /\ job'[a].blk = job[a].blk
    BY <1>0 DEF ActivateGet, ActivateCheckAllow, ActivateCount, ActivateAdd, ActivateUpdate,
       Return, Goto, ActivateSteps, Job
  <2>2. CASE pc' = [pc EXCEPT ![a] = "idle"]
    BY <1>0, <2>2, ElsewhereKeeps DEF Elsewhere
  <2>3. CASE pc'[a] \in ActivateSteps /\ job'[a].blk = job[a].blk
    BY <1>1, <2>3 DEF KeepsTo, ActivateSteps
  <2>4. QED
    BY <2>1, <2>2, <2>3
<1>5. QED
  BY <1>0, <1>3, <1>4, OthersStay, OneMoves DEF Continue

LEMMA ContinueDuplicates ==
  ASSUME Safe, DuplicateInv, NEW a \in Actor, Continue(a)
  PROVE  DuplicateInv'
<1>0. TypeOK /\ pc \in [Actor -> Steps] /\ block \in [Bid -> Row]
  BY DEF Safe, TypeOK
<1>1. CASE \/ RemoveGet(a) \/ RemoveUpdate(a) \/ RemoveCheck(a) \/ RemoveDelete(a)
           \/ ExpireSelect(a) \/ ExpireUpdate(a) \/ ExpireDone(a)
           \/ (\E s \in Source : ExpireCheck(a, s)) \/ ExpireDelete(a)
           \/ DeleteIncident(a) \/ ResetDelete(a)
  <2>1. \/ \E step \in Elsewhere : pc' = [pc EXCEPT ![a] = step]
        \/ pc[a] \in Elsewhere /\ UNCHANGED pc
    BY <1>1 DEF RemoveGet, RemoveUpdate, RemoveCheck, RemoveDelete, RemoveNext, ExpireSelect,
       ExpireUpdate, ExpireDone, ExpireCheck, ExpireDelete, DeleteIncident, ResetDelete, Return,
       Goto, Elsewhere
  <2>2. NoneWanted
    <3>1. CASE RemoveUpdate(a)
      <4>1. job[a].blk \in Bid
        BY <3>1 DEF RemoveUpdate, Goto, Safe, JobsSafe, JobSafe
      <4>2. \/ UNCHANGED block
            \/ block' = [block EXCEPT ![job[a].blk].status = "removed"]
        BY <3>1 DEF RemoveUpdate, UpdateBlockStatus
      <4>3. QED
        BY <1>0, <4>1, <4>2 DEF NoneWanted, Current, Wanted, Row
    <3>2. CASE ExpireUpdate(a)
      BY <1>0, <3>2 DEF ExpireUpdate, NoneWanted, Current, Wanted, Row
    <3>3. CASE ResetDelete(a)
      BY <1>0, <3>3 DEF ResetDelete, NoneWanted, Current, Wanted, Row
    <3>4. CASE ~RemoveUpdate(a) /\ ~ExpireUpdate(a) /\ ~ResetDelete(a)
      BY <1>1, <3>4, SameWanted DEF RemoveGet, RemoveCheck, RemoveDelete, ExpireSelect,
         ExpireDone, ExpireCheck, ExpireDelete, DeleteIncident, store
    <3>5. QED
      BY <3>1, <3>2, <3>3, <3>4
  <2>3. QED
    BY <1>0, <2>1, <2>2, ElsewhereKeeps, OthersStay, OneMoves
<1>2. QED
  BY <1>1, ProposeDuplicates, InsertDuplicates, ActivateDuplicates DEF Continue

LEMMA EnvironmentDuplicates ==
  ASSUME Safe, DuplicateInv, Environment
  PROVE  DuplicateInv'
<1>0. TypeOK /\ pc \in [Actor -> Steps] /\ job \in [Actor -> Job] /\ block \in [Bid -> Row]
  BY DEF Safe, TypeOK
<1>1. NoneWanted
  <2>1. ASSUME NEW b \in Bid, Lapse(b)
        PROVE  NoneWanted
    BY <1>0, <2>1 DEF Lapse, NoneWanted, Current, Wanted, Row
  <2>2. QED
    BY <2>1, SameWanted DEF Environment, OpenIncident, AgeIncident, SeeHost, Crash, Reboot, store
<1>2. ASSUME NEW a \in Actor
      PROVE  KeepsTo(a)
  <2>1. pc'[a] = "idle" \/ (pc'[a] = pc[a] /\ job'[a] = job[a])
    BY <1>0 DEF Environment, OpenIncident, AgeIncident, SeeHost, Lapse, Crash, Reboot, Return, store
  <2>2. pc'[a] = "idle" => KeepsTo(a)
    BY DEF KeepsTo, ActivateSteps
  <2>3. QED
    BY <2>1, <2>2, IdleKeeps
<1>3. QED
  BY <1>1, <1>2, NoMoreWanted

(* Two processes that propose at once make an entry each, and an activation  *)
(* under way revives what another process has removed.  However they         *)
(* interleave, with whatever failures, a source has at most as many current  *)
(* entries as there are processes, as long as only current proposals are     *)
(* activated, which is what the GUI offers.                                  *)
THEOREM DuplicatesStayBounded ==
  ASSUME "raw_activate" \notin Disturbances
  PROVE  Spec => []DuplicatesBounded
<1>1. Init => DuplicateInv
  <2> SUFFICES ASSUME Init, NEW s \in Source
               PROVE  Cardinality(WantedOf(s)) + Cardinality(Inserting(s))
                        <= Cardinality(Actor)
    BY DEF DuplicateInv
  <2>1. WantedOf(s) = {} /\ Inserting(s) = {}
    BY DEF Init, NoRow, WantedOf, Wanted, Current, Inserting, ActivateSteps
  <2>2. QED
    BY <2>1, Finite, FS_EmptySet
<1>2. Safe /\ DuplicateInv /\ [Next]_vars => DuplicateInv'
  <2> SUFFICES ASSUME Safe, DuplicateInv, [Next]_vars
               PROVE  DuplicateInv'
    OBVIOUS
  <2>1. CASE UNCHANGED vars
    BY <2>1, SameWanted, IdleKeeps, NoMoreWanted DEF vars, store
  <2>2. QED
    BY <2>1, BeginDuplicates, ContinueDuplicates, EnvironmentDuplicates DEF Next
<1>3. DuplicateInv => DuplicatesBounded
  <2> SUFFICES ASSUME DuplicateInv, NEW s \in Source
               PROVE  Cardinality(CurrentOf(s)) <= Cardinality(Actor)
    BY DEF DuplicatesBounded
  <2>1. Cardinality(WantedOf(s)) + Cardinality(Inserting(s)) <= Cardinality(Actor)
    BY DEF DuplicateInv
  <2>2. QED
    BY <2>1, FewOf, Finite
<1>4. QED
  BY <1>1, <1>2, <1>3, AlwaysSafe, PTL DEF Spec

=============================================================================
