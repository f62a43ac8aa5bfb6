----------------------- MODULE BlockAgreement_proofs -----------------------
(* What one process at a time achieves in BlockResponse, for any entries,  *)
(* addresses and cases: the copies of what is blocked agree, and the       *)
(* handlers implement BlockContract.                                       *)
EXTENDS BlockResponse_proofs

(* One process: the service and the commands never overlap.                  *)
Alone == \A a, b \in Actor : a = b

-----------------------------------------------------------------------------
(* The host list, with any number of processes. *)

(* HostClaimsAreRecorded holds between the steps of handlers, too.          *)
ClaimsRecorded ==
  \A s \in Source : host[s] \in {"proposed", "active"} =>
    \E b \in Bid : block[b].source = s /\ block[b].status = host[s]

(* A transaction that changes the status of some entries and refreshes the  *)
(* hosts of their sources.                                                  *)
LEMMA RefreshRecorded ==
  ASSUME Safe, ClaimsRecorded, NEW changed,
         \A b \in Bid : block'[b].source = block[b].source,
         \A b \in Bid : b \notin changed => block'[b].status = block[b].status,
         RefreshHosts({block[b].source : b \in changed}, block')
  PROVE  ClaimsRecorded'
<1> SUFFICES ASSUME NEW s \in Source, host'[s] \in {"proposed", "active"}
             PROVE  \E b \in Bid : block'[b].source = s /\ block'[b].status = host'[s]
  BY DEF ClaimsRecorded
<1> DEFINE S == {block[b].source : b \in changed}
<1>1. host'[s] = IF s \in S /\ host[s] # "missing" THEN HostBlockStatus(block', s) ELSE host[s]
  BY DEF RefreshHosts
<1>2. CASE s \in S /\ host[s] # "missing"
  <2>1. HostBlockStatus(block', s) \in {"proposed", "active"}
    BY <1>1, <1>2
  <2>2. QED
    BY <1>1, <1>2, <2>1 DEF HostBlockStatus
<1>3. CASE ~(s \in S /\ host[s] # "missing")
  <2>1. host'[s] = host[s] /\ s \notin S
    BY <1>1, <1>3
  <2>2. PICK b \in Bid : block[b].source = s /\ block[b].status = host[s]
    BY <2>1 DEF ClaimsRecorded
  <2>3. b \notin changed
    BY <2>1, <2>2
  <2>4. QED
    BY <2>1, <2>2, <2>3
<1>4. QED
  BY <1>2, <1>3

LEMMA UpdateRecorded ==
  ASSUME Safe, ClaimsRecorded, NEW b \in Bid, NEW new \in Status, UpdateBlockStatus(b, new)
  PROVE  ClaimsRecorded'
<1>1. CASE ~Exists(b)
  BY <1>1 DEF UpdateBlockStatus, ClaimsRecorded
<1>2. CASE Exists(b)
  <2>1. /\ block' = [block EXCEPT ![b].status = new]
        /\ RefreshHosts({block[b].source}, block')
    BY <1>2 DEF UpdateBlockStatus
  <2>2. {block[b].source} = {block[c].source : c \in {b}}
    OBVIOUS
  <2>3. RefreshHosts({block[c].source : c \in {b}}, block')
    BY <2>1, <2>2
  <2>4. /\ \A c \in Bid : block'[c].source = block[c].source
        /\ \A c \in Bid : c \notin {b} => block'[c].status = block[c].status
    BY <2>1 DEF Safe, TypeOK, Row
  <2>5. QED
    BY <2>3, <2>4, RefreshRecorded
<1>3. QED
  BY <1>1, <1>2

LEMMA NextRecorded ==
  ASSUME Safe, ClaimsRecorded, [Next]_vars
  PROVE  ClaimsRecorded'
<1>0. block \in [Bid -> Row] /\ host \in [Source -> HostStatus]
  BY DEF Safe, TypeOK, HostStatus
<1>1. UNCHANGED <<block, host>> => ClaimsRecorded'
  BY DEF ClaimsRecorded
<1>2. ASSUME NEW a \in Actor, Begin(a)
      PROVE  ClaimsRecorded'
  BY <1>1, <1>2 DEF Begin, ProposeForIncident, ProposeManual, StartActivate, StartRemove,
     StartRelease, StartExpire, StartDelete, StartReset, Purge, EditAllowlist, store
<1>3. ASSUME NEW a \in Actor, Continue(a)
      PROVE  ClaimsRecorded'
  <2>1. CASE \/ ProposeDenied(a) \/ ProposeCheckAllow(a)
             \/ ProposeFindCase(a) \/ ProposeFindSource(a)
             \/ ActivateGet(a) \/ ActivateCheckAllow(a) \/ ActivateCount(a) \/ ActivateAdd(a)
             \/ RemoveGet(a) \/ RemoveCheck(a) \/ RemoveDelete(a)
             \/ ExpireSelect(a) \/ ExpireDone(a)
             \/ (\E s \in Source : ExpireCheck(a, s)) \/ ExpireDelete(a)
             \/ DeleteIncident(a)
    BY <1>1, <2>1 DEF ProposeDenied, ProposeCheckAllow, ProposeFindCase, ProposeFindSource,
       ActivateGet, ActivateCheckAllow, ActivateCount, ActivateAdd, RemoveGet, RemoveCheck,
       RemoveDelete, ExpireSelect, ExpireDone, ExpireCheck, ExpireDelete, DeleteIncident, store
  <2>2. CASE ProposeInsert(a)
    <3>1. PICK b \in Bid :
            /\ block[b].status = "absent"
            /\ block' = [block EXCEPT ![b] =
                 [status |-> "proposed", source |-> job[a].src,
                  incident |-> job[a].inc, live |-> TRUE]]
            /\ host' = [host EXCEPT ![job[a].src] = IF @ = "missing" THEN @ ELSE "proposed"]
      BY <2>2 DEF ProposeInsert
    <3>2. job[a].src \in Source
      BY <2>2 DEF ProposeInsert, Safe, JobsSafe, JobSafe, ProposeSteps
    <3>3. block'[b].source = job[a].src /\ block'[b].status = "proposed"
      BY <1>0, <3>1
    <3>4. \A c \in Bid : block[c].status \in {"proposed", "active"} => block'[c] = block[c]
      BY <1>0, <3>1
    <3>5. \A s \in Source : \/ host'[s] = host[s]
                            \/ s = job[a].src /\ host'[s] = "proposed"
      BY <1>0, <3>1, <3>2
    <3>6. QED
      BY <3>3, <3>4, <3>5 DEF ClaimsRecorded
  <2>3. CASE ActivateUpdate(a) \/ RemoveUpdate(a)
    <3>1. job[a].blk \in Bid /\ {"active", "removed"} \subseteq Status
      BY <2>3 DEF ActivateUpdate, RemoveUpdate, Goto, Safe, JobsSafe, JobSafe, ActivateSteps,
                  Status
    <3>2. QED
      BY <2>3, <3>1, UpdateRecorded DEF ActivateUpdate, RemoveUpdate
  <2>4. CASE ExpireUpdate(a)
    <3> DEFINE gone == {b \in job[a].todo : Exists(b)}
    <3>1. /\ block' = [b \in Bid |-> IF b \in gone
                         THEN [block[b] EXCEPT !.status = "expired"] ELSE block[b]]
          /\ RefreshHosts({block[b].source : b \in gone}, block')
      BY <2>4 DEF ExpireUpdate
    <3>2. /\ \A b \in Bid : block'[b].source = block[b].source
          /\ \A b \in Bid : b \notin gone => block'[b].status = block[b].status
      BY <1>0, <3>1 DEF Row
    <3> HIDE DEF gone
    <3>3. QED
      BY <3>1, <3>2, RefreshRecorded
  <2>5. CASE ResetDelete(a)
    BY <2>5 DEF ResetDelete, ClaimsRecorded
  <2>6. QED
    BY <1>3, <2>1, <2>2, <2>3, <2>4, <2>5 DEF Continue
<1>4. CASE Environment
  <2>1. ASSUME NEW s \in Source, SeeHost(s)
        PROVE  ClaimsRecorded'
    BY <1>0, <2>1 DEF SeeHost, ClaimsRecorded
  <2>2. ASSUME NEW b \in Bid, Lapse(b)
        PROVE  ClaimsRecorded'
    <3>1. \A c \in Bid : /\ block'[c].source = block[c].source
                         /\ block'[c].status = block[c].status
      BY <1>0, <2>2 DEF Lapse, Row
    <3>2. QED
      BY <2>2, <3>1 DEF Lapse, ClaimsRecorded
  <2>3. QED
    BY <1>1, <1>4, <2>1, <2>2 DEF Environment, OpenIncident, AgeIncident, Crash, Reboot, store
<1>5. QED
  BY <1>1, <1>2, <1>3, <1>4 DEF Next, vars, store

(* update_block_status, add_block_entry and expire_block_entries write the   *)
(* entry and the host row in one transaction: whatever interleaves, fails or *)
(* is cut short, the host list claims no block or proposal without an entry. *)
THEOREM ClaimsHold == Spec => []HostClaimsAreRecorded
<1>1. Init => ClaimsRecorded
  BY DEF Init, ClaimsRecorded
<1>2. Safe /\ ClaimsRecorded /\ [Next]_vars => ClaimsRecorded'
  BY NextRecorded
<1>3. ClaimsRecorded => HostClaimsAreRecorded
  BY DEF ClaimsRecorded, HostClaimsAreRecorded
<1>4. QED
  BY <1>1, <1>2, <1>3, AlwaysSafe, PTL DEF Spec

-----------------------------------------------------------------------------
(* One process at a time: what it has read of the entries is still so. *)

(* In the steps on an entry the source in hand is that of the entry, the     *)
(* entry is only marked active when PF has its source, and PF is only told   *)
(* to let a source through that has no unexpired entry in force.             *)
Known(a) ==
  /\ pc[a] \in {"a_allow", "a_count", "a_add", "a_update", "r_update"}
       => Exists(job[a].blk) /\ block[job[a].blk].source = job[a].src
  /\ pc[a] = "a_update" => job[a].src \in pf
  /\ pc[a] \in {"r_delete", "x_delete"} => job[a].src \notin ActiveBlockSources

AbsentAreDead == \A b \in Bid : block[b].status = "absent" => ~block[b].live

AloneInv == Safe /\ AbsentAreDead /\ \A a \in Actor : Known(a)

(* The process that moves is the only one. *)
LEMMA OnlyOne ==
  ASSUME Alone, NEW a \in Actor
  PROVE  /\ AloneInv <=> Safe /\ AbsentAreDead /\ Known(a)
         /\ AloneInv' <=> Safe' /\ AbsentAreDead' /\ Known(a)'
  BY DEF Alone, AloneInv

(* Steps at which nothing has to be known. *)
Careless == {"idle", "p_allow", "p_case", "p_source", "p_insert", "a_get", "r_get", "r_check",
             "x_select", "x_update", "x_check", "d_delete", "z_delete"}

LEMMA CarelessKnown ==
  ASSUME Safe, NEW a \in Actor, NEW step \in Careless, pc' = [pc EXCEPT ![a] = step]
  PROVE  Known(a)'
  BY DEF Safe, TypeOK, Known, Careless

LEMMA BeginAlone ==
  ASSUME Alone, AloneInv, NEW a \in Actor, Begin(a)
  PROVE  AloneInv'
<1>0. Safe' /\ Safe /\ AbsentAreDead /\ Known(a)
  BY BeginSafe DEF AloneInv
<1>1. UNCHANGED block
  BY DEF Begin, ProposeForIncident, ProposeManual, StartActivate, StartRemove, StartRelease,
         StartExpire, StartDelete, StartReset, Purge, EditAllowlist, store
<1>2. \/ UNCHANGED <<pc, job, pf>>
      \/ \E step \in Careless : pc' = [pc EXCEPT ![a] = step]
  BY DEF Begin, ProposeForIncident, ProposeManual, StartActivate, StartRemove, StartRelease,
         StartExpire, StartDelete, StartReset, Purge, EditAllowlist, Start, Careless
<1>3. AbsentAreDead'
  BY <1>0, <1>1 DEF AbsentAreDead
<1>4. Known(a)'
  BY <1>0, <1>1, <1>2, CarelessKnown DEF Known, Exists, ActiveBlockSources, LiveActive
<1>5. QED
  BY <1>0, <1>3, <1>4, OnlyOne

LEMMA ContinueAlone ==
  ASSUME Alone, AloneInv, NEW a \in Actor, Continue(a)
  PROVE  AloneInv'
<1>0. Safe' /\ Safe /\ AbsentAreDead /\ Known(a)
  BY ContinueSafe DEF AloneInv
<1>1. /\ block \in [Bid -> Row] /\ job \in [Actor -> Job] /\ pc \in [Actor -> Steps]
      /\ job[a] \in Job
  BY <1>0 DEF Safe, TypeOK
<1>2. UNCHANGED block => AbsentAreDead'
  BY <1>0 DEF AbsentAreDead
<1>3. (\E step \in Careless : pc' = [pc EXCEPT ![a] = step]) => Known(a)'
  BY <1>0, CarelessKnown
<1>4. \A b, st : Proposed(a, b, st) => Known(a)'
  BY <1>3 DEF Proposed, Return, Careless
<1>5. Return(a) => Known(a)'
  BY <1>3 DEF Return, Careless
<1>6. CASE \/ ProposeDenied(a) \/ ProposeCheckAllow(a)
           \/ ProposeFindCase(a) \/ ProposeFindSource(a)
  <2>1. UNCHANGED block
    BY <1>6 DEF ProposeDenied, ProposeCheckAllow, ProposeFindCase, ProposeFindSource, store
  <2>2. Known(a)'
    BY <1>3, <1>4, <1>5, <1>6 DEF ProposeDenied, ProposeCheckAllow, ProposeFindCase,
       ProposeFindSource, Goto, Careless
  <2>3. QED
    BY <1>0, <1>2, <2>1, <2>2, OnlyOne
<1>7. CASE ProposeInsert(a)
  <2>1. PICK b \in Bid :
          /\ block' = [block EXCEPT ![b] =
               [status |-> "proposed", source |-> job[a].src,
                incident |-> job[a].inc, live |-> TRUE]]
          /\ Proposed(a, b, "proposed")
    BY <1>7 DEF ProposeInsert
  <2>2. AbsentAreDead'
    BY <1>0, <1>1, <2>1 DEF AbsentAreDead
  <2>3. QED
    BY <1>0, <1>4, <2>1, <2>2, OnlyOne
<1>8. CASE ActivateGet(a)
  <2>1. UNCHANGED <<block, pf>>
    BY <1>8 DEF ActivateGet, store
  <2>2. CASE Return(a)
    BY <1>0, <1>2, <1>5, <2>1, <2>2, OnlyOne
  <2>3. CASE ~Return(a)
    <3>1. /\ Exists(job[a].blk)
          /\ pc' = [pc EXCEPT ![a] = "a_allow"]
          /\ job' = [job EXCEPT ![a].src = block[job[a].blk].source]
      BY <1>8, <2>3 DEF ActivateGet, Goto
    <3>2. /\ pc'[a] = "a_allow" /\ job'[a].src = block[job[a].blk].source
          /\ job'[a].blk = job[a].blk
      BY <1>1, <3>1 DEF Job
    <3>3. Known(a)'
      BY <2>1, <3>1, <3>2 DEF Known, Exists
    <3>4. QED
      BY <1>0, <1>2, <2>1, <3>3, OnlyOne
  <2>4. QED
    BY <2>2, <2>3
<1>9. CASE ActivateCheckAllow(a) \/ ActivateCount(a) \/ ActivateAdd(a)
  <2>1. UNCHANGED block /\ pf \subseteq pf'
    BY <1>9 DEF ActivateCheckAllow, ActivateCount, ActivateAdd, store
  <2>2. CASE Return(a)
    BY <1>0, <1>2, <1>5, <2>1, <2>2, OnlyOne
  <2>3. CASE ~Return(a)
    <3>1. /\ pc[a] \in {"a_allow", "a_count", "a_add"}
          /\ pc'[a] \in {"a_count", "a_add", "a_update"}
          /\ UNCHANGED job
          /\ pc'[a] = "a_update" => job[a].src \in pf'
      BY <1>1, <1>9, <2>3 DEF ActivateCheckAllow, ActivateCount, ActivateAdd, Goto
    <3>2. Known(a)'
      BY <1>0, <2>1, <3>1 DEF Known, Exists
    <3>3. QED
      BY <1>0, <1>2, <2>1, <3>2, OnlyOne
  <2>4. QED
    BY <2>2, <2>3
<1>10. ASSUME NEW new \in Status \ {"absent"}, UpdateBlockStatus(job[a].blk, new),
              job[a].blk \in Bid
       PROVE  AbsentAreDead'
  BY <1>0, <1>1, <1>10 DEF UpdateBlockStatus, AbsentAreDead, Row
<1>11. CASE ActivateUpdate(a)
  <2>1. job[a].blk \in Bid /\ "active" \in Status \ {"absent"}
    BY <1>0, <1>11 DEF ActivateUpdate, Safe, JobsSafe, JobSafe, ActivateSteps, Status
  <2>2. QED
    BY <1>0, <1>5, <1>10, <1>11, <2>1, OnlyOne DEF ActivateUpdate
<1>12. CASE RemoveUpdate(a)
  <2>1. job[a].blk \in Bid /\ "removed" \in Status \ {"absent"}
    BY <1>0, <1>12 DEF RemoveUpdate, Goto, Safe, JobsSafe, JobSafe, Status
  <2>2. QED
    BY <1>0, <1>3, <1>10, <1>12, <2>1, OnlyOne DEF RemoveUpdate, Goto, Careless
<1>13. CASE RemoveGet(a)
  <2>1. UNCHANGED block
    BY <1>13 DEF RemoveGet, store
  <2>2. PICK b \in Bid :
          IF Exists(b)
            THEN /\ Goto(a, "r_get", "r_update")
                 /\ job' = [job EXCEPT ![a].blk = b, ![a].src = block[b].source,
                                       ![a].todo = @ \ {b}]
            ELSE Return(a)
    BY <1>1, <1>13 DEF RemoveGet, Job
  <2>3. CASE ~Exists(b)
    BY <1>0, <1>2, <1>5, <2>1, <2>2, <2>3, OnlyOne
  <2>4. CASE Exists(b)
    <3>1. pc'[a] = "r_update" /\ job'[a].blk = b /\ job'[a].src = block[b].source
      BY <1>1, <2>2, <2>4 DEF Goto, Job
    <3>2. Known(a)'
      BY <2>1, <2>4, <3>1 DEF Known, Exists
    <3>3. QED
      BY <1>0, <1>2, <2>1, <3>2, OnlyOne
  <2>5. QED
    BY <2>3, <2>4
<1>14. CASE RemoveCheck(a) \/ RemoveDelete(a)
  <2>1. UNCHANGED block
    BY <1>14 DEF RemoveCheck, RemoveDelete, store
  <2>2. \/ \E step \in Careless : pc' = [pc EXCEPT ![a] = step]
        \/ /\ pc' = [pc EXCEPT ![a] = "r_delete"] /\ UNCHANGED job
           /\ job[a].src \notin ActiveBlockSources
    BY <1>14 DEF RemoveCheck, RemoveDelete, RemoveNext, Return, Goto, Careless
  <2>3. CASE /\ pc' = [pc EXCEPT ![a] = "r_delete"] /\ UNCHANGED job
             /\ job[a].src \notin ActiveBlockSources
    <3>1. Known(a)'
      BY <1>1, <2>1, <2>3 DEF Known, ActiveBlockSources, LiveActive
    <3>2. QED
      BY <1>0, <1>2, <2>1, <3>1, OnlyOne
  <2>4. QED
    BY <1>0, <1>2, <1>3, <2>1, <2>2, <2>3, OnlyOne
<1>15. CASE \/ ExpireSelect(a) \/ ExpireDone(a)
            \/ (\E s \in Source : ExpireCheck(a, s)) \/ ExpireDelete(a)
  <2>1. UNCHANGED block
    BY <1>15 DEF ExpireSelect, ExpireDone, ExpireCheck, ExpireDelete, store
  <2>2. \/ \E step \in Careless : pc' = [pc EXCEPT ![a] = step]
        \/ UNCHANGED pc /\ pc[a] = "x_check"
        \/ \E s \in Source : /\ pc' = [pc EXCEPT ![a] = "x_delete"]
                             /\ job' = [job EXCEPT ![a].src = s]
                             /\ s \notin ActiveBlockSources
    BY <1>15 DEF ExpireSelect, ExpireDone, ExpireCheck, ExpireDelete, Return, Goto, Careless
  <2>3. ASSUME NEW s \in Source, pc' = [pc EXCEPT ![a] = "x_delete"],
               job' = [job EXCEPT ![a].src = s], s \notin ActiveBlockSources
        PROVE  Known(a)'
    <3>1. pc'[a] = "x_delete" /\ job'[a].src = s
      BY <1>1, <2>3 DEF Job
    <3>2. QED
      BY <2>1, <2>3, <3>1 DEF Known, ActiveBlockSources, LiveActive
  <2>4. UNCHANGED pc /\ pc[a] = "x_check" => Known(a)'
    BY DEF Known
  <2>5. QED
    BY <1>0, <1>2, <1>3, <2>1, <2>2, <2>3, <2>4, OnlyOne
<1>16. CASE ExpireUpdate(a)
  <2>1. AbsentAreDead'
    BY <1>0, <1>1, <1>16 DEF ExpireUpdate, AbsentAreDead, Row
  <2>2. QED
    BY <1>0, <1>3, <1>16, <2>1, OnlyOne DEF ExpireUpdate, Goto, Careless
<1>17. CASE DeleteIncident(a)
  BY <1>0, <1>2, <1>5, <1>17, OnlyOne DEF DeleteIncident
<1>18. CASE ResetDelete(a)
  <2>1. AbsentAreDead'
    BY <1>0, <1>1, <1>18 DEF ResetDelete, AbsentAreDead, Row
  <2>2. QED
    BY <1>0, <1>5, <1>18, <2>1, OnlyOne DEF ResetDelete
<1>19. QED
  BY <1>6, <1>7, <1>8, <1>9, <1>11, <1>12, <1>13, <1>14, <1>15, <1>16, <1>17, <1>18 DEF Continue

LEMMA EnvironmentAlone ==
  ASSUME Alone, AloneInv, Environment
  PROVE  AloneInv'
<1>0. Safe' /\ Safe /\ AbsentAreDead /\ \A a \in Actor : Known(a)
  BY EnvironmentSafe DEF AloneInv
<1>1. /\ block \in [Bid -> Row] /\ pc \in [Actor -> Steps]
  BY <1>0 DEF Safe, TypeOK
<1>2. CASE \/ \E i \in Incident : OpenIncident(i) \/ AgeIncident(i)
           \/ \E s \in Source : SeeHost(s)
  BY <1>0, <1>2 DEF OpenIncident, AgeIncident, SeeHost, AloneInv, AbsentAreDead, Known, Exists,
     ActiveBlockSources, LiveActive
<1>3. ASSUME NEW b \in Bid, Lapse(b)
      PROVE  AloneInv'
  <2>1. /\ \A c \in Bid : /\ block'[c].source = block[c].source
                          /\ block'[c].status = block[c].status
                          /\ block'[c].live => block[c].live
        /\ UNCHANGED <<pc, job, pf>>
    BY <1>1, <1>3 DEF Lapse, Row
  <2>2. AbsentAreDead' /\ ActiveBlockSources' \subseteq ActiveBlockSources
    BY <1>0, <2>1 DEF AbsentAreDead, ActiveBlockSources, LiveActive
  <2>3. ASSUME NEW a \in Actor
        PROVE  Known(a)'
    <3>1. pc[a] \in {"a_allow", "a_count", "a_add", "a_update", "r_update"} => job[a].blk \in Bid
      BY <1>0 DEF Safe, JobsSafe, JobSafe, ActivateSteps
    <3>2. QED
      BY <1>0, <2>1, <2>2, <3>1 DEF Known, Exists
  <2>4. QED
    BY <1>0, <2>2, <2>3 DEF AloneInv
<1>4. ASSUME NEW a \in Actor, Crash(a)
      PROVE  AloneInv'
  <2>1. pc' = [pc EXCEPT ![a] = "idle"] /\ UNCHANGED block
    BY <1>4 DEF Crash, Return, store
  <2>2. AbsentAreDead' /\ Known(a)'
    BY <1>0, <2>1, CarelessKnown DEF Careless, AbsentAreDead
  <2>3. QED
    BY <1>0, <2>2, OnlyOne
<1>5. CASE Reboot
  <2>1. \A a \in Actor : pc'[a] = "idle"
    BY <1>5 DEF Reboot
  <2>2. UNCHANGED block
    BY <1>5 DEF Reboot, store
  <2>3. QED
    BY <1>0, <2>1, <2>2 DEF AloneInv, AbsentAreDead, Known
<1>6. QED
  BY <1>2, <1>3, <1>4, <1>5 DEF Environment

LEMMA AlwaysAlone == ASSUME Alone PROVE Spec => []AloneInv
<1>1. Init => AloneInv
  BY InitSafe DEF Init, AloneInv, AbsentAreDead, Known, NoRow
<1>2. AloneInv /\ UNCHANGED vars => AloneInv'
  BY StutterSafe DEF AloneInv, AbsentAreDead, Known, Exists, ActiveBlockSources, LiveActive,
     vars, store
<1>3. AloneInv /\ [Next]_vars => AloneInv'
  BY <1>2, BeginAlone, ContinueAlone, EnvironmentAlone DEF Next
<1>4. QED
  BY <1>1, <1>3, PTL DEF Spec

-----------------------------------------------------------------------------
(* Current entries: one per source, and no new ones without their case. *)

(* What a handler found out about current entries, or about its case, before *)
(* it acts on it: the entry it activates is current or has only run out, a   *)
(* source it inserts has no current entry, its case exists, and the case it  *)
(* deletes has no current entry.                                             *)
Found(a) ==
  /\ pc[a] \in ActivateSteps => block[job[a].blk].status \in {"proposed", "active"}
  /\ pc[a] = "p_insert" => \A b \in Bid : Current(b) => block[b].source # job[a].src
  /\ pc[a] \in ProposeSteps => job[a].inc \in incidents \cup {None}
  /\ pc[a] = "d_delete" => \A b \in Bid : block[b].incident = job[a].inc => ~Current(b)

Tidy == OneCurrentPerSource

CurrentInv == Tidy /\ \A a \in Actor : Found(a)

LEMMA OnlyFound ==
  ASSUME Alone, NEW a \in Actor
  PROVE  /\ CurrentInv <=> Tidy /\ Found(a)
         /\ CurrentInv' <=> Tidy' /\ Found(a)'
  BY DEF Alone, CurrentInv

(* The step of ResponseKeepsCase. *)
KeepsCase ==
  \A b \in Orphans' : \/ b \in Orphans
                      \/ block[b].incident \in aged /\ \E a \in Actor : Purge(a)

(* Entries that are current stay what they are, and no others become so.     *)
NoneRevived ==
  \A b \in Bid : Current(b)' => /\ Current(b)
                                /\ block'[b].source = block[b].source
                                /\ block'[b].incident = block[b].incident

LEMMA StillTidy ==
  ASSUME Tidy, NoneRevived, incidents \subseteq incidents'
  PROVE  Tidy' /\ KeepsCase
  BY DEF Tidy, OneCurrentPerSource, KeepsCase, Orphans, NoneRevived

LEMMA SameEntries == ASSUME UNCHANGED block PROVE NoneRevived
  BY DEF NoneRevived, Current

Unbound == {"idle", "r_get", "r_update", "r_check", "r_delete", "x_select", "x_update", "x_check",
            "x_delete", "z_delete"}

LEMMA UnboundFound ==
  ASSUME Safe, NEW a \in Actor, NEW step \in Unbound, pc' = [pc EXCEPT ![a] = step]
  PROVE  Found(a)'
  BY DEF Safe, TypeOK, Found, Unbound, ActivateSteps, ProposeSteps

LEMMA BeginCurrent ==
  ASSUME Alone, "raw_activate" \notin Disturbances, Safe, CurrentInv, NEW a \in Actor, Begin(a)
  PROVE  CurrentInv' /\ KeepsCase
<1> USE DEF ActivateSteps, ProposeSteps
<1>0. Tidy /\ Found(a) /\ pc \in [Actor -> Steps] /\ job \in [Actor -> Job]
  BY DEF CurrentInv, Safe, TypeOK
<1>1. UNCHANGED block /\ (Purge(a) \/ UNCHANGED incidents)
  BY DEF Begin, ProposeForIncident, ProposeManual, StartActivate, StartRemove, StartRelease,
         StartExpire, StartDelete, StartReset, Purge, EditAllowlist, store
<1>2. Tidy' /\ KeepsCase
  <2>1. CASE UNCHANGED incidents
    BY <1>0, <1>1, <2>1, SameEntries, StillTidy
  <2>2. CASE Purge(a)
    <3>1. incidents' = incidents \ aged
      BY <2>2 DEF Purge
    <3>2. Tidy' /\ \A b \in Orphans' : b \in Orphans \/ block[b].incident \in aged
      BY <1>0, <1>1, <3>1 DEF Tidy, OneCurrentPerSource, Orphans, Current
    <3>3. QED
      BY <2>2, <3>2 DEF KeepsCase
  <2>3. QED
    BY <1>1, <2>1, <2>2
<1>3. ASSUME NEW i \in Incident, NEW auto \in BOOLEAN, ProposeForIncident(a, i, auto)
      PROVE  Found(a)'
  <2>1. pc'[a] = "p_allow" /\ job'[a].inc = i /\ i \in incidents'
    BY <1>0, <1>3 DEF ProposeForIncident, Start, NoJob, store
  <2>2. QED
    BY <1>1, <2>1 DEF Found
<1>4. ASSUME NEW s \in Source, ProposeManual(a, s)
      PROVE  Found(a)'
  <2>1. pc'[a] = "p_allow" /\ job'[a].inc = None
    BY <1>0, <1>4 DEF ProposeManual, Start, NoJob
  <2>2. QED
    BY <1>1, <2>1 DEF Found
<1>5. ASSUME NEW b \in Bid, StartActivate(a, b)
      PROVE  Found(a)'
  <2>1. pc'[a] = "a_get" /\ job'[a].blk = b /\ block[b].status = "proposed"
    BY <1>0, <1>5 DEF StartActivate, Start, NoJob
  <2>2. QED
    BY <1>1, <2>1 DEF Found
<1>6. ASSUME NEW i \in Incident, StartDelete(a, i)
      PROVE  Found(a)'
  <2>1. /\ pc'[a] = "d_delete" /\ job'[a].inc = i
        /\ \A b \in Bid : block[b].incident = i => ~Current(b)
    BY <1>0, <1>6 DEF StartDelete, Start, NoJob
  <2>2. QED
    BY <1>1, <2>1 DEF Found, Current
<1>7. ASSUME \/ \E b \in Bid : StartRemove(a, b)
             \/ \E i \in Incident : StartRelease(a, i)
             \/ StartExpire(a) \/ StartReset(a)
      PROVE  Found(a)'
  <2>1. PICK step \in Unbound : pc' = [pc EXCEPT ![a] = step]
    BY <1>7 DEF StartRemove, StartRelease, StartExpire, StartReset, Start, Unbound
  <2>2. QED
    BY <2>1, UnboundFound
<1>8. ASSUME Purge(a) \/ \E s \in Source : EditAllowlist(a, s)
      PROVE  Found(a)'
  <2>1. pc'[a] = "idle"
    BY <1>8 DEF EditAllowlist, Purge, MayStart
  <2>2. QED
    BY <2>1 DEF Found
<1>9. QED
  BY <1>2, <1>3, <1>4, <1>5, <1>6, <1>7, <1>8, OnlyFound DEF Begin

LEMMA ProposeCurrent ==
  ASSUME Alone, Safe, CurrentInv, NEW a \in Actor,
         \/ ProposeDenied(a) \/ ProposeCheckAllow(a)
         \/ ProposeFindCase(a) \/ ProposeFindSource(a) \/ ProposeInsert(a)
  PROVE  CurrentInv' /\ KeepsCase
<1> USE DEF ActivateSteps, ProposeSteps
<1>0. /\ Tidy /\ Found(a) /\ pc \in [Actor -> Steps] /\ job \in [Actor -> Job]
      /\ job[a] \in Job /\ block \in [Bid -> Row]
  BY DEF CurrentInv, Safe, TypeOK
<1>1. pc[a] \in ProposeSteps /\ job[a].inc \in incidents \cup {None} /\ UNCHANGED incidents
  BY <1>0 DEF ProposeDenied, ProposeCheckAllow, ProposeFindCase, ProposeFindSource,
              ProposeInsert, Goto, Found, store
<1>2. Return(a) => Found(a)'
  BY UnboundFound DEF Return, Unbound
<1>3. ASSUME NEW b \in Bid, NEW st, Proposed(a, b, st),
             block'[b].status \in {"proposed", "active"}
      PROVE  Found(a)'
  <2>1. CASE pc' = [pc EXCEPT ![a] = "a_get"] /\ job' = [job EXCEPT ![a].blk = b]
    <3>1. pc'[a] = "a_get" /\ job'[a].blk = b
      BY <1>0, <2>1 DEF Job
    <3>2. QED
      BY <1>3, <3>1 DEF Found
  <2>2. QED
    BY <1>2, <1>3, <2>1 DEF Proposed
<1>4. CASE ProposeInsert(a)
  <2>1. PICK b \in Bid :
          /\ block[b].status = "absent"
          /\ block' = [block EXCEPT ![b] =
               [status |-> "proposed", source |-> job[a].src,
                incident |-> job[a].inc, live |-> TRUE]]
          /\ Proposed(a, b, "proposed")
    BY <1>4 DEF ProposeInsert
  <2>2. /\ \A c \in Bid \ {b} : block'[c] = block[c]
        /\ block'[b].source = job[a].src /\ block'[b].incident = job[a].inc
        /\ block'[b].status = "proposed"
    BY <1>0, <2>1
  <2>3. \A c \in Bid : Current(c) => block[c].source # job[a].src
    BY <1>0, <1>4 DEF ProposeInsert, Found
  <2>4. Tidy' /\ KeepsCase
    BY <1>0, <1>1, <2>2, <2>3 DEF Tidy, OneCurrentPerSource, KeepsCase, Orphans, Current
  <2>5. QED
    BY <1>3, <2>1, <2>2, <2>4, OnlyFound
<1>5. CASE ~ProposeInsert(a)
  <2>1. UNCHANGED block
    BY <1>5 DEF ProposeDenied, ProposeCheckAllow, ProposeFindCase, ProposeFindSource, store
  <2>2. Tidy' /\ KeepsCase
    BY <1>0, <1>1, <2>1, SameEntries, StillTidy
  <2>3. \/ Return(a)
        \/ \E b \in Bid : \E st : Proposed(a, b, st) /\ Current(b)
        \/ /\ UNCHANGED job
           /\ \E to \in {"p_case", "p_source"} : pc' = [pc EXCEPT ![a] = to]
        \/ /\ UNCHANGED job
           /\ pc' = [pc EXCEPT ![a] = "p_insert"]
           /\ \A b \in Bid : Current(b) => block[b].source # job[a].src
    BY <1>5 DEF ProposeDenied, ProposeCheckAllow, ProposeFindCase, ProposeFindSource, Goto,
       IsLatest
  <2>4. Found(a)'
    <3>1. CASE UNCHANGED job
      BY <1>0, <1>1, <1>2, <1>3, <2>1, <2>3, <3>1 DEF Found, Current
    <3>2. QED
      BY <1>2, <1>3, <2>1, <2>3, <3>1 DEF Current
  <2>5. QED
    BY <2>2, <2>4, OnlyFound
<1>6. QED
  BY <1>4, <1>5

LEMMA ActivateCurrent ==
  ASSUME Alone, Safe, CurrentInv, NEW a \in Actor,
         \/ ActivateGet(a) \/ ActivateCheckAllow(a) \/ ActivateCount(a)
         \/ ActivateAdd(a) \/ ActivateUpdate(a)
  PROVE  CurrentInv' /\ KeepsCase
<1> USE DEF ActivateSteps, ProposeSteps
<1>0. /\ Tidy /\ Found(a) /\ pc \in [Actor -> Steps] /\ job \in [Actor -> Job]
      /\ job[a] \in Job /\ block \in [Bid -> Row]
  BY DEF CurrentInv, Safe, TypeOK
<1>1. Return(a) => Found(a)'
  BY UnboundFound DEF Return, Unbound
<1>2. /\ pc[a] \in ActivateSteps /\ UNCHANGED incidents
      /\ block[job[a].blk].status \in {"proposed", "active"}
      /\ job[a].blk \in Bid
  BY <1>0 DEF ActivateGet, ActivateCheckAllow, ActivateCount, ActivateAdd, ActivateUpdate, Goto,
              Found, store, Safe, JobsSafe, JobSafe
<1>3. CASE ActivateUpdate(a)
  <2>1. block' = [block EXCEPT ![job[a].blk].status = "active"] \/ UNCHANGED block
    BY <1>3 DEF ActivateUpdate, UpdateBlockStatus
  <2>2. NoneRevived
    BY <1>0, <1>2, <2>1 DEF NoneRevived, Current, Row
  <2>3. QED
    BY <1>0, <1>1, <1>2, <1>3, <2>2, StillTidy, OnlyFound DEF ActivateUpdate
<1>4. CASE ~ActivateUpdate(a)
  <2>1. UNCHANGED block
    BY <1>4 DEF ActivateGet, ActivateCheckAllow, ActivateCount, ActivateAdd, store
  <2>2. Tidy' /\ KeepsCase
    BY <1>0, <1>2, <2>1, SameEntries, StillTidy
  <2>3. \/ Return(a)
        \/ pc'[a] \in ActivateSteps /\ job'[a].blk = job[a].blk
    BY <1>0, <1>4 DEF ActivateGet, ActivateCheckAllow, ActivateCount, ActivateAdd, Goto, Job
  <2>4. Found(a)'
    BY <1>1, <1>2, <2>1, <2>3 DEF Found
  <2>5. QED
    BY <2>2, <2>4, OnlyFound
<1>5. QED
  BY <1>3, <1>4

LEMMA ContinueCurrent ==
  ASSUME Alone, Safe, CurrentInv, NEW a \in Actor, Continue(a)
  PROVE  CurrentInv' /\ KeepsCase
<1>0. /\ Tidy /\ Found(a) /\ pc \in [Actor -> Steps] /\ job \in [Actor -> Job]
      /\ job[a] \in Job /\ block \in [Bid -> Row]
  BY DEF CurrentInv, Safe, TypeOK
<1>1. (\E step \in Unbound : pc' = [pc EXCEPT ![a] = step]) => Found(a)'
  BY UnboundFound
<1>2. pc[a] \in Unbound /\ UNCHANGED pc => Found(a)'
  BY DEF Found, Unbound, ActivateSteps, ProposeSteps
<1>3. CASE \/ RemoveGet(a) \/ RemoveUpdate(a) \/ RemoveCheck(a) \/ RemoveDelete(a)
  <2>1. \E step \in Unbound : pc' = [pc EXCEPT ![a] = step]
    BY <1>3 DEF RemoveGet, RemoveUpdate, RemoveCheck, RemoveDelete, RemoveNext, Return, Goto,
       Unbound
  <2>2. UNCHANGED incidents
    BY <1>3 DEF RemoveGet, RemoveUpdate, RemoveCheck, RemoveDelete, store
  <2>3. \/ UNCHANGED block
        \/ job[a].blk \in Bid /\ block' = [block EXCEPT ![job[a].blk].status = "removed"]
    BY <1>3 DEF RemoveGet, RemoveUpdate, RemoveCheck, RemoveDelete, UpdateBlockStatus, store,
       Safe, JobsSafe, JobSafe, Goto
  <2>4. NoneRevived
    BY <1>0, <2>3 DEF NoneRevived, Current, Row
  <2>5. QED
    BY <1>0, <1>1, <2>1, <2>2, <2>4, StillTidy, OnlyFound
<1>4. CASE \/ ExpireSelect(a) \/ ExpireUpdate(a) \/ ExpireDone(a)
           \/ (\E s \in Source : ExpireCheck(a, s)) \/ ExpireDelete(a)
  <2>1. \/ \E step \in Unbound : pc' = [pc EXCEPT ![a] = step]
        \/ pc[a] \in Unbound /\ UNCHANGED pc
    BY <1>4 DEF ExpireSelect, ExpireUpdate, ExpireDone, ExpireCheck, ExpireDelete, Return, Goto,
       Unbound
  <2>2. UNCHANGED incidents
    BY <1>4 DEF ExpireSelect, ExpireUpdate, ExpireDone, ExpireCheck, ExpireDelete, store
  <2>3. CASE ExpireUpdate(a)
    <3>1. NoneRevived
      BY <1>0, <2>3 DEF ExpireUpdate, NoneRevived, Current, Row
    <3>2. QED
      BY <1>0, <1>1, <1>2, <2>1, <2>2, <3>1, StillTidy, OnlyFound
  <2>4. CASE ~ExpireUpdate(a)
    <3>1. UNCHANGED block
      BY <1>4, <2>4 DEF ExpireSelect, ExpireDone, ExpireCheck, ExpireDelete, store
    <3>2. QED
      BY <1>0, <1>1, <1>2, <2>1, <2>2, <3>1, SameEntries, StillTidy, OnlyFound
  <2>5. QED
    BY <2>3, <2>4
<1>5. CASE DeleteIncident(a)
  <2>1. UNCHANGED block /\ incidents' = incidents \ {job[a].inc} /\ Return(a)
    BY <1>5 DEF DeleteIncident
  <2>2. \A b \in Bid : block[b].incident = job[a].inc => ~Current(b)
    BY <1>0, <1>5 DEF DeleteIncident, Found
  <2>3. Tidy' /\ KeepsCase
    BY <1>0, <2>1, <2>2 DEF Tidy, OneCurrentPerSource, KeepsCase, Orphans, Current
  <2>4. QED
    BY <1>1, <2>1, <2>3, OnlyFound DEF Return, Unbound
<1>6. CASE ResetDelete(a)
  <2>1. \A b \in Bid : block'[b].status \in {"absent", "deleted"}
    BY <1>0, <1>6 DEF ResetDelete, Row
  <2>2. Tidy' /\ KeepsCase
    BY <2>1 DEF Tidy, OneCurrentPerSource, KeepsCase, Orphans, Current
  <2>3. QED
    BY <1>1, <1>6, <2>2, OnlyFound DEF ResetDelete, Return, Unbound
<1>7. QED
  BY <1>3, <1>4, <1>5, <1>6, ProposeCurrent, ActivateCurrent DEF Continue

LEMMA EnvironmentCurrent ==
  ASSUME Alone, Safe, CurrentInv, Environment
  PROVE  CurrentInv' /\ KeepsCase
<1>0. /\ Tidy /\ pc \in [Actor -> Steps] /\ block \in [Bid -> Row]
      /\ \A a \in Actor : Found(a)
  BY DEF CurrentInv, Safe, TypeOK
<1>1. CASE \/ \E i \in Incident : OpenIncident(i) \/ AgeIncident(i)
           \/ \E s \in Source : SeeHost(s)
  <2>1. UNCHANGED <<block, pc, job>> /\ incidents \subseteq incidents'
    BY <1>1 DEF OpenIncident, AgeIncident, SeeHost
  <2>2. \A a \in Actor : Found(a)'
    BY <1>0, <2>1 DEF Found, Current
  <2>3. QED
    BY <1>0, <2>1, <2>2, SameEntries, StillTidy DEF CurrentInv
<1>2. ASSUME NEW b \in Bid, Lapse(b)
      PROVE  CurrentInv' /\ KeepsCase
  <2>1. /\ \A c \in Bid : /\ block'[c].source = block[c].source
                          /\ block'[c].incident = block[c].incident
                          /\ block'[c].status = block[c].status
                          /\ block'[c].live => block[c].live
        /\ UNCHANGED <<pc, job, incidents>>
    BY <1>0, <1>2 DEF Lapse, Row
  <2>2. NoneRevived
    BY <2>1 DEF NoneRevived, Current
  <2>3. ASSUME NEW a \in Actor
        PROVE  Found(a)'
    <3>1. pc[a] \in ActivateSteps => job[a].blk \in Bid
      BY DEF Safe, JobsSafe, JobSafe
    <3>2. QED
      BY <1>0, <2>1, <3>1 DEF Found, Current
  <2>4. QED
    BY <1>0, <2>1, <2>2, <2>3, StillTidy DEF CurrentInv
<1>3. ASSUME NEW a \in Actor, Crash(a)
      PROVE  CurrentInv' /\ KeepsCase
  <2>1. pc' = [pc EXCEPT ![a] = "idle"] /\ UNCHANGED <<block, incidents>>
    BY <1>3 DEF Crash, Return, store
  <2>2. QED
    BY <1>0, <2>1, UnboundFound, SameEntries, StillTidy, OnlyFound DEF Unbound
<1>4. CASE Reboot
  <2>1. (\A a \in Actor : pc'[a] = "idle") /\ UNCHANGED <<block, incidents>>
    BY <1>4 DEF Reboot, store
  <2>2. \A a \in Actor : Found(a)'
    BY <2>1 DEF Found, ActivateSteps, ProposeSteps
  <2>3. QED
    BY <1>0, <2>1, <2>2, SameEntries, StillTidy DEF CurrentInv
<1>5. QED
  BY <1>1, <1>2, <1>3, <1>4 DEF Environment

LEMMA AlwaysCurrent ==
  ASSUME Alone, "raw_activate" \notin Disturbances
  PROVE  Spec => []CurrentInv
<1>1. Init => CurrentInv
  BY DEF Init, CurrentInv, Tidy, OneCurrentPerSource, Found, NoRow, Current,
     ActivateSteps, ProposeSteps
<1>2. ASSUME CurrentInv, UNCHANGED vars
      PROVE  CurrentInv'
  BY <1>2 DEF CurrentInv, Tidy, OneCurrentPerSource, Found, Current, vars, store
<1>3. Safe /\ CurrentInv /\ [Next]_vars => CurrentInv'
  BY <1>2, BeginCurrent, ContinueCurrent, EnvironmentCurrent DEF Next
<1>4. QED
  BY <1>1, <1>3, AlwaysSafe, PTL DEF Spec

(* propose_* hand back the current entry of a source, so that one process at *)
(* a time never makes a second, whatever fails or is cut short; only an      *)
(* activation from the shell of an entry that was removed could.             *)
THEOREM OneCurrent ==
  ASSUME Alone, "raw_activate" \notin Disturbances
  PROVE  Spec => []OneCurrentPerSource
<1>1. CurrentInv => OneCurrentPerSource
  BY DEF CurrentInv, Tidy
<1>2. QED
  BY <1>1, AlwaysCurrent, PTL

(* delete_incident refuses a case with a current response, and nothing that  *)
(* one process does makes a response current whose case is gone; what takes  *)
(* a case away from under its response is purge_before alone, and only once  *)
(* the case is closed and past the retention.                                *)
THEOREM CasesKept ==
  ASSUME Alone, "raw_activate" \notin Disturbances
  PROVE  Spec => ResponseKeepsCase
<1>1. Safe /\ CurrentInv /\ [Next]_vars => [KeepsCase]_vars
  BY BeginCurrent, ContinueCurrent, EnvironmentCurrent DEF Next
<1>2. [KeepsCase]_vars <=>
        [\A b \in Orphans' :
           \/ b \in Orphans
           \/ block[b].incident \in aged /\ \E a \in Actor : Purge(a)]_vars
  BY DEF KeepsCase
<1>3. QED
  BY <1>1, <1>2, AlwaysSafe, AlwaysCurrent, PTL DEF Spec, ResponseKeepsCase

-----------------------------------------------------------------------------
(* The implementation of BlockContract. *)

(* What a reset of the only process has flushed. *)
LEMMA FlushedByOne ==
  ASSUME Alone, NEW a \in Actor
  PROVE  /\ FlushedForReset = IF pc[a] = "z_delete" THEN job[a].srcs ELSE {}
         /\ FlushedForReset' = IF pc'[a] = "z_delete" THEN job'[a].srcs ELSE {}
  BY DEF Alone, FlushedForReset

Enforced == (pf \cup FlushedForReset) \cap BackedSources

(* The entries as the contract sees them, and what is enforced, stay.        *)
LEMMA Stutters ==
  ASSUME \A b \in Bid : /\ block'[b].status = block[b].status
                        /\ block'[b].live = block[b].live
                        /\ block'[b].source = block[b].source,
         Enforced' = Enforced
  PROVE  UNCHANGED Contract!vars
  BY DEF Contract!vars, Enforced

LEMMA ReadsStutter ==
  ASSUME Alone, NEW a \in Actor, UNCHANGED <<block, pf>>,
         pc[a] # "z_delete", pc'[a] # "z_delete"
  PROVE  UNCHANGED Contract!vars
<1>1. Enforced' = Enforced
  BY FlushedByOne DEF Enforced, BackedSources
<1>2. QED
  BY <1>1, Stutters

LEMMA ContractSteps ==
  /\ \A b \in Bid, s \in Source \ Protected : Contract!Propose(b, s) => Contract!Next
  /\ \A b \in Bid : Contract!Grant(b) \/ Contract!Lapse(b) => Contract!Next
  /\ \A s \in Source : Contract!Reassert(s) \/ Contract!Relax(s) => Contract!Next
  /\ \A B \in SUBSET Bid, final \in {"removed", "expired"} :
       Contract!Retire(B, final) => Contract!Next
  /\ Contract!Forget => Contract!Next
  BY Zenon DEF Contract!Next

LEMMA BeginImplements ==
  ASSUME Alone, AloneInv, NEW a \in Actor, Begin(a)
  PROVE  UNCHANGED Contract!vars
<1>0. pc \in [Actor -> Steps] /\ job \in [Actor -> Job]
  BY DEF AloneInv, Safe, TypeOK
<1>1. pc[a] = "idle" /\ UNCHANGED block
  BY DEF Begin, ProposeForIncident, ProposeManual, StartActivate, StartRemove, StartRelease,
     StartExpire, StartDelete, StartReset, Purge, EditAllowlist, Start, MayStart, store
<1>2. CASE StartReset(a)
  <2>1. pc'[a] = "z_delete" /\ job'[a].srcs = pf /\ (pf' = {} \/ pf' = pf)
    BY <1>0, <1>2 DEF StartReset, Start, NoJob
  <2>2. FlushedForReset = {} /\ FlushedForReset' = pf
    BY <1>1, <2>1, FlushedByOne
  <2>3. Enforced' = Enforced
    BY <1>1, <2>1, <2>2 DEF Enforced, BackedSources
  <2>4. QED
    BY <1>1, <2>3, Stutters
<1>3. CASE ~StartReset(a)
  <2>1. UNCHANGED pf /\ pc'[a] # "z_delete"
    BY <1>0, <1>1, <1>3 DEF Begin, ProposeForIncident, ProposeManual, StartActivate, StartRemove,
       StartRelease, StartExpire, StartDelete, Purge, EditAllowlist, Start
  <2>2. QED
    BY <1>1, <2>1, ReadsStutter
<1>4. QED
  BY <1>2, <1>3

LEMMA InsertImplements ==
  ASSUME Alone, AloneInv, NEW a \in Actor, ProposeInsert(a)
  PROVE  Contract!Next
<1>0. /\ pc \in [Actor -> Steps] /\ job \in [Actor -> Job] /\ block \in [Bid -> Row]
      /\ job[a].src \in Source \ Protected
  BY DEF AloneInv, Safe, TypeOK, JobsSafe, JobSafe, ProposeInsert, ProposeSteps
<1>a. PICK s \in Source \ Protected : s = job[a].src
  BY <1>0
<1>1. PICK b \in Bid :
        /\ block[b].status = "absent"
        /\ block' = [block EXCEPT ![b] =
             [status |-> "proposed", source |-> s,
              incident |-> job[a].inc, live |-> TRUE]]
        /\ Proposed(a, b, "proposed")
  BY <1>a DEF ProposeInsert
<1>2. pc[a] = "p_insert" /\ pc'[a] # "z_delete" /\ UNCHANGED pf
  BY <1>0, <1>1 DEF ProposeInsert, Proposed, Return
<1>3. BackedSources' = BackedSources
  BY <1>0, <1>1 DEF BackedSources
<1>4. Enforced' = Enforced
  BY <1>2, <1>3, FlushedByOne DEF Enforced
<1>5. Contract!Propose(b, s)
  <2>1. \A c \in Bid \ {b} : block'[c] = block[c]
    BY <1>0, <1>1
  <2>2. /\ block'[b].status = "proposed" /\ block'[b].live = TRUE
        /\ block'[b].source = s
    BY <1>0, <1>1
  <2>3. [c \in Bid |-> block'[c].status] = [[c \in Bid |-> block[c].status] EXCEPT ![b] = "proposed"]
    BY <2>1, <2>2
  <2>4. [c \in Bid |-> block'[c].live] = [[c \in Bid |-> block[c].live] EXCEPT ![b] = TRUE]
    BY <2>1, <2>2
  <2>5. [c \in Bid |-> block'[c].source] = [[c \in Bid |-> block[c].source] EXCEPT ![b] = s]
    BY <2>1, <2>2
  <2>6. QED
    BY <1>1, <1>4, <2>3, <2>4, <2>5 DEF Contract!Propose, Enforced
<1>6. QED
  BY <1>5, ContractSteps

LEMMA ActivateImplements ==
  ASSUME Alone, AloneInv, NEW a \in Actor,
         \/ ActivateGet(a) \/ ActivateCheckAllow(a) \/ ActivateCount(a)
         \/ ActivateAdd(a) \/ ActivateUpdate(a)
  PROVE  Contract!Next \/ UNCHANGED Contract!vars
<1>0. /\ pc \in [Actor -> Steps] /\ job \in [Actor -> Job] /\ block \in [Bid -> Row]
      /\ Known(a) /\ pf \subseteq Source
  BY DEF AloneInv, Safe, TypeOK
<1>1. pc[a] # "z_delete" /\ pc'[a] # "z_delete"
  BY <1>0 DEF ActivateGet, ActivateCheckAllow, ActivateCount, ActivateAdd, ActivateUpdate,
     Return, Goto
<1>2. FlushedForReset = {} /\ FlushedForReset' = {}
  BY <1>1, FlushedByOne
<1>3. CASE ActivateGet(a) \/ ActivateCheckAllow(a) \/ ActivateCount(a)
  <2>1. UNCHANGED <<block, pf>>
    BY <1>3 DEF ActivateGet, ActivateCheckAllow, ActivateCount, store
  <2>2. QED
    BY <1>1, <2>1, ReadsStutter
<1>4. CASE ActivateAdd(a)
  <2> DEFINE s == job[a].src
  <2>1. UNCHANGED block /\ (pf' = pf \/ pf' = pf \cup {s})
    BY <1>4 DEF ActivateAdd, store
  <2>2. s \in Source \ Protected
    BY <1>4 DEF ActivateAdd, AloneInv, Safe, JobsSafe, JobSafe, ActivateSteps
  <2>3. BackedSources' = BackedSources
    BY <2>1 DEF BackedSources
  <2>4. CASE Enforced' = Enforced
    BY <2>1, <2>4, Stutters
  <2>5. CASE Enforced' # Enforced
    <3>1. s \in BackedSources /\ Enforced' = Enforced \cup {s}
      BY <1>2, <2>1, <2>3, <2>5 DEF Enforced
    <3>2. Contract!Reassert(s)
      BY <2>1, <2>2, <3>1 DEF Contract!Reassert, Contract!Backed, Contract!Active, Enforced,
         BackedSources
    <3>3. QED
      BY <2>2, <3>2, ContractSteps
  <2>6. QED
    BY <2>4, <2>5
<1>5. CASE ActivateUpdate(a)
  <2>0. PICK b \in Bid : b = job[a].blk
    BY <1>5 DEF ActivateUpdate, AloneInv, Safe, JobsSafe, JobSafe, ActivateSteps
  <2>1. /\ Exists(b) /\ block[b].source = job[a].src /\ job[a].src \in pf
        /\ block[b].source \notin Protected
    BY <1>0, <1>5, <2>0 DEF ActivateUpdate, Known, AloneInv, Safe, JobsSafe, JobSafe,
                            ActivateSteps
  <2>2. block' = [block EXCEPT ![b].status = "active"] /\ UNCHANGED pf
    BY <1>5, <2>0, <2>1 DEF ActivateUpdate, UpdateBlockStatus
  <2>3. /\ \A c \in Bid : /\ block'[c].live = block[c].live
                          /\ block'[c].source = block[c].source
                          /\ block'[c].status = IF c = b THEN "active" ELSE block[c].status
    BY <1>0, <2>2 DEF Row
  <2>4. BackedSources' = BackedSources \cup {block[b].source}
    BY <2>1, <2>3 DEF BackedSources
  <2>5. Enforced' = Enforced \cup {block[b].source}
    BY <1>2, <2>1, <2>2, <2>4 DEF Enforced
  <2>6. [c \in Bid |-> block'[c].status] = [[c \in Bid |-> block[c].status] EXCEPT ![b] = "active"]
    BY <2>1, <2>3
  <2>7. Contract!Grant(b)
    BY <2>1, <2>3, <2>5, <2>6 DEF Contract!Grant, Enforced, Exists
  <2>8. QED
    BY <2>7, ContractSteps
<1>6. QED
  BY <1>3, <1>4, <1>5

(* Entries end: those that go lose what is enforced on their account alone.  *)
LEMMA Retires ==
  ASSUME NEW B \in SUBSET Bid, NEW final \in {"removed", "expired"},
         \A b \in B : Exists(b),
         \A b \in Bid : /\ block'[b].status = IF b \in B THEN final ELSE block[b].status
                        /\ block'[b].live = block[b].live
                        /\ block'[b].source = block[b].source,
         UNCHANGED pf, FlushedForReset = {}, FlushedForReset' = {}
  PROVE  Contract!Next
<1>1. BackedSources' = {s \in BackedSources : \E b \in Bid \ B :
                          block[b].status = "active" /\ block[b].source = s}
  BY DEF BackedSources
<1>2. Enforced' = {s \in Enforced : \E b \in Bid \ B :
                     block[b].status = "active" /\ block[b].source = s}
  BY <1>1 DEF Enforced
<1>3. [b \in Bid |-> block'[b].status]
        = [b \in Bid |-> IF b \in B THEN final ELSE block[b].status]
  OBVIOUS
<1>4. Contract!Retire(B, final)
  BY <1>2, <1>3 DEF Contract!Retire, Contract!Active, Enforced, Exists
<1>5. QED
  BY <1>4, ContractSteps

(* PF lets a source through that no unexpired entry in force claims.         *)
LEMMA Relaxes ==
  ASSUME NEW s, s \notin ActiveBlockSources, UNCHANGED block, pf' = pf \/ pf' = pf \ {s},
         FlushedForReset = {}, FlushedForReset' = {}, pf \subseteq Source
  PROVE  Contract!Next \/ UNCHANGED Contract!vars
<1>1. BackedSources' = BackedSources
  BY DEF BackedSources
<1>2. CASE Enforced' = Enforced
  BY <1>2, Stutters
<1>3. CASE Enforced' # Enforced
  <2>1. Enforced' = Enforced \ {s} /\ s \in Source
    BY <1>1, <1>3 DEF Enforced
  <2>2. Contract!Relax(s)
    BY <2>1 DEF Contract!Relax, Contract!Entitled, Contract!Active, Enforced,
       ActiveBlockSources, LiveActive
  <2>3. QED
    BY <2>1, <2>2, ContractSteps
<1>4. QED
  BY <1>2, <1>3

LEMMA RemoveImplements ==
  ASSUME Alone, AloneInv, NEW a \in Actor,
         \/ RemoveGet(a) \/ RemoveUpdate(a) \/ RemoveCheck(a) \/ RemoveDelete(a)
  PROVE  Contract!Next \/ UNCHANGED Contract!vars
<1>0. /\ pc \in [Actor -> Steps] /\ job \in [Actor -> Job] /\ block \in [Bid -> Row]
      /\ Known(a) /\ pf \subseteq Source
  BY DEF AloneInv, Safe, TypeOK
<1>1. pc[a] # "z_delete" /\ pc'[a] # "z_delete"
  BY <1>0 DEF RemoveGet, RemoveUpdate, RemoveCheck, RemoveDelete, RemoveNext, Return, Goto
<1>2. FlushedForReset = {} /\ FlushedForReset' = {}
  BY <1>1, FlushedByOne
<1>3. CASE RemoveGet(a) \/ RemoveCheck(a)
  <2>1. UNCHANGED <<block, pf>>
    BY <1>3 DEF RemoveGet, RemoveCheck, store
  <2>2. QED
    BY <1>1, <2>1, ReadsStutter
<1>4. CASE RemoveUpdate(a)
  <2>1. PICK b \in Bid : b = job[a].blk
    BY <1>4 DEF RemoveUpdate, Goto, AloneInv, Safe, JobsSafe, JobSafe
  <2>2. Exists(b)
    BY <1>0, <1>4, <2>1 DEF RemoveUpdate, Goto, Known
  <2>3. block' = [block EXCEPT ![b].status = "removed"] /\ UNCHANGED pf
    BY <1>4, <2>1, <2>2 DEF RemoveUpdate, UpdateBlockStatus
  <2>4. \A c \in Bid : /\ block'[c].status = IF c \in {b} THEN "removed" ELSE block[c].status
                       /\ block'[c].live = block[c].live
                       /\ block'[c].source = block[c].source
    BY <1>0, <2>3 DEF Row
  <2>5. \A c \in {b} : Exists(c)
    BY <2>2
  <2>6. QED
    BY <1>2, <2>3, <2>4, <2>5, Retires
<1>5. CASE RemoveDelete(a)
  <2>1. UNCHANGED block /\ (pf' = pf \/ pf' = pf \ {job[a].src})
    BY <1>5 DEF RemoveDelete, store
  <2>2. job[a].src \notin ActiveBlockSources
    BY <1>0, <1>5 DEF RemoveDelete, Known
  <2>3. QED
    BY <1>0, <1>2, <2>1, <2>2, Relaxes
<1>6. QED
  BY <1>3, <1>4, <1>5

LEMMA ExpireImplements ==
  ASSUME Alone, AloneInv, NEW a \in Actor,
         \/ ExpireSelect(a) \/ ExpireUpdate(a) \/ ExpireDone(a)
         \/ (\E s \in Source : ExpireCheck(a, s)) \/ ExpireDelete(a)
  PROVE  Contract!Next \/ UNCHANGED Contract!vars
<1>0. /\ pc \in [Actor -> Steps] /\ job \in [Actor -> Job] /\ block \in [Bid -> Row]
      /\ Known(a) /\ pf \subseteq Source /\ job[a].todo \subseteq Bid
  BY DEF AloneInv, Safe, TypeOK, Job
<1>1. pc[a] # "z_delete" /\ pc'[a] # "z_delete"
  BY <1>0 DEF ExpireSelect, ExpireUpdate, ExpireDone, ExpireCheck, ExpireDelete, Return, Goto
<1>2. FlushedForReset = {} /\ FlushedForReset' = {}
  BY <1>1, FlushedByOne
<1>3. CASE ExpireSelect(a) \/ ExpireDone(a) \/ \E s \in Source : ExpireCheck(a, s)
  <2>1. UNCHANGED <<block, pf>>
    BY <1>3 DEF ExpireSelect, ExpireDone, ExpireCheck, store
  <2>2. QED
    BY <1>1, <2>1, ReadsStutter
<1>4. CASE ExpireUpdate(a)
  <2>1. PICK gone \in SUBSET Bid : gone = {b \in job[a].todo : Exists(b)}
    BY <1>0
  <2>2. /\ block' = [b \in Bid |-> IF b \in gone
                       THEN [block[b] EXCEPT !.status = "expired"] ELSE block[b]]
        /\ UNCHANGED pf
    BY <1>4, <2>1 DEF ExpireUpdate
  <2>3. \A b \in Bid : /\ block'[b].status = IF b \in gone THEN "expired" ELSE block[b].status
                       /\ block'[b].live = block[b].live
                       /\ block'[b].source = block[b].source
    BY <1>0, <2>2 DEF Row
  <2>4. \A b \in gone : Exists(b)
    BY <2>1
  <2>5. QED
    BY <1>2, <2>2, <2>3, <2>4, Retires
<1>5. CASE ExpireDelete(a)
  <2>1. UNCHANGED block /\ (pf' = pf \/ pf' = pf \ {job[a].src})
    BY <1>5 DEF ExpireDelete, store
  <2>2. job[a].src \notin ActiveBlockSources
    BY <1>0, <1>5 DEF ExpireDelete, Known
  <2>3. QED
    BY <1>0, <1>2, <2>1, <2>2, Relaxes
<1>6. QED
  BY <1>3, <1>4, <1>5

LEMMA ContinueImplements ==
  ASSUME Alone, AloneInv, NEW a \in Actor, Continue(a)
  PROVE  Contract!Next \/ UNCHANGED Contract!vars
<1>0. pc \in [Actor -> Steps] /\ job \in [Actor -> Job] /\ block \in [Bid -> Row]
  BY DEF AloneInv, Safe, TypeOK
<1>1. CASE ProposeDenied(a) \/ ProposeCheckAllow(a) \/ ProposeFindCase(a) \/ ProposeFindSource(a)
  <2>1. UNCHANGED <<block, pf>> /\ pc[a] # "z_delete" /\ pc'[a] # "z_delete"
    BY <1>0, <1>1 DEF ProposeDenied, ProposeCheckAllow, ProposeFindCase, ProposeFindSource,
       Proposed, Return, Goto, store
  <2>2. QED
    BY <2>1, ReadsStutter
<1>2. CASE DeleteIncident(a)
  <2>1. UNCHANGED <<block, pf>> /\ pc[a] # "z_delete" /\ pc'[a] # "z_delete"
    BY <1>0, <1>2 DEF DeleteIncident, Return
  <2>2. QED
    BY <2>1, ReadsStutter
<1>3. CASE ResetDelete(a)
  <2>1. /\ block' = [b \in Bid |-> IF block[b].status = "absent" THEN block[b]
                       ELSE [block[b] EXCEPT !.status = "deleted", !.live = FALSE]]
        /\ pc'[a] = "idle" /\ UNCHANGED pf
    BY <1>0, <1>3 DEF ResetDelete, Return
  <2>2. \A b \in Bid :
          /\ block'[b].status = IF block[b].status = "absent" THEN "absent" ELSE "deleted"
          /\ block'[b].live = FALSE
          /\ block'[b].source = block[b].source
    BY <1>0, <2>1 DEF Row, AloneInv, AbsentAreDead
  <2>3. BackedSources' = {}
    BY <2>2 DEF BackedSources
  <2>4. Enforced' = {}
    BY <2>3 DEF Enforced
  <2>5. [b \in Bid |-> block'[b].status]
          = [b \in Bid |-> IF block[b].status = "absent" THEN "absent" ELSE "deleted"]
    BY <2>2
  <2>6. Contract!Forget
    BY <2>2, <2>4, <2>5 DEF Contract!Forget, Enforced
  <2>7. QED
    BY <2>6, ContractSteps
<1>4. QED
  BY <1>1, <1>2, <1>3, InsertImplements, ActivateImplements, RemoveImplements,
     ExpireImplements DEF Continue

LEMMA EnvironmentImplements ==
  ASSUME Alone, AloneInv, Disturbances \cap {"crash", "reboot"} = {}, Environment
  PROVE  Contract!Next \/ UNCHANGED Contract!vars
<1>0. block \in [Bid -> Row]
  BY DEF AloneInv, Safe, TypeOK
<1>1. UNCHANGED <<pf, pc, job>>
  BY DEF Environment, OpenIncident, AgeIncident, SeeHost, Lapse, Crash, Reboot
<1>2. FlushedForReset' = FlushedForReset
  BY <1>1 DEF FlushedForReset
<1>3. ASSUME NEW b \in Bid, Lapse(b)
      PROVE  Contract!Next
  <2>1. block' = [block EXCEPT ![b].live = FALSE] /\ block[b].live
    BY <1>3 DEF Lapse
  <2>2. \A c \in Bid : /\ block'[c].status = block[c].status
                       /\ block'[c].source = block[c].source
                       /\ block'[c].live = IF c = b THEN FALSE ELSE block[c].live
    BY <1>0, <2>1 DEF Row
  <2>3. BackedSources' = BackedSources
    BY <2>2 DEF BackedSources
  <2>4. Enforced' = Enforced
    BY <1>1, <1>2, <2>3 DEF Enforced
  <2>5. [c \in Bid |-> block'[c].live] = [[c \in Bid |-> block[c].live] EXCEPT ![b] = FALSE]
    BY <2>2
  <2>6. Contract!Lapse(b)
    BY <2>1, <2>2, <2>4, <2>5 DEF Contract!Lapse, Enforced
  <2>7. QED
    BY <2>6, ContractSteps
<1>4. CASE \A b \in Bid : ~Lapse(b)
  <2>1. UNCHANGED block
    BY <1>4 DEF Environment, OpenIncident, AgeIncident, SeeHost, Crash, Reboot
  <2>2. Enforced' = Enforced
    BY <1>1, <1>2, <2>1 DEF Enforced, BackedSources
  <2>3. QED
    BY <2>1, <2>2, Stutters
<1>5. QED
  BY <1>3, <1>4

(* One process at a time keeps the contract through PF failures, hanging     *)
(* commands, activations from the shell, resets that leave PF alone and time *)
(* that runs out anywhere; only a crash in a reset, which leaves PF flushed, *)
(* and a reboot take enforcement away without a word.                        *)
THEOREM ImplementsContract ==
  ASSUME Alone, Disturbances \cap {"crash", "reboot"} = {}
  PROVE  Spec => KeepsContract
<1>1. Init => Contract!Init
  BY DEF Init, Contract!Init, NoRow, FlushedForReset
<1>2. AloneInv /\ [Next]_vars => [Contract!Next]_(Contract!vars)
  <2> SUFFICES ASSUME AloneInv, [Next]_vars
               PROVE  Contract!Next \/ UNCHANGED Contract!vars
    OBVIOUS
  <2>1. UNCHANGED vars => UNCHANGED Contract!vars
    BY DEF vars, store, Contract!vars, FlushedForReset, BackedSources
  <2>2. QED
    BY <2>1, BeginImplements, ContinueImplements, EnvironmentImplements DEF Next
<1>3. QED
  BY <1>1, <1>2, AlwaysAlone, PTL DEF Spec, KeepsContract, Contract!Spec

(* What the contract gives a reader of the entries: whenever an entry is in  *)
(* force and has not run out, PF drops its source, or is being reset.        *)
THEOREM ActiveMeansDropped ==
  ASSUME Alone, Disturbances \cap {"crash", "reboot"} = {}
  PROVE  Spec => [](\A b \in LiveActive : block[b].source \in pf \cup FlushedForReset)
<1>1. Contract!Init => Contract!ActiveIsEnforced
  BY DEF Contract!Init, Contract!ActiveIsEnforced, Contract!Active
<1>2. Contract!ActiveIsEnforced /\ [Contract!Next]_(Contract!vars) => Contract!ActiveIsEnforced'
  <2> SUFFICES ASSUME Contract!ActiveIsEnforced, [Contract!Next]_(Contract!vars)
               PROVE  Contract!ActiveIsEnforced'
    OBVIOUS
  <2> USE DEF Contract!ActiveIsEnforced, Contract!Active
  <2>1. ASSUME NEW b \in Bid, NEW s \in Source \ Protected, Contract!Propose(b, s)
        PROVE  Contract!ActiveIsEnforced'
    BY <2>1 DEF Contract!Propose
  <2>2. ASSUME NEW b \in Bid, Contract!Grant(b)
        PROVE  Contract!ActiveIsEnforced'
    BY <2>2 DEF Contract!Grant
  <2>3. ASSUME NEW b \in Bid, Contract!Lapse(b)
        PROVE  Contract!ActiveIsEnforced'
    BY <2>3 DEF Contract!Lapse
  <2>4. ASSUME NEW s \in Source, Contract!Reassert(s)
        PROVE  Contract!ActiveIsEnforced'
    BY <2>4 DEF Contract!Reassert
  <2>5. ASSUME NEW s \in Source, Contract!Relax(s)
        PROVE  Contract!ActiveIsEnforced'
    BY <2>5 DEF Contract!Relax, Contract!Entitled
  <2>6. ASSUME NEW B \in SUBSET Bid, NEW final \in {"removed", "expired"},
               Contract!Retire(B, final)
        PROVE  Contract!ActiveIsEnforced'
    BY <2>6 DEF Contract!Retire
  <2>7. CASE Contract!Forget
    BY <2>7 DEF Contract!Forget
  <2>8. CASE UNCHANGED Contract!vars
    BY <2>8 DEF Contract!vars
  <2>9. QED
    BY <2>1, <2>2, <2>3, <2>4, <2>5, <2>6, <2>7, <2>8 DEF Contract!Next
<1>3. Contract!ActiveIsEnforced =>
        \A b \in LiveActive : block[b].source \in pf \cup FlushedForReset
  BY DEF Contract!ActiveIsEnforced, Contract!Active, LiveActive
<1>4. QED
  BY <1>1, <1>2, <1>3, ImplementsContract, PTL DEF KeepsContract, Contract!Spec

-----------------------------------------------------------------------------
(* Nothing stays in PF that no entry accounts for. *)

(* NothingLeaks, of the only process. *)
Accounted(a) ==
  \A s \in pf :
    \/ s \in BackedSources
    \/ pc[a] \in {"a_update", "r_check", "r_delete"} /\ job[a].src = s
    \/ pc[a] \in {"x_select", "x_update", "x_check", "x_delete"} /\ s \in job[a].srcs
    \/ pc[a] = "z_delete"

(* What expire will take out of the entries it has to take out of PF, and a  *)
(* reset has flushed PF before it deletes the entries.                       *)
Prepared(a) ==
  /\ pc[a] = "x_select" =>
       \A b \in Bid : block[b].status = "active" /\ ~block[b].live
                        => block[b].source \in job[a].srcs
  /\ pc[a] = "x_update" =>
       \A b \in job[a].todo : block[b].status = "active" => block[b].source \in job[a].srcs
  /\ pc[a] = "z_delete" => pf = {}

LeakInv == \A a \in Actor : Accounted(a) /\ Prepared(a)

(* Failures that leave an address in PF by their nature. *)
Orderly == Disturbances \cap {"pf_error", "crash", "reset_keeps_pf", "clock_race"} = {}

LEMMA OnlyAccounted ==
  ASSUME Alone, NEW a \in Actor
  PROVE  /\ LeakInv <=> Accounted(a) /\ Prepared(a)
         /\ LeakInv' <=> Accounted(a)' /\ Prepared(a)'
  BY DEF Alone, LeakInv

(* Outside of the steps that have addresses in hand, entries back them all.  *)
Empty == {"idle", "p_allow", "p_case", "p_source", "p_insert", "a_get", "a_allow", "a_count",
          "a_add", "r_get", "r_update", "d_delete"}

LEMMA AllBacked ==
  ASSUME NEW a \in Actor, pc[a] \in Empty, Accounted(a)
  PROVE  pf \subseteq BackedSources
  BY DEF Accounted, Empty

LEMMA BackedAccounted ==
  ASSUME NEW a \in Actor, pf' \subseteq BackedSources', pc'[a] \notin {"x_select", "x_update", "z_delete"}
  PROVE  Accounted(a)' /\ Prepared(a)'
  BY DEF Accounted, Prepared

LEMMA BeginLeaksNothing ==
  ASSUME Alone, Orderly, AloneInv, LeakInv, NEW a \in Actor, Begin(a)
  PROVE  LeakInv'
<1>0. /\ pc \in [Actor -> Steps] /\ job \in [Actor -> Job]
      /\ Accounted(a) /\ Prepared(a)
  BY DEF AloneInv, Safe, TypeOK, LeakInv
<1>1. pc[a] = "idle" /\ UNCHANGED block
  BY DEF Begin, ProposeForIncident, ProposeManual, StartActivate, StartRemove, StartRelease,
     StartExpire, StartDelete, StartReset, Purge, EditAllowlist, Start, MayStart, store
<1>2. pf \subseteq BackedSources /\ BackedSources' = BackedSources
  BY <1>0, <1>1, AllBacked DEF Empty, BackedSources
<1>3. CASE StartReset(a)
  <2>1. pc'[a] = "z_delete" /\ pf' = {}
    BY <1>0, <1>3 DEF StartReset, Start, Orderly
  <2>2. Accounted(a)' /\ Prepared(a)'
    BY <2>1 DEF Accounted, Prepared
  <2>3. QED
    BY <2>2, OnlyAccounted
<1>4. CASE StartExpire(a)
  <2>1. /\ pc'[a] = "x_select" /\ UNCHANGED pf
        /\ job'[a].srcs = ExpiredActiveBlockSources
    BY <1>0, <1>4 DEF StartExpire, Start, NoJob
  <2>2. Accounted(a)' /\ Prepared(a)'
    BY <1>1, <1>2, <2>1 DEF Accounted, Prepared, ExpiredActiveBlockSources
  <2>3. QED
    BY <2>2, OnlyAccounted
<1>5. CASE ~StartReset(a) /\ ~StartExpire(a)
  <2>1. pc'[a] \notin {"x_select", "x_update", "z_delete"} /\ UNCHANGED pf
    BY <1>0, <1>1, <1>5 DEF Begin, ProposeForIncident, ProposeManual, StartActivate, StartRemove,
       StartRelease, StartDelete, Purge, EditAllowlist, Start
  <2>2. QED
    BY <1>2, <2>1, BackedAccounted, OnlyAccounted
<1>6. QED
  BY <1>3, <1>4, <1>5

LEMMA ActivateLeaksNothing ==
  ASSUME Alone, Orderly, AloneInv, LeakInv, NEW a \in Actor,
         \/ ActivateGet(a) \/ ActivateCheckAllow(a) \/ ActivateCount(a)
         \/ ActivateAdd(a) \/ ActivateUpdate(a)
  PROVE  LeakInv'
<1>0. /\ pc \in [Actor -> Steps] /\ job \in [Actor -> Job] /\ block \in [Bid -> Row]
      /\ Accounted(a) /\ Known(a)
  BY DEF AloneInv, Safe, TypeOK, LeakInv
<1>1. pc'[a] \notin {"x_select", "x_update", "z_delete"}
  BY <1>0 DEF ActivateGet, ActivateCheckAllow, ActivateCount, ActivateAdd, ActivateUpdate,
     Return, Goto
<1>2. CASE ActivateGet(a) \/ ActivateCheckAllow(a) \/ ActivateCount(a)
  <2>1. UNCHANGED <<block, pf>> /\ pc[a] \in Empty
    BY <1>2 DEF ActivateGet, ActivateCheckAllow, ActivateCount, Goto, Empty, store
  <2>2. pf' \subseteq BackedSources'
    BY <1>0, <2>1, AllBacked DEF BackedSources
  <2>3. QED
    BY <1>1, <2>2, BackedAccounted, OnlyAccounted
<1>3. CASE ActivateAdd(a)
  <2>1. /\ UNCHANGED <<block, job>> /\ pf' = pf \cup {job[a].src} /\ pc'[a] = "a_update"
        /\ pc[a] \in Empty
    BY <1>0, <1>3 DEF ActivateAdd, Goto, Orderly, Empty, store
  <2>2. pf \subseteq BackedSources /\ BackedSources' = BackedSources
    BY <1>0, <2>1, AllBacked DEF BackedSources
  <2>3. Accounted(a)' /\ Prepared(a)'
    BY <2>1, <2>2 DEF Accounted, Prepared
  <2>4. QED
    BY <2>3, OnlyAccounted
<1>4. CASE ActivateUpdate(a)
  <2>1. /\ pc[a] = "a_update" /\ job[a].blk \in Bid /\ Exists(job[a].blk)
        /\ block[job[a].blk].source = job[a].src
    BY <1>0, <1>4 DEF ActivateUpdate, Known, AloneInv, Safe, JobsSafe, JobSafe, ActivateSteps
  <2>2. block' = [block EXCEPT ![job[a].blk].status = "active"] /\ UNCHANGED pf
    BY <1>4, <2>1 DEF ActivateUpdate, UpdateBlockStatus
  <2>3. BackedSources \cup {job[a].src} \subseteq BackedSources'
    BY <1>0, <2>1, <2>2 DEF BackedSources, Row
  <2>4. pf \subseteq BackedSources \cup {job[a].src}
    BY <1>0, <2>1 DEF Accounted
  <2>5. pf' \subseteq BackedSources'
    BY <2>2, <2>3, <2>4
  <2>6. QED
    BY <1>1, <2>5, BackedAccounted, OnlyAccounted
<1>5. QED
  BY <1>2, <1>3, <1>4

LEMMA RemoveLeaksNothing ==
  ASSUME Alone, Orderly, AloneInv, LeakInv, NEW a \in Actor,
         \/ RemoveGet(a) \/ RemoveUpdate(a) \/ RemoveCheck(a) \/ RemoveDelete(a)
  PROVE  LeakInv'
<1>0. /\ pc \in [Actor -> Steps] /\ job \in [Actor -> Job] /\ block \in [Bid -> Row]
      /\ Accounted(a) /\ Known(a)
  BY DEF AloneInv, Safe, TypeOK, LeakInv
<1>1. pc'[a] \notin {"x_select", "x_update", "z_delete"}
  BY <1>0 DEF RemoveGet, RemoveUpdate, RemoveCheck, RemoveDelete, RemoveNext, Return, Goto
<1>2. UNCHANGED block => BackedSources' = BackedSources
  BY DEF BackedSources
<1>3. CASE RemoveGet(a)
  <2>1. UNCHANGED <<block, pf>> /\ pc[a] \in Empty
    BY <1>3 DEF RemoveGet, Empty, store
  <2>2. QED
    BY <1>0, <1>1, <1>2, <2>1, AllBacked, BackedAccounted, OnlyAccounted
<1>4. CASE RemoveUpdate(a)
  <2>1. /\ pc[a] \in Empty /\ pc'[a] = "r_check" /\ UNCHANGED <<pf, job>>
        /\ job[a].blk \in Bid /\ Exists(job[a].blk) /\ block[job[a].blk].source = job[a].src
    BY <1>0, <1>4 DEF RemoveUpdate, Goto, Known, Empty, AloneInv, Safe, JobsSafe, JobSafe
  <2>2. block' = [block EXCEPT ![job[a].blk].status = "removed"]
    BY <1>4, <2>1 DEF RemoveUpdate, UpdateBlockStatus
  <2>3. BackedSources \subseteq BackedSources' \cup {job[a].src}
    BY <1>0, <2>1, <2>2 DEF BackedSources, Row
  <2>4. pf \subseteq BackedSources
    BY <1>0, <2>1, AllBacked
  <2>5. Accounted(a)' /\ Prepared(a)'
    BY <2>1, <2>3, <2>4 DEF Accounted, Prepared
  <2>6. QED
    BY <2>5, OnlyAccounted
<1>5. CASE RemoveCheck(a)
  <2>1. pc[a] = "r_check" /\ UNCHANGED <<block, pf>>
    BY <1>5 DEF RemoveCheck, store
  <2>2. pf \subseteq BackedSources \cup {job[a].src}
    BY <1>0, <2>1 DEF Accounted
  <2>3. CASE job[a].src \in ActiveBlockSources
    <3>1. pf' \subseteq BackedSources'
      BY <1>2, <2>1, <2>2, <2>3 DEF ActiveBlockSources, LiveActive, BackedSources
    <3>2. QED
      BY <1>1, <3>1, BackedAccounted, OnlyAccounted
  <2>4. CASE job[a].src \notin ActiveBlockSources
    <3>1. pc'[a] = "r_delete" /\ UNCHANGED job
      BY <1>0, <1>5, <2>4 DEF RemoveCheck, Goto
    <3>2. Accounted(a)' /\ Prepared(a)'
      BY <1>2, <2>1, <2>2, <3>1 DEF Accounted, Prepared
    <3>3. QED
      BY <3>2, OnlyAccounted
  <2>5. QED
    BY <2>3, <2>4
<1>6. CASE RemoveDelete(a)
  <2>1. pc[a] = "r_delete" /\ UNCHANGED block /\ pf' = pf \ {job[a].src}
    BY <1>6 DEF RemoveDelete, Orderly, store
  <2>2. pf \subseteq BackedSources \cup {job[a].src}
    BY <1>0, <2>1 DEF Accounted
  <2>3. QED
    BY <1>1, <1>2, <2>1, <2>2, BackedAccounted, OnlyAccounted
<1>7. QED
  BY <1>3, <1>4, <1>5, <1>6

LEMMA ExpireLeaksNothing ==
  ASSUME Alone, Orderly, AloneInv, LeakInv, NEW a \in Actor,
         \/ ExpireSelect(a) \/ ExpireUpdate(a) \/ ExpireDone(a)
         \/ (\E s \in Source : ExpireCheck(a, s)) \/ ExpireDelete(a)
  PROVE  LeakInv'
<1>0. /\ pc \in [Actor -> Steps] /\ job \in [Actor -> Job] /\ block \in [Bid -> Row]
      /\ job[a] \in Job /\ Accounted(a) /\ Prepared(a)
  BY DEF AloneInv, Safe, TypeOK, LeakInv
<1>1. pf \subseteq BackedSources \cup job[a].srcs
  BY <1>0 DEF ExpireSelect, ExpireUpdate, ExpireDone, ExpireCheck, ExpireDelete, Goto, Accounted
<1>2. UNCHANGED block => BackedSources' = BackedSources
  BY DEF BackedSources
<1>3. ASSUME pf' \subseteq BackedSources' \cup job'[a].srcs, pc'[a] \in {"x_check", "x_delete"}
      PROVE  LeakInv'
  <2>1. Accounted(a)' /\ Prepared(a)'
    BY <1>3 DEF Accounted, Prepared
  <2>2. QED
    BY <2>1, OnlyAccounted
<1>4. CASE ExpireSelect(a)
  <2>1. /\ pc[a] = "x_select" /\ pc'[a] = "x_update" /\ UNCHANGED <<block, pf>>
        /\ job'[a].srcs = job[a].srcs
        /\ job'[a].todo = {b \in Bid : block[b].status \in {"proposed", "active"} /\ ~block[b].live}
    BY <1>0, <1>4 DEF ExpireSelect, Goto, Job, store
  <2>2. Accounted(a)' /\ Prepared(a)'
    BY <1>0, <1>1, <1>2, <2>1 DEF Accounted, Prepared
  <2>3. QED
    BY <2>2, OnlyAccounted
<1>5. CASE ExpireUpdate(a)
  <2>1. /\ pc[a] = "x_update" /\ pc'[a] = "x_check" /\ UNCHANGED pf
        /\ job'[a].srcs = job[a].srcs
        /\ block' = [b \in Bid |-> IF b \in {c \in job[a].todo : Exists(c)}
                       THEN [block[b] EXCEPT !.status = "expired"] ELSE block[b]]
    BY <1>0, <1>5 DEF ExpireUpdate, Goto, Job
  <2>2. BackedSources \subseteq BackedSources' \cup job[a].srcs
    <3>1. ASSUME NEW b \in Bid, block[b].status = "active", b \notin job[a].todo
          PROVE  block'[b] = block[b]
      BY <2>1, <3>1
    <3>2. ASSUME NEW b \in Bid, block[b].status = "active"
          PROVE  block[b].source \in BackedSources' \cup job[a].srcs
      BY <1>0, <2>1, <3>1, <3>2 DEF Prepared, BackedSources
    <3>3. QED
      BY <3>2 DEF BackedSources
  <2>3. QED
    BY <1>1, <1>3, <2>1, <2>2
<1>6. CASE ExpireDone(a)
  <2>1. job[a].srcs = {} /\ pc'[a] = "idle" /\ UNCHANGED <<block, pf>>
    BY <1>0, <1>6 DEF ExpireDone, Return, store
  <2>2. QED
    BY <1>1, <1>2, <2>1, BackedAccounted, OnlyAccounted
<1>7. ASSUME NEW s \in Source, ExpireCheck(a, s)
      PROVE  LeakInv'
  <2>1. /\ pc[a] = "x_check" /\ UNCHANGED <<block, pf>>
        /\ \/ s \in ActiveBlockSources /\ pc'[a] = "x_check" /\ job'[a].srcs = job[a].srcs \ {s}
           \/ pc'[a] = "x_delete" /\ job'[a].srcs = job[a].srcs
    BY <1>0, <1>7 DEF ExpireCheck, Goto, Job, store
  <2>2. ActiveBlockSources \subseteq BackedSources
    BY DEF ActiveBlockSources, LiveActive, BackedSources
  <2>3. QED
    BY <1>1, <1>2, <1>3, <2>1, <2>2
<1>8. CASE ExpireDelete(a)
  <2>1. /\ UNCHANGED block /\ pf' = pf \ {job[a].src} /\ pc'[a] = "x_check"
        /\ job'[a].srcs = job[a].srcs \ {job[a].src}
    BY <1>0, <1>8 DEF ExpireDelete, Goto, Job, Orderly, store
  <2>2. QED
    BY <1>1, <1>2, <1>3, <2>1
<1>9. QED
  BY <1>4, <1>5, <1>6, <1>7, <1>8

LEMMA ContinueLeaksNothing ==
  ASSUME Alone, Orderly, AloneInv, LeakInv, NEW a \in Actor, Continue(a)
  PROVE  LeakInv'
<1>0. /\ pc \in [Actor -> Steps] /\ job \in [Actor -> Job] /\ block \in [Bid -> Row]
      /\ Accounted(a) /\ Prepared(a)
  BY DEF AloneInv, Safe, TypeOK, LeakInv
<1>1. CASE \/ ProposeDenied(a) \/ ProposeCheckAllow(a) \/ ProposeFindCase(a)
           \/ ProposeFindSource(a) \/ DeleteIncident(a)
  <2>1. /\ UNCHANGED <<block, pf>> /\ pc[a] \in Empty
        /\ pc'[a] \notin {"x_select", "x_update", "z_delete"}
    BY <1>0, <1>1 DEF ProposeDenied, ProposeCheckAllow, ProposeFindCase, ProposeFindSource,
       DeleteIncident, Proposed, Return, Goto, Empty, store
  <2>2. pf' \subseteq BackedSources'
    BY <1>0, <2>1, AllBacked DEF BackedSources
  <2>3. QED
    BY <2>1, <2>2, BackedAccounted, OnlyAccounted
<1>2. CASE ProposeInsert(a)
  <2>1. PICK b \in Bid :
          /\ block[b].status = "absent"
          /\ block' = [block EXCEPT ![b] =
               [status |-> "proposed", source |-> job[a].src,
                incident |-> job[a].inc, live |-> TRUE]]
          /\ Proposed(a, b, "proposed")
    BY <1>2 DEF ProposeInsert
  <2>2. pc[a] \in Empty /\ pc'[a] \notin {"x_select", "x_update", "z_delete"} /\ UNCHANGED pf
    BY <1>0, <1>2, <2>1 DEF ProposeInsert, Proposed, Return, Empty
  <2>3. BackedSources' = BackedSources
    BY <1>0, <2>1 DEF BackedSources
  <2>4. QED
    BY <1>0, <2>2, <2>3, AllBacked, BackedAccounted, OnlyAccounted
<1>3. CASE ResetDelete(a)
  <2>1. pf' = {} /\ pc'[a] = "idle"
    BY <1>0, <1>3 DEF ResetDelete, Return, Prepared
  <2>2. QED
    BY <2>1, BackedAccounted, OnlyAccounted
<1>4. QED
  BY <1>1, <1>2, <1>3, ActivateLeaksNothing, RemoveLeaksNothing, ExpireLeaksNothing
     DEF Continue

LEMMA EnvironmentLeaksNothing ==
  ASSUME Alone, Orderly, AloneInv, LeakInv, Environment
  PROVE  LeakInv'
<1>0. block \in [Bid -> Row] /\ job \in [Actor -> Job]
  BY DEF AloneInv, Safe, TypeOK
<1>1. CASE Reboot
  <2>1. pf' = {} /\ \A a \in Actor : pc'[a] = "idle"
    BY <1>1 DEF Reboot
  <2>2. QED
    BY <2>1 DEF LeakInv, Accounted, Prepared
<1>2. ASSUME NEW b \in Bid, Lapse(b)
      PROVE  LeakInv'
  <2>1. /\ UNCHANGED <<pf, pc, job>>
        /\ \A a \in Actor : pc[a] \notin {"x_select", "x_update"}
        /\ \A c \in Bid : /\ block'[c].status = block[c].status
                          /\ block'[c].source = block[c].source
    BY <1>0, <1>2 DEF Lapse, Orderly, Row
  <2>2. BackedSources' = BackedSources
    BY <2>1 DEF BackedSources
  <2>3. QED
    BY <2>1, <2>2 DEF LeakInv, Accounted, Prepared
<1>3. CASE ~Reboot /\ \A b \in Bid : ~Lapse(b)
  <2>1. UNCHANGED <<block, pf, pc, job>>
    BY <1>3 DEF Environment, OpenIncident, AgeIncident, SeeHost, Crash, Orderly
  <2>2. QED
    BY <2>1 DEF LeakInv, Accounted, Prepared, BackedSources
<1>4. QED
  BY <1>1, <1>2, <1>3

(* Whatever remove, release, expire and reset take out of the entries they   *)
(* take out of PF as well, if PF does as it is told: one process at a time   *)
(* leaves no address in the table that no entry accounts for, not even after *)
(* a reboot or an activation from the shell.                                 *)
THEOREM NoLeak ==
  ASSUME Alone, Orderly
  PROVE  Spec => []NothingLeaks
<1>1. Init => LeakInv
  BY DEF Init, LeakInv, Accounted, Prepared
<1>2. LeakInv /\ UNCHANGED vars => LeakInv'
  BY DEF LeakInv, Accounted, Prepared, BackedSources, vars, store
<1>3. AloneInv /\ LeakInv /\ [Next]_vars => LeakInv'
  BY <1>2, BeginLeaksNothing, ContinueLeaksNothing, EnvironmentLeaksNothing DEF Next
<1>4. LeakInv => NothingLeaks
  <2> SUFFICES ASSUME LeakInv, NEW s \in pf
               PROVE  s \in BackedSources \/ InHand(s)
    BY DEF NothingLeaks
  <2>1. PICK a \in Actor : TRUE
    BY ResponseAssumption
  <2>2. QED
    BY <2>1 DEF LeakInv, Accounted, InHand
<1>5. QED
  BY <1>1, <1>3, <1>4, AlwaysAlone, PTL DEF Spec
=============================================================================
