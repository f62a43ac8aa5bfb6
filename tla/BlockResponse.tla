---------------------------- MODULE BlockResponse ----------------------------
(***************************************************************************)
(* The block response of PondSec NDR, one database transaction or one PF   *)
(* command at a time: the detection service and the processes that the     *)
(* GUI, configd and the shell start (response/engine.py, response/pf.py,   *)
(* the block_entries part of storage/database.py, the blocklist, incident  *)
(* and maintenance commands of cli.py, _auto_response of service.py).      *)
(*                                                                         *)
(* Every store method runs in a transaction of its own and no lock spans   *)
(* two of them or a PF command, so the steps of different processes        *)
(* interleave anywhere between two steps of a handler.                     *)
(***************************************************************************)
EXTENDS Naturals, FiniteSets

CONSTANTS
  Actor,          \* processes: the service and the command-line processes
  Service,        \* the name of the service process (in Actor or not)
  Bid,            \* block ids in order of creation; bounds the entries made
  Source,         \* what entries block: addresses and networks
  Incident,       \* incident ids
  Target,         \* the address each incident's response is about
  Protected,      \* those that is_protected_target answers true for
  MaxConcurrent,  \* config.response.max_concurrent_blocks
  Disturbances,   \* which of AllDisturbances may happen
  None            \* SQL NULL, Python None

AllDisturbances ==
  {"pf_error",        \* pfctl and configctl fail, or hang until the timeout
   "crash",           \* a process dies between two steps
   "reboot",          \* the firewall restarts: the PF table comes up empty
   "raw_activate",    \* activate is called for an entry the GUI no longer offers
   "reset_keeps_pf",  \* reset-runtime runs without --flush-pf
   "reset_live",      \* reset-runtime runs without --restart-service
   "retention",       \* cases are closed and grow older than the retention
   "clock_race",      \* expires_at falls between the reads of one expire run
   "mixed_versions"}  \* the allowlist holds an entry of the other IP version

ASSUME ResponseAssumption ==
  /\ IsFiniteSet(Actor) /\ Actor # {}
  /\ Bid \subseteq Nat /\ IsFiniteSet(Bid)
  /\ Target \in [Incident -> Source]
  /\ Protected \subseteq Source
  /\ None \notin Source /\ None \notin Incident /\ None \notin Bid
  /\ MaxConcurrent \in Nat
  /\ Disturbances \subseteq AllDisturbances

VARIABLES
  block,      \* table block_entries
  host,       \* hosts.block_status, or "missing" for a source with no row
  allow,      \* the unexpired values of allowlist_entries
  incidents,  \* ids in table incidents
  aged,       \* those of them that are not open and past the retention
  pf,         \* the PF table
  pc,         \* the next step of each process
  job         \* the local variables of the handler each process is in

store == <<block, host, allow, incidents, aged>>
vars == <<store, pf, pc, job>>

Status == {"absent", "proposed", "active", "removed", "expired", "deleted"}

Row == [status : Status, source : Source \cup {None},
        incident : Incident \cup {None}, live : BOOLEAN]

NoRow == [status |-> "absent", source |-> None, incident |-> None, live |-> FALSE]

Job == [blk : Bid \cup {None}, src : Source \cup {None}, inc : Incident \cup {None},
        auto : BOOLEAN, todo : SUBSET Bid, srcs : SUBSET Source]

NoJob == [blk |-> None, src |-> None, inc |-> None, auto |-> FALSE,
          todo |-> {}, srcs |-> {}]

ProposeSteps == {"p_allow", "p_case", "p_source", "p_insert"}

ActivateSteps == {"a_get", "a_allow", "a_count", "a_add", "a_update"}

RemoveSteps == {"r_get", "r_update", "r_check", "r_delete"}

ExpireSteps == {"x_select", "x_update", "x_check", "x_delete"}

Steps == {"idle", "d_delete", "z_delete"}
           \cup ProposeSteps \cup ActivateSteps \cup RemoveSteps \cup ExpireSteps

TypeOK ==
  /\ block \in [Bid -> Row]
  /\ host \in [Source -> {"missing", "none", "proposed", "active"}]
  /\ allow \subseteq Source
  /\ incidents \subseteq Incident /\ aged \subseteq incidents
  /\ pf \subseteq Source
  /\ pc \in [Actor -> Steps]
  /\ job \in [Actor -> Job]

Init ==
  /\ block = [b \in Bid |-> NoRow]
  /\ host = [s \in Source |-> "missing"]
  /\ allow = {}
  /\ incidents = {} /\ aged = {}
  /\ pf = {}
  /\ pc = [a \in Actor |-> "idle"]
  /\ job = [a \in Actor |-> NoJob]

-----------------------------------------------------------------------------
(* The queries of the store. *)

Exists(b) == block[b].status \notin {"absent", "deleted"}

(* status IN ('proposed', 'active') AND expires_at > now *)
Current(b) == block[b].status \in {"proposed", "active"} /\ block[b].live

LiveActive == {b \in Bid : block[b].status = "active" /\ block[b].live}

(* Mutant: the query has lost its condition on status. *)
ActiveBlockSourcesAnyStatus ==
  {block[b].source : b \in {c \in Bid : block[c].live}}

ActiveBlockSources == {block[b].source : b \in LiveActive}

ExpiredActiveBlockSources ==
  {block[b].source : b \in {c \in Bid : block[c].status = "active" /\ ~block[c].live}}

(* ORDER BY created_at DESC LIMIT 1 *)
IsLatest(b, B) == b \in B /\ \A c \in B : c <= b

(* Mutant: the query has lost its condition on status. *)
HostBlockStatusAnyStatus(tbl, s) ==
  LET found == {b \in Bid : tbl[b].source = s /\ tbl[b].live}
  IN  IF found = {} THEN "none" ELSE tbl[CHOOSE b \in found : IsLatest(b, found)].status

(* _current_host_block_status over a table tbl. *)
HostBlockStatus(tbl, s) ==
  LET current == {tbl[b].status : b \in {c \in Bid : tbl[c].source = s /\ tbl[c].live}}
  IN  IF "active" \in current THEN "active"
      ELSE IF "proposed" \in current THEN "proposed" ELSE "none"

(* UPDATE hosts SET block_status: a source without a row stays without. *)
RefreshHosts(S, tbl) ==
  host' = [s \in Source |-> IF s \in S /\ host[s] # "missing"
                              THEN HostBlockStatus(tbl, s) ELSE host[s]]

(* Mutant: the host row is not refreshed. *)
UpdateBlockStatusOnly(b, new) ==
  /\ block' = IF Exists(b) THEN [block EXCEPT ![b].status = new] ELSE block
  /\ UNCHANGED host

(* The transaction of update_block_status; a row that is gone is not there. *)
UpdateBlockStatus(b, new) ==
  IF Exists(b)
    THEN /\ block' = [block EXCEPT ![b].status = new]
         /\ RefreshHosts({block[b].source}, block')
    ELSE UNCHANGED <<block, host>>

-----------------------------------------------------------------------------
(* Control flow of a process. *)

Goto(a, from, to) ==
  /\ pc[a] = from
  /\ pc' = [pc EXCEPT ![a] = to]

Return(a) ==
  /\ pc' = [pc EXCEPT ![a] = "idle"]
  /\ job' = [job EXCEPT ![a] = NoJob]

(* reset-runtime --restart-service keeps the service down until it is done. *)
MayStart(a) ==
  /\ pc[a] = "idle"
  /\ a = Service /\ "reset_live" \notin Disturbances
       => \A c \in Actor : pc[c] # "z_delete"

Start(a, step, j) ==
  /\ MayStart(a)
  /\ pc' = [pc EXCEPT ![a] = step]
  /\ job' = [job EXCEPT ![a] = j]

(* Bounds the entries: a proposal starts only if a block id is left for it. *)
Room == Cardinality({b \in Bid : block[b].status = "absent"})
          > Cardinality({a \in Actor : pc[a] \in ProposeSteps})

-----------------------------------------------------------------------------
(* propose_block_for_incident and propose_manual_block. *)

(* get_incident, the target and the protected check; the service calls it   *)
(* from _auto_response with automatic=True, protection validate likewise.   *)
ProposeForIncident(a, i, auto) ==
  /\ i \in incidents /\ Target[i] \notin Protected /\ Room
  /\ a = Service => auto
  /\ Start(a, "p_allow", [NoJob EXCEPT !.src = Target[i], !.inc = i, !.auto = auto])
  /\ UNCHANGED <<store, pf>>

(* Mutant: without the protected check. *)
ProposeManualUnchecked(a, s) ==
  /\ a # Service /\ Room
  /\ Start(a, "p_allow", [NoJob EXCEPT !.src = s])
  /\ UNCHANGED <<store, pf>>

ProposeManual(a, s) ==
  /\ a # Service /\ s \notin Protected /\ Room
  /\ Start(a, "p_allow", [NoJob EXCEPT !.src = s])
  /\ UNCHANGED <<store, pf>>

(* is_allowlisted raises TypeError when it has to compare a value of the    *)
(* other IP version, whatever comes after it in the list.                   *)
AllowlistRaises == "mixed_versions" \in Disturbances

(* Allowlisted, or refused by the policy or a threshold: ResponseDenied. *)
ProposeDenied(a) ==
  /\ pc[a] = "p_allow"
  /\ job[a].src \in allow \/ job[a].inc # None \/ AllowlistRaises
  /\ Return(a)
  /\ UNCHANGED <<store, pf>>

ProposeCheckAllow(a) ==
  /\ job[a].src \notin allow
  /\ Goto(a, "p_allow", IF job[a].inc = None THEN "p_source" ELSE "p_case")
  /\ UNCHANGED <<store, pf, job>>

(* The proposal is handed back.  An automatic caller may go on to activate  *)
(* it; the service does so unless the entry is active already, and does not *)
(* when the policy or the mass isolation limit only recommends.             *)
Proposed(a, b, st) ==
  \/ Return(a)
  \/ /\ job[a].auto
     /\ a = Service => st # "active"
     /\ pc' = [pc EXCEPT ![a] = "a_get"]
     /\ job' = [job EXCEPT ![a].blk = b]

(* existing_response_block(incident_id, source_ip) *)
ProposeFindCase(a) ==
  LET found == {b \in Bid : Current(b) /\ block[b].incident = job[a].inc
                                       /\ block[b].source = job[a].src}
  IN  /\ pc[a] = "p_case"
      /\ IF found = {} THEN Goto(a, "p_case", "p_source") /\ UNCHANGED job
                       ELSE \E b \in found : IsLatest(b, found)
                              /\ Proposed(a, b, block[b].status)
      /\ UNCHANGED <<store, pf>>

(* Mutant: only blocks in force count as existing, proposals do not. *)
ProposeFindActive(a) ==
  LET found == {b \in LiveActive : block[b].source = job[a].src}
  IN  /\ pc[a] = "p_source"
      /\ IF found = {} THEN Goto(a, "p_source", "p_insert") /\ UNCHANGED job
                       ELSE \E b \in found : IsLatest(b, found)
                              /\ Proposed(a, b, block[b].status)
      /\ UNCHANGED <<store, pf>>

(* existing_response_block(None, source_ip) *)
ProposeFindSource(a) ==
  LET found == {b \in Bid : Current(b) /\ block[b].source = job[a].src}
  IN  /\ pc[a] = "p_source"
      /\ IF found = {} THEN Goto(a, "p_source", "p_insert") /\ UNCHANGED job
                       ELSE \E b \in found : IsLatest(b, found)
                              /\ Proposed(a, b, block[b].status)
      /\ UNCHANGED <<store, pf>>

(* add_block_entry: the row, and hosts.block_status set to its status. *)
ProposeInsert(a) ==
  LET free == {b \in Bid : block[b].status = "absent"}
  IN  /\ pc[a] = "p_insert"
      /\ \E b \in free :
           /\ \A c \in free : b <= c
           /\ block' = [block EXCEPT ![b] =
                [status |-> "proposed", source |-> job[a].src,
                 incident |-> job[a].inc, live |-> TRUE]]
           /\ host' = [host EXCEPT ![job[a].src] =
                         IF @ = "missing" THEN @ ELSE "proposed"]
           /\ Proposed(a, b, "proposed")
      /\ UNCHANGED <<allow, incidents, aged, pf>>

-----------------------------------------------------------------------------
(* activate_block. *)

(* The GUI offers activation for current proposals; the command takes any id. *)
StartActivate(a, b) ==
  /\ a # Service /\ Exists(b)
  /\ "raw_activate" \in Disturbances \/ (Current(b) /\ block[b].status = "proposed")
  /\ Start(a, "a_get", [NoJob EXCEPT !.blk = b])
  /\ UNCHANGED <<store, pf>>

(* get_block_entry and the protected check; neither status nor expires_at   *)
(* of the entry is looked at.                                               *)
ActivateGet(a) ==
  LET b == job[a].blk
  IN  /\ pc[a] = "a_get"
      /\ IF Exists(b) /\ block[b].source \notin Protected
           THEN /\ Goto(a, "a_get", "a_allow")
                /\ job' = [job EXCEPT ![a].src = block[b].source]
           ELSE Return(a)
      /\ UNCHANGED <<store, pf>>

ActivateCheckAllow(a) ==
  /\ pc[a] = "a_allow"
  /\ \/ (job[a].src \in allow \/ AllowlistRaises) /\ Return(a)
     \/ job[a].src \notin allow /\ Goto(a, "a_allow", "a_count") /\ UNCHANGED job
  /\ UNCHANGED <<store, pf>>

(* Mutant: off by one at the limit. *)
ActivateCountOffByOne(a) ==
  /\ pc[a] = "a_count"
  /\ IF Cardinality(LiveActive) > MaxConcurrent
       THEN Return(a)
       ELSE Goto(a, "a_count", "a_add") /\ UNCHANGED job
  /\ UNCHANGED <<store, pf>>

(* active_block_count() >= max_concurrent_blocks *)
ActivateCount(a) ==
  /\ pc[a] = "a_count"
  /\ IF Cardinality(LiveActive) >= MaxConcurrent
       THEN Return(a)
       ELSE Goto(a, "a_count", "a_add") /\ UNCHANGED job
  /\ UNCHANGED <<store, pf>>

(* pf.add; a failed or hanging command ends the handler with an exception,  *)
(* a hanging one possibly after the address has entered the table.          *)
ActivateAdd(a) ==
  /\ pc[a] = "a_add"
  /\ \/ /\ pf' = pf \cup {job[a].src}
        /\ Goto(a, "a_add", "a_update")
        /\ UNCHANGED job
     \/ /\ "pf_error" \in Disturbances
        /\ pf' \in {pf, pf \cup {job[a].src}}
        /\ Return(a)
  /\ UNCHANGED store

(* update_block_status(active); pf.test and rule_present change nothing. *)
ActivateUpdate(a) ==
  /\ pc[a] = "a_update"
  /\ UpdateBlockStatus(job[a].blk, "active")
  /\ Return(a)
  /\ UNCHANGED <<allow, incidents, aged, pf>>

-----------------------------------------------------------------------------
(* remove_block and release_incident_response. *)

StartRemove(a, b) ==
  /\ a # Service /\ Exists(b)
  /\ Start(a, "r_get", [NoJob EXCEPT !.todo = {b}])
  /\ UNCHANGED <<store, pf>>

(* active_response_blocks_for_incident; with none the answer is not_found. *)
StartRelease(a, i) ==
  LET blocks == {b \in Bid : Current(b) /\ block[b].incident = i}
  IN  /\ a # Service /\ blocks # {}
      /\ Start(a, "r_get", [NoJob EXCEPT !.todo = blocks])
      /\ UNCHANGED <<store, pf>>

(* The next entry of the list, latest first; one that is gone raises. *)
RemoveGet(a) ==
  /\ pc[a] = "r_get"
  /\ \E b \in job[a].todo :
       /\ IsLatest(b, job[a].todo)
       /\ IF Exists(b)
            THEN /\ Goto(a, "r_get", "r_update")
                 /\ job' = [job EXCEPT ![a].blk = b, ![a].src = block[b].source,
                                       ![a].todo = @ \ {b}]
            ELSE Return(a)
  /\ UNCHANGED <<store, pf>>

RemoveUpdate(a) ==
  /\ Goto(a, "r_update", "r_check")
  /\ UpdateBlockStatus(job[a].blk, "removed")
  /\ UNCHANGED <<allow, incidents, aged, pf, job>>

(* The rest of the list, if any. *)
RemoveNext(a) ==
  IF job[a].todo = {} THEN Return(a)
                      ELSE pc' = [pc EXCEPT ![a] = "r_get"] /\ UNCHANGED job

(* Mutant: the other blocks of the source are not looked at. *)
RemoveCheckNothing(a) ==
  /\ Goto(a, "r_check", "r_delete")
  /\ UNCHANGED <<store, pf, job>>

(* source_ip in active_block_sources() *)
RemoveCheck(a) ==
  /\ pc[a] = "r_check"
  /\ IF job[a].src \in ActiveBlockSources
       THEN RemoveNext(a)
       ELSE Goto(a, "r_check", "r_delete") /\ UNCHANGED job
  /\ UNCHANGED <<store, pf>>

(* pf.delete; a failure is reported in the result only, a hang raises. *)
RemoveDelete(a) ==
  /\ pc[a] = "r_delete"
  /\ \/ pf' = pf \ {job[a].src} /\ RemoveNext(a)
     \/ /\ "pf_error" \in Disturbances
        /\ UNCHANGED pf
        /\ RemoveNext(a) \/ Return(a)
  /\ UNCHANGED store

-----------------------------------------------------------------------------
(* blocklist expire, which nothing in the package calls on a schedule. *)

(* Mutant: the sources are read after the entries have been marked, when    *)
(* none of them is active any more.                                         *)
StartExpireTooLate(a) ==
  /\ a # Service
  /\ Start(a, "x_select", NoJob)
  /\ UNCHANGED <<store, pf>>

(* expired_active_block_sources *)
StartExpire(a) ==
  /\ a # Service
  /\ Start(a, "x_select", [NoJob EXCEPT !.srcs = ExpiredActiveBlockSources])
  /\ UNCHANGED <<store, pf>>

(* expire_block_entries: the SELECT, before its transaction has begun. *)
ExpireSelect(a) ==
  /\ Goto(a, "x_select", "x_update")
  /\ job' = [job EXCEPT ![a].todo =
       {b \in Bid : block[b].status \in {"proposed", "active"} /\ ~block[b].live}]
  /\ UNCHANGED <<store, pf>>

(* expire_block_entries: the UPDATEs, by id alone. *)
ExpireUpdate(a) ==
  LET gone == {b \in job[a].todo : Exists(b)}
  IN  /\ Goto(a, "x_update", "x_check")
      /\ block' = [b \in Bid |-> IF b \in gone
                     THEN [block[b] EXCEPT !.status = "expired"] ELSE block[b]]
      /\ RefreshHosts({block[b].source : b \in gone}, block')
      /\ job' = [job EXCEPT ![a].todo = {}]
      /\ UNCHANGED <<allow, incidents, aged, pf>>

ExpireDone(a) ==
  /\ pc[a] = "x_check" /\ job[a].srcs = {}
  /\ Return(a)
  /\ UNCHANGED <<store, pf>>

ExpireCheck(a, s) ==
  /\ pc[a] = "x_check" /\ s \in job[a].srcs
  /\ IF s \in ActiveBlockSources
       THEN job' = [job EXCEPT ![a].srcs = @ \ {s}] /\ UNCHANGED pc
       ELSE job' = [job EXCEPT ![a].src = s] /\ Goto(a, "x_check", "x_delete")
  /\ UNCHANGED <<store, pf>>

ExpireDelete(a) ==
  /\ pc[a] = "x_delete"
  /\ \/ /\ \/ pf' = pf \ {job[a].src}
           \/ "pf_error" \in Disturbances /\ UNCHANGED pf
        /\ Goto(a, "x_delete", "x_check")
        /\ job' = [job EXCEPT ![a].srcs = @ \ {job[a].src}, ![a].src = None]
     \/ "pf_error" \in Disturbances /\ UNCHANGED pf /\ Return(a)
  /\ UNCHANGED store

-----------------------------------------------------------------------------
(* delete_incident: the check reads outside the transaction of the DELETEs. *)

(* Mutant: proposals do not hold a case back. *)
StartDeleteUnlessActive(a, i) ==
  /\ a # Service /\ i \in incidents
  /\ \A b \in LiveActive : block[b].incident # i
  /\ Start(a, "d_delete", [NoJob EXCEPT !.inc = i])
  /\ UNCHANGED <<store, pf>>

StartDelete(a, i) ==
  /\ a # Service /\ i \in incidents
  /\ \A b \in Bid : block[b].incident = i => ~Current(b)
  /\ Start(a, "d_delete", [NoJob EXCEPT !.inc = i])
  /\ UNCHANGED <<store, pf>>

DeleteIncident(a) ==
  /\ pc[a] = "d_delete"
  /\ incidents' = incidents \ {job[a].inc} /\ aged' = aged \ {job[a].inc}
  /\ Return(a)
  /\ UNCHANGED <<block, host, allow, pf>>

(* purge_before, for the service and privacy purge: it does not look at the  *)
(* responses.                                                                *)
Purge(a) ==
  /\ MayStart(a)
  /\ incidents' = incidents \ aged /\ aged' = {}
  /\ UNCHANGED <<block, host, allow, pf, pc, job>>

-----------------------------------------------------------------------------
(* maintenance reset-runtime: the service is stopped and PF flushed first.  *)
(* srcs remembers what the flush let through, for the refinement mapping.   *)
StartReset(a) ==
  /\ a # Service
  /\ Service \in Actor /\ "reset_live" \notin Disturbances => pc[Service] = "idle"
  /\ Start(a, "z_delete", [NoJob EXCEPT !.srcs = pf])
  /\ \/ pf' = {}
     \/ Disturbances \cap {"reset_keeps_pf", "pf_error"} # {} /\ UNCHANGED pf
  /\ UNCHANGED store

ResetDelete(a) ==
  /\ pc[a] = "z_delete"
  /\ block' = [b \in Bid |-> IF block[b].status = "absent" THEN block[b]
                 ELSE [block[b] EXCEPT !.status = "deleted", !.live = FALSE]]
  /\ host' = [s \in Source |-> "missing"]
  /\ incidents' = {} /\ aged' = {}
  /\ Return(a)
  /\ UNCHANGED <<allow, pf>>

-----------------------------------------------------------------------------
(* The rest of the system, as far as the response sees it. *)

(* allowlist add and delete: the entry only, never the blocks in force. *)
EditAllowlist(a, s) ==
  /\ a # Service /\ pc[a] = "idle"
  /\ allow' \in {allow \cup {s}, allow \ {s}}
  /\ UNCHANGED <<block, host, incidents, aged, pf, pc, job>>

(* insert_incidents of the service, for a case that is new or known; reopen. *)
OpenIncident(i) ==
  /\ incidents' = incidents \cup {i} /\ aged' = aged \ {i}
  /\ UNCHANGED <<block, host, allow, pf, pc, job>>

(* A case is closed, archived or called false, and left until it is older    *)
(* than the retention.                                                       *)
AgeIncident(i) ==
  /\ "retention" \in Disturbances /\ i \in incidents
  /\ aged' = aged \cup {i}
  /\ UNCHANGED <<block, host, allow, incidents, pf, pc, job>>

(* _upsert_hosts: a new row starts with the column's default. *)
SeeHost(s) ==
  /\ host[s] = "missing"
  /\ host' = [host EXCEPT ![s] = "none"]
  /\ UNCHANGED <<block, allow, incidents, aged, pf, pc, job>>

(* expires_at passes. *)
Lapse(b) ==
  /\ block[b].live
  /\ "clock_race" \in Disturbances
       \/ \A a \in Actor : pc[a] \notin {"x_select", "x_update"}
  /\ block' = [block EXCEPT ![b].live = FALSE]
  /\ UNCHANGED <<host, allow, incidents, aged, pf, pc, job>>

Crash(a) ==
  /\ "crash" \in Disturbances /\ pc[a] # "idle"
  /\ Return(a)
  /\ UNCHANGED <<store, pf>>

Reboot ==
  /\ "reboot" \in Disturbances
  /\ pf' = {}
  /\ pc' = [a \in Actor |-> "idle"]
  /\ job' = [a \in Actor |-> NoJob]
  /\ UNCHANGED store

-----------------------------------------------------------------------------
(* The steps a process takes once its handler has begun. *)
Continue(a) ==
  \/ ProposeDenied(a) \/ ProposeCheckAllow(a)
  \/ ProposeFindCase(a) \/ ProposeFindSource(a) \/ ProposeInsert(a)
  \/ ActivateGet(a) \/ ActivateCheckAllow(a) \/ ActivateCount(a)
  \/ ActivateAdd(a) \/ ActivateUpdate(a)
  \/ RemoveGet(a) \/ RemoveUpdate(a) \/ RemoveCheck(a) \/ RemoveDelete(a)
  \/ ExpireSelect(a) \/ ExpireUpdate(a) \/ ExpireDone(a)
  \/ (\E s \in Source : ExpireCheck(a, s)) \/ ExpireDelete(a)
  \/ DeleteIncident(a) \/ ResetDelete(a)

Begin(a) ==
  \/ \E i \in Incident :
       \/ \E auto \in BOOLEAN : ProposeForIncident(a, i, auto)
       \/ StartRelease(a, i)
       \/ StartDelete(a, i)
  \/ \E s \in Source : ProposeManual(a, s) \/ EditAllowlist(a, s)
  \/ \E b \in Bid : StartActivate(a, b) \/ StartRemove(a, b)
  \/ StartExpire(a)
  \/ Purge(a)
  \/ StartReset(a)

Environment ==
  \/ \E i \in Incident : OpenIncident(i) \/ AgeIncident(i)
  \/ \E s \in Source : SeeHost(s)
  \/ \E b \in Bid : Lapse(b)
  \/ \E a \in Actor : Crash(a)
  \/ Reboot

Next == (\E a \in Actor : Begin(a) \/ Continue(a)) \/ Environment

Spec == Init /\ [][Next]_vars

(* A process that is scheduled finishes its handler; nobody has to start one. *)
FairSpec == Spec /\ \A a \in Actor : WF_vars(Continue(a))

(* The same, with an operator who keeps running blocklist expire. *)
ExpiringSpec == FairSpec /\ \A a \in Actor : SF_vars(StartExpire(a))

-----------------------------------------------------------------------------
(* Properties. *)

Quiescent == \A a \in Actor : pc[a] = "idle"

BackedSources == {block[b].source : b \in {c \in Bid : block[c].status = "active"}}

(* A source PF drops without an active entry is being worked on: it is      *)
(* about to be recorded, or about to be deleted from the table.             *)
InHand(s) ==
  \E a \in Actor :
    \/ pc[a] \in {"a_update", "r_check", "r_delete"} /\ job[a].src = s
    \/ pc[a] \in {"x_select", "x_update", "x_check", "x_delete"} /\ s \in job[a].srcs
    \/ pc[a] = "z_delete"

(* No address stays in the PF table once no entry accounts for it: whatever *)
(* remove, release and expire take out of the database they also take out   *)
(* of PF (remove_block, blocklist expire).                                  *)
NothingLeaks == \A s \in pf : s \in BackedSources \/ InHand(s)

(* propose_* hand back the current entry of a source instead of making a    *)
(* second one, so a source never has two entries in force or on offer.      *)
OneCurrentPerSource ==
  \A b, c \in Bid : Current(b) /\ Current(c) /\ block[b].source = block[c].source
                      => b = c

(* No more entries are in force than max_concurrent_blocks allows. *)
WithinLimit == Cardinality(LiveActive) <= MaxConcurrent

(* Processes that have passed the count of activate_block and not yet       *)
(* recorded the block.                                                      *)
PastCount == {a \in Actor : pc[a] \in {"a_add", "a_update"}}

(* What the check-then-act of activate_block still guarantees when several  *)
(* processes activate at once: each of them can exceed the limit by one.    *)
WithinLimitPlusRacers ==
  Cardinality(LiveActive) + Cardinality(PastCount)
    <= MaxConcurrent + Cardinality(Actor) - 1

(* is_protected_target guards every way into the table: nothing it answers  *)
(* true for is ever dropped, not even for a moment, whatever else goes      *)
(* wrong.                                                                   *)
ProtectedNeverBlocked ==
  /\ pf \cap Protected = {}
  /\ \A b \in Bid : block[b].source \notin Protected

(* Current responses to a case that is not on record. *)
Orphans ==
  {b \in Bid : Current(b) /\ block[b].incident # None /\ block[b].incident \notin incidents}

(* No response is left without its case, nor made for a case that is gone    *)
(* (delete_incident, propose_block_for_incident), but by the retention, and  *)
(* by it only where the case was closed and grew old under its response.     *)
ResponseKeepsCase ==
  [][\A b \in Orphans' :
       \/ b \in Orphans
       \/ block[b].incident \in aged /\ \E a \in Actor : Purge(a)]_vars

(* The host list does not claim a block or a proposal that the entries do   *)
(* not have on record.                                                      *)
HostClaimsAreRecorded ==
  Quiescent => \A s \in Source : host[s] \in {"proposed", "active"} =>
    \E b \in Bid : block[b].source = s /\ block[b].status = host[s]

(* Once the last unexpired block of a source has run out, PF stops dropping *)
(* it sooner or later: enforcement is time-limited.                         *)
BlocksAreTemporary ==
  \A s \in Source : (s \in pf /\ s \notin ActiveBlockSources)
                      ~> (s \notin pf \/ s \in ActiveBlockSources)

-----------------------------------------------------------------------------
(* One process at a time implements the contract.  Entries in PF count as   *)
(* enforced when an active entry backs them; those a reset has flushed      *)
(* count until the reset has deleted the entries too.                       *)
FlushedForReset == UNION {job[a].srcs : a \in {c \in Actor : pc[c] = "z_delete"}}

Contract == INSTANCE BlockContract WITH
  status <- [b \in Bid |-> block[b].status],
  live <- [b \in Bid |-> block[b].live],
  owner <- [b \in Bid |-> block[b].source],
  enforced <- (pf \cup FlushedForReset) \cap BackedSources

KeepsContract == Contract!Spec
=============================================================================
