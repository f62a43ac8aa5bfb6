---------------------------- MODULE BlockContract ----------------------------
(***************************************************************************)
(* What the response subsystem promises about enforcement, with the        *)
(* database and the packet filter seen as one object: the block entries    *)
(* with their status, and the sources that PF drops on their account.  No  *)
(* processes, no intermediate states, no failures.  BlockResponse shows    *)
(* that the code keeps these promises when one process at a time works.    *)
(***************************************************************************)
EXTENDS Naturals

CONSTANTS
  Bid,        \* identities of block entries
  Source,     \* addresses that can be blocked
  Protected,  \* addresses the configuration never lets PF drop
  None        \* the owner of an entry that does not exist

VARIABLES
  status,     \* the status column of every entry
  live,       \* entries whose expires_at is still ahead
  owner,      \* the address an entry is about
  enforced    \* addresses dropped by PF on account of some entry

vars == <<status, live, owner, enforced>>

Status == {"absent", "proposed", "active", "removed", "expired", "deleted"}

TypeOK ==
  /\ status \in [Bid -> Status]
  /\ live \in [Bid -> BOOLEAN]
  /\ owner \in [Bid -> Source \cup {None}]
  /\ enforced \subseteq Source

Active(b) == status[b] = "active"

Backed(s) == \E b \in Bid : Active(b) /\ owner[b] = s

Entitled(s) == \E b \in Bid : Active(b) /\ live[b] /\ owner[b] = s

Init ==
  /\ status = [b \in Bid |-> "absent"]
  /\ live = [b \in Bid |-> FALSE]
  /\ owner = [b \in Bid |-> None]
  /\ enforced = {}

(* A proposal is recorded; PF is untouched. *)
Propose(b, s) ==
  /\ status[b] = "absent"
  /\ status' = [status EXCEPT ![b] = "proposed"]
  /\ live' = [live EXCEPT ![b] = TRUE]
  /\ owner' = [owner EXCEPT ![b] = s]
  /\ UNCHANGED enforced

(* An entry becomes active in the very step that PF drops its source. *)
Grant(b) ==
  /\ status[b] \notin {"absent", "deleted"}
  /\ owner[b] \notin Protected
  /\ status' = [status EXCEPT ![b] = "active"]
  /\ enforced' = enforced \cup {owner[b]}
  /\ UNCHANGED <<live, owner>>

(* PF may be told again to drop a source that has an active entry. *)
Reassert(s) ==
  /\ Backed(s) /\ s \notin Protected
  /\ enforced' = enforced \cup {s}
  /\ UNCHANGED <<status, live, owner>>

(* Entries are removed or expire; sources left without one are let through. *)
Retire(B, final) ==
  /\ \A b \in B : status[b] \notin {"absent", "deleted"}
  /\ status' = [b \in Bid |-> IF b \in B THEN final ELSE status[b]]
  /\ enforced' = {s \in enforced : \E b \in Bid \ B : Active(b) /\ owner[b] = s}
  /\ UNCHANGED <<live, owner>>

(* PF lets a source through only when no unexpired active entry is left. *)
Relax(s) ==
  /\ ~Entitled(s)
  /\ enforced' = enforced \ {s}
  /\ UNCHANGED <<status, live, owner>>

(* Time passes the expires_at of an entry. *)
Lapse(b) ==
  /\ live[b]
  /\ live' = [live EXCEPT ![b] = FALSE]
  /\ UNCHANGED <<status, owner, enforced>>

(* The runtime state is reset: every entry is gone. *)
Forget ==
  /\ status' = [b \in Bid |-> IF status[b] = "absent" THEN "absent" ELSE "deleted"]
  /\ live' = [b \in Bid |-> FALSE]
  /\ enforced' = {}
  /\ UNCHANGED owner

Next ==
  \/ \E b \in Bid : \/ \E s \in Source \ Protected : Propose(b, s)
                    \/ Grant(b)
                    \/ Lapse(b)
  \/ \E s \in Source : Reassert(s) \/ Relax(s)
  \/ \E B \in SUBSET Bid, final \in {"removed", "expired"} : Retire(B, final)
  \/ Forget

Spec == Init /\ [][Next]_vars

-----------------------------------------------------------------------------
(* A source whose entry is active and unexpired is dropped by PF. *)
ActiveIsEnforced ==
  \A b \in Bid : Active(b) /\ live[b] => owner[b] \in enforced

(* PF drops a source only on account of an entry recorded as active. *)
EnforcedIsBacked == \A s \in enforced : Backed(s)

(* No protected address is ever dropped. *)
ProtectedIsFree == enforced \cap Protected = {}
=============================================================================
