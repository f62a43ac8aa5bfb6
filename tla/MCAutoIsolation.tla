-------------------------- MODULE MCAutoIsolation --------------------------
(* A small instance of AutoIsolation for TLC. *)
EXTENDS AutoIsolation

CONSTANTS laptop, server, outside, caseLaptop, caseOutside

MCSeen(detector, category, source, marks, stopped) ==
  [detector |-> detector, category |-> category, source |-> source,
   marks |-> marks, stopped |-> stopped]

(* The model together with a scan meets every number that is asked for, but *)
(* no strong category; a tunnel and an upload are an attack, but lack the   *)
(* confidence.                                                              *)
MCModel == MCSeen("pretrained_ids_model", "machine_learning", laptop, {"sure"}, FALSE)
MCScan == MCSeen("portscan", "reconnaissance", laptop, {}, FALSE)
MCTunnel == MCSeen("dns_tunneling", "command_and_control", laptop, {}, FALSE)
MCUpload == MCSeen("data_exfiltration", "exfiltration", laptop, {"severe"}, FALSE)

(* What comes from outside is dropped; then a server begins to move.        *)
MCDrop == MCSeen("suricata_drop", "signature", outside, {"signature_id"}, TRUE)
MCMove == MCSeen("lateral_movement", "lateral_movement", server, {"severe"}, FALSE)
MCBeacon == MCSeen("beaconing", "command_and_control", server, {"sure", "periodicity"}, FALSE)

MCHost == {laptop, server, outside}
MCOrigin == [c \in Case |-> IF c = caseLaptop THEN laptop ELSE outside]
MCSign == {MCModel, MCScan, MCTunnel, MCUpload, MCDrop, MCMove, MCBeacon}
MCBurst == [c \in Case |->
  IF c = caseLaptop THEN {{MCModel, MCScan}, {MCTunnel, MCUpload}}
                    ELSE {{MCDrop}, {MCDrop, MCMove, MCBeacon}}]
MCReached == [D \in UNION {MCBurst[c] : c \in Case} |->
  IF MCTunnel \in D THEN {"risk", "severity"} ELSE Threshold]

MCSetting(mode, ai, halted, learning) ==
  [mode |-> mode, ai |-> ai, internal |-> TRUE, external |-> TRUE,
   halted |-> halted, learning |-> learning]

MCEnforce == MCSetting("enforce", TRUE, FALSE, "scheduled")
MCWithoutAI == MCSetting("enforce", FALSE, FALSE, "scheduled")
MCSettings == {MCEnforce, MCWithoutAI}

MCEid2 == 1..2

(* Bound: operators propose internal hosts only; the limits count no others. *)
OwnHosts == \A e \in Eid : entry[e].host = outside => entry[e].auto
=============================================================================
