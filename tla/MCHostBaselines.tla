-------------------------- MODULE MCHostBaselines --------------------------
(* Polls that set off each rule, and a few that set off none. *)
EXTENDS HostBaselines

CONSTANTS desk, server, web, c2, lan

MCPrivate == {desk, server} \cup {<<"lan", i>> : i \in 1..5}
MCAddress == MCPrivate \cup {web, c2} \cup {<<"net", i>> : i \in 1..50}

(* An ordinary connection that was closed. *)
MCFlow(i) ==
  [feed |-> "eve", type |-> "flow", src |-> desk, dst |-> server, port |-> 443, at |-> i, nr |-> i,
   iface |-> lan, state |-> "closed", reason |-> "finished", out |-> 1, in |-> 1, name |-> 0,
   entropy |-> 0, nxdomain |-> FALSE, print |-> None, sid |-> None, priority |-> 0]

MCBlock(p) ==
  [feed |-> "filterlog", action |-> "block", src |-> web, dst |-> desk, port |-> p, at |-> p, nr |-> p,
   iface |-> lan, out |-> 1]

MCQuiet == {MCFlow(1)}
MCBusy == {MCFlow(i) : i \in 1..7}
MCFlood == {MCFlow(i) : i \in 1..16}
MCFanOut == {[MCFlow(i) EXCEPT !.dst = <<"net", i>>, !.at = 1] : i \in 1..50}
MCScan == {MCBlock(p) : p \in 1..12}
MCNames ==
  {[MCFlow(i) EXCEPT !.type = "dns", !.name = 60, !.entropy = 400, !.nxdomain = (i = 1)] : i \in 1..3}
MCBeacon == {[MCFlow(i) EXCEPT !.dst = c2, !.at = 20 * i] : i \in 1..5}
MCLateral == {[MCFlow(i) EXCEPT !.dst = <<"lan", i>>, !.port = 445] : i \in 1..5}
MCUpload == {[MCFlow(1) EXCEPT !.out = 50]}
MCPrints == {[MCFlow(i) EXCEPT !.type = "tls", !.print = <<"ja3", i>>] : i \in 1..8}
MCAlerts ==
  {[MCFlow(1) EXCEPT !.type = "alert", !.sid = "sid1", !.priority = 255],
   [MCFlow(2) EXCEPT !.type = "drop", !.sid = "sid2"], [MCFlow(3) EXCEPT !.type = "stats", !.src = None]}

MCTraffic ==
  [quiet |-> MCQuiet, busy |-> MCBusy, flood |-> MCFlood, fanout |-> MCFanOut, scan |-> MCScan,
   names |-> MCNames, noise |-> MCLateral \cup MCPrints \cup MCAlerts,
   theft |-> MCUpload \cup MCBeacon]
=============================================================================
