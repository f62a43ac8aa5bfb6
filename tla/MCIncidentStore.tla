--------------------------- MODULE MCIncidentStore ---------------------------
(* Small instances of IncidentStore for TLC. *)
EXTENDS IncidentStore

CONSTANTS svc, scanner, intruder, web, mail, scan, beacon, intrusion, d1, d2,
          netA, netB

MCHost == {scanner, intruder, web, mail}
MCNetworkOf == [h \in MCHost |-> IF h \in {web, intruder} THEN netA ELSE netB]

(* Two cases of the scanner with targets in different networks, and one of  *)
(* an intruder who attacks the scanner: merged into the first, it brings    *)
(* the network of the second.                                               *)
MCSource == [c \in Case |-> IF c = intrusion THEN intruder ELSE scanner]
MCTargets == [c \in Case |-> CASE c = scan -> {web} [] c = beacon -> {mail}
                              [] c = intrusion -> {scanner}]
MCKey == [c \in Case |-> IF c = scan THEN netA ELSE netB]
MCEvidence == [c \in Case |-> IF c = beacon THEN {d2} ELSE {d1}]

(* Bound: steps go on from states with at most two of the three cases.       *)
TwoRows == Cardinality({c \in Case : Present(db, c)}) <= 2
=============================================================================
