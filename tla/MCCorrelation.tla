--------------------------- MODULE MCCorrelation ---------------------------
(* A small instance of Correlation for TLC. *)
EXTENDS Correlation

CONSTANTS scanner, server, laptop, linkLocal, c2

MCReport(detector, category, severity, confidence, anomaly, src, dst) ==
  [detector |-> detector, category |-> category, severity |-> severity,
   confidence |-> confidence, anomaly |-> anomaly, src |-> src, dst |-> dst]

(* An attack from outside, the server moving on, and a laptop of its own;   *)
(* what the detectors claim of each is what the code gives.                 *)
MCFinding == {
  MCReport("portscan", "reconnaissance", 7, 80, 24, scanner, None),
  MCReport("suricata_alert", "signature", 4, 90, 0, scanner, server),
  MCReport("lateral_movement", "lateral_movement", 8, 85, 33, server, "internal"),
  MCReport("pretrained_ids_model", "machine_learning", 9, 95, 95, server, None),
  MCReport("suricata_alert", "signature", 4, 90, 0, laptop, server),
  MCReport("beaconing", "command_and_control", 8, 89, 87, server, c2),
  MCReport("suricata_drop", "signature", 10, 90, 0, linkLocal, laptop)}

MCPlace == {scanner, server, laptop, linkLocal, c2, "internal"}
=============================================================================
