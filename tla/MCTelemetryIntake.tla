-------------------------- MODULE MCTelemetryIntake --------------------------
(* Small instances of TelemetryIntake for TLC. *)
EXTENDS TelemetryIntake

(* Bound: in one behaviour only one of the logs is written to.               *)
Grown(l) == l \in Present /\ (file[l].epoch > 1 \/ file[l].size > 0)

OneLogGrows == ~(Grown("eve") /\ Grown("filter"))

(* Bound: once the place saved for a log is lost, no file is begun anew and  *)
(* no iteration fails; a reset comes before the first failure.               *)
OneTrouble ==
  /\ failures > 0 => forgotten = {} /\ reset = "none"
  /\ forgotten # {} => \A l \in Present : file[l].epoch = 1
=============================================================================
