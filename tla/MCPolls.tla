------------------------------ MODULE MCPolls ------------------------------
(***************************************************************************)
(* Polls for TLC.  A configuration that reports state and health, and one  *)
(* that reports nothing; cfg_metrics_parse() never enables telemetry.      *)
(***************************************************************************)
EXTENDS Polls

MCConfigs ==
  { [state |-> TRUE, health |-> TRUE, telemetry |-> FALSE, max |-> 1],
    [state |-> FALSE, health |-> FALSE, telemetry |-> FALSE, max |-> 2] }
=============================================================================
