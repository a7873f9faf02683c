-------------------------- MODULE MCMonitorHistory --------------------------
(* MonitorHistory for TLC: thresholds that differ from check to check. *)
EXTENDS MonitorHistory

MCThresholds == {<<1, 2>>, <<2, 1>>, <<3, 2>>}
=============================================================================
