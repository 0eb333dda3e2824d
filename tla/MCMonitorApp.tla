--------------------------- MODULE MCMonitorApp ---------------------------
(* Instances of MonitorApp for TLC. *)
EXTENDS MonitorApp
=============================================================================
