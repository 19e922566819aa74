-------------------------- MODULE MCMonitorFeed --------------------------
(* The module the runs of MonitorFeed start from: all its constants are
   numbers, which the configurations give. *)
EXTENDS MonitorFeed
===========================================================================
