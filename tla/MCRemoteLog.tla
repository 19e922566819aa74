--------------------------- MODULE MCRemoteLog ---------------------------
(* The module the runs of RemoteLog start from: all its constants are numbers
   and truth values, which the configurations give. *)
EXTENDS RemoteLog
===========================================================================
