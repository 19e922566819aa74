--------------------------- MODULE MCRunControl ---------------------------
(* Threads and usage for the run of RunControl in which only the web server
   sends commands. *)
EXTENDS RunControl

CONSTANTS l1, l2, l3, e1

ThreeLoops == {l1, l2, l3}
OneEndThread == {e1}
WebOnly == {[commands |-> {}, limit |-> TRUE, web |-> FALSE]}
===========================================================================
