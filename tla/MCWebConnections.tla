------------------------- MODULE MCWebConnections -------------------------
(* Scripts for the run of WebConnections. *)
EXTENDS WebConnections

CONSTANTS c1, c2

\* A page and its requests; the websocket of control.html.
Pair(first, second) == [c \in Conns |-> IF c = c1 THEN first ELSE second]
MCScripts ==
  {Pair(<<"get", "action">>, <<"bad">>),
   Pair(<<"get_close">>, <<"upgrade", "initial_update">>),
   Pair(<<"action">>, <<"upgrade", "command", "close">>)}

===========================================================================
