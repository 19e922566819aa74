--------------------------- MODULE MCWebUpdates ---------------------------
(* Threads and usages for the run of WebUpdates and, with it, RunControl. *)
EXTENDS WebUpdates

CONSTANTS l1, l2, l3, e1, n1, n2

ThreeLoops == {l1, l2, l3}
OneEndThread == {e1}
TwoNames == {n1, n2}

\* An operator at a terminal, with a limit set; a script with the immediate
\* commands, without a limit; and two operators with a browser.
Interactive == [commands |-> {"begin", "end", "create_device", "open"}, limit |-> TRUE,
                web |-> FALSE]
Script == [commands |-> {"begin", "begin_immediate", "end", "end_immediate"},
           limit |-> FALSE, web |-> FALSE]
Browser == [commands |-> {"begin", "end"},
            limit |-> FALSE, web |-> TRUE]
Settings == [commands |-> {"set_server", "set_name", "webcontrol"},
             limit |-> FALSE, web |-> TRUE]
AllUsages == {Interactive, Script, Browser, Settings}
=============================================================================
