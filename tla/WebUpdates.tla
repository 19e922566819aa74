---------------------------- MODULE WebUpdates ----------------------------
(***************************************************************************)
(* What a browser sees: the loop of mg_server (rcdaq_mg_server.cc) that    *)
(* compares the state of rcdaq with what it has told the browsers last,    *)
(* daq_webcontrol (rcdaq.cc), which ends the web server's thread and makes *)
(* another one, and the commands whose effects a page shows.  The runs are *)
(* those of RunControl.                                                    *)
(*                                                                         *)
(* trigger_updates reads a flag up to three times: to compare it, to note  *)
(* it, and to send it; each is a step.  There is one browser.  When no     *)
(* browser looks on (usage.web) the loop is left out: it has no effect     *)
(* but on pages.  The begin and end buttons are in RunControl (WebSpec).   *)
(***************************************************************************)
EXTENDS RunControl

CONSTANTS
  Ports,  \* ports for the web service
  Names   \* what daq_setname may be given

ASSUME WebAssumption == Ports # {} /\ Names # {}

VARIABLES
  ThePort, MyName, daq_open_flag, daq_server_flag,
  end_web_thread,         \* tells the thread to stop
  wpc,                    \* the web thread, see below
  port,                   \* the port it serves
  bound,                  \* ports with a listening socket: none is closed
  last_runstate, last_openflag, last_serverflag,
  rcdaqname_request_flag,
  page,                   \* what the browser shows
  misled,                 \* history: flags of the page that were not the one
                          \* noted when they were shown
  restarted_early         \* history: a thread was told to stop before its
                          \* first statement

shownVars == <<daq_open_flag, daq_server_flag, MyName>>
lastVars == <<last_runstate, last_openflag, last_serverflag, rcdaqname_request_flag>>
serveVars == <<ThePort, end_web_thread, wpc, port, bound, restarted_early>>
pageVars == <<page, misled>>
webVars == <<shownVars, lastVars, serveVars, pageVars>>
allVars == <<vars, webVars>>

(***************************************************************************)
(* wpc: "gone"; "start" before end_web_thread = 0; "init"; "poll" in the   *)
(* loop; then for the run, the open flag and the server flag "if_.." the   *)
(* comparison, "note_.." and "send_.."; for the name "if_name" and         *)
(* "send_name".                                                            *)
(***************************************************************************)
WebPC == {"gone", "start", "init", "poll", "if_run", "note_run", "send_run",
          "if_open", "note_open", "send_open", "if_server", "note_server",
          "send_server", "if_name", "send_name"}

\* port: 0 while there is no page.  The page of a thread that has ended
\* stays: its connection is never closed.
NoPage == [port |-> 0, RunFlag |-> FALSE, OpenFlag |-> FALSE,
           Name |-> CHOOSE n \in Names : TRUE]

WebInit ==
  /\ Init
  /\ ThePort = CHOOSE p \in Ports : TRUE
  /\ MyName = CHOOSE n \in Names : TRUE
  /\ daq_open_flag = FALSE /\ daq_server_flag = FALSE
  /\ end_web_thread = FALSE
  /\ wpc = "start" /\ port = 0 /\ bound = {}
  /\ last_runstate = FALSE /\ last_openflag = FALSE /\ last_serverflag = FALSE
  /\ rcdaqname_request_flag = FALSE
  /\ page = NoPage /\ misled = {} /\ restarted_early = FALSE

Web(from, to) == wpc = from /\ wpc' = to

---------------------------------------------------------------------------
(* The web thread                                                          *)

ServerStart ==
  /\ Web("start", "init")
  /\ end_web_thread' = FALSE /\ port' = ThePort
  /\ UNCHANGED <<shownVars, lastVars, ThePort, bound, restarted_early, pageVars>>

\* The last_... variables, the request flag, and mg_bind, which fails if an
\* earlier thread of this process has left a socket on the port.
ServerInit ==
  /\ IF port \in bound THEN Web("init", "gone") ELSE Web("init", "poll")
  /\ bound' = bound \cup {port}
  /\ last_runstate' = DAQ_RUNNING
  /\ last_openflag' = daq_open_flag /\ last_serverflag' = daq_server_flag
  /\ rcdaqname_request_flag' = FALSE
  /\ UNCHANGED <<shownVars, ThePort, end_web_thread, port, restarted_early, pageVars>>

\* "initial_update", which takes a server that is set for an open file
Load ==
  LET open == daq_open_flag \/ daq_server_flag IN
  /\ page' = [port |-> port, RunFlag |-> DAQ_RUNNING, OpenFlag |-> open, Name |-> MyName]
  /\ misled' = {key \in {"RunFlag", "OpenFlag"} :
                  IF key = "RunFlag" THEN DAQ_RUNNING # last_runstate ELSE open # last_openflag}

\* The loop's condition, and mg_mgr_poll, which serves what browsers send.
Poll ==
  /\ IF end_web_thread THEN Web("poll", "gone") ELSE Web("poll", "if_run")
  /\ \/ UNCHANGED <<pageVars, daq_open_flag>>
     \/ ~end_web_thread /\ Load /\ UNCHANGED daq_open_flag
     \/ ~end_web_thread /\ ~DAQ_RUNNING /\ page.port = port
          /\ daq_open_flag' \in BOOLEAN /\ UNCHANGED pageVars
  /\ UNCHANGED <<daq_server_flag, MyName, lastVars, ThePort, end_web_thread,
                 port, bound, restarted_early>>

\* broadcast goes to the connections of this thread.
Shown(key, value) ==
  page' = IF page.port = port THEN [page EXCEPT ![key] = value] ELSE page

ShownFlag(key, value, noted) ==
  /\ Shown(key, value)
  /\ misled' = IF page.port # port THEN misled
               ELSE IF value = noted THEN misled \ {key} ELSE misled \cup {key}

Compare ==
  /\ \/ Web("if_run", IF last_runstate # DAQ_RUNNING THEN "note_run" ELSE "if_open")
     \/ Web("if_open", IF last_openflag # daq_open_flag THEN "note_open" ELSE "if_server")
     \/ Web("if_server", IF last_serverflag # daq_server_flag THEN "note_server"
                         ELSE "if_name")
  /\ UNCHANGED <<shownVars, lastVars, ThePort, end_web_thread, port, bound,
                 restarted_early, pageVars>>

BadNote ==  \* of the run: notes the open flag with it
  /\ \/ /\ Web("note_run", "send_run") /\ last_runstate' = DAQ_RUNNING
        /\ last_openflag' = daq_open_flag /\ UNCHANGED last_serverflag
     \/ /\ Web("note_open", "send_open") /\ last_openflag' = daq_open_flag
        /\ UNCHANGED <<last_runstate, last_serverflag>>
     \/ /\ Web("note_server", "send_server") /\ last_serverflag' = daq_server_flag
        /\ UNCHANGED <<last_runstate, last_openflag>>
  /\ UNCHANGED <<shownVars, rcdaqname_request_flag, ThePort, end_web_thread,
                 port, bound, restarted_early, pageVars>>

Note ==
  /\ \/ /\ Web("note_run", "send_run") /\ last_runstate' = DAQ_RUNNING
        /\ UNCHANGED <<last_openflag, last_serverflag>>
     \/ /\ Web("note_open", "send_open") /\ last_openflag' = daq_open_flag
        /\ UNCHANGED <<last_runstate, last_serverflag>>
     \/ /\ Web("note_server", "send_server") /\ last_serverflag' = daq_server_flag
        /\ UNCHANGED <<last_runstate, last_openflag>>
  /\ UNCHANGED <<shownVars, rcdaqname_request_flag, ThePort, end_web_thread,
                 port, bound, restarted_early, pageVars>>

\* No page looks at the server flag that is sent.
Send ==
  /\ \/ Web("send_run", "if_open") /\ ShownFlag("RunFlag", DAQ_RUNNING, last_runstate)
     \/ Web("send_open", "if_server") /\ ShownFlag("OpenFlag", daq_open_flag, last_openflag)
     \/ Web("send_server", "if_name") /\ UNCHANGED pageVars
  /\ UNCHANGED <<shownVars, lastVars, ThePort, end_web_thread, port, bound,
                 restarted_early>>

\* The request is taken back before the name is sent.
CompareName ==
  /\ Web("if_name", IF rcdaqname_request_flag THEN "send_name" ELSE "poll")
  /\ rcdaqname_request_flag' = FALSE
  /\ UNCHANGED <<shownVars, last_runstate, last_openflag, last_serverflag,
                 ThePort, end_web_thread, port, bound, restarted_early, pageVars>>

SendName ==
  /\ Web("send_name", "poll")
  /\ Shown("Name", MyName)
  /\ UNCHANGED <<shownVars, lastVars, ThePort, end_web_thread, port, bound,
                 restarted_early, misled>>

WebThread ==
  /\ usage.web
  /\ \/ ServerStart \/ ServerInit \/ Poll \/ Compare \/ Note \/ Send
     \/ CompareName \/ SendName
  /\ UNCHANGED vars

---------------------------------------------------------------------------
(* Commands.  daq_open and daq_set_server are refused during a run.        *)

Command(c) ==
  pc["rpc"] = "r_dispatch" /\ ~DAQ_ENDREQUESTED /\ c \in usage.commands

\* daq_set_name stores the name, then request_mg_update.
SetName ==
  /\ \/ /\ Command("set_name") /\ Go("rpc", "r_dispatch", "n_request")
        /\ MyName' \in Names
        /\ UNCHANGED rcdaqname_request_flag
     \/ /\ Go("rpc", "n_request", "idle")
        /\ rcdaqname_request_flag' = TRUE
        /\ UNCHANGED MyName
  /\ UNCHANGED <<daq_open_flag, daq_server_flag, last_runstate, last_openflag,
                 last_serverflag, serveVars, pageVars>>

Open ==
  /\ Command("open") /\ Go("rpc", "r_dispatch", "idle")
  /\ daq_open_flag' = IF DAQ_RUNNING THEN daq_open_flag ELSE TRUE
  /\ UNCHANGED <<daq_server_flag, MyName, lastVars, serveVars, pageVars>>

SetServer ==
  /\ Command("set_server") /\ Go("rpc", "r_dispatch", "idle")
  /\ daq_server_flag' \in IF DAQ_RUNNING THEN {daq_server_flag} ELSE BOOLEAN
  /\ UNCHANGED <<daq_open_flag, MyName, lastVars, serveVars, pageVars>>

\* daq_webcontrol: tell the thread to stop ...
WebControl ==
  /\ Command("webcontrol") /\ Go("rpc", "r_dispatch", "w_join")
  /\ ThePort' \in Ports
  /\ end_web_thread' = TRUE
  /\ restarted_early' = (restarted_early \/ wpc = "start")
  /\ UNCHANGED <<shownVars, lastVars, wpc, port, bound, pageVars>>

\* ... join it ...
WebJoin ==
  /\ Go("rpc", "w_join", "w_create") /\ wpc = "gone"
  /\ UNCHANGED webVars

\* ... and create the next one.
WebCreate ==
  /\ Go("rpc", "w_create", "idle")
  /\ wpc' = "start"
  /\ UNCHANGED <<shownVars, lastVars, ThePort, end_web_thread, port, bound,
                 restarted_early, pageVars>>

WebCommands ==
  /\ SetName \/ Open \/ SetServer \/ WebControl \/ WebJoin \/ WebCreate
  /\ UNCHANGED <<usage, flagVars, joinVars, runVars, DeviceList, endFor>>

Control == Next /\ UNCHANGED webVars

WebNext == Control \/ WebThread \/ WebCommands

PageSpec == WebInit /\ [][WebNext]_allVars

RpcStep ==
  /\ pc["rpc"] # "idle"
  /\ \/ RpcServer /\ UNCHANGED <<usage, webVars>>
     \/ WebCommands

WebFairness ==
  /\ WF_allVars(RpcStep)
  /\ WF_allVars((DaqBegin("bt") \/ BeginDone) /\ UNCHANGED <<usage, webVars>>)
  /\ \A t \in EndThreads : WF_allVars(DaqEndThread(t) /\ UNCHANGED <<usage, webVars>>)
  /\ \A l \in Loops : WF_allVars(EventLoop(l) /\ UNCHANGED <<usage, webVars>>)
  /\ WF_allVars(WebThread)

FairPageSpec == PageSpec /\ WebFairness

---------------------------------------------------------------------------
(* Properties.                                                             *)

\* The browser has its page from the thread that is running.
Served == page.port = port /\ wpc \notin {"gone", "start", "init"}

\* Whatever changes while an update is being put together, a page follows:
\* again and again it shows the state as it is, so that it comes to show a
\* state that lasts.  The exception is a flag that, when it was shown, was not
\* the one noted: it changed between the two and may have changed back since
\* (a begin that fails), or initial_update took a server for an open file.
PageFollows ==
  /\ []<>(Served => page.RunFlag = DAQ_RUNNING \/ "RunFlag" \in misled)
  /\ []<>(Served => page.OpenFlag = daq_open_flag \/ "OpenFlag" \in misled)
  /\ []<>(Served => page.Name = MyName)

\* The RPC server is never blocked for good, by the flags it waits for, by
\* the event loop or the web thread it joins; unless daq_webcontrol was
\* called for a web thread so young that it cleared the flag it should heed.
RpcAnswers == pc["rpc"] # "idle" ~> pc["rpc"] = "idle" \/ restarted_early

===========================================================================
