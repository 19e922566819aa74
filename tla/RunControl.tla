---------------------------- MODULE RunControl ----------------------------
(***************************************************************************)
(* Who may start, fill and end a run, and when: daq_begin, daq_end, the    *)
(* event loop and the threads of daq_begin_immediate / daq_end_immediate   *)
(* in rcdaq.cc, the dispatch of RPC requests in rcdaq_server.cc and the    *)
(* web server thread of rcdaq_mg_server.cc.                                *)
(*                                                                         *)
(* The steps of a thread are the reads and writes of the shared flags      *)
(* DAQ_RUNNING, DAQ_BEGININPROGRESS, DAQ_ENDREQUESTED, TriggerControl and  *)
(* ThreadEvt; none of them is protected by a lock.  A thread at one of the *)
(* program points in Filling is inside readout or switch_buffer, which     *)
(* work on the shared fill buffer (module BufferRing).                     *)
(***************************************************************************)
EXTENDS Integers, Sequences

CONSTANTS
  Loops,       \* event loop threads, one per run started
  EndThreads,  \* threads of daq_end_immediate
  Usages,      \* how rcdaq is used, a set of [commands, limit, web]: the
               \* requests that clients send, whether a limit on events or
               \* volume may end a run, and whether a browser looks on
  BeginMayFail, \* daq_begin may be refused, or fail after it has set DAQ_RUNNING
  MaxRuns,     \* bound: no run is requested after this many
  MaxEvents,   \* bound: data events of a run
  MaxDevices   \* bound: devices

AllCommands == {"begin", "begin_immediate", "end", "end_immediate", "create_device",
                "webcontrol", "set_name", "open", "set_server"}

ASSUME ControlAssumption ==
  /\ Usages \subseteq [commands : SUBSET AllCommands, limit : BOOLEAN, web : BOOLEAN]
  /\ BeginMayFail \in BOOLEAN
  /\ MaxRuns \in Nat /\ MaxEvents \in Nat /\ MaxDevices \in Nat
  /\ {"rpc", "web", "bt", "none"} \cap (Loops \cup EndThreads) = {}
  /\ Loops \cap EndThreads = {}

VARIABLES
  usage,               \* the one of Usages that this behaviour is about
  pc,                  \* program point of every thread
  target,              \* the event loop a thread in pthread_join waits for
  joined,              \* event loops that have been joined
  DAQ_RUNNING, DAQ_BEGININPROGRESS, DAQ_ENDREQUESTED, TriggerControl,
  ThreadEvt,           \* last event loop created, or "none"
  TheRun,
  nevents,             \* data events of the run
  DeviceList, Eventsize, \* number of devices; number set_eventsizes saw
  endFor,              \* the run a thread's end request is about
  events               \* readout's order of events: [run, type]

flagVars == <<DAQ_RUNNING, DAQ_BEGININPROGRESS, DAQ_ENDREQUESTED, TriggerControl>>
joinVars == <<target, joined, ThreadEvt>>
runVars == <<TheRun, nevents, Eventsize, events>>
vars == <<usage, pc, flagVars, joinVars, runVars, DeviceList, endFor>>

\* "rpc" serves one request at a time; "bt" is daq_begin_thread.
Thread == {"rpc", "web", "bt"} \cup EndThreads \cup Loops

\* b_*: daq_begin; e_*: daq_end; t_*: daq_end_thread around it; l_*: EventLoop;
\* w_*: daq_webcontrol, n_*: daq_set_name (module WebUpdates)
PC == {"idle", "gone", "r_dispatch", "r_wait", "r_request", "c_check", "c_add",
       "b_guard", "b_join", "b_joining", "b_start", "b_open", "b_read",
       "b_enable", "b_create", "b_done",
       "e_guard", "e_read", "e_switch", "e_clear",
       "t_disable", "t_join", "t_joining", "t_clear",
       "l_test", "l_wait", "l_run", "l_read", "l_stop",
       "w_join", "w_create", "n_request"}

Filling == {"b_read", "e_read", "e_switch", "l_read"}

Init ==
  /\ usage \in Usages
  /\ pc = [t \in Thread |-> IF t \in {"rpc", "web"} THEN "idle" ELSE "gone"]
  /\ target = [t \in Thread |-> "none"]
  /\ joined = {}
  /\ DAQ_RUNNING = FALSE /\ DAQ_BEGININPROGRESS = FALSE
  /\ DAQ_ENDREQUESTED = FALSE /\ TriggerControl = FALSE
  /\ ThreadEvt = "none"
  /\ TheRun = 0 /\ nevents = 0
  /\ DeviceList = 0 /\ Eventsize = 0
  /\ endFor = [t \in Thread |-> 0]
  /\ events = <<>>

Go(t, from, to) == pc[t] = from /\ pc' = [pc EXCEPT ![t] = to]

\* Where a thread goes when daq_begin, daq_end or daq_end_thread returns.
AfterBegin(t) == IF t = "bt" THEN "b_done" ELSE "idle"
AfterEnd(t) ==
  CASE t \in Loops -> "l_test"
    [] t = "web" -> "idle"
    [] OTHER -> "t_clear"
AfterEndThread(t) == IF t = "rpc" THEN "idle" ELSE "gone"

Record(type) == events' = Append(events, [run |-> TheRun, type |-> type])

---------------------------------------------------------------------------
(* pthread_join(ThreadEvt): the argument is read at the call.  Joining a   *)
(* thread that was joined before, or that another thread is joining,       *)
(* returns at once.                                                        *)

BadJoinCall(t, from, to) ==  \* no join
  /\ Go(t, from, to)
  /\ target' = [target EXCEPT ![t] = "none"]
  /\ UNCHANGED <<joined, ThreadEvt>>

JoinCall(t, from, to) ==
  LET taken == joined \cup {target[u] : u \in Thread} IN
  /\ Go(t, from, to)
  /\ target' = [target EXCEPT ![t] = IF ThreadEvt \in taken THEN "none"
                                     ELSE ThreadEvt]
  /\ UNCHANGED <<joined, ThreadEvt>>

JoinReturn(t, from, to) ==
  /\ Go(t, from, to)
  /\ target[t] # "none" => pc[target[t]] = "gone"
  /\ joined' = joined \cup ({target[t]} \cap Loops)
  /\ target' = [target EXCEPT ![t] = "none"]
  /\ UNCHANGED ThreadEvt

---------------------------------------------------------------------------
(* daq_begin                                                               *)

\* Refused during a run; also without a number in run control mode, or after
\* an error of the server (BeginMayFail: these settings are not modelled).
BeginGuard(t) ==
  /\ \/ ~DAQ_RUNNING /\ Go(t, "b_guard", "b_join")
     \/ (DAQ_RUNNING \/ BeginMayFail) /\ Go(t, "b_guard", AfterBegin(t))
  /\ UNCHANGED <<flagVars, joinVars, runVars, DeviceList, endFor>>

BeginJoin(t) ==
  /\ \/ JoinCall(t, "b_join", "b_joining")
     \/ JoinReturn(t, "b_joining", "b_start")
  /\ UNCHANGED <<flagVars, runVars, DeviceList, endFor>>

\* DAQ_RUNNING = 1, next run number.
BeginStart(t) ==
  /\ Go(t, "b_start", "b_open")
  /\ DAQ_RUNNING' = TRUE
  /\ TheRun' = TheRun + 1
  /\ UNCHANGED <<DAQ_BEGININPROGRESS, DAQ_ENDREQUESTED, TriggerControl,
                 joinVars, nevents, Eventsize, events, DeviceList, endFor>>

\* Run number, output file, set_eventsizes, buffer sizes: fails or succeeds.
BeginOpen(t) ==
  /\ \/ /\ BeginMayFail
        /\ Go(t, "b_open", AfterBegin(t))
        /\ DAQ_RUNNING' = FALSE
        /\ UNCHANGED <<DAQ_ENDREQUESTED, nevents, Eventsize>>
     \/ /\ Go(t, "b_open", "b_read")
        /\ DAQ_ENDREQUESTED' = FALSE
        /\ nevents' = 0
        /\ Eventsize' = DeviceList
        /\ UNCHANGED DAQ_RUNNING
  /\ UNCHANGED <<DAQ_BEGININPROGRESS, TriggerControl, joinVars, TheRun, events,
                 DeviceList, endFor>>

\* readout(BEGRUNEVENT)
BeginRead(t) ==
  /\ Go(t, "b_read", "b_enable")
  /\ Record("begin")
  /\ UNCHANGED <<flagVars, joinVars, TheRun, nevents, Eventsize, DeviceList, endFor>>

\* enable_trigger: TriggerControl = 1 ...
BeginEnable(t) ==
  /\ Go(t, "b_enable", "b_create")
  /\ TriggerControl' = TRUE
  /\ UNCHANGED <<DAQ_RUNNING, DAQ_BEGININPROGRESS, DAQ_ENDREQUESTED, joinVars,
                 runVars, DeviceList, endFor>>

\* ... and pthread_create of the event loop
BeginCreate(t) ==
  /\ pc[t] = "b_create"
  /\ \E l \in Loops \ joined :
       /\ pc[l] = "gone" /\ ThreadEvt # l /\ l \notin {target[u] : u \in Thread}
       /\ pc' = [pc EXCEPT ![t] = AfterBegin(t), ![l] = "l_test"]
       /\ ThreadEvt' = l
  /\ UNCHANGED <<flagVars, target, joined, runVars, DeviceList, endFor>>

\* daq_begin_thread clears DAQ_BEGININPROGRESS and ends.
BeginDone ==
  /\ Go("bt", "b_done", "gone")
  /\ DAQ_BEGININPROGRESS' = FALSE
  /\ UNCHANGED <<DAQ_RUNNING, DAQ_ENDREQUESTED, TriggerControl, joinVars,
                 runVars, DeviceList, endFor>>

DaqBegin(t) ==
  \/ BeginGuard(t) \/ BeginJoin(t) \/ BeginStart(t) \/ BeginOpen(t)
  \/ BeginRead(t) \/ BeginEnable(t) \/ BeginCreate(t)

---------------------------------------------------------------------------
(* daq_end and daq_end_thread                                              *)

\* disable_trigger is the first thing daq_end does after the guard.
EndGuard(t) ==
  /\ IF DAQ_RUNNING
       THEN Go(t, "e_guard", "e_read") /\ TriggerControl' = FALSE
       ELSE Go(t, "e_guard", AfterEnd(t)) /\ UNCHANGED TriggerControl
  /\ UNCHANGED <<DAQ_RUNNING, DAQ_BEGININPROGRESS, DAQ_ENDREQUESTED, joinVars,
                 runVars, DeviceList, endFor>>

\* readout(ENDRUNEVENT)
EndRead(t) ==
  /\ Go(t, "e_read", "e_switch")
  /\ Record("end")
  /\ UNCHANGED <<flagVars, joinVars, TheRun, nevents, Eventsize, DeviceList, endFor>>

\* switch_buffer(0), the wait for the writers, close, DAQ_RUNNING = 0
EndSwitch(t) ==
  /\ Go(t, "e_switch", "e_clear")
  /\ DAQ_RUNNING' = FALSE
  /\ UNCHANGED <<DAQ_BEGININPROGRESS, DAQ_ENDREQUESTED, TriggerControl, joinVars,
                 runVars, DeviceList, endFor>>

BadEndClear(t) ==  \* DAQ_ENDREQUESTED stays set
  /\ \/ Go(t, "e_clear", AfterEnd(t))
     \/ Go(t, "t_clear", AfterEndThread(t))
  /\ UNCHANGED <<DAQ_RUNNING, DAQ_BEGININPROGRESS, DAQ_ENDREQUESTED,
                 TriggerControl, joinVars, runVars, DeviceList, endFor>>

\* DAQ_ENDREQUESTED = 0 at the end of daq_end, and again of daq_end_thread
EndClear(t) ==
  /\ \/ Go(t, "e_clear", AfterEnd(t))
     \/ Go(t, "t_clear", AfterEndThread(t))
  /\ DAQ_ENDREQUESTED' = FALSE
  /\ UNCHANGED <<DAQ_RUNNING, DAQ_BEGININPROGRESS, TriggerControl, joinVars,
                 runVars, DeviceList, endFor>>

DaqEnd(t) == EndGuard(t) \/ EndRead(t) \/ EndSwitch(t) \/ EndClear(t)

ThreadDisable(t) ==
  /\ Go(t, "t_disable", IF ThreadEvt = "none" THEN "e_guard" ELSE "t_join")
  /\ TriggerControl' = FALSE
  /\ UNCHANGED <<DAQ_RUNNING, DAQ_BEGININPROGRESS, DAQ_ENDREQUESTED, joinVars,
                 runVars, DeviceList, endFor>>

ThreadJoin(t) ==
  /\ \/ JoinCall(t, "t_join", "t_joining")
     \/ JoinReturn(t, "t_joining", "e_guard")
  /\ UNCHANGED <<flagVars, runVars, DeviceList, endFor>>

DaqEndThread(t) == ThreadDisable(t) \/ ThreadJoin(t) \/ DaqEnd(t)

---------------------------------------------------------------------------
(* EventLoop                                                               *)

LoopTest(l) ==
  /\ Go(l, "l_test", IF TriggerControl THEN "l_wait" ELSE "gone")
  /\ UNCHANGED <<flagVars, joinVars, runVars, DeviceList, endFor>>

\* wait_for_trigger returns an event type, or 0
LoopWait(l) ==
  /\ \/ Go(l, "l_wait", "l_test")
     \/ Go(l, "l_wait", "l_run") /\ nevents < MaxEvents
  /\ UNCHANGED <<flagVars, joinVars, runVars, DeviceList, endFor>>

LoopRun(l) ==
  /\ IF DAQ_RUNNING
       THEN Go(l, "l_run", "l_read") /\ UNCHANGED TriggerControl
       ELSE Go(l, "l_run", "l_test") /\ TriggerControl' = FALSE
  /\ UNCHANGED <<DAQ_RUNNING, DAQ_BEGININPROGRESS, DAQ_ENDREQUESTED, joinVars,
                 runVars, DeviceList, endFor>>

\* readout of the event; it may report that a limit is reached
LoopRead(l) ==
  /\ \/ Go(l, "l_read", "l_test")
     \/ Go(l, "l_read", "l_stop") /\ usage.limit
  /\ nevents' = nevents + 1
  /\ Record("data")
  /\ UNCHANGED <<flagVars, joinVars, TheRun, Eventsize, DeviceList, endFor>>

\* automatic end: TriggerControl = 0, daq_end in the loop's own thread
LoopStop(l) ==
  /\ Go(l, "l_stop", "e_guard")
  /\ TriggerControl' = FALSE
  /\ UNCHANGED <<DAQ_RUNNING, DAQ_BEGININPROGRESS, DAQ_ENDREQUESTED, joinVars,
                 runVars, DeviceList, endFor>>

EventLoop(l) ==
  \/ LoopTest(l) \/ LoopWait(l) \/ LoopRun(l) \/ LoopRead(l) \/ LoopStop(l)
  \/ DaqEnd(l)

---------------------------------------------------------------------------
(* The RPC server: one request at a time.                                  *)

\* r_action waits for an asynchronous begin, then for a requested end;
\* r_create_device does neither.
Request ==
  /\ pc["rpc"] = "idle"
  /\ \/ usage.commands \ {"create_device"} # {} /\ Go("rpc", "idle", "r_wait")
     \/ "create_device" \in usage.commands /\ DeviceList < MaxDevices
          /\ Go("rpc", "idle", "c_check")
  /\ UNCHANGED <<flagVars, joinVars, runVars, DeviceList, endFor>>

\* daq_wait_for_begin_done
RequestWait ==
  /\ Go("rpc", "r_wait", "r_dispatch")
  /\ ~DAQ_BEGININPROGRESS
  /\ UNCHANGED <<flagVars, joinVars, runVars, DeviceList, endFor>>

\* daq_begin_immediate: refused during a run, else create daq_begin_thread
BeginImmediate ==
  IF DAQ_RUNNING
    THEN Go("rpc", "r_dispatch", "idle") /\ UNCHANGED DAQ_BEGININPROGRESS
    ELSE /\ pc' = [pc EXCEPT !["rpc"] = "idle", !["bt"] = "b_guard"]
         /\ DAQ_BEGININPROGRESS' = TRUE

\* daq_wait_for_actual_end, then the switch over the actions
Dispatch ==
  /\ pc["rpc"] = "r_dispatch"
  /\ ~DAQ_ENDREQUESTED
  /\ \/ /\ "begin" \in usage.commands /\ TheRun < MaxRuns
        /\ Go("rpc", "r_dispatch", "b_guard")
        /\ UNCHANGED <<DAQ_BEGININPROGRESS, endFor>>
     \/ /\ "end" \in usage.commands
        /\ Go("rpc", "r_dispatch", "t_disable")
        /\ endFor' = [endFor EXCEPT !["rpc"] = TheRun]
        /\ UNCHANGED DAQ_BEGININPROGRESS
     \/ /\ "begin_immediate" \in usage.commands /\ TheRun < MaxRuns
        /\ BeginImmediate /\ UNCHANGED endFor
     \/ /\ "end_immediate" \in usage.commands
        /\ Go("rpc", "r_dispatch", IF DAQ_RUNNING THEN "r_request" ELSE "idle")
        /\ UNCHANGED <<DAQ_BEGININPROGRESS, endFor>>
  /\ UNCHANGED <<DAQ_RUNNING, DAQ_ENDREQUESTED, TriggerControl, joinVars, runVars,
                 DeviceList>>

BadRequestEnd ==  \* forgets the flag
  /\ pc["rpc"] = "r_request"
  /\ \E t \in EndThreads :
       /\ pc[t] = "gone"
       /\ pc' = [pc EXCEPT !["rpc"] = "idle", ![t] = "t_disable"]
       /\ endFor' = [endFor EXCEPT ![t] = TheRun]
  /\ UNCHANGED <<flagVars, joinVars, runVars, DeviceList>>

\* daq_end_immediate: DAQ_ENDREQUESTED = 1, create daq_end_thread
RequestEnd ==
  /\ pc["rpc"] = "r_request"
  /\ \E t \in EndThreads :
       /\ pc[t] = "gone"
       /\ pc' = [pc EXCEPT !["rpc"] = "idle", ![t] = "t_disable"]
       /\ endFor' = [endFor EXCEPT ![t] = TheRun]
  /\ DAQ_ENDREQUESTED' = TRUE
  /\ UNCHANGED <<DAQ_RUNNING, DAQ_BEGININPROGRESS, TriggerControl, joinVars,
                 runVars, DeviceList>>

BadCreateCheck ==  \* no check for a running run
  /\ Go("rpc", "c_check", "c_add")
  /\ UNCHANGED <<flagVars, joinVars, runVars, DeviceList, endFor>>

\* r_create_device: refused during a run, else add_readoutdevice.
CreateCheck ==
  /\ Go("rpc", "c_check", IF DAQ_RUNNING THEN "idle" ELSE "c_add")
  /\ UNCHANGED <<flagVars, joinVars, runVars, DeviceList, endFor>>

CreateAdd ==
  /\ Go("rpc", "c_add", "idle")
  /\ DeviceList' = DeviceList + 1
  /\ UNCHANGED <<flagVars, joinVars, runVars, endFor>>

RpcServer ==
  \/ Request \/ RequestWait \/ Dispatch \/ RequestEnd \/ CreateCheck
  \/ CreateAdd \/ DaqBegin("rpc") \/ DaqEndThread("rpc")

---------------------------------------------------------------------------
(* The web server calls daq_begin and daq_end, the latter without first    *)
(* waiting for the event loop.                                             *)

WebRequest ==
  /\ \/ Go("web", "idle", "b_guard") /\ TheRun < MaxRuns /\ UNCHANGED endFor
     \/ /\ Go("web", "idle", "e_guard")
        /\ endFor' = [endFor EXCEPT !["web"] = TheRun]
  /\ UNCHANGED <<flagVars, joinVars, runVars, DeviceList>>

WebServer == WebRequest \/ DaqBegin("web") \/ DaqEnd("web")

Threads ==
  \/ RpcServer
  \/ DaqBegin("bt") \/ BeginDone
  \/ \E t \in EndThreads : DaqEndThread(t)
  \/ \E l \in Loops : EventLoop(l)

Next == Threads /\ UNCHANGED usage

Spec == Init /\ [][Next]_vars

\* With a web server, after daq_webcontrol.
WebSpec == Init /\ [][(Threads \/ WebServer) /\ UNCHANGED usage]_vars

---------------------------------------------------------------------------
(* Properties.                                                             *)

EventType == [run : Nat, type : {"begin", "data", "end"}]

\* Every variable has its type.
TypeOK ==
  /\ pc \in [Thread -> PC]
  /\ target \in [Thread -> Loops \cup {"none"}]
  /\ joined \subseteq Loops
  /\ DAQ_RUNNING \in BOOLEAN /\ DAQ_BEGININPROGRESS \in BOOLEAN
  /\ DAQ_ENDREQUESTED \in BOOLEAN /\ TriggerControl \in BOOLEAN
  /\ ThreadEvt \in Loops \cup {"none"}
  /\ TheRun \in Nat /\ nevents \in Nat
  /\ DeviceList \in Nat /\ Eventsize \in Nat
  /\ endFor \in [Thread -> Nat]
  /\ events \in Seq(EventType)

\* The fill buffer, the ring index and the event number belong to one thread
\* at a time: no two threads are in readout or switch_buffer together.
OneFiller ==
  \A t, u \in Thread : pc[t] \in Filling /\ pc[u] \in Filling => t = u

\* In the order in which events are read out, the begin-run event is the
\* first of a run and the end-run event the last one.
Legal(e, f) ==
  IF e.type = "end" THEN f.type = "begin" /\ f.run > e.run
                    ELSE f.type # "begin" /\ f.run = e.run

Bracketed ==
  /\ events # <<>> => events[1].type = "begin"
  /\ \A i \in 1 .. Len(events) - 1 : Legal(events[i], events[i + 1])

\* A request to end a run ends that run, and none that was started since.
EndsRightRun ==
  \A t \in {"rpc", "web"} \cup EndThreads :
    pc[t] \in {"e_read", "e_switch"} => endFor[t] = TheRun

\* The devices that are read out are those that set_eventsizes has counted
\* when the buffer sizes were checked.  This is about begins that the RPC
\* server waits for: create_device does not look for one in the background.
SizesCurrent ==
  \A t \in Thread : pc[t] \in Filling => Eventsize = DeviceList

===========================================================================
