------------------------- MODULE RunControlProofs -------------------------
(***************************************************************************)
(* Theorems about RunControl, with the commands of WebUpdates, for any     *)
(* number of event loops, runs, events and devices, and any usage in which *)
(* the commands that overlap are kept apart (see Apart).                   *)
(***************************************************************************)
EXTENDS WebUpdates, TLAPS

---------------------------------------------------------------------------
(* The inductive invariant.                                                *)

\* What the runs of TLC assume, too: a limit does not end the run for which
\* an end has been requested, and one requested end is over before the next.
Apart ==
  /\ \A u \in Usages : "end_immediate" \in u.commands => ~u.limit
  /\ \A t, u \in EndThreads : t = u

BeginPC == {"b_guard", "b_join", "b_joining", "b_start", "b_open", "b_read",
            "b_enable", "b_create"}
EndPC == {"t_disable", "t_join", "t_joining", "e_guard", "e_read", "e_switch", "e_clear"}
RequestPC == {"idle", "r_wait", "r_dispatch", "c_check", "c_add"}
StopPC == {"l_stop", "e_guard", "e_read", "e_switch", "e_clear"}

Controllers == {"rpc", "bt"} \cup EndThreads

\* Which thread may be where.
PlaceInv ==
  /\ usage \in Usages
  /\ pc["web"] = "idle"
  /\ pc["rpc"] \in RequestPC \cup BeginPC \cup EndPC
                   \cup {"r_request", "t_clear", "w_join", "w_create", "n_request"}
  /\ pc["rpc"] = "r_request" => "end_immediate" \in usage.commands
  /\ pc["rpc"] \in {"c_check", "c_add"} => "create_device" \in usage.commands
  /\ pc["bt"] \in BeginPC \cup {"gone", "b_done"}
  /\ pc["bt"] # "gone" => "begin_immediate" \in usage.commands
  /\ \A t \in EndThreads :
       /\ pc[t] \in EndPC \cup {"gone", "t_clear"}
       /\ pc[t] # "gone" => "end_immediate" \in usage.commands
  /\ \A l \in Loops :
       /\ pc[l] \in StopPC \cup {"gone", "l_test", "l_wait", "l_run", "l_read"}
       /\ pc[l] \in StopPC => usage.limit

\* The flags keep the RPC server away from a run that is being begun or ended
\* in the background.
TurnInv ==
  /\ (pc["bt"] # "gone") = DAQ_BEGININPROGRESS
  /\ pc["bt"] # "gone" => pc["rpc"] \in RequestPC \ {"r_dispatch"}
  /\ \A t \in EndThreads :
       pc[t] \in EndPC => /\ DAQ_ENDREQUESTED
                          /\ pc["rpc"] \in RequestPC /\ pc["bt"] = "gone"

\* Only the event loop created last can be active, and it is joined before
\* the next run and before the end of its own.
NoLoop == \A l \in Loops : pc[l] = "gone"

Joining == {"b_joining", "t_joining"}
Alone == {"b_start", "b_open", "b_read", "b_enable", "b_create",
          "e_guard", "e_read", "e_switch"}

LoopInv ==
  /\ \A l \in Loops : pc[l] # "gone" => l = ThreadEvt
  /\ \A l \in joined : pc[l] = "gone"
  /\ \A t \in Thread :
       target[t] # "none" => /\ t \in Controllers /\ pc[t] \in Joining
                             /\ target[t] = ThreadEvt
  /\ \A t \in Controllers :
       pc[t] \in Alone \/ (pc[t] \in Joining /\ target[t] = "none") => NoLoop

\* DAQ_RUNNING, as seen by the threads that have read or set it.
Stopped == {"b_join", "b_joining", "b_start"}
Running == {"b_open", "b_enable", "b_create"} \cup Filling

RunningInv ==
  \A t \in Thread : /\ pc[t] \in Stopped => ~DAQ_RUNNING
                    /\ pc[t] \in Running => DAQ_RUNNING

\* The run that is to be ended.
TargetInv ==
  \A t \in {"rpc"} \cup EndThreads :
    pc[t] \in EndPC \ {"e_clear"} => endFor[t] = TheRun

\* The last event is an end event exactly when no run is open.
At(where) == \E t \in Thread : pc[t] \in where

Between == {"b_open", "b_read", "e_switch"}

Last == events[Len(events)]

EventInv ==
  /\ Bracketed
  /\ IF DAQ_RUNNING /\ ~At(Between)
       THEN events # <<>> /\ Last.type # "end" /\ Last.run = TheRun
       ELSE events # <<>> => /\ Last.type = "end" /\ Last.run <= TheRun
                             /\ At({"b_open", "b_read"}) => Last.run < TheRun

Inv == PlaceInv /\ TurnInv /\ LoopInv /\ RunningInv /\ TargetInv /\ EventInv

---------------------------------------------------------------------------
(* The steps of RunControl, and those of the RPC server for the commands   *)
(* of WebUpdates, which move nothing but its program counter.              *)

Others ==
  /\ \/ /\ ~DAQ_ENDREQUESTED
        /\ \/ Go("rpc", "r_dispatch", "idle") \/ Go("rpc", "r_dispatch", "n_request")
           \/ Go("rpc", "r_dispatch", "w_join")
     \/ Go("rpc", "n_request", "idle")
     \/ Go("rpc", "w_join", "w_create") \/ Go("rpc", "w_create", "idle")
  /\ UNCHANGED <<usage, flagVars, joinVars, runVars, DeviceList, endFor>>

LEMMA WebSteps == WebNext => [Next \/ Others]_vars
  BY DEF WebNext, Control, WebThread, WebCommands, SetName, Open, SetServer, WebControl,
     WebJoin, WebCreate, Command, Others

LEMMA ThreadLemma ==
  /\ {"rpc", "web", "bt"} \subseteq Thread /\ EndThreads \subseteq Thread
  /\ Loops \subseteq Thread /\ Controllers \subseteq Thread
  /\ \A t \in Thread : t \in Controllers \/ t = "web" \/ t \in Loops
  /\ \A t \in Controllers : t # "web" /\ t \notin Loops
  /\ \A t \in EndThreads : t \notin {"rpc", "web", "bt", "none"} /\ t \notin Loops
  /\ \A l \in Loops : l \notin {"rpc", "web", "bt", "none"} /\ l \notin Controllers
                      /\ l \notin EndThreads
  BY ControlAssumption DEF Thread, Controllers

LEMMA GoLemma ==
  ASSUME TypeOK, NEW t \in Thread, NEW from, NEW to, Go(t, from, to)
  PROVE  /\ pc[t] = from /\ pc'[t] = to
         /\ \A u \in Thread : u # t => pc'[u] = pc[u]
  BY DEF Go, TypeOK

---------------------------------------------------------------------------
(* Type correctness.                                                       *)

LEMMA GoType ==
  ASSUME TypeOK, NEW t \in Thread, NEW from, NEW to \in PC, Go(t, from, to)
  PROVE  pc' \in [Thread -> PC]
  BY DEF Go, TypeOK

LEMMA RecordType ==
  ASSUME TypeOK, NEW type \in {"begin", "data", "end"}, Record(type)
  PROVE  events' \in Seq(EventType)
  <1>1. [run |-> TheRun, type |-> type] \in EventType
    BY DEF EventType, TypeOK
  <1> QED
    BY <1>1 DEF Record, TypeOK

LEMMA AfterType ==
  \A t \in Thread : {AfterBegin(t), AfterEnd(t), AfterEndThread(t)} \subseteq PC
  BY DEF AfterBegin, AfterEnd, AfterEndThread, PC

LEMMA JoinType ==
  ASSUME TypeOK, NEW t \in Thread, NEW from, NEW to \in PC,
         JoinCall(t, from, to) \/ JoinReturn(t, from, to)
  PROVE  /\ pc' \in [Thread -> PC] /\ target' \in [Thread -> Loops \cup {"none"}]
         /\ joined' \subseteq Loops /\ ThreadEvt' \in Loops \cup {"none"}
  BY GoType DEF JoinCall, JoinReturn, TypeOK

LEMMA BeginType ==
  ASSUME TypeOK, NEW t \in Thread, DaqBegin(t)
  PROVE  TypeOK'
  <1> USE AfterType DEF flagVars, joinVars, runVars
  <1>0. {"b_join", "b_joining", "b_start", "b_open", "b_read", "b_enable",
         "b_create", "l_test"} \subseteq PC
    BY DEF PC
  <1>1. CASE BeginGuard(t)
    <2>1. pc' \in [Thread -> PC]
      BY <1>0, <1>1, GoType DEF BeginGuard
    <2> QED
      BY <1>1, <2>1 DEF BeginGuard, TypeOK
  <1>2. CASE BeginJoin(t)
    BY <1>0, <1>2, JoinType DEF BeginJoin, TypeOK
  <1>3. CASE BeginStart(t)
    <2>1. pc' \in [Thread -> PC]
      BY <1>0, <1>3, GoType DEF BeginStart
    <2> QED
      BY <1>3, <2>1 DEF BeginStart, TypeOK
  <1>4. CASE BeginOpen(t)
    <2>1. pc' \in [Thread -> PC]
      BY <1>0, <1>4, GoType DEF BeginOpen
    <2>2. DAQ_RUNNING' \in BOOLEAN /\ DAQ_ENDREQUESTED' \in BOOLEAN
      BY <1>4 DEF BeginOpen, TypeOK
    <2> QED
      BY <1>4, <2>1, <2>2 DEF BeginOpen, TypeOK
  <1>5. CASE BeginRead(t)
    <2>1. pc' \in [Thread -> PC] /\ events' \in Seq(EventType)
      BY <1>0, <1>5, GoType, RecordType DEF BeginRead
    <2> QED
      BY <1>5, <2>1 DEF BeginRead, TypeOK
  <1>6. CASE BeginEnable(t)
    <2>1. pc' \in [Thread -> PC]
      BY <1>0, <1>6, GoType DEF BeginEnable
    <2> QED
      BY <1>6, <2>1 DEF BeginEnable, TypeOK
  <1>7. CASE BeginCreate(t)
    <2>1. pc' \in [Thread -> PC]
      BY <1>0, <1>7 DEF BeginCreate, TypeOK
    <2> QED
      BY <1>7, <2>1 DEF BeginCreate, TypeOK
  <1> QED
    BY <1>1, <1>2, <1>3, <1>4, <1>5, <1>6, <1>7 DEF DaqBegin

LEMMA EndType ==
  ASSUME TypeOK, NEW t \in Thread, DaqEndThread(t)
  PROVE  TypeOK'
  <1> USE AfterType DEF flagVars, joinVars, runVars
  <1>0. {"e_guard", "e_read", "e_switch", "e_clear", "t_join", "t_joining"} \subseteq PC
    BY DEF PC
  <1>1. CASE ThreadDisable(t)
    <2>1. pc' \in [Thread -> PC]
      BY <1>0, <1>1, GoType DEF ThreadDisable
    <2> QED
      BY <1>1, <2>1 DEF ThreadDisable, TypeOK
  <1>2. CASE ThreadJoin(t)
    BY <1>0, <1>2, JoinType DEF ThreadJoin, TypeOK
  <1>3. CASE EndGuard(t)
    <2>1. pc' \in [Thread -> PC] /\ TriggerControl' \in BOOLEAN
      BY <1>0, <1>3, GoType DEF EndGuard, TypeOK
    <2> QED
      BY <1>3, <2>1 DEF EndGuard, TypeOK
  <1>4. CASE EndRead(t)
    <2>1. pc' \in [Thread -> PC] /\ events' \in Seq(EventType)
      BY <1>0, <1>4, GoType, RecordType DEF EndRead
    <2> QED
      BY <1>4, <2>1 DEF EndRead, TypeOK
  <1>5. CASE EndSwitch(t)
    <2>1. pc' \in [Thread -> PC]
      BY <1>0, <1>5, GoType DEF EndSwitch
    <2> QED
      BY <1>5, <2>1 DEF EndSwitch, TypeOK
  <1>6. CASE EndClear(t)
    <2>1. pc' \in [Thread -> PC]
      BY <1>0, <1>6, GoType DEF EndClear
    <2> QED
      BY <1>6, <2>1 DEF EndClear, TypeOK
  <1> QED
    BY <1>1, <1>2, <1>3, <1>4, <1>5, <1>6 DEF DaqEndThread, DaqEnd

LEMMA LoopType ==
  ASSUME TypeOK, NEW l \in Loops, EventLoop(l)
  PROVE  TypeOK'
  <1> USE ThreadLemma DEF flagVars, joinVars, runVars
  <1>0. {"gone", "l_test", "l_wait", "l_run", "l_read", "l_stop", "e_guard"} \subseteq PC
    BY DEF PC
  <1>1. CASE LoopTest(l) \/ LoopWait(l)
    <2>1. pc' \in [Thread -> PC]
      BY <1>0, <1>1, GoType DEF LoopTest, LoopWait
    <2> QED
      BY <1>1, <2>1 DEF LoopTest, LoopWait, TypeOK
  <1>2. CASE LoopRun(l)
    <2>1. pc' \in [Thread -> PC] /\ TriggerControl' \in BOOLEAN
      BY <1>0, <1>2, GoType DEF LoopRun, TypeOK
    <2> QED
      BY <1>2, <2>1 DEF LoopRun, TypeOK
  <1>3. CASE LoopRead(l)
    <2>1. pc' \in [Thread -> PC] /\ events' \in Seq(EventType) /\ nevents' \in Nat
      BY <1>0, <1>3, GoType, RecordType DEF LoopRead, TypeOK
    <2> QED
      BY <1>3, <2>1 DEF LoopRead, TypeOK
  <1>4. CASE LoopStop(l)
    <2>1. pc' \in [Thread -> PC]
      BY <1>0, <1>4, GoType DEF LoopStop
    <2> QED
      BY <1>4, <2>1 DEF LoopStop, TypeOK
  <1>5. CASE DaqEnd(l)
    BY <1>5, EndType DEF DaqEndThread
  <1> QED
    BY <1>1, <1>2, <1>3, <1>4, <1>5 DEF EventLoop

LEMMA ServerType ==
  ASSUME TypeOK, \/ Request \/ RequestWait \/ Dispatch \/ RequestEnd \/ CreateCheck
                 \/ CreateAdd \/ BeginDone \/ Others
  PROVE  TypeOK'
  <1> USE ThreadLemma DEF flagVars, joinVars, runVars
  <1>0. {"idle", "gone", "r_wait", "c_check", "c_add", "r_dispatch", "r_request",
         "b_guard", "t_disable", "n_request", "w_join", "w_create"} \subseteq PC
    BY DEF PC
  <1>1. CASE Request \/ RequestWait \/ CreateCheck \/ Others
    <2>1. pc' \in [Thread -> PC]
      BY <1>0, <1>1, GoType DEF Request, RequestWait, CreateCheck, Others
    <2> QED
      BY <1>1, <2>1 DEF Request, RequestWait, CreateCheck, Others, TypeOK
  <1>2. CASE Dispatch
    <2>1. pc' \in [Thread -> PC]
      <3>1. CASE BeginImmediate
        BY <1>0, <3>1, GoType DEF BeginImmediate, TypeOK
      <3>2. CASE ~BeginImmediate
        BY <1>0, <1>2, <3>2, GoType DEF Dispatch
      <3> QED
        BY <3>1, <3>2
    <2>2. DAQ_BEGININPROGRESS' \in BOOLEAN
      BY <1>2 DEF Dispatch, BeginImmediate, TypeOK
    <2>3. endFor' \in [Thread -> Nat]
      BY <1>2 DEF Dispatch, TypeOK
    <2> QED
      BY <1>2, <2>1, <2>2, <2>3 DEF Dispatch, TypeOK
  <1>3. CASE RequestEnd
    <2>1. PICK t \in EndThreads :
            /\ pc' = [pc EXCEPT !["rpc"] = "idle", ![t] = "t_disable"]
            /\ endFor' = [endFor EXCEPT ![t] = TheRun]
      BY <1>3 DEF RequestEnd
    <2>2. pc' \in [Thread -> PC]
      BY <1>0, <2>1 DEF TypeOK
    <2>3. endFor' \in [Thread -> Nat]
      BY <2>1 DEF TypeOK
    <2> QED
      BY <1>3, <2>2, <2>3 DEF RequestEnd, TypeOK
  <1>4. CASE CreateAdd
    <2>1. pc' \in [Thread -> PC] /\ DeviceList' \in Nat
      BY <1>0, <1>4, GoType DEF CreateAdd, TypeOK
    <2> QED
      BY <1>4, <2>1 DEF CreateAdd, TypeOK
  <1>5. CASE BeginDone
    <2>1. pc' \in [Thread -> PC]
      BY <1>0, <1>5, GoType DEF BeginDone
    <2> QED
      BY <1>5, <2>1 DEF BeginDone, TypeOK
  <1> QED
    BY <1>1, <1>2, <1>3, <1>4, <1>5

LEMMA StepCases ==
  ASSUME Next \/ Others
  PROVE  \/ \E t \in {"rpc", "bt"} : DaqBegin(t) /\ UNCHANGED usage
         \/ \E t \in {"rpc"} \cup EndThreads : DaqEndThread(t) /\ UNCHANGED usage
         \/ \E l \in Loops : EventLoop(l) /\ UNCHANGED usage
         \/ /\ \/ Request \/ RequestWait \/ Dispatch \/ RequestEnd \/ CreateCheck
               \/ CreateAdd \/ BeginDone \/ Others
            /\ UNCHANGED usage
  BY DEF Next, Threads, RpcServer, Others


---------------------------------------------------------------------------
(* What the steps of a thread can do to the others.                        *)

LEMMA BeginShape ==
  ASSUME TypeOK, NEW t \in {"rpc", "bt"}, DaqBegin(t)
  PROVE  /\ pc[t] \in BeginPC /\ pc'[t] \in BeginPC \cup {AfterBegin(t)}
         /\ \A u \in Thread \ Loops : u # t => pc'[u] = pc[u]
         /\ \A l \in Loops : \/ pc'[l] = pc[l]
                             \/ /\ pc[t] = "b_create" /\ pc'[t] = AfterBegin(t)
                                /\ pc[l] = "gone" /\ pc'[l] = "l_test" /\ ThreadEvt' = l
         /\ \A l \in Loops : pc'[l] = pc[l] \/ pc'[l] = "l_test"
         /\ UNCHANGED <<DAQ_BEGININPROGRESS, endFor, DeviceList>>
         /\ \/ UNCHANGED DAQ_ENDREQUESTED
            \/ pc[t] = "b_open" /\ ~DAQ_ENDREQUESTED'
  <1> USE ThreadLemma DEF flagVars, joinVars, runVars
  <1>1. CASE BeginGuard(t)
    <2>1. Go(t, "b_guard", AfterBegin(t)) \/ Go(t, "b_guard", "b_join")
      BY <1>1 DEF BeginGuard
    <2> QED
      BY <1>1, <2>1, GoLemma DEF BeginGuard, BeginPC
  <1>2. CASE BeginJoin(t)
    <2>1. Go(t, "b_join", "b_joining") \/ Go(t, "b_joining", "b_start")
      BY <1>2 DEF BeginJoin, JoinCall, JoinReturn
    <2> QED
      BY <1>2, <2>1, GoLemma DEF BeginJoin, BeginPC
  <1>3. CASE BeginStart(t)
    BY <1>3, GoLemma DEF BeginStart, BeginPC
  <1>4. CASE BeginOpen(t)
    <2>1. Go(t, "b_open", AfterBegin(t)) \/ Go(t, "b_open", "b_read")
      BY <1>4 DEF BeginOpen
    <2>2. UNCHANGED DAQ_ENDREQUESTED \/ ~DAQ_ENDREQUESTED'
      BY <1>4 DEF BeginOpen
    <2>3. UNCHANGED <<DAQ_BEGININPROGRESS, endFor, DeviceList>>
      BY <1>4 DEF BeginOpen
    <2> QED
      BY <2>1, <2>2, <2>3, GoLemma DEF BeginPC
  <1>5. CASE BeginRead(t)
    BY <1>5, GoLemma DEF BeginRead, BeginPC
  <1>6. CASE BeginEnable(t)
    BY <1>6, GoLemma DEF BeginEnable, BeginPC
  <1>7. CASE BeginCreate(t)
    <2>1. PICK l \in Loops : /\ pc[l] = "gone" /\ ThreadEvt' = l
                             /\ pc' = [pc EXCEPT ![t] = AfterBegin(t), ![l] = "l_test"]
      BY <1>7 DEF BeginCreate
    <2>2. pc[t] = "b_create" /\ UNCHANGED <<flagVars, endFor, DeviceList>>
      BY <1>7 DEF BeginCreate
    <2>3. pc'[t] = AfterBegin(t) /\ pc'[l] = "l_test"
          /\ \A u \in Thread : u # t /\ u # l => pc'[u] = pc[u]
      BY <2>1 DEF TypeOK
    <2> QED
      BY <2>1, <2>2, <2>3 DEF BeginPC
  <1> QED
    BY <1>1, <1>2, <1>3, <1>4, <1>5, <1>6, <1>7 DEF DaqBegin

LEMMA EndShape ==
  ASSUME TypeOK, NEW t \in {"rpc"} \cup EndThreads, DaqEndThread(t)
  PROVE  /\ pc[t] \in EndPC \cup {"t_clear"}
         /\ \/ pc[t] # "t_clear" /\ pc'[t] \in EndPC \cup {"t_clear"}
            \/ pc[t] = "t_clear" /\ pc'[t] = AfterEndThread(t)
         /\ \A u \in Thread : u # t => pc'[u] = pc[u]
         /\ UNCHANGED <<DAQ_BEGININPROGRESS, TheRun, endFor, DeviceList, Eventsize>>
         /\ \/ UNCHANGED DAQ_ENDREQUESTED
            \/ pc[t] \in {"e_clear", "t_clear"} /\ ~DAQ_ENDREQUESTED'
         /\ pc[t] = "e_clear" => pc'[t] = "t_clear"
  <1> USE ThreadLemma DEF flagVars, joinVars, runVars
  <1>0. AfterEnd(t) = "t_clear"
    BY DEF AfterEnd
  <1>1. CASE ThreadDisable(t)
    <2>1. Go(t, "t_disable", "e_guard") \/ Go(t, "t_disable", "t_join")
      BY <1>1 DEF ThreadDisable
    <2> QED
      BY <1>1, <2>1, GoLemma DEF ThreadDisable, EndPC
  <1>2. CASE ThreadJoin(t)
    <2>1. Go(t, "t_join", "t_joining") \/ Go(t, "t_joining", "e_guard")
      BY <1>2 DEF ThreadJoin, JoinCall, JoinReturn
    <2> QED
      BY <1>2, <2>1, GoLemma DEF ThreadJoin, EndPC
  <1>3. CASE EndGuard(t)
    <2>1. Go(t, "e_guard", "e_read") \/ Go(t, "e_guard", "t_clear")
      BY <1>0, <1>3 DEF EndGuard
    <2> QED
      BY <1>3, <2>1, GoLemma DEF EndGuard, EndPC
  <1>4. CASE EndRead(t)
    BY <1>4, GoLemma DEF EndRead, EndPC
  <1>5. CASE EndSwitch(t)
    BY <1>5, GoLemma DEF EndSwitch, EndPC
  <1>6. CASE EndClear(t)
    <2>1. Go(t, "e_clear", "t_clear") \/ Go(t, "t_clear", AfterEndThread(t))
      BY <1>0, <1>6 DEF EndClear
    <2> QED
      BY <1>6, <2>1, GoLemma DEF EndClear, EndPC
  <1> QED
    BY <1>1, <1>2, <1>3, <1>4, <1>5, <1>6 DEF DaqEndThread, DaqEnd

LoopPC == StopPC \cup {"l_test", "l_wait", "l_run", "l_read"}

LEMMA LoopShape ==
  ASSUME TypeOK, PlaceInv, NEW l \in Loops, EventLoop(l)
  PROVE  /\ pc[l] \in LoopPC /\ pc'[l] \in LoopPC \cup {"gone"}
         /\ \A u \in Thread : u # l => pc'[u] = pc[u]
         /\ pc'[l] \in StopPC => pc[l] \in StopPC \/ usage.limit
         /\ UNCHANGED <<DAQ_BEGININPROGRESS, TheRun, endFor, DeviceList, Eventsize, joinVars>>
         /\ \/ UNCHANGED DAQ_ENDREQUESTED
            \/ pc[l] = "e_clear" /\ ~DAQ_ENDREQUESTED'
  <1> USE ThreadLemma DEF flagVars, joinVars, runVars
  <1>10. pc[l] # "t_clear"
    BY DEF PlaceInv, StopPC
  <1>0. AfterEnd(l) = "l_test"
    BY DEF AfterEnd
  <1>1. CASE LoopTest(l)
    <2>1. Go(l, "l_test", "l_wait") \/ Go(l, "l_test", "gone")
      BY <1>1 DEF LoopTest
    <2> QED
      BY <1>1, <2>1, GoLemma DEF LoopTest, LoopPC, StopPC
  <1>2. CASE LoopWait(l)
    BY <1>2, GoLemma DEF LoopWait, LoopPC, StopPC
  <1>3. CASE LoopRun(l)
    <2>1. Go(l, "l_run", "l_read") \/ Go(l, "l_run", "l_test")
      BY <1>3 DEF LoopRun
    <2> QED
      BY <1>3, <2>1, GoLemma DEF LoopRun, LoopPC, StopPC
  <1>4. CASE LoopRead(l)
    BY <1>4, GoLemma DEF LoopRead, LoopPC, StopPC
  <1>5. CASE LoopStop(l)
    BY <1>5, GoLemma DEF LoopStop, LoopPC, StopPC
  <1>6. CASE EndGuard(l)
    <2>1. Go(l, "e_guard", "e_read") \/ Go(l, "e_guard", "l_test")
      BY <1>0, <1>6 DEF EndGuard
    <2> QED
      BY <1>6, <2>1, GoLemma DEF EndGuard, LoopPC, StopPC
  <1>7. CASE EndRead(l)
    BY <1>7, GoLemma DEF EndRead, LoopPC, StopPC
  <1>8. CASE EndSwitch(l)
    BY <1>8, GoLemma DEF EndSwitch, LoopPC, StopPC
  <1>9. CASE EndClear(l) /\ pc[l] = "e_clear"
    <2>1. Go(l, "e_clear", "l_test")
      BY <1>0, <1>9, GoLemma DEF EndClear
    <2> QED
      BY <1>9, <2>1, GoLemma DEF EndClear, LoopPC, StopPC
  <1> QED
    BY <1>1, <1>2, <1>3, <1>4, <1>5, <1>6, <1>7, <1>8, <1>9, <1>10
       DEF EventLoop, DaqEnd, EndClear, Go


---------------------------------------------------------------------------
(* Places and turns.                                                       *)

ServerStep ==
  \/ Request \/ RequestWait \/ Dispatch \/ RequestEnd \/ CreateCheck \/ CreateAdd
  \/ BeginDone \/ Others

\* daq_begin_thread ends; the RPC server starts it, or a thread that ends the
\* run; or goes on by itself.
BeginOver ==
  /\ pc["bt"] = "b_done" /\ pc'["bt"] = "gone"
  /\ \A u \in Thread : u # "bt" => UNCHANGED pc[u]
  /\ ~DAQ_BEGININPROGRESS'
  /\ UNCHANGED <<DAQ_ENDREQUESTED, endFor, DeviceList>>

BeginStarted ==
  /\ pc["rpc"] = "r_dispatch" /\ pc'["rpc"] = "idle" /\ pc'["bt"] = "b_guard"
  /\ ~DAQ_ENDREQUESTED /\ "begin_immediate" \in usage.commands
  /\ \A u \in Thread : u \notin {"rpc", "bt"} => UNCHANGED pc[u]
  /\ DAQ_BEGININPROGRESS'
  /\ UNCHANGED <<DAQ_ENDREQUESTED, endFor, DeviceList>>

EndStarted ==
  /\ pc["rpc"] = "r_request" /\ pc'["rpc"] = "idle"
  /\ \E t \in EndThreads :
       /\ pc[t] = "gone" /\ pc'[t] = "t_disable" /\ endFor'[t] = TheRun
       /\ \A u \in Thread : u \notin {"rpc", t} => UNCHANGED pc[u]
       /\ \A u \in Thread : u # t => UNCHANGED endFor[u]
  /\ DAQ_ENDREQUESTED'
  /\ UNCHANGED <<DAQ_BEGININPROGRESS, DeviceList>>

ServerMoves ==
  /\ \A u \in Thread : u # "rpc" => UNCHANGED pc[u] /\ UNCHANGED endFor[u]
  /\ UNCHANGED <<DAQ_BEGININPROGRESS, DAQ_ENDREQUESTED>>
  /\ pc["rpc"] # "c_add" => UNCHANGED DeviceList
  /\ \/ /\ <<pc["rpc"], pc'["rpc"]>> \in
             {<<"idle", "r_wait">>, <<"idle", "c_check">>, <<"c_check", "idle">>,
              <<"c_add", "idle">>, <<"n_request", "idle">>,
              <<"w_join", "w_create">>, <<"w_create", "idle">>}
        /\ pc'["rpc"] = "c_check" => "create_device" \in usage.commands
     \/ pc["rpc"] = "c_check" /\ pc'["rpc"] = "c_add" /\ ~DAQ_RUNNING
     \/ pc["rpc"] = "r_wait" /\ pc'["rpc"] = "r_dispatch" /\ ~DAQ_BEGININPROGRESS
     \/ /\ pc["rpc"] = "r_dispatch" /\ ~DAQ_ENDREQUESTED
        /\ \/ pc'["rpc"] \in {"idle", "n_request", "w_join", "b_guard"}
           \/ pc'["rpc"] = "t_disable" /\ endFor'["rpc"] = TheRun
           \/ pc'["rpc"] = "r_request" /\ "end_immediate" \in usage.commands

LEMMA ServerShape ==
  ASSUME TypeOK, PlaceInv, ServerStep
  PROVE  /\ \A u \in Thread \ Controllers : UNCHANGED pc[u]
         /\ UNCHANGED <<DAQ_RUNNING, joinVars, runVars>>
         /\ BeginOver \/ BeginStarted \/ EndStarted \/ ServerMoves
  <1> USE ThreadLemma DEF flagVars, joinVars, runVars, BeginOver, BeginStarted, EndStarted,
          ServerMoves
  <1>1. CASE Request
    BY <1>1, GoLemma DEF Request
  <1>2. CASE RequestWait
    BY <1>2, GoLemma DEF RequestWait
  <1>3. CASE Dispatch
    <2>1. /\ UNCHANGED <<DAQ_RUNNING, DAQ_ENDREQUESTED, joinVars, runVars, DeviceList>>
          /\ pc["rpc"] = "r_dispatch" /\ ~DAQ_ENDREQUESTED
      BY <1>3 DEF Dispatch
    <2>2. CASE BeginImmediate /\ ~DAQ_RUNNING /\ UNCHANGED endFor
                 /\ "begin_immediate" \in usage.commands
      <3>1. /\ pc' = [pc EXCEPT !["rpc"] = "idle", !["bt"] = "b_guard"]
            /\ DAQ_BEGININPROGRESS' = TRUE
        BY <2>2 DEF BeginImmediate
      <3>2. /\ pc'["rpc"] = "idle" /\ pc'["bt"] = "b_guard"
            /\ \A u \in Thread : u \notin {"rpc", "bt"} => pc'[u] = pc[u]
        BY <3>1 DEF TypeOK
      <3> QED
        BY <1>3, <2>1, <2>2, <3>1, <3>2 DEF Controllers
    <2>3. CASE /\ Go("rpc", "r_dispatch", "b_guard")
               /\ UNCHANGED <<DAQ_BEGININPROGRESS, endFor>>
      BY <2>1, <2>3, GoLemma DEF Controllers
    <2>4. CASE /\ Go("rpc", "r_dispatch", "t_disable")
               /\ endFor' = [endFor EXCEPT !["rpc"] = TheRun]
               /\ UNCHANGED DAQ_BEGININPROGRESS
      <3>1. endFor'["rpc"] = TheRun /\ \A u \in Thread : u # "rpc" => endFor'[u] = endFor[u]
        BY <2>4 DEF TypeOK
      <3> QED
        BY <2>1, <2>4, <3>1, GoLemma DEF Controllers
    <2>5. CASE /\ Go("rpc", "r_dispatch", "r_request") /\ "end_immediate" \in usage.commands
               /\ UNCHANGED <<DAQ_BEGININPROGRESS, endFor>>
      BY <2>1, <2>5, GoLemma DEF Controllers
    <2>6. CASE /\ Go("rpc", "r_dispatch", "idle")
               /\ UNCHANGED <<DAQ_BEGININPROGRESS, endFor>>
      BY <2>1, <2>6, GoLemma DEF Controllers
    <2> QED
      BY <1>3, <2>2, <2>3, <2>4, <2>5, <2>6 DEF Dispatch, BeginImmediate
  <1>4. CASE RequestEnd
    <2>1. PICK t \in EndThreads :
            /\ pc[t] = "gone" /\ pc' = [pc EXCEPT !["rpc"] = "idle", ![t] = "t_disable"]
            /\ endFor' = [endFor EXCEPT ![t] = TheRun]
      BY <1>4 DEF RequestEnd
    <2>2. /\ pc'["rpc"] = "idle" /\ pc'[t] = "t_disable" /\ endFor'[t] = TheRun
          /\ \A u \in Thread : u \notin {"rpc", t} => pc'[u] = pc[u]
          /\ \A u \in Thread : u # t => endFor'[u] = endFor[u]
      BY <2>1 DEF TypeOK
    <2>3. /\ pc["rpc"] = "r_request" /\ DAQ_ENDREQUESTED' = TRUE
          /\ UNCHANGED <<DAQ_RUNNING, DAQ_BEGININPROGRESS, joinVars, runVars, DeviceList>>
      BY <1>4 DEF RequestEnd
    <2> QED
      BY <1>4, <2>1, <2>2, <2>3 DEF Controllers
  <1>5. CASE CreateCheck
    <2>1. \/ Go("rpc", "c_check", "idle")
          \/ Go("rpc", "c_check", "c_add") /\ ~DAQ_RUNNING
      BY <1>5 DEF CreateCheck
    <2> QED
      BY <1>5, <2>1, GoLemma DEF CreateCheck
  <1>6. CASE CreateAdd
    BY <1>6, GoLemma DEF CreateAdd
  <1>7. CASE BeginDone
    BY <1>7, GoLemma DEF BeginDone
  <1>8. CASE Others
    BY <1>8, GoLemma DEF Others
  <1> QED
    BY <1>1, <1>2, <1>3, <1>4, <1>5, <1>6, <1>7, <1>8 DEF ServerStep

LEMMA TypeStep ==
  ASSUME TypeOK, Next \/ Others
  PROVE  TypeOK'
  <1>1. CASE \E t \in {"rpc", "bt"} : DaqBegin(t)
    BY <1>1, ThreadLemma, BeginType
  <1>2. CASE \E t \in {"rpc"} \cup EndThreads : DaqEndThread(t)
    BY <1>2, ThreadLemma, EndType
  <1>3. CASE \E l \in Loops : EventLoop(l)
    BY <1>3, LoopType
  <1>4. CASE ServerStep
    BY <1>4, ServerType DEF ServerStep
  <1> QED
    BY <1>1, <1>2, <1>3, <1>4, StepCases DEF ServerStep

LEMMA PlaceStep ==
  ASSUME TypeOK, PlaceInv, Next \/ Others
  PROVE  PlaceInv'
  <1> USE ThreadLemma DEF AfterBegin, AfterEndThread
  <1>0. UNCHANGED usage
    BY StepCases
  <1>1. ASSUME NEW t \in {"rpc", "bt"}, DaqBegin(t) PROVE PlaceInv'
    <2>1. /\ UNCHANGED pc["web"] /\ \A u \in EndThreads : UNCHANGED pc[u]
      BY <1>1, BeginShape
    <2>2. \A l \in Loops : UNCHANGED pc[l] \/ pc'[l] = "l_test"
      BY <1>1, BeginShape
    <2>3. CASE t = "rpc"
      <3>1. pc'["rpc"] \in BeginPC \cup {"idle"} /\ UNCHANGED pc["bt"]
        BY <1>1, <2>3, BeginShape
      <3> QED
        BY <1>0, <2>1, <2>2, <3>1 DEF PlaceInv, BeginPC, StopPC, RequestPC
    <2>4. CASE t = "bt"
      <3>1. /\ pc["bt"] \in BeginPC /\ pc'["bt"] \in BeginPC \cup {"b_done"}
            /\ UNCHANGED pc["rpc"]
        BY <1>1, <2>4, BeginShape
      <3> QED
        BY <1>0, <2>1, <2>2, <3>1 DEF PlaceInv, BeginPC, StopPC
    <2> QED
      BY <2>3, <2>4
  <1>2. ASSUME NEW t \in {"rpc"} \cup EndThreads, DaqEndThread(t) PROVE PlaceInv'
    <2>1. \A u \in Thread : u # t => UNCHANGED pc[u]
      BY <1>2, EndShape
    <2>2. /\ pc[t] \in EndPC \cup {"t_clear"}
          /\ pc'[t] \in EndPC \cup {"t_clear", AfterEndThread(t)}
      BY <1>2, EndShape
    <2> QED
      BY <1>0, <2>1, <2>2 DEF PlaceInv, EndPC, RequestPC
  <1>3. ASSUME NEW l \in Loops, EventLoop(l) PROVE PlaceInv'
    BY <1>0, <1>3, LoopShape DEF PlaceInv, LoopPC, StopPC
  <1>4. ASSUME ServerStep PROVE PlaceInv'
    <2>0. UNCHANGED pc["web"] /\ \A l \in Loops : UNCHANGED pc[l]
      BY <1>4, ServerShape
    <2>1. CASE ServerMoves
      <3>1. /\ UNCHANGED pc["bt"] /\ \A u \in EndThreads : UNCHANGED pc[u]
        BY <2>1 DEF ServerMoves
      <3>2. /\ pc'["rpc"] \in RequestPC \cup {"b_guard", "t_disable", "r_request",
                                             "w_join", "w_create", "n_request"}
            /\ pc'["rpc"] \in {"c_check", "c_add"} => "create_device" \in usage.commands
            /\ pc'["rpc"] = "r_request" => "end_immediate" \in usage.commands
        BY <2>1 DEF RequestPC, PlaceInv, ServerMoves
      <3> QED
        BY <1>0, <2>0, <3>1, <3>2 DEF PlaceInv, BeginPC, EndPC
    <2>2. CASE BeginOver
      BY <1>0, <2>0, <2>2 DEF PlaceInv, BeginOver
    <2>3. CASE BeginStarted
      BY <1>0, <2>0, <2>3 DEF PlaceInv, BeginStarted, RequestPC, BeginPC
    <2>4. CASE EndStarted
      BY <1>0, <2>0, <2>4 DEF PlaceInv, EndStarted, RequestPC, EndPC
    <2> QED
      BY <1>4, <2>1, <2>2, <2>3, <2>4, ServerShape
  <1> QED
    BY <1>1, <1>2, <1>3, <1>4, StepCases DEF ServerStep

LEMMA TurnStep ==
  ASSUME TypeOK, Apart, PlaceInv, TurnInv, Next \/ Others
  PROVE  TurnInv'
  <1> USE ThreadLemma DEF AfterBegin, AfterEndThread
  <1>1. ASSUME NEW t \in {"rpc", "bt"}, DaqBegin(t) PROVE TurnInv'
    <2>1. \A u \in EndThreads : UNCHANGED pc[u]
      BY <1>1, BeginShape
    <2>2. \A u \in EndThreads : pc[u] \notin EndPC
      BY <1>1, BeginShape DEF TurnInv, BeginPC, RequestPC
    <2>3. UNCHANGED DAQ_BEGININPROGRESS
      BY <1>1, BeginShape
    <2>4. CASE t = "rpc"
      <3>1. pc["bt"] = "gone" /\ UNCHANGED pc["bt"]
        BY <1>1, <2>4, BeginShape DEF TurnInv, BeginPC, RequestPC
      <3> QED
        BY <2>1, <2>2, <2>3, <3>1 DEF TurnInv
    <2>5. CASE t = "bt"
      <3>1. pc["bt"] # "gone" /\ pc'["bt"] # "gone" /\ UNCHANGED pc["rpc"]
        BY <1>1, <2>5, BeginShape DEF BeginPC
      <3> QED
        BY <2>1, <2>2, <2>3, <3>1 DEF TurnInv
    <2> QED
      BY <2>4, <2>5
  <1>2. ASSUME NEW t \in {"rpc"} \cup EndThreads, DaqEndThread(t) PROVE TurnInv'
    <2>1. UNCHANGED <<pc["bt"], DAQ_BEGININPROGRESS>>
      BY <1>2, EndShape
    <2>2. CASE t = "rpc"
      <3>1. pc["bt"] = "gone" /\ \A u \in EndThreads : pc[u] \notin EndPC
        BY <1>2, <2>2, EndShape DEF TurnInv, EndPC, RequestPC
      <3>2. \A u \in EndThreads : UNCHANGED pc[u]
        BY <1>2, <2>2, EndShape
      <3> QED
        BY <2>1, <3>1, <3>2 DEF TurnInv
    <2>3. CASE t \in EndThreads
      <3>1. UNCHANGED pc["rpc"] /\ \A u \in EndThreads : u = t
        BY <1>2, <2>3, EndShape DEF Apart
      <3>2. pc'[t] \in EndPC => pc[t] \in EndPC /\ UNCHANGED DAQ_ENDREQUESTED
        BY <1>2, <2>3, EndShape DEF EndPC
      <3> QED
        BY <2>1, <2>3, <3>1, <3>2 DEF TurnInv
    <2> QED
      BY <2>2, <2>3
  <1>3. ASSUME NEW l \in Loops, EventLoop(l) PROVE TurnInv'
    <2>1. /\ UNCHANGED <<pc["bt"], pc["rpc"], DAQ_BEGININPROGRESS>>
          /\ \A u \in EndThreads : UNCHANGED pc[u]
      BY <1>3, LoopShape
    <2>2. UNCHANGED DAQ_ENDREQUESTED \/ usage.limit
      BY <1>3, LoopShape DEF PlaceInv, StopPC
    <2>3. usage.limit => \A u \in EndThreads : pc[u] \notin EndPC
      BY DEF PlaceInv, Apart, EndPC
    <2> QED
      BY <2>1, <2>2, <2>3 DEF TurnInv
  <1>4. ASSUME ServerStep PROVE TurnInv'
    <2>0. DAQ_BEGININPROGRESS' \in BOOLEAN
      BY TypeStep DEF TypeOK
    <2>1. CASE BeginOver
      BY <2>0, <2>1 DEF TurnInv, BeginOver
    <2>2. CASE BeginStarted
      BY <2>2 DEF TurnInv, BeginStarted, RequestPC
    <2>3. CASE EndStarted
      BY <2>3 DEF TurnInv, EndStarted, RequestPC
    <2>4. CASE ServerMoves
      <3>1. pc["bt"] # "gone" => pc'["rpc"] \in RequestPC \ {"r_dispatch"}
        BY <2>4 DEF TurnInv, ServerMoves, RequestPC
      <3>2. (\E u \in EndThreads : pc[u] \in EndPC) => pc'["rpc"] \in RequestPC
        BY <2>4 DEF TurnInv, ServerMoves, RequestPC
      <3> QED
        BY <2>4, <3>1, <3>2 DEF TurnInv, ServerMoves
    <2> QED
      BY <1>4, <2>1, <2>2, <2>3, <2>4, ServerShape
  <1> QED
    BY <1>1, <1>2, <1>3, <1>4, StepCases DEF ServerStep

---------------------------------------------------------------------------
(* One thread at a time begins or ends a run, with no event loop about.    *)

LEMMA OneController ==
  ASSUME Apart, PlaceInv, TurnInv, NEW t \in Controllers, NEW u \in Controllers,
         pc[t] \in BeginPC \cup EndPC, pc[u] \in BeginPC \cup EndPC
  PROVE  t = u
  <1>1. \A v \in EndThreads : pc[v] \notin BeginPC
    BY DEF PlaceInv, BeginPC, EndPC
  <1>2. pc["bt"] \notin EndPC
    BY DEF PlaceInv, BeginPC, EndPC
  <1>3. pc["rpc"] \in BeginPC \cup EndPC => pc["rpc"] \notin RequestPC
    BY DEF RequestPC, BeginPC, EndPC
  <1>4. pc["bt"] \in BeginPC => pc["bt"] # "gone"
    BY DEF BeginPC
  <1> QED
    BY <1>1, <1>2, <1>3, <1>4 DEF Controllers, TurnInv, Apart

LEMMA LoopGo ==
  ASSUME TypeOK, LoopInv, NEW t \in Controllers, NEW from, NEW to, Go(t, from, to),
         UNCHANGED joinVars, from \notin Joining, to \notin Joining, to \in Alone => NoLoop
  PROVE  LoopInv'
  <1>1. t \in Thread /\ \A l \in Loops : UNCHANGED pc[l]
    BY ThreadLemma, GoLemma
  <1>2. NoLoop => NoLoop'
    BY <1>1 DEF NoLoop
  <1>3. \A u \in Thread : u = t \/ UNCHANGED pc[u]
    BY <1>1, GoLemma
  <1>4. pc[t] = from /\ pc'[t] = to
    BY <1>1, GoLemma
  <1> QED
    BY <1>1, <1>2, <1>3, <1>4, ThreadLemma DEF LoopInv, joinVars, TypeOK

LEMMA LoopJoin ==
  ASSUME TypeOK, Apart, PlaceInv, TurnInv, LoopInv, NEW t \in Controllers,
         NEW from \in {"b_join", "t_join"}, NEW to \in Joining, JoinCall(t, from, to)
  PROVE  LoopInv'
  <1>1. /\ t \in Thread /\ pc[t] = from /\ pc'[t] = to /\ UNCHANGED <<joined, ThreadEvt>>
        /\ \A u \in Thread : u = t \/ UNCHANGED pc[u]
        /\ \A l \in Loops : UNCHANGED pc[l]
    BY ThreadLemma, GoLemma DEF JoinCall
  <1>2. \A u \in Thread : u = t \/ UNCHANGED target[u]
    BY <1>1 DEF JoinCall, TypeOK
  <1>3. target'[t] = IF ThreadEvt \in joined \cup {target[u] : u \in Thread}
                       THEN "none" ELSE ThreadEvt
    BY <1>1 DEF JoinCall, TypeOK
  <1>4. \A u \in Thread : target[u] = "none"
    <2>1. SUFFICES ASSUME NEW u \in Thread, target[u] # "none" PROVE FALSE
      OBVIOUS
    <2>2. u \in Controllers /\ pc[u] \in BeginPC \cup EndPC /\ pc[u] # from
      BY <2>1 DEF LoopInv, Joining, BeginPC, EndPC
    <2>3. pc[t] \in BeginPC \cup EndPC
      BY <1>1 DEF BeginPC, EndPC
    <2> QED
      BY <1>1, <2>2, <2>3, OneController
  <1>5. target'[t] = "none" => NoLoop
    BY <1>3, <1>4, ThreadLemma DEF LoopInv, NoLoop
  <1>6. NoLoop => NoLoop'
    BY <1>1 DEF NoLoop
  <1>7. target'[t] # "none" => target'[t] = ThreadEvt
    BY <1>3
  <1>8. \A l \in Loops : (pc'[l] # "gone" => l = ThreadEvt') /\ (l \in joined' => pc'[l] = "gone")
    BY <1>1 DEF LoopInv, TypeOK
  <1>9. \A u \in Thread :
          target'[u] # "none" => /\ u \in Controllers /\ pc'[u] \in Joining
                                 /\ target'[u] = ThreadEvt'
    BY <1>1, <1>2, <1>4, <1>7
  <1>10. \A u \in Controllers :
           pc'[u] \in Alone \/ (pc'[u] \in Joining /\ target'[u] = "none") => NoLoop'
    BY <1>1, <1>2, <1>5, <1>6, ThreadLemma DEF LoopInv, Alone, Joining
  <1> QED
    BY <1>1, <1>8, <1>9, <1>10 DEF LoopInv, TypeOK

LEMMA LoopJoined ==
  ASSUME TypeOK, LoopInv, NEW t \in Controllers,
         NEW from \in Joining, NEW to \in Alone, JoinReturn(t, from, to)
  PROVE  LoopInv'
  <1>1. /\ t \in Thread /\ pc[t] = from /\ pc'[t] = to /\ UNCHANGED ThreadEvt
        /\ \A u \in Thread : u = t \/ UNCHANGED pc[u]
        /\ \A l \in Loops : UNCHANGED pc[l]
    BY ThreadLemma, GoLemma DEF JoinReturn
  <1>2. /\ target'[t] = "none" /\ \A u \in Thread : u = t \/ UNCHANGED target[u]
        /\ joined' \subseteq joined \cup {target[t]}
    BY <1>1 DEF JoinReturn, TypeOK
  <1>3. NoLoop
    BY <1>1, ThreadLemma DEF LoopInv, JoinReturn, NoLoop
  <1>4. NoLoop' /\ joined' \subseteq Loops
    BY <1>1, <1>3, TypeStep DEF NoLoop, JoinReturn, TypeOK
  <1> QED
    BY <1>1, <1>2, <1>4, ThreadLemma DEF LoopInv, NoLoop, TypeOK

LEMMA LoopStep ==
  ASSUME TypeOK, Apart, PlaceInv, TurnInv, LoopInv, Next \/ Others
  PROVE  LoopInv'
  <1> USE ThreadLemma
  <1>0. \A u \in Controllers : pc[u] \in Alone => NoLoop
    BY DEF LoopInv
  <1>1. ASSUME NEW t \in {"rpc", "bt"}, DaqBegin(t) PROVE LoopInv'
    <2>0. t \in Controllers /\ AfterBegin(t) \notin Alone \cup Joining
      BY DEF Controllers, AfterBegin, Alone, Joining
    <2>1. CASE BeginGuard(t)
      <3>1. PICK to \in {AfterBegin(t), "b_join"} : Go(t, "b_guard", to)
        BY <2>1 DEF BeginGuard
      <3> QED
        BY <2>0, <2>1, <3>1, LoopGo DEF BeginGuard, Alone, Joining
    <2>2. CASE BeginJoin(t)
      BY <2>0, <2>2, LoopJoin, LoopJoined DEF BeginJoin, Alone, Joining
    <2>3. CASE BeginStart(t)
      BY <1>0, <2>0, <2>3, GoLemma, LoopGo DEF BeginStart, Alone, Joining
    <2>4. CASE BeginOpen(t)
      <3>1. PICK to \in {AfterBegin(t), "b_read"} : Go(t, "b_open", to)
        BY <2>4 DEF BeginOpen
      <3> QED
        BY <1>0, <2>0, <2>4, <3>1, GoLemma, LoopGo DEF BeginOpen, Alone, Joining
    <2>5. CASE BeginRead(t)
      BY <1>0, <2>0, <2>5, GoLemma, LoopGo DEF BeginRead, Alone, Joining
    <2>6. CASE BeginEnable(t)
      BY <1>0, <2>0, <2>6, GoLemma, LoopGo DEF BeginEnable, Alone, Joining
    <2>7. CASE BeginCreate(t)
      <3>1. PICK l \in Loops \ joined :
              /\ ThreadEvt' = l /\ pc' = [pc EXCEPT ![t] = AfterBegin(t), ![l] = "l_test"]
        BY <2>7 DEF BeginCreate
      <3>2. pc[t] = "b_create" /\ UNCHANGED <<target, joined>>
        BY <2>7 DEF BeginCreate
      <3>3. /\ pc'[t] = AfterBegin(t) /\ pc'[l] = "l_test"
            /\ \A u \in Thread : u # t /\ u # l => pc'[u] = pc[u]
        BY <3>1 DEF TypeOK
      <3>4. \A u \in Controllers : u # t => pc[u] \notin Alone \cup Joining
        BY <2>0, <3>2, OneController DEF Alone, Joining, BeginPC, EndPC
      <3>5. NoLoop /\ \A u \in Thread : target[u] = "none"
        BY <1>0, <2>0, <3>2, <3>4 DEF LoopInv, Alone, Joining
      <3> QED
        BY <2>0, <3>1, <3>2, <3>3, <3>4, <3>5 DEF LoopInv, NoLoop, TypeOK
    <2> QED
      BY <1>1, <2>1, <2>2, <2>3, <2>4, <2>5, <2>6, <2>7 DEF DaqBegin
  <1>2. ASSUME NEW t \in {"rpc"} \cup EndThreads, DaqEndThread(t) PROVE LoopInv'
    <2>0. /\ t \in Controllers /\ AfterEndThread(t) \notin Alone \cup Joining
          /\ AfterEnd(t) = "t_clear"
      BY DEF Controllers, AfterEnd, AfterEndThread, Alone, Joining
    <2>1. CASE ThreadDisable(t)
      <3>1. PICK to \in {"e_guard", "t_join"} :
              Go(t, "t_disable", to) /\ (to = "e_guard" => ThreadEvt = "none")
        BY <2>1 DEF ThreadDisable
      <3>2. ThreadEvt = "none" => NoLoop
        BY DEF LoopInv, NoLoop
      <3> QED
        BY <2>0, <2>1, <3>1, <3>2, LoopGo DEF ThreadDisable, Alone, Joining
    <2>2. CASE ThreadJoin(t)
      BY <2>0, <2>2, LoopJoin, LoopJoined DEF ThreadJoin, Alone, Joining
    <2>3. CASE EndGuard(t)
      <3>1. PICK to \in {"e_read", "t_clear"} : Go(t, "e_guard", to)
        BY <2>0, <2>3 DEF EndGuard
      <3> QED
        BY <1>0, <2>0, <2>3, <3>1, GoLemma, LoopGo DEF EndGuard, Alone, Joining
    <2>4. CASE EndRead(t)
      BY <1>0, <2>0, <2>4, GoLemma, LoopGo DEF EndRead, Alone, Joining
    <2>5. CASE EndSwitch(t)
      BY <1>0, <2>0, <2>5, GoLemma, LoopGo DEF EndSwitch, Alone, Joining
    <2>6. CASE EndClear(t)
      <3>1. PICK from \in {"e_clear", "t_clear"}, to \in {"t_clear", AfterEndThread(t)} :
              Go(t, from, to)
        BY <2>0, <2>6 DEF EndClear
      <3> QED
        BY <2>0, <2>6, <3>1, GoLemma, LoopGo DEF EndClear, Alone, Joining
    <2> QED
      BY <1>2, <2>1, <2>2, <2>3, <2>4, <2>5, <2>6 DEF DaqEndThread, DaqEnd
  <1>3. ASSUME NEW l \in Loops, EventLoop(l) PROVE LoopInv'
    <2>1. /\ pc[l] # "gone" /\ UNCHANGED joinVars
          /\ \A u \in Thread : u # l => UNCHANGED pc[u]
      BY <1>3, LoopShape DEF LoopPC, StopPC
    <2>2. ~NoLoop /\ l = ThreadEvt /\ l \notin joined
      BY <2>1 DEF NoLoop, LoopInv
    <2>3. \A u \in Controllers :
            ~(pc'[u] \in Alone \/ (pc'[u] \in Joining /\ target'[u] = "none"))
      BY <2>1, <2>2 DEF LoopInv, joinVars
    <2>4. \A k \in Loops : (pc'[k] # "gone" => k = ThreadEvt) /\ (k \in joined => pc'[k] = "gone")
      BY <2>1, <2>2 DEF LoopInv
    <2>5. \A u \in Thread :
            target[u] # "none" => /\ u \in Controllers /\ pc'[u] \in Joining
                                  /\ target[u] = ThreadEvt
      BY <2>1 DEF LoopInv
    <2> QED
      BY <2>1, <2>3, <2>4, <2>5 DEF LoopInv, joinVars, TypeOK
  <1>4. ASSUME ServerStep PROVE LoopInv'
    <2>1. UNCHANGED joinVars /\ \A l \in Loops : UNCHANGED pc[l]
      BY <1>4, ServerShape
    <2>2. ASSUME NEW u \in Controllers
          PROVE  \/ UNCHANGED pc[u]
                 \/ pc[u] \notin Joining /\ pc'[u] \notin Alone \cup Joining
      <3>0. u \in Thread
        OBVIOUS
      <3> HIDE ThreadLemma
      <3> USE DEF Alone, Joining
      <3>1. CASE BeginOver
        BY <3>0, <3>1 DEF BeginOver
      <3>2. CASE BeginStarted
        <4>1. pc["bt"] = "gone"
          BY <3>2 DEF BeginStarted, TurnInv, RequestPC
        <4> QED
          BY <3>0, <3>2, <4>1 DEF BeginStarted
      <3>3. CASE EndStarted
        BY <3>0, <3>3 DEF EndStarted
      <3>4. CASE ServerMoves
        BY <3>0, <3>4 DEF ServerMoves
      <3> QED
        BY <1>4, <3>1, <3>2, <3>3, <3>4, ServerShape
    <2>3. NoLoop' = NoLoop
      BY <2>1 DEF NoLoop
    <2>4. \A k \in Loops : (pc'[k] # "gone" => k = ThreadEvt) /\ (k \in joined => pc'[k] = "gone")
      BY <2>1 DEF LoopInv, TypeOK
    <2>5. \A u \in Thread :
            target[u] # "none" => /\ u \in Controllers /\ pc'[u] \in Joining
                                  /\ target[u] = ThreadEvt
      BY <2>2 DEF LoopInv
    <2>6. \A u \in Controllers :
            pc'[u] \in Alone \/ (pc'[u] \in Joining /\ target[u] = "none") => NoLoop'
      BY <2>2, <2>3 DEF LoopInv, Alone, Joining
    <2> QED
      BY <2>1, <2>4, <2>5, <2>6 DEF LoopInv, joinVars, TypeOK
  <1> QED
    BY <1>1, <1>2, <1>3, <1>4, StepCases DEF ServerStep

LEMMA SoleController ==
  ASSUME TypeOK, Apart, PlaceInv, TurnInv, LoopInv,
         NEW t \in Controllers, pc[t] \in Alone
  PROVE  \A u \in Thread : u # t => pc[u] \notin Stopped \cup Running
  <1>1. SUFFICES ASSUME NEW u \in Thread, u # t, pc[u] \in Stopped \cup Running
                 PROVE  FALSE
    OBVIOUS
  <1>2. CASE u \in Controllers
    <2>1. pc[t] \in BeginPC \cup EndPC /\ pc[u] # "l_read"
      BY <1>2, ThreadLemma DEF Alone, BeginPC, EndPC, PlaceInv, Controllers, RequestPC
    <2>2. pc[u] \in BeginPC \cup EndPC
      BY <1>1, <2>1 DEF Stopped, Running, Filling, BeginPC, EndPC
    <2> QED
      BY <1>1, <1>2, <2>1, <2>2, OneController
  <1>3. CASE u = "web"
    BY <1>1, <1>3 DEF PlaceInv, Stopped, Running, Filling
  <1>4. CASE u \in Loops
    BY <1>1, <1>4 DEF LoopInv, NoLoop, Stopped, Running, Filling
  <1> QED
    BY <1>2, <1>3, <1>4, ThreadLemma

LEMMA SoleLoop ==
  ASSUME TypeOK, PlaceInv, LoopInv, NEW l \in Loops, pc[l] # "gone"
  PROVE  \A u \in Thread : u # l => pc[u] \notin Running
  <1>1. SUFFICES ASSUME NEW u \in Thread, u # l, pc[u] \in Running
                 PROVE  FALSE
    OBVIOUS
  <1>2. CASE u \in Controllers
    <2>1. pc[u] # "l_read"
      BY <1>2, ThreadLemma DEF PlaceInv, Controllers, RequestPC, BeginPC, EndPC
    <2> QED
      BY <1>1, <1>2, <2>1 DEF LoopInv, NoLoop, Running, Filling, Alone
  <1>3. CASE u = "web"
    BY <1>1, <1>3 DEF PlaceInv, Running, Filling
  <1>4. CASE u \in Loops
    BY <1>1, <1>4 DEF LoopInv, Running, Filling
  <1> QED
    BY <1>2, <1>3, <1>4, ThreadLemma

LEMMA FillerLemma ==
  ASSUME TypeOK, Apart, PlaceInv, TurnInv, LoopInv
  PROVE  OneFiller
  <1>1. SUFFICES ASSUME NEW t \in Thread, NEW u \in Thread,
                        pc[t] \in Filling, pc[u] \in Filling, t # u
                 PROVE  FALSE
    BY DEF OneFiller
  <1>2. CASE t \in Loops
    BY <1>1, <1>2, SoleLoop DEF Filling, Running
  <1>3. CASE t \in Controllers
    <2>1. pc[t] \in Alone
      BY <1>1, <1>3, ThreadLemma
         DEF PlaceInv, Controllers, Filling, Alone, RequestPC, BeginPC, EndPC
    <2> QED
      BY <1>1, <1>3, <2>1, SoleController DEF Running
  <1>4. CASE t = "web"
    BY <1>1, <1>4 DEF PlaceInv, Filling
  <1> QED
    BY <1>2, <1>3, <1>4, ThreadLemma

---------------------------------------------------------------------------
(* Few steps change the state of the run: the others are quiet.            *)

\* A thread may come to a place where a run is known to be running, or not
\* to be, when it has just read the flag.
Quiet ==
  /\ UNCHANGED <<DAQ_RUNNING, TheRun, events, Eventsize>>
  /\ \A u \in Thread :
       \/ UNCHANGED pc[u]
       \/ /\ pc[u] \notin Between /\ pc'[u] \notin Between
          /\ pc'[u] \in Stopped => pc[u] \in Stopped \/ ~DAQ_RUNNING
          /\ pc'[u] \in Running => pc[u] \in Running \/ DAQ_RUNNING

LEMMA QuietGo ==
  ASSUME TypeOK, NEW t \in Thread, NEW from, NEW to, Go(t, from, to),
         UNCHANGED <<DAQ_RUNNING, TheRun, events, Eventsize>>,
         from \notin Between, to \notin Between,
         to \in Stopped => from \in Stopped \/ ~DAQ_RUNNING,
         to \in Running => from \in Running \/ DAQ_RUNNING
  PROVE  Quiet
  BY GoLemma DEF Quiet

LEMMA BeginKinds ==
  ASSUME TypeOK, NEW t \in {"rpc", "bt"}, DaqBegin(t)
  PROVE  Quiet \/ BeginStart(t) \/ BeginOpen(t) \/ BeginRead(t)
  <1> USE ThreadLemma DEF Between, Stopped, Running, Filling, flagVars, joinVars, runVars
  <1>0. AfterBegin(t) \notin Between \cup Stopped \cup Running
    BY DEF AfterBegin
  <1>1. CASE BeginGuard(t)
    <2>1. \/ Go(t, "b_guard", AfterBegin(t))
          \/ Go(t, "b_guard", "b_join") /\ ~DAQ_RUNNING
      BY <1>1 DEF BeginGuard
    <2>2. UNCHANGED <<DAQ_RUNNING, TheRun, events, Eventsize>>
      BY <1>1 DEF BeginGuard
    <2> QED
      BY <1>0, <2>1, <2>2, QuietGo
  <1>2. CASE BeginJoin(t)
    <2>1. Go(t, "b_join", "b_joining") \/ Go(t, "b_joining", "b_start")
      BY <1>2 DEF BeginJoin, JoinCall, JoinReturn
    <2>2. UNCHANGED <<DAQ_RUNNING, TheRun, events, Eventsize>>
      BY <1>2 DEF BeginJoin
    <2> QED
      BY <2>1, <2>2, QuietGo
  <1>3. CASE BeginEnable(t)
    <2>1. Go(t, "b_enable", "b_create")
      BY <1>3 DEF BeginEnable
    <2>2. UNCHANGED <<DAQ_RUNNING, TheRun, events, Eventsize>>
      BY <1>3 DEF BeginEnable
    <2> QED
      BY <2>1, <2>2, QuietGo
  <1>4. CASE BeginCreate(t)
    <2>1. UNCHANGED <<DAQ_RUNNING, TheRun, events, Eventsize>> /\ pc[t] = "b_create"
      BY <1>4 DEF BeginCreate
    <2>2. PICK l \in Loops : /\ pc[l] = "gone"
                            /\ pc' = [pc EXCEPT ![t] = AfterBegin(t), ![l] = "l_test"]
      BY <1>4 DEF BeginCreate
    <2>3. /\ pc'[t] = AfterBegin(t) /\ pc'[l] = "l_test"
          /\ \A u \in Thread : u # t /\ u # l => pc'[u] = pc[u]
      BY <2>2 DEF TypeOK
    <2> QED
      BY <1>0, <2>1, <2>2, <2>3 DEF Quiet
  <1> QED
    BY <1>1, <1>2, <1>3, <1>4 DEF DaqBegin

LEMMA EndKinds ==
  ASSUME TypeOK, NEW t \in Thread, DaqEnd(t) \/ ThreadDisable(t) \/ ThreadJoin(t)
  PROVE  Quiet \/ EndRead(t) \/ EndSwitch(t)
  <1> USE ThreadLemma DEF Between, Stopped, Running, Filling, flagVars, joinVars, runVars
  <1>0. {AfterEnd(t), AfterEndThread(t)} \cap (Between \cup Stopped \cup Running) = {}
    BY DEF AfterEnd, AfterEndThread
  <1>1. CASE EndGuard(t)
    <2>1. \/ Go(t, "e_guard", AfterEnd(t))
          \/ Go(t, "e_guard", "e_read") /\ DAQ_RUNNING
      BY <1>1 DEF EndGuard
    <2>2. UNCHANGED <<DAQ_RUNNING, TheRun, events, Eventsize>>
      BY <1>1 DEF EndGuard
    <2> QED
      BY <1>0, <2>1, <2>2, QuietGo
  <1>2. CASE EndClear(t)
    <2>1. Go(t, "e_clear", AfterEnd(t)) \/ Go(t, "t_clear", AfterEndThread(t))
      BY <1>2 DEF EndClear
    <2>2. UNCHANGED <<DAQ_RUNNING, TheRun, events, Eventsize>>
      BY <1>2 DEF EndClear
    <2> QED
      BY <1>0, <2>1, <2>2, QuietGo
  <1>3. CASE ThreadDisable(t)
    <2>1. Go(t, "t_disable", "e_guard") \/ Go(t, "t_disable", "t_join")
      BY <1>3 DEF ThreadDisable
    <2>2. UNCHANGED <<DAQ_RUNNING, TheRun, events, Eventsize>>
      BY <1>3 DEF ThreadDisable
    <2> QED
      BY <2>1, <2>2, QuietGo
  <1>4. CASE ThreadJoin(t)
    <2>1. Go(t, "t_join", "t_joining") \/ Go(t, "t_joining", "e_guard")
      BY <1>4 DEF ThreadJoin, JoinCall, JoinReturn
    <2>2. UNCHANGED <<DAQ_RUNNING, TheRun, events, Eventsize>>
      BY <1>4 DEF ThreadJoin
    <2> QED
      BY <2>1, <2>2, QuietGo
  <1> QED
    BY <1>1, <1>2, <1>3, <1>4 DEF DaqEnd

LEMMA LoopKinds ==
  ASSUME TypeOK, NEW l \in Loops, EventLoop(l)
  PROVE  Quiet \/ EndRead(l) \/ EndSwitch(l) \/ LoopRead(l)
  <1> USE ThreadLemma DEF Between, Stopped, Running, Filling, flagVars, joinVars, runVars
  <1>1. CASE LoopTest(l)
    <2>1. Go(l, "l_test", "l_wait") \/ Go(l, "l_test", "gone")
      BY <1>1 DEF LoopTest
    <2>2. UNCHANGED <<DAQ_RUNNING, TheRun, events, Eventsize>>
      BY <1>1 DEF LoopTest
    <2> QED
      BY <2>1, <2>2, QuietGo
  <1>2. CASE LoopWait(l)
    <2>1. Go(l, "l_wait", "l_test") \/ Go(l, "l_wait", "l_run")
      BY <1>2 DEF LoopWait
    <2>2. UNCHANGED <<DAQ_RUNNING, TheRun, events, Eventsize>>
      BY <1>2 DEF LoopWait
    <2> QED
      BY <2>1, <2>2, QuietGo
  <1>3. CASE LoopRun(l)
    <2>1. \/ Go(l, "l_run", "l_read") /\ DAQ_RUNNING
          \/ Go(l, "l_run", "l_test")
      BY <1>3 DEF LoopRun
    <2>2. UNCHANGED <<DAQ_RUNNING, TheRun, events, Eventsize>>
      BY <1>3 DEF LoopRun
    <2> QED
      BY <2>1, <2>2, QuietGo
  <1>4. CASE LoopStop(l)
    <2>1. Go(l, "l_stop", "e_guard")
      BY <1>4 DEF LoopStop
    <2>2. UNCHANGED <<DAQ_RUNNING, TheRun, events, Eventsize>>
      BY <1>4 DEF LoopStop
    <2> QED
      BY <2>1, <2>2, QuietGo
  <1>5. CASE DaqEnd(l)
    BY <1>5, EndKinds
  <1> QED
    BY <1>1, <1>2, <1>3, <1>4, <1>5 DEF EventLoop

LEMMA StepKinds ==
  ASSUME TypeOK, PlaceInv, TurnInv, Next \/ Others
  PROVE  \/ Quiet
         \/ \E t \in {"rpc", "bt"} : BeginStart(t) \/ BeginOpen(t) \/ BeginRead(t)
         \/ \E t \in {"rpc"} \cup EndThreads \cup Loops : EndRead(t) \/ EndSwitch(t)
         \/ \E l \in Loops : LoopRead(l)
  <1>1. CASE \E t \in {"rpc", "bt"} : DaqBegin(t)
    BY <1>1, BeginKinds
  <1>2. CASE \E t \in {"rpc"} \cup EndThreads : DaqEndThread(t)
    BY <1>2, EndKinds, ThreadLemma DEF DaqEndThread
  <1>3. CASE \E l \in Loops : EventLoop(l)
    BY <1>3, LoopKinds
  <1>4. CASE ServerStep
    <2>1. UNCHANGED <<DAQ_RUNNING, TheRun, events, Eventsize>>
      BY <1>4, ServerShape DEF runVars
    <2>2. ASSUME NEW u \in Thread
          PROVE  \/ UNCHANGED pc[u]
                 \/ pc[u] \notin Between /\ pc'[u] \notin Between \cup Stopped \cup Running
      <3> USE DEF Between, Stopped, Running, Filling
      <3>1. CASE BeginOver
        BY <3>1 DEF BeginOver
      <3>2. CASE BeginStarted
        <4>1. pc["bt"] = "gone"
          BY <3>2 DEF BeginStarted, TurnInv, RequestPC
        <4> QED
          BY <3>2, <4>1 DEF BeginStarted
      <3>3. CASE EndStarted
        BY <3>3 DEF EndStarted
      <3>4. CASE ServerMoves
        BY <3>4 DEF ServerMoves
      <3> QED
        BY <1>4, <3>1, <3>2, <3>3, <3>4, ServerShape
    <2> QED
      BY <2>1, <2>2 DEF Quiet
  <1> QED
    BY <1>1, <1>2, <1>3, <1>4, StepCases DEF ServerStep

LEMMA RunningStep ==
  ASSUME TypeOK, Apart, PlaceInv, TurnInv, LoopInv, RunningInv, Next \/ Others
  PROVE  RunningInv'
  <1> USE ThreadLemma
  <1>1. CASE Quiet
    BY <1>1 DEF Quiet, RunningInv
  <1>2. ASSUME NEW t \in {"rpc", "bt"}, BeginStart(t) \/ BeginOpen(t) \/ BeginRead(t)
        PROVE  RunningInv'
    <2>0. t \in Controllers /\ pc[t] \in Alone /\ AfterBegin(t) \notin Stopped \cup Running
      BY <1>2, GoLemma DEF BeginStart, BeginOpen, BeginRead, Controllers, Alone, AfterBegin,
         Stopped, Running, Filling
    <2>1. \A u \in Thread : u # t => pc[u] \notin Stopped \cup Running
      BY <2>0, SoleController
    <2>2. \A u \in Thread : u # t => pc'[u] = pc[u]
      BY <1>2, GoLemma DEF BeginStart, BeginOpen, BeginRead
    <2>3. CASE BeginStart(t)
      BY <2>1, <2>2, <2>3, GoLemma DEF BeginStart, RunningInv, Stopped, Running
    <2>4. CASE BeginOpen(t)
      <3>1. DAQ_RUNNING
        BY <2>4, GoLemma DEF BeginOpen, RunningInv, Running
      <3>2. \/ pc'[t] = AfterBegin(t)
            \/ pc'[t] = "b_read" /\ UNCHANGED DAQ_RUNNING
        BY <2>4, GoLemma DEF BeginOpen
      <3> QED
        BY <2>0, <2>1, <2>2, <3>1, <3>2 DEF RunningInv, Stopped, Running, Filling
    <2>5. CASE BeginRead(t)
      BY <2>1, <2>2, <2>5, GoLemma DEF BeginRead, RunningInv, flagVars, Stopped, Running, Filling
    <2> QED
      BY <1>2, <2>3, <2>4, <2>5
  <1>3. ASSUME NEW t \in {"rpc"} \cup EndThreads \cup Loops, EndRead(t) \/ EndSwitch(t)
        PROVE  RunningInv'
    <2>1. pc[t] \in {"e_read", "e_switch"} /\ \A u \in Thread : u # t => pc'[u] = pc[u]
      BY <1>3, GoLemma DEF EndRead, EndSwitch
    <2>2. \A u \in Thread : u # t => pc[u] \notin Running
      BY <2>1, SoleController, SoleLoop DEF Controllers, Alone
    <2>3. CASE EndRead(t)
      BY <2>1, <2>2, <2>3, GoLemma DEF EndRead, flagVars, RunningInv, Stopped, Running, Filling
    <2>4. CASE EndSwitch(t)
      BY <2>1, <2>2, <2>4, GoLemma DEF EndSwitch, RunningInv, Stopped, Running, Filling
    <2> QED
      BY <1>3, <2>3, <2>4
  <1>4. ASSUME NEW l \in Loops, LoopRead(l) PROVE RunningInv'
    <2>1. /\ pc[l] = "l_read" /\ pc'[l] \in {"l_test", "l_stop"}
          /\ \A u \in Thread : u # l => pc'[u] = pc[u]
      BY <1>4, GoLemma DEF LoopRead
    <2>2. UNCHANGED DAQ_RUNNING
      BY <1>4 DEF LoopRead, flagVars
    <2> QED
      BY <2>1, <2>2 DEF RunningInv, Stopped, Running, Filling
  <1> QED
    BY <1>1, <1>2, <1>3, <1>4, StepKinds

\* Only a begin starts a run.
LEMMA TargetStep ==
  ASSUME TypeOK, Apart, PlaceInv, TurnInv, TargetInv, Next \/ Others
  PROVE  TargetInv'
  <1> USE ThreadLemma
  <1>1. ASSUME NEW t \in {"rpc", "bt"}, DaqBegin(t) PROVE TargetInv'
    <2>1. /\ t \in Controllers /\ pc[t] \in BeginPC /\ pc'[t] \in BeginPC \cup {AfterBegin(t)}
          /\ \A u \in Controllers : u # t => pc'[u] = pc[u]
      BY <1>1, BeginShape DEF Controllers
    <2>2. \A u \in Controllers : u # t => pc[u] \notin EndPC
      BY <2>1, OneController
    <2>3. pc'[t] \notin EndPC
      BY <2>1 DEF BeginPC, EndPC, AfterBegin
    <2> QED
      BY <2>1, <2>2, <2>3 DEF TargetInv, Controllers
  <1>2. ASSUME NEW t \in {"rpc"} \cup EndThreads, DaqEndThread(t) PROVE TargetInv'
    <2>1. /\ UNCHANGED <<TheRun, endFor>> /\ \A u \in Thread : u # t => pc'[u] = pc[u]
      BY <1>2, EndShape
    <2>2. pc'[t] \in EndPC => pc[t] \in EndPC \ {"e_clear"}
      BY <1>2, EndShape DEF EndPC, AfterEndThread
    <2> QED
      BY <2>1, <2>2 DEF TargetInv
  <1>3. ASSUME NEW l \in Loops, EventLoop(l) PROVE TargetInv'
    BY <1>3, LoopShape DEF TargetInv
  <1>4. ASSUME ServerStep PROVE TargetInv'
    <2>0. UNCHANGED TheRun
      BY <1>4, ServerShape DEF runVars
    <2>1. ASSUME NEW u \in {"rpc"} \cup EndThreads, pc'[u] \in EndPC \ {"e_clear"}
          PROVE  endFor'[u] = TheRun
      <3>1. CASE BeginOver
        BY <2>1, <3>1 DEF BeginOver, TargetInv
      <3>2. CASE BeginStarted
        BY <2>1, <3>2 DEF BeginStarted, TargetInv, EndPC
      <3>3. CASE EndStarted
        BY <2>1, <3>3 DEF EndStarted, TargetInv, EndPC
      <3>4. CASE ServerMoves
        BY <2>1, <3>4 DEF ServerMoves, TargetInv, EndPC
      <3> QED
        BY <1>4, <3>1, <3>2, <3>3, <3>4, ServerShape
    <2> QED
      BY <2>0, <2>1 DEF TargetInv
  <1> QED
    BY <1>1, <1>2, <1>3, <1>4, StepCases DEF ServerStep

---------------------------------------------------------------------------
(* The events in order.                                                    *)

LEMMA LastType ==
  ASSUME TypeOK, events # <<>>
  PROVE  Last \in EventType
  <1>1. Len(events) \in Nat \ {0}
    BY DEF TypeOK
  <1> QED
    BY <1>1 DEF Last, TypeOK

LEMMA RecordLemma ==
  ASSUME TypeOK, Bracketed, NEW type \in {"begin", "data", "end"}, Record(type),
         IF events = <<>> THEN type = "begin"
                          ELSE Legal(Last, [run |-> TheRun, type |-> type])
  PROVE  /\ Bracketed' /\ events' # <<>>
         /\ Last' = [run |-> TheRun, type |-> type]
  <1> DEFINE e == [run |-> TheRun, type |-> type]
             n == Len(events)
  <1>1. events \in Seq(EventType) /\ e \in EventType /\ events' = Append(events, e)
    BY DEF TypeOK, EventType, Record
  <1>2. /\ n \in Nat /\ Len(events') = n + 1 /\ events'[n + 1] = e
        /\ \A i \in 1 .. n : events'[i] = events[i]
    BY <1>1
  <1>3. Last' = e /\ events' # <<>>
    BY <1>1, <1>2 DEF Last
  <1>4. events'[1].type = "begin"
    <2>1. CASE n = 0
      BY <1>1, <1>2, <2>1
    <2>2. CASE n # 0
      BY <1>1, <1>2, <2>2 DEF Bracketed
    <2> QED
      BY <2>1, <2>2
  <1>5. ASSUME NEW i \in 1 .. Len(events') - 1 PROVE Legal(events'[i], events'[i + 1])
    <2>1. CASE i = n
      BY <1>1, <1>2, <2>1 DEF Last
    <2>2. CASE i # n
      <3>1. i \in 1 .. n - 1 /\ i + 1 \in 1 .. n
        BY <1>2, <2>2
      <3> QED
        BY <1>2, <3>1 DEF Bracketed
    <2> QED
      BY <2>1, <2>2
  <1> QED
    BY <1>3, <1>4, <1>5 DEF Bracketed

LEMMA EventStep ==
  ASSUME TypeOK, Apart, PlaceInv, TurnInv, LoopInv, RunningInv, EventInv, Next \/ Others
  PROVE  EventInv'
  <1> USE ThreadLemma
  <1>1. CASE Quiet
    <2>1. At(Between)' = At(Between)
      BY <1>1 DEF Quiet, At
    <2>2. At({"b_open", "b_read"})' = At({"b_open", "b_read"})
      BY <1>1 DEF Quiet, At, Between
    <2> QED
      BY <1>1, <2>1, <2>2 DEF Quiet, EventInv, Bracketed, Last
  <1>2. ASSUME NEW t \in {"rpc", "bt"}, BeginStart(t) \/ BeginOpen(t) \/ BeginRead(t)
        PROVE  EventInv'
    <2>0. t \in Controllers /\ pc[t] \in Alone /\ AfterBegin(t) \notin Between
      BY <1>2, GoLemma DEF BeginStart, BeginOpen, BeginRead, Controllers, Alone, AfterBegin,
         Between
    <2>1. \A u \in Thread : u # t => pc'[u] \notin Between
      BY <1>2, <2>0, GoLemma, SoleController
         DEF BeginStart, BeginOpen, BeginRead, Running, Filling, Between
    <2>2. CASE BeginStart(t)
      <3>1. pc[t] = "b_start" /\ pc'[t] = "b_open"
        BY <2>2, GoLemma DEF BeginStart
      <3>2. ~DAQ_RUNNING /\ TheRun \in Nat /\ TheRun' = TheRun + 1 /\ UNCHANGED events
        BY <2>2, <3>1 DEF BeginStart, RunningInv, Stopped, TypeOK
      <3>3. events # <<>> => Last.run \in Nat
        BY LastType DEF EventType
      <3>4. At(Between)'
        BY <3>1 DEF At, Between
      <3> QED
        BY <3>2, <3>3, <3>4 DEF EventInv, Bracketed, Last
    <2>3. CASE BeginOpen(t)
      <3>1. pc[t] = "b_open" /\ UNCHANGED <<TheRun, events>>
        BY <2>3, GoLemma DEF BeginOpen
      <3>2. At({"b_open", "b_read"}) /\ At(Between)
        BY <3>1 DEF At, Between
      <3>3. \/ At(Between)'
            \/ ~DAQ_RUNNING'
        BY <2>3, GoLemma DEF BeginOpen, At, Between
      <3> QED
        BY <3>1, <3>2, <3>3 DEF EventInv, Bracketed, Last
    <2>4. CASE BeginRead(t)
      <3>1. pc[t] = "b_read" /\ pc'[t] = "b_enable" /\ UNCHANGED <<TheRun, DAQ_RUNNING>>
        BY <2>4, GoLemma DEF BeginRead, flagVars
      <3>2. At({"b_open", "b_read"}) /\ At(Between) /\ ~At(Between)' /\ DAQ_RUNNING
        BY <2>1, <3>1 DEF At, Between, RunningInv, Running, Filling
      <3>3. events # <<>> => Legal(Last, [run |-> TheRun, type |-> "begin"])
        BY <3>2, LastType DEF EventInv, Legal, EventType, TypeOK
      <3>4. /\ Bracketed' /\ events' # <<>>
            /\ Last' = [run |-> TheRun, type |-> "begin"]
        BY <2>4, <3>3, RecordLemma DEF EventInv, BeginRead
      <3> QED
        BY <3>1, <3>2, <3>4 DEF EventInv
    <2> QED
      BY <1>2, <2>2, <2>3, <2>4
  <1>3. ASSUME NEW t \in {"rpc"} \cup EndThreads \cup Loops, EndRead(t) \/ EndSwitch(t)
        PROVE  EventInv'
    <2>1. /\ pc[t] \in {"e_read", "e_switch"} /\ \A u \in Thread : u # t => pc'[u] = pc[u]
          /\ pc'[t] \notin {"b_open", "b_read"}
      BY <1>3, GoLemma DEF EndRead, EndSwitch
    <2>2. \A u \in Thread : u # t => pc[u] \notin Between
      BY <2>1, SoleController, SoleLoop DEF Controllers, Alone, Running, Filling, Between
    <2>3. ~At({"b_open", "b_read"})' /\ ~At({"b_open", "b_read"})
      BY <2>1, <2>2 DEF At, Between
    <2>4. CASE EndRead(t)
      <3>1. pc[t] = "e_read" /\ pc'[t] = "e_switch" /\ UNCHANGED <<TheRun, DAQ_RUNNING>>
        BY <2>4, GoLemma DEF EndRead, flagVars
      <3>2. DAQ_RUNNING /\ ~At(Between) /\ At(Between)'
        BY <2>2, <3>1 DEF At, Between, RunningInv, Running, Filling
      <3>3. events # <<>> /\ Legal(Last, [run |-> TheRun, type |-> "end"])
        BY <3>2 DEF EventInv, Legal
      <3>4. /\ Bracketed' /\ events' # <<>>
            /\ Last' = [run |-> TheRun, type |-> "end"]
        BY <2>4, <3>3, RecordLemma DEF EventInv, EndRead
      <3> QED
        BY <2>3, <3>1, <3>2, <3>4 DEF EventInv, TypeOK
    <2>5. CASE EndSwitch(t)
      <3>1. pc[t] = "e_switch" /\ ~DAQ_RUNNING' /\ UNCHANGED <<TheRun, events>>
        BY <2>5, GoLemma DEF EndSwitch, runVars
      <3>2. At(Between)
        BY <3>1 DEF At, Between
      <3> QED
        BY <2>3, <3>1, <3>2 DEF EventInv, Bracketed, Last
    <2> QED
      BY <1>3, <2>4, <2>5
  <1>4. ASSUME NEW l \in Loops, LoopRead(l) PROVE EventInv'
    <2>1. /\ pc[l] = "l_read" /\ pc'[l] \in {"l_test", "l_stop"}
          /\ \A u \in Thread : u # l => pc'[u] = pc[u]
      BY <1>4, GoLemma DEF LoopRead
    <2>2. UNCHANGED <<TheRun, DAQ_RUNNING>> /\ DAQ_RUNNING
      BY <1>4, <2>1 DEF LoopRead, flagVars, RunningInv, Running, Filling
    <2>3. ~At(Between) /\ ~At(Between)'
      BY <2>1, SoleLoop DEF At, Between, Running, Filling
    <2>4. events # <<>> /\ Legal(Last, [run |-> TheRun, type |-> "data"])
      BY <2>2, <2>3 DEF EventInv, Legal
    <2>5. /\ Bracketed' /\ events' # <<>> /\ Last' = [run |-> TheRun, type |-> "data"]
      BY <1>4, <2>4, RecordLemma DEF EventInv, LoopRead
    <2> QED
      BY <2>2, <2>3, <2>5 DEF EventInv
  <1> QED
    BY <1>1, <1>2, <1>3, <1>4, StepKinds

---------------------------------------------------------------------------
(* Theorems.                                                               *)

LEMMA TypeInit == WebInit => TypeOK
  <1> SUFFICES ASSUME Init PROVE TypeOK
    BY DEF WebInit
  <1>1. pc \in [Thread -> PC]
    BY DEF Init, PC
  <1>2. target \in [Thread -> Loops \cup {"none"}] /\ endFor \in [Thread -> Nat]
    BY DEF Init
  <1>3. events \in Seq(EventType)
    BY DEF Init
  <1> QED
    BY <1>1, <1>2, <1>3 DEF Init, TypeOK

LEMMA TypeNext == TypeOK /\ [WebNext]_allVars => TypeOK'
  <1> SUFFICES ASSUME TypeOK, [WebNext]_allVars PROVE TypeOK'
    OBVIOUS
  <1>1. CASE Next \/ Others
    BY <1>1, TypeStep
  <1>2. CASE UNCHANGED vars
    BY <1>2 DEF TypeOK, vars, flagVars, joinVars, runVars
  <1> QED
    BY <1>1, <1>2, WebSteps DEF allVars

\* Every variable of RunControl has its type.
THEOREM TypeCorrect == PageSpec => []TypeOK
  BY TypeInit, TypeNext, PTL DEF PageSpec

LEMMA InvInit == WebInit => Inv
  <1> SUFFICES ASSUME WebInit PROVE Inv
    OBVIOUS
  <1> USE ThreadLemma
  <1>0. Init
    BY DEF WebInit
  <1>1. /\ pc["rpc"] = "idle" /\ pc["web"] = "idle" /\ pc["bt"] = "gone"
        /\ \A t \in EndThreads : pc[t] = "gone"
        /\ \A l \in Loops : pc[l] = "gone"
        /\ \A t \in Thread : pc[t] \in {"idle", "gone"} /\ target[t] = "none"
    BY <1>0 DEF Init
  <1>2. PlaceInv
    BY <1>0, <1>1 DEF Init, PlaceInv, RequestPC, StopPC
  <1>3. TurnInv
    BY <1>0, <1>1 DEF Init, TurnInv, EndPC
  <1>4. LoopInv
    BY <1>0, <1>1 DEF Init, LoopInv, NoLoop
  <1>5. RunningInv
    BY <1>1 DEF RunningInv, Stopped, Running, Filling
  <1>6. TargetInv
    BY <1>1 DEF TargetInv, EndPC
  <1>7. EventInv
    BY <1>0 DEF Init, EventInv, Bracketed
  <1> QED
    BY <1>2, <1>3, <1>4, <1>5, <1>6, <1>7 DEF Inv

LEMMA InvNext == Apart /\ TypeOK /\ Inv /\ [WebNext]_allVars => Inv'
  <1> SUFFICES ASSUME Apart, TypeOK, Inv, [WebNext]_allVars PROVE Inv'
    OBVIOUS
  <1>1. CASE Next \/ Others
    BY <1>1, PlaceStep, TurnStep, LoopStep, RunningStep, TargetStep, EventStep DEF Inv
  <1>2. CASE UNCHANGED vars
    <2> USE <1>2 DEF Inv, vars, flagVars, joinVars, runVars
    <2>1. PlaceInv' /\ TurnInv' /\ TargetInv' /\ RunningInv'
      BY DEF PlaceInv, TurnInv, TargetInv, RunningInv
    <2>2. LoopInv'
      BY DEF LoopInv, NoLoop
    <2>3. EventInv'
      BY DEF EventInv, Bracketed, Last, At
    <2> QED
      BY <2>1, <2>2, <2>3
  <1> QED
    BY <1>1, <1>2, WebSteps DEF allVars

LEMMA InvLemma ==
  ASSUME Apart
  PROVE  PageSpec => [](TypeOK /\ Inv)
  <1>1. WebInit => TypeOK /\ Inv
    BY TypeInit, InvInit
  <1>2. TypeOK /\ Inv /\ [WebNext]_allVars => (TypeOK /\ Inv)'
    BY TypeNext, InvNext
  <1> QED
    BY <1>1, <1>2, PTL DEF PageSpec

\* No two threads are in readout or switch_buffer at the same time, which
\* share the fill buffer, the ring's indices and the event number without a
\* lock: daq_begin, daq_end and the event loop keep out of each other's way by
\* the flags and by joining the loop.
THEOREM FillsAlone ==
  ASSUME Apart
  PROVE  PageSpec => []OneFiller
  <1>1. TypeOK /\ Inv => OneFiller
    BY FillerLemma DEF Inv
  <1> QED
    BY <1>1, InvLemma, PTL

\* In readout's order each run is a begin-run event, data events and an
\* end-run event, all with its number.
THEOREM RunsInOrder ==
  ASSUME Apart
  PROVE  PageSpec => []Bracketed
  <1>1. Inv => Bracketed
    BY DEF Inv, EventInv
  <1> QED
    BY <1>1, InvLemma, PTL

\* A request to end a run, also one that daq_end_immediate carries out in the
\* background, ends the run it was made for.
THEOREM RightRun ==
  ASSUME Apart
  PROVE  PageSpec => []EndsRightRun
  <1>1. Inv => EndsRightRun
    BY DEF Inv, TargetInv, PlaceInv, EndsRightRun, EndPC
  <1> QED
    BY <1>1, InvLemma, PTL

===========================================================================
