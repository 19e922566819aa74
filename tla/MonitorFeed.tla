--------------------------- MODULE MonitorFeed ---------------------------
(***************************************************************************)
(* Feeding the online monitoring: monitorRequestwatcher_thread and         *)
(* sendMonitorData in rcdaq.cc, and the two mutexes through which          *)
(* sendMonitorData and switch_buffer take turns.  SendSem, locked at the   *)
(* start, is released by switch_buffer when a full buffer is there;        *)
(* SendProtectSem is taken by the next switch_buffer, which waits until    *)
(* sendMonitorData has served all requests and released it.                *)
(*                                                                         *)
(* The buffers' way to disk is module BufferRing; here a buffer counts as  *)
(* free as soon as the ring comes round to it.                             *)
(***************************************************************************)
EXTENDS Integers

CONSTANTS
  NumBuffers,   \* daqBufferVector.size()
  MaxBuffers,   \* bound: buffers of a run
  MaxRuns,      \* bound: runs
  MaxQueue      \* bound: connections waiting in fd_queue

ASSUME FeedAssumption ==
  /\ NumBuffers \in Nat /\ NumBuffers >= 2
  /\ MaxBuffers \in Nat \ {0} /\ MaxRuns \in Nat \ {0} /\ MaxQueue \in Nat

VARIABLES
  TheRun, Buffer_number,
  fpc,            \* the filling thread, see below
  ending,         \* switch_buffer is called by daq_end
  fill,           \* fillBuffer
  transport,      \* transportBuffer
  buffer,         \* [Slot -> [run, nr, has_end, current_event]]
  SendSem, SendProtectSem, \* TRUE: locked
  mpc,            \* sendMonitorData, see below
  sending,        \* the buffer sendData is called for
  fd_queue        \* number of connections waiting

lockVars == <<SendSem, SendProtectSem>>
fillVars == <<TheRun, Buffer_number, fpc, ending, fill, transport>>
monVars == <<mpc, sending, fd_queue>>
vars == <<fillVars, buffer, lockVars, monVars>>

Slot == 0 .. NumBuffers - 1
Succ(s) == IF s = NumBuffers - 1 THEN 0 ELSE s + 1

(***************************************************************************)
(* fpc: "off"; "begin" daq_begin has reset the ring; "fill" between two    *)
(* events; "event" between nextEvent and the last addSubevent; "lock",     *)
(* "recycle", "release" in switch_buffer.                                  *)
(* mpc: "wait" for SendSem; "check" the queue; "word" read the client's    *)
(* control word; "send" in sendData.                                       *)
(***************************************************************************)
FillPC == {"off", "begin", "fill", "event", "lock", "recycle", "release"}
MonitorPC == {"wait", "check", "word", "send"}

\* rcdaq_init locks them "except the protect ones".
Semaphores == SendSem = TRUE /\ SendProtectSem = FALSE

Init ==
  /\ TheRun = 0 /\ Buffer_number = 0
  /\ fpc = "off" /\ ending = FALSE
  /\ fill = 0 /\ transport = 0
  /\ buffer = [s \in Slot |-> [run |-> 0, nr |-> 0, has_end |-> FALSE,
                               current_event |-> FALSE]]
  /\ Semaphores
  /\ mpc = "wait" /\ sending = 0 /\ fd_queue = 0

---------------------------------------------------------------------------
(* The filling thread.                                                     *)

\* addEoB: nothing if the buffer has its end already.
Ended(b) == [b EXCEPT !.has_end = TRUE,
                      !.current_event = @ /\ b.has_end]

Prepared(nr) == [run |-> TheRun, nr |-> nr, has_end |-> FALSE,
                 current_event |-> FALSE]

\* daq_begin: fillBuffer = transportBuffer = the first buffer ...
BeginReset ==
  /\ fpc = "off" /\ TheRun < MaxRuns
  /\ TheRun' = TheRun + 1 /\ Buffer_number' = 1
  /\ fill' = 0 /\ transport' = 0
  /\ fpc' = "begin"
  /\ UNCHANGED <<ending, buffer, lockVars, monVars>>

\* ... and, once the file is open, prepare_next.
BeginPrepare ==
  /\ fpc = "begin"
  /\ buffer' = [buffer EXCEPT ![fill] = Prepared(1)]
  /\ fpc' = "fill"
  /\ UNCHANGED <<TheRun, Buffer_number, ending, fill, transport, lockVars, monVars>>

NextEvent ==
  /\ fpc = "fill"
  /\ buffer' = [buffer EXCEPT ![fill].current_event = TRUE]
  /\ fpc' = "event"
  /\ UNCHANGED <<TheRun, Buffer_number, ending, fill, transport, lockVars, monVars>>

\* The last addSubevent; current_event lives on until the next event.
AddSubevents ==
  /\ fpc = "event"
  /\ fpc' = "fill"
  /\ UNCHANGED <<TheRun, Buffer_number, ending, fill, transport, buffer,
                 lockVars, monVars>>

SwitchBuffer ==
  /\ fpc = "fill"
  /\ \/ Buffer_number < MaxBuffers /\ ending' = FALSE
     \/ ending' = TRUE
  /\ fpc' = "lock"
  /\ UNCHANGED <<TheRun, Buffer_number, fill, transport, buffer, lockVars, monVars>>

BadSwitchLock ==  \* does not wait for SendProtectSem
  /\ fpc = "lock"
  /\ SendProtectSem' = TRUE
  /\ buffer' = [buffer EXCEPT ![fill] = Ended(@)]
  /\ transport' = fill /\ fill' = Succ(fill)
  /\ fpc' = "recycle"
  /\ UNCHANGED <<TheRun, Buffer_number, ending, SendSem, monVars>>

\* Lock SendProtectSem, end the buffer, advance.
SwitchLock ==
  /\ fpc = "lock" /\ ~SendProtectSem
  /\ SendProtectSem' = TRUE
  /\ buffer' = [buffer EXCEPT ![fill] = Ended(@)]
  /\ transport' = fill /\ fill' = Succ(fill)
  /\ fpc' = "recycle"
  /\ UNCHANGED <<TheRun, Buffer_number, ending, SendSem, monVars>>

SwitchRecycle ==
  /\ fpc = "recycle"
  /\ Buffer_number' = Buffer_number + 1
  /\ buffer' = [buffer EXCEPT ![fill] = Prepared(Buffer_number + 1)]
  /\ fpc' = "release"
  /\ UNCHANGED <<TheRun, ending, fill, transport, lockVars, monVars>>

\* Unlock SendSem.  At the end of a run daq_end goes on to close the file.
SwitchRelease ==
  /\ fpc = "release"
  /\ SendSem' = FALSE
  /\ fpc' = IF ending THEN "off" ELSE "fill"
  /\ UNCHANGED <<TheRun, Buffer_number, ending, fill, transport, buffer,
                 SendProtectSem, monVars>>

Switch == SwitchLock \/ SwitchRecycle \/ SwitchRelease
Filler ==
  BeginReset \/ BeginPrepare \/ NextEvent \/ AddSubevents \/ SwitchBuffer \/ Switch

---------------------------------------------------------------------------
(* The monitoring threads.                                                 *)

\* monitorRequestwatcher_thread: accept, and push under FdManagementSem, also
\* while sendMonitorData empties the queue.  Any number of requests may come.
Request ==
  /\ fd_queue < MaxQueue
  /\ fd_queue' = fd_queue + 1
  /\ UNCHANGED <<fillVars, buffer, lockVars, mpc, sending>>

MonitorWait ==
  /\ mpc = "wait" /\ ~SendSem
  /\ SendSem' = TRUE
  /\ mpc' = "check"
  /\ UNCHANGED <<fillVars, buffer, SendProtectSem, sending, fd_queue>>

BadMonitorCheck ==  \* SendProtectSem stays locked
  /\ mpc = "check"
  /\ IF fd_queue > 0
       THEN fd_queue' = fd_queue - 1 /\ mpc' = "word"
       ELSE mpc' = "wait" /\ UNCHANGED fd_queue
  /\ UNCHANGED <<fillVars, buffer, lockVars, sending>>

\* Take a request, or, if there is none, unlock SendProtectSem.
MonitorCheck ==
  /\ mpc = "check"
  /\ IF fd_queue > 0
       THEN /\ fd_queue' = fd_queue - 1 /\ mpc' = "word"
            /\ UNCHANGED SendProtectSem
       ELSE /\ SendProtectSem' = FALSE /\ mpc' = "wait"
            /\ UNCHANGED fd_queue
  /\ UNCHANGED <<fillVars, buffer, SendSem, sending>>

\* The control word comes, or the client is gone.  transportBuffer is read
\* now; sendData ends the buffer if it has no end.
MonitorWord ==
  /\ mpc = "word"
  /\ \/ /\ sending' = transport
        /\ buffer' = [buffer EXCEPT ![transport] = Ended(@)]
        /\ mpc' = "send"
     \/ mpc' = "check" /\ UNCHANGED <<sending, buffer>>
  /\ UNCHANGED <<fillVars, lockVars, fd_queue>>

\* The client gets what the buffer holds, and the connection is closed.
MonitorSend ==
  /\ mpc = "send"
  /\ mpc' = "check"
  /\ UNCHANGED <<fillVars, buffer, lockVars, sending, fd_queue>>

Monitor == MonitorWait \/ MonitorCheck \/ MonitorWord \/ MonitorSend

\* All runs are over; a request may stay in the queue for ever.
Done == fpc = "off" /\ TheRun = MaxRuns /\ mpc = "wait" /\ UNCHANGED vars

Next == Filler \/ Request \/ Monitor \/ Done

Spec == Init /\ [][Next]_vars

\* switch_buffer goes on as soon as it can.  Monitoring clients answer or
\* hang up: sendMonitorData waits for them without a timeout.
Fairness == WF_vars(Switch) /\ WF_vars(Monitor)

FairSpec == Spec /\ Fairness

---------------------------------------------------------------------------
(* Properties.                                                             *)

\* Every variable has its type.
TypeOK ==
  /\ TheRun \in Nat /\ Buffer_number \in Nat
  /\ fpc \in FillPC /\ ending \in BOOLEAN
  /\ fill \in Slot /\ transport \in Slot
  /\ buffer \in [Slot -> [run : Nat, nr : Nat, has_end : BOOLEAN,
                          current_event : BOOLEAN]]
  /\ SendSem \in BOOLEAN /\ SendProtectSem \in BOOLEAN
  /\ mpc \in MonitorPC /\ sending \in Slot
  /\ fd_queue \in Nat

\* switch_buffer and sendMonitorData take turns: requests are served only
\* between a switch_buffer that is over and one that has not begun.
Serving == mpc # "wait"
TakeTurns == Serving => fpc \notin {"recycle", "release"}

\* Once a run has switched buffers for the first time, what is being sent is
\* the latest full buffer of the run, not the one being filled.  (Before that
\* transportBuffer is the fill buffer, so that the first switch matters.)
SentIsLatest ==
  mpc = "send" /\ Buffer_number >= 2 /\ fpc # "off" =>
    /\ sending # fill
    /\ buffer[sending].run = TheRun /\ buffer[sending].nr = Buffer_number - 1

\* While an event is put together it is there: nobody has ended the buffer
\* under readout, although addEoB may be called by two threads.
EventStaysOpen == fpc = "event" => buffer[fill].current_event

\* A switch_buffer that waits for sendMonitorData is let in and returns, unless
\* new clients are accepted again and again while it waits: sendMonitorData
\* serves until it finds the queue empty, and nothing bounds that.
Refilled == []<><<Request /\ fpc = "lock">>_vars
SwitchCompletes == Refilled \/ (fpc = "lock" ~> fpc \in {"fill", "off"})

===========================================================================
