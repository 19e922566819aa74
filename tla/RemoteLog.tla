---------------------------- MODULE RemoteLog ----------------------------
(***************************************************************************)
(* Logging to an sfs server: the branch of daq_begin, switch_buffer and    *)
(* daq_end (rcdaq.cc) for daq_server_flag, with daqBuffer::sendout and the *)
(* server_send_... functions, connected to SfsServer.                      *)
(*                                                                         *)
(* There are no writer threads here: the thread that fills the buffers     *)
(* sends each of them itself and waits for the answer.  What is left of    *)
(* the ring is its order and the flag dirty; busy is never set, so that    *)
(* Wait_for_free returns at once.                                          *)
(***************************************************************************)
EXTENDS SfsServer, FiniteSets

CONSTANTS
  NumBuffers,    \* daqBufferVector.size()
  Limits,        \* what daq_set_rolloverlimit may have been given, in
                 \* buffers; 0: no rollover
  MaxBuffers,    \* bound: buffers of one run
  MaxRuns        \* bound: runs

ASSUME RemoteAssumption ==
  /\ NumBuffers \in Nat /\ NumBuffers >= 2
  /\ Limits \subseteq Nat /\ MaxBuffers \in Nat \ {0} /\ MaxRuns \in Nat \ {0}

VARIABLES
  RolloverLimit, \* one of Limits, the same for all runs
  TheRun,
  fpc,             \* the filling thread, see below
  ending,          \* the current switch_buffer is daq_end's
  fill, transport, \* ring indices
  Buffer_number,
  buffer,          \* [Slot -> [nr, dirty]]
  BytesInThisFile, \* in buffers
  persistentErrorCondition, \* the last connection could not be made
  acked            \* history: what the server has acknowledged: [run, nr]

ringVars == <<fill, transport, Buffer_number, buffer>>
clientVars == <<RolloverLimit, TheRun, fpc, ending, ringVars, BytesInThisFile,
                persistentErrorCondition, acked>>
vars == <<serverVars, clientVars>>

Slot == 0 .. NumBuffers - 1
Succ(s) == IF s = NumBuffers - 1 THEN 0 ELSE s + 1

(***************************************************************************)
(* fpc: "off" no run; "fill" events go to buffer[fill]; "name", "begin",   *)
(* "roll", "send" and "end" wait for the answer to a request; "drain" is   *)
(* daq_end's wait for the dirty flags.                                     *)
(***************************************************************************)
FillPC == {"off", "name", "begin", "fill", "roll", "send", "drain", "end"}
Waiting == {"name", "begin", "roll", "send", "end"}

Init ==
  /\ ServerInit
  /\ RolloverLimit \in Limits
  /\ TheRun = 0 /\ fpc = "off" /\ ending = FALSE
  /\ fill = 0 /\ transport = 0 /\ Buffer_number = 0
  /\ buffer = [s \in Slot |-> [nr |-> s + 1, dirty |-> FALSE]]
  /\ BytesInThisFile = 0 /\ persistentErrorCondition = FALSE /\ acked = <<>>

---------------------------------------------------------------------------

Call(op, unit) == request' = [op |-> op, unit |-> unit] /\ reply' = "none"

GotReply(at) == fpc = at /\ reply # "none"

\* What the server does not change while the client acts.
ServerIdle == UNCHANGED <<child, B, received, lockVars, diskVars, threadVars>>

\* daq_begin: connect and send the name of the file.  Without a connection
\* it says "Run not started", now and until the next daq_open.
Begin ==
  /\ fpc = "off" /\ TheRun < MaxRuns /\ ~persistentErrorCondition
  /\ TheRun' = TheRun + 1
  /\ Buffer_number' = 1
  /\ fill' = 0 /\ transport' = 0
  /\ BytesInThisFile' = 0
  /\ \/ /\ Fork /\ Call("sendfilename", NoUnit) /\ fpc' = "name"
        /\ UNCHANGED persistentErrorCondition
     \/ /\ ServerMayFail
        /\ persistentErrorCondition' = TRUE
        /\ UNCHANGED <<serverVars, fpc>>
  /\ UNCHANGED <<ending, buffer, acked>>

\* daq_open (or daq_close and daq_open)
DaqOpen ==
  /\ fpc = "off" /\ persistentErrorCondition
  /\ persistentErrorCondition' = FALSE
  /\ UNCHANGED <<serverVars, TheRun, fpc, ending, ringVars, BytesInThisFile, acked>>

\* A refusal leaves the connection open; the next run opens another one.
NameAnswered ==
  /\ GotReply("name")
  /\ IF reply = "ok"
       THEN Call("beginrun", NoUnit) /\ fpc' = "begin"
       ELSE reply' = "none" /\ fpc' = "off" /\ UNCHANGED request
  /\ ServerIdle
  /\ UNCHANGED <<TheRun, ending, ringVars, BytesInThisFile,
                 persistentErrorCondition, acked>>

\* prepare_next and setDirty(1) for the first buffer.
BeginAnswered ==
  /\ GotReply("begin")
  /\ IF reply = "ok"
       THEN /\ buffer' = [buffer EXCEPT ![0] = [nr |-> 1, dirty |-> TRUE]]
            /\ fpc' = "fill"
       ELSE fpc' = "off" /\ UNCHANGED buffer
  /\ reply' = "none"
  /\ ServerIdle
  /\ UNCHANGED <<request, TheRun, ending, fill, transport, Buffer_number,
                 BytesInThisFile, persistentErrorCondition, acked>>

RolloverDue == RolloverLimit > 0 /\ 1 + BytesInThisFile > RolloverLimit

Unit(s) == [run |-> TheRun, nr |-> buffer[s].nr, whole |-> TRUE]

\* switch_buffer up to its first request: advance in the ring, recycle the
\* buffer, then send the full one, after a rollover if that is due.
SwitchBuffer ==
  /\ fpc = "fill"
  /\ \/ Buffer_number < MaxBuffers /\ ending' = FALSE
     \/ ending' = TRUE
  /\ transport' = fill
  /\ fill' = Succ(fill)
  /\ Buffer_number' = Buffer_number + 1
  /\ buffer' = [buffer EXCEPT ![fill'].nr = Buffer_number + 1,
                              ![fill'].dirty = ~ending' \/ @]
  /\ IF RolloverDue THEN Call("rollover", NoUnit) /\ fpc' = "roll"
                    ELSE Call("data", Unit(fill)) /\ fpc' = "send"
  /\ ServerIdle
  /\ UNCHANGED <<TheRun, BytesInThisFile, persistentErrorCondition, acked>>

\* server_send_rollover_sequence: its status is not looked at.
RolloverAnswered ==
  /\ GotReply("roll")
  /\ BytesInThisFile' = 0
  /\ Call("data", Unit(transport)) /\ fpc' = "send"
  /\ ServerIdle
  /\ UNCHANGED <<TheRun, ending, ringVars, persistentErrorCondition, acked>>

BadDataAnswered ==  \* the buffer is clean whatever the answer
  /\ GotReply("send")
  /\ buffer' = [buffer EXCEPT ![transport].dirty = FALSE]
  /\ IF reply = "ok"
       THEN /\ BytesInThisFile' = BytesInThisFile + 2
            /\ acked' = Append(acked, [run |-> TheRun, nr |-> buffer[transport].nr])
       ELSE /\ BytesInThisFile' = BytesInThisFile + RolloverLimit
            /\ UNCHANGED acked
  /\ reply' = "none"
  /\ fpc' = IF ending THEN "drain" ELSE "fill"
  /\ ServerIdle
  /\ UNCHANGED <<request, TheRun, ending, fill, transport, Buffer_number,
                 persistentErrorCondition>>

\* The end of sendout and of switch_buffer, both of which add the length of
\* the buffer.  If the buffer was not acknowledged sendout returns -1, which
\* switch_buffer adds as 2^32 - 1 bytes (any rollover limit up to 4 GB).
DataAnswered ==
  /\ GotReply("send")
  /\ IF reply = "ok"
       THEN /\ buffer' = [buffer EXCEPT ![transport].dirty = FALSE]
            /\ BytesInThisFile' = BytesInThisFile + 2
            /\ acked' = Append(acked, [run |-> TheRun, nr |-> buffer[transport].nr])
       ELSE /\ BytesInThisFile' = BytesInThisFile + RolloverLimit
            /\ UNCHANGED <<buffer, acked>>
  /\ reply' = "none"
  /\ fpc' = IF ending THEN "drain" ELSE "fill"
  /\ ServerIdle
  /\ UNCHANGED <<request, TheRun, ending, fill, transport, Buffer_number,
                 persistentErrorCondition>>

\* daq_end waits until no buffer is dirty.
Drain ==
  /\ fpc = "drain" /\ \A s \in Slot : ~buffer[s].dirty
  /\ Call("endrun", NoUnit) /\ fpc' = "end"
  /\ ServerIdle
  /\ UNCHANGED <<TheRun, ending, ringVars, BytesInThisFile,
                 persistentErrorCondition, acked>>

\* Whatever the answer: CTRL_CLOSE, close, and the end of daq_end.
EndAnswered ==
  /\ GotReply("end")
  /\ Close
  /\ reply' = "none"
  /\ Buffer_number' = 0 /\ BytesInThisFile' = 0
  /\ fpc' = "off"
  /\ UNCHANGED <<request, TheRun, ending, fill, transport, buffer,
                 persistentErrorCondition, acked>>

\* The connection is gone: readn returns an error instead of an answer.  (writen
\* sends with MSG_NOSIGNAL, so that rcdaq survives.)
Broken ==
  /\ Gone /\ fpc \in Waiting /\ reply = "none"
  /\ request' = NoRequest
  /\ reply' = "fail"
  /\ ServerIdle
  /\ UNCHANGED clientVars

Client ==
  /\ \/ Begin \/ DaqOpen \/ NameAnswered \/ BeginAnswered \/ SwitchBuffer
     \/ RolloverAnswered \/ DataAnswered \/ Drain \/ EndAnswered \/ Broken
  /\ UNCHANGED RolloverLimit

Server == (Receiver \/ Writer \/ Cut \/ ServerFails) /\ UNCHANGED clientVars

\* The bound MaxRuns is reached.
Done == fpc = "off" /\ TheRun = MaxRuns /\ UNCHANGED vars

Next == Client \/ Server \/ Done

Spec == Init /\ [][Next]_vars

\* Every thread that can go on does.  No new data and no new run need come.
Fairness ==
  /\ WF_vars(Receiver /\ UNCHANGED clientVars)
  /\ WF_vars(Writer /\ UNCHANGED clientVars)
  /\ WF_vars(Client /\ fpc \notin {"off", "fill"})

FairSpec == Spec /\ Fairness

---------------------------------------------------------------------------
(* Properties.                                                             *)

UnitType == [run : Nat, nr : Nat, whole : BOOLEAN]
EntryType == [run : Nat, nr : Nat, file : Nat, whole : BOOLEAN]

ServerType ==
  /\ request \in [op : Op, unit : UnitType] /\ reply \in {"none", "ok", "fail"}
  /\ child \in {"none", "read", "swap", "cut", "gone", "dead"}
  /\ B \in [{0, 1} -> UnitType] /\ received \in {0, 1}
  /\ M_write \in BOOLEAN /\ M_done \in BOOLEAN
  /\ output_fd \in Nat /\ wpc \in {"wait", "write"} /\ wfd \in Nat /\ write_error \in BOOLEAN
  /\ nfiles \in Nat /\ stream \in Seq(EntryType)

\* Every variable has its type.
TypeOK ==
  /\ ServerType
  /\ RolloverLimit \in Limits
  /\ TheRun \in Nat /\ fpc \in FillPC /\ ending \in BOOLEAN
  /\ fill \in Slot /\ transport \in Slot /\ Buffer_number \in Nat
  /\ buffer \in [Slot -> [nr : Nat, dirty : BOOLEAN]]
  /\ BytesInThisFile \in Nat /\ persistentErrorCondition \in BOOLEAN
  /\ acked \in Seq([run : Nat, nr : Nat])

Stored(k) ==
  \E i \in DOMAIN stream : stream[i].run = TheRun /\ stream[i].nr = k /\ stream[i].whole

\* The server acknowledges a buffer before it is on disk, but never has more
\* than one such buffer: unless a write fails that is all that a crash of
\* the server can take from the data that rcdaq believes to be stored.
Missing ==
  {k \in {acked[i].nr : i \in {j \in DOMAIN acked : acked[j].run = TheRun}} : ~Stored(k)}

AtMostOneUnstored == ~write_error => Cardinality(Missing) <= 1

\* A run whose end the server has acknowledged is on disk completely, and
\* every buffer of it as it was sent, unless a write failed.
RunStored ==
  fpc = "end" /\ reply = "ok" /\ ~write_error => \A k \in 1 .. Buffer_number - 1 : Stored(k)

\* daq_end closes a run only if the server has acknowledged all its buffers,
\* whatever fails.
EndedAcked ==
  fpc = "end" =>
    \A k \in 1 .. Buffer_number - 1 :
      \E i \in DOMAIN acked : acked[i].run = TheRun /\ acked[i].nr = k

\* A remote log is a log, too, with the faults that the network, the server
\* and its disk may have: once the connection has gone or a write has failed,
\* buffers may be missing, and one on disk may not be what was sent.
Accepted ==
  CASE fpc \in {"roll", "send", "fill", "drain", "end"} -> Buffer_number - 1
    [] OTHER -> 0

Log == INSTANCE RunLog WITH
  lossy <- Gone \/ write_error,
  faulty <- Gone \/ write_error,
  run <- TheRun,
  active <- fpc # "off",
  accepted <- Accepted,
  log <- [i \in DOMAIN stream |->
           [run |-> stream[i].run, nr |-> stream[i].nr, whole |-> stream[i].whole]]

ImplementsLog == Log!Spec

\* Every request to the server is answered, or fails with the connection, in
\* particular CTRL_DATA, which waits for the previous buffer to be written.
Answered == fpc \in Waiting ~> reply # "none"

===========================================================================
