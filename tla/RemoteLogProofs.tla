-------------------------- MODULE RemoteLogProofs --------------------------
(***************************************************************************)
(* Theorems about RemoteLog, for every number of buffers, any rollover     *)
(* limit, any number of runs and buffers, and with files that cannot be    *)
(* opened, failing writes and a server that dies: the three properties of  *)
(* what the server has acknowledged, and that a remote log is a log in the *)
(* sense of RunLog.                                                        *)
(***************************************************************************)
EXTENDS RemoteLog, FiniteSetTheorems, SequenceTheorems, TLAPS

---------------------------------------------------------------------------
(* The inductive invariant, in eight parts.                                *)

\* The dialogue: a request is under way, or its answer, or neither, and only
\* where the client waits for it.
Asked(op, at) == request.op = op => fpc = at /\ reply = "none" /\ child # "swap"

DialogueInv ==
  /\ Asked("sendfilename", "name") /\ Asked("beginrun", "begin")
  /\ Asked("rollover", "roll") /\ Asked("data", "send") /\ Asked("endrun", "end")
  /\ fpc \notin Waiting => reply = "none"
  /\ request.op = "data" => request.unit = Unit(transport)
  /\ child = "swap" => /\ fpc = "send" /\ reply = "none"
                       /\ request.op = "none" /\ B[received] = Unit(transport)
  /\ child = "cut" => fpc \notin {"off", "name", "begin"} /\ reply # "ok"
  /\ fpc \in {"send", "end"} /\ reply = "fail" => Gone
  /\ fpc # "off" => child # "none"

\* The two mutexes of the server: nothing to write, something to write, or it
\* is being written.
LockInv ==
  /\ Running => \/ ~M_done /\ M_write /\ wpc = "wait"
                \/ M_done /\ ~M_write /\ wpc = "wait"
                \/ M_done /\ M_write /\ wpc = "write"
  /\ Running /\ fpc \in {"off", "name", "begin"} => ~M_done
  /\ fpc = "end" /\ reply = "ok" => ~M_done

\* The buffers of the client: the one to be sent and the one to be filled.
RingInv ==
  /\ fpc \in {"name", "begin"} => Buffer_number = 1 /\ fill = 0
  /\ fpc \in {"fill", "drain", "end"} => Buffer_number >= 1
  /\ fpc = "fill" => buffer[fill].nr = Buffer_number /\ buffer[fill].dirty
  /\ fpc \in {"roll", "send"} =>
       /\ Buffer_number >= 2 /\ fill = Succ(transport)
       /\ buffer[transport].nr = Buffer_number - 1 /\ buffer[transport].dirty
       /\ buffer[fill].nr = Buffer_number /\ (~ending => buffer[fill].dirty)

\* Numbers of runs only grow.
RunsInv ==
  /\ \A i \in DOMAIN acked : acked[i].run <= TheRun
  /\ \A i \in DOMAIN stream : stream[i].run <= TheRun
  /\ fpc \in {"name", "begin"} =>
       /\ \A i \in DOMAIN acked : acked[i].run < TheRun
       /\ \A i \in DOMAIN stream : stream[i].run < TheRun

\* The buffers whose fate is known to the client are acknowledged, unless the
\* server is gone, and with it every later acknowledgement: then a buffer stays
\* dirty.
Acked(k) == \E i \in DOMAIN acked : acked[i].run = TheRun /\ acked[i].nr = k

Answers == IF fpc \in {"roll", "send"} THEN Buffer_number - 2 ELSE Buffer_number - 1

Lost == Gone /\ reply # "ok" /\ \E s \in Slot : buffer[s].dirty

AckInv ==
  fpc # "off" =>
    \/ \A k \in 1 .. Answers : Acked(k)
    \/ fpc \in {"fill", "roll", "send", "drain"} /\ Lost

\* What is acknowledged is on disk or in the buffer that is being written.
Confirmed(k) == Acked(k) \/ (fpc = "send" /\ reply = "ok" /\ k = buffer[transport].nr)

InWriting(k) == M_done /\ B[Written] = [run |-> TheRun, nr |-> k, whole |-> TRUE]

StoreInv == ~write_error => \A k \in Nat : Confirmed(k) => Stored(k) \/ InWriting(k)

\* The order on disk, as long as the server lives.  Handed is how many buffers
\* of the run it has taken over, Reached the last one of them on disk.
Handed ==
  IF fpc = "roll" \/ (fpc = "send" /\ reply # "ok") THEN Buffer_number - 2
  ELSE Buffer_number - 1

Reached ==
  IF stream # <<>> /\ stream[Len(stream)].run = TheRun THEN stream[Len(stream)].nr ELSE 0

OrderInv ==
  Alive /\ fpc # "off" =>
    IF M_done
      THEN /\ B[Written] = [run |-> TheRun, nr |-> Handed, whole |-> TRUE] /\ Reached < Handed
           /\ ~write_error => Reached = Handed - 1
      ELSE /\ Reached <= Handed
           /\ ~write_error => Reached = Handed

\* Without a connection the buffers still to be written are buffers of the run
\* that are not on disk yet, in their order, though not always whole.
Coming(b) ==
  B[b].run = TheRun /\ Reached < B[b].nr /\ B[b].nr <= Accepted

CutInv ==
  child \in {"cut", "gone"} /\ fpc # "off" =>
    /\ M_done => Coming(Written)
    /\ child = "cut" => Coming(received) /\ (M_done => B[Written].nr < B[received].nr)

Inv ==
  /\ DialogueInv /\ LockInv /\ RingInv /\ RunsInv /\ AckInv /\ StoreInv /\ OrderInv
  /\ CutInv

---------------------------------------------------------------------------
(* Type correctness.                                                       *)

LEMMA RingLemma ==
  ASSUME NEW s \in Slot
  PROVE  Succ(s) \in Slot /\ Succ(s) # s
  BY RemoteAssumption DEF Slot, Succ

LEMMA ZeroSlot == 0 \in Slot
  BY RemoteAssumption DEF Slot

AckType == [run : Nat, nr : Nat]

\* What is acknowledged next.
Sent == [run |-> TheRun, nr |-> buffer[transport].nr]

LEMMA UnitLemma ==
  ASSUME TypeOK, NEW s \in Slot
  PROVE  Unit(s) \in UnitType /\ NoUnit \in UnitType /\ Sent \in AckType
  BY DEF TypeOK, UnitType, Unit, NoUnit, Sent, AckType

LEMMA AckLemma ==
  ASSUME TypeOK
  PROVE  /\ acked \in Seq(AckType)
         /\ \A i \in DOMAIN acked :
              acked[i] \in AckType /\ acked[i].run \in Nat /\ acked[i].nr \in Nat
  <1>1. acked \in Seq(AckType)
    BY DEF TypeOK, AckType
  <1>2. \A i \in DOMAIN acked : acked[i] \in AckType
    BY <1>1
  <1> QED
    BY <1>1, <1>2 DEF AckType

LEMMA CallType ==
  ASSUME NEW op \in Op, NEW unit \in UnitType, Call(op, unit)
  PROVE  request' \in [op : Op, unit : UnitType] /\ reply' \in {"none", "ok", "fail"}
  BY DEF Call

LEMMA AnswerType ==
  ASSUME NEW ok \in BOOLEAN, Answer(ok)
  PROVE  request' \in [op : Op, unit : UnitType] /\ reply' \in {"none", "ok", "fail"}
  BY DEF Answer, NoRequest, NoUnit, UnitType, Op

LEMMA DestinationLemma ==
  ASSUME TypeOK, NEW f \in Destination(wfd)
  PROVE  f \in Nat
  BY DEF TypeOK, ServerType, Destination

LEMMA ServerTypeStep ==
  ASSUME TypeOK, Receiver \/ Writer \/ Cut \/ ServerFails
  PROVE  ServerType'
  <1> USE DEF TypeOK, ServerType
  <1>1. CASE SendFilename
    BY <1>1, AnswerType DEF SendFilename, OpenOutcome, lockVars, diskVars, threadVars
  <1>2. CASE BeginRun
    <2>1. PICK ok \in BOOLEAN : OpenNext(ok) /\ Answer(ok) /\ received' = IF ok THEN 0 ELSE received
      BY <1>2 DEF BeginRun, OpenOutcome
    <2>2. nfiles' \in Nat /\ output_fd' \in Nat /\ received' \in {0, 1} /\ UNCHANGED stream
      BY <2>1 DEF OpenNext
    <2>3. UNCHANGED <<child, B, lockVars, threadVars>>
      BY <1>2 DEF BeginRun
    <2> QED
      BY <2>1, <2>2, <2>3, AnswerType DEF lockVars, threadVars
  <1>3. CASE RolloverFile
    <2>1. PICK ok \in BOOLEAN : OpenNext(ok) /\ Answer(ok)
      BY <1>3 DEF RolloverFile, OpenOutcome
    <2>2. nfiles' \in Nat /\ output_fd' \in Nat /\ UNCHANGED stream
      BY <2>1 DEF OpenNext
    <2>3. UNCHANGED <<child, B, received, lockVars, threadVars>>
      BY <1>3 DEF RolloverFile
    <2> QED
      BY <2>1, <2>2, <2>3, AnswerType DEF lockVars, threadVars
  <1>4. CASE Receive
    BY <1>4 DEF Receive, NoRequest, NoUnit, UnitType, Op, lockVars, diskVars, threadVars
  <1>5. CASE Swap
    <2>1. request' \in [op : Op, unit : UnitType] /\ reply' \in {"none", "ok", "fail"}
      BY <1>5, AnswerType DEF Swap
    <2>2. received' \in {0, 1} /\ child' = "read"
      BY <1>5 DEF Swap, SwitchBuffers, Written
    <2>3. M_done' \in BOOLEAN /\ M_write' \in BOOLEAN
      BY <1>5 DEF Swap, SwitchBuffers
    <2>4. UNCHANGED <<B, diskVars, threadVars>>
      BY <1>5 DEF Swap
    <2> QED
      BY <2>1, <2>2, <2>3, <2>4 DEF diskVars, threadVars
  <1>6. CASE EndRun
    BY <1>6, AnswerType DEF EndRun, lockVars, threadVars
  <1>7. CASE WriterLock
    BY <1>7 DEF WriterLock, diskVars
  <1>8. CASE WriterWrite
    <2>1. PICK f \in Destination(wfd) : \E failed \in {f = 0, f = 0 \/ DiskMayFail} :
            /\ write_error' = (write_error \/ failed)
            /\ stream' = IF f = 0 THEN stream
                         ELSE Append(stream, [file |-> f, run |-> B[Written].run,
                                              nr |-> B[Written].nr,
                                              whole |-> B[Written].whole /\ ~failed])
      BY <1>8 DEF WriterWrite, Write
    <2>2. PICK failed \in BOOLEAN :
            /\ write_error' = (write_error \/ failed)
            /\ stream' = IF f = 0 THEN stream
                         ELSE Append(stream, [file |-> f, run |-> B[Written].run,
                                              nr |-> B[Written].nr,
                                              whole |-> B[Written].whole /\ ~failed])
      BY <2>1, ServerAssumption
    <2> DEFINE e == [file |-> f, run |-> B[Written].run, nr |-> B[Written].nr,
                     whole |-> B[Written].whole /\ ~failed]
    <2>3. e \in EntryType
      <3>1. B[Written] \in UnitType
        BY DEF Written
      <3>2. /\ B[Written].run \in Nat /\ B[Written].nr \in Nat
            /\ (B[Written].whole /\ ~failed) \in BOOLEAN
        BY <3>1 DEF UnitType
      <3> QED
        BY <2>1, <3>2, DestinationLemma DEF EntryType
    <2>4. stream' = stream \/ stream' = Append(stream, e)
      BY <2>2
    <2> HIDE DEF e
    <2>5. stream' \in Seq(EntryType)
      <3>1. stream \in Seq(EntryType)
        OBVIOUS
      <3> HIDE DEF TypeOK, ServerType
      <3> QED
        BY <2>3, <2>4, <3>1
    <2>6. write_error' \in BOOLEAN
      BY <2>2
    <2> QED
      BY <1>8, <2>5, <2>6 DEF WriterWrite, lockVars
  <1>9. CASE ServerFails
    BY <1>9 DEF ServerFails, lockVars, diskVars, threadVars
  <1>10. CASE Cut
    <2>1. [request.unit EXCEPT !.whole = FALSE] \in UnitType
      <3>1. request.unit \in UnitType
        OBVIOUS
      <3> QED
        BY <3>1 DEF UnitType
    <2>2. B' \in [{0, 1} -> UnitType] /\ child' \in {"cut", "gone"}
      <3> HIDE DEF TypeOK
      <3>1. B \in [{0, 1} -> UnitType]
        BY DEF TypeOK
      <3>2. \/ B' = B
            \/ B' = [B EXCEPT ![received] = [request.unit EXCEPT !.whole = FALSE]]
        BY <1>10 DEF Cut
      <3> QED
        BY <1>10, <2>1, <3>1, <3>2 DEF Cut
    <2>3. request' \in [op : Op, unit : UnitType] /\ reply' \in {"none", "ok", "fail"}
      BY <1>10 DEF Cut, NoRequest, NoUnit, UnitType, Op
    <2> QED
      BY <1>10, <2>2, <2>3 DEF Cut, lockVars, diskVars, threadVars
  <1>11. CASE CutSwap
    <2>1. received' \in {0, 1} /\ child' = "gone"
      BY <1>11 DEF CutSwap, SwitchBuffers, Written
    <2>2. M_done' \in BOOLEAN /\ M_write' \in BOOLEAN
      BY <1>11 DEF CutSwap, SwitchBuffers
    <2> QED
      BY <1>11, <2>1, <2>2 DEF CutSwap, diskVars, threadVars
  <1> QED
    BY <1>1, <1>2, <1>3, <1>4, <1>5, <1>6, <1>7, <1>8, <1>9, <1>10, <1>11 DEF Receiver, Writer

LEMMA ClientTypeStep ==
  ASSUME TypeOK, Client
  PROVE  TypeOK'
  <1> USE ZeroSlot DEF FillPC, ringVars, lockVars, diskVars, threadVars, ServerIdle
  <1>0. NoUnit \in UnitType /\ Unit(fill) \in UnitType /\ Unit(transport) \in UnitType
    BY UnitLemma DEF TypeOK
  <1>00. RolloverLimit' \in Limits /\ RolloverLimit \in Nat
    BY RemoteAssumption DEF Client, TypeOK
  <1>1. CASE Begin
    <2>0. /\ TheRun' \in Nat /\ Buffer_number' \in Nat /\ BytesInThisFile' \in Nat
          /\ fill' \in Slot /\ transport' \in Slot
          /\ UNCHANGED <<ending, buffer, acked>>
      BY <1>1 DEF Begin, TypeOK
    <2>1. ASSUME persistentErrorCondition' = TRUE, UNCHANGED <<serverVars, fpc>>
          PROVE  TypeOK'
      <3>1. ServerType'
        BY <2>1 DEF serverVars, TypeOK, ServerType
      <3> QED
        BY <1>00, <2>0, <2>1, <3>1 DEF TypeOK
    <2>2. ASSUME Fork, Call("sendfilename", NoUnit), fpc' = "name",
                 UNCHANGED persistentErrorCondition
          PROVE  TypeOK'
      <3>1. request' \in [op : Op, unit : UnitType] /\ reply' \in {"none", "ok", "fail"}
        BY <2>2, <1>0, CallType DEF Op
      <3>2. ServerType'
        <4>1. [i \in {0, 1} |-> NoUnit] \in [{0, 1} -> UnitType]
          BY <1>0
        <4>2. M_write' \in BOOLEAN /\ M_done' \in BOOLEAN /\ write_error' \in BOOLEAN
          BY <2>2 DEF Fork
        <4> QED
          BY <2>2, <3>1, <4>1, <4>2 DEF Fork, TypeOK, ServerType
      <3> QED
        BY <1>00, <2>0, <2>2, <3>2 DEF TypeOK
    <2> QED
      BY <1>1, <2>1, <2>2 DEF Begin
  <1>2. CASE DaqOpen
    <2>1. ServerType'
      BY <1>2 DEF DaqOpen, serverVars, TypeOK, ServerType
    <2> QED
      BY <1>2, <1>00, <2>1 DEF DaqOpen, TypeOK
  <1>3. CASE NameAnswered
    <2>1. request' \in [op : Op, unit : UnitType] /\ reply' \in {"none", "ok", "fail"}
      BY <1>3, <1>0, CallType DEF NameAnswered, TypeOK, ServerType, Op
    <2> QED
      BY <1>3, <1>00, <2>1 DEF NameAnswered, TypeOK, ServerType
  <1>4. CASE BeginAnswered
    <2>1. [nr |-> 1, dirty |-> TRUE] \in [nr : Nat, dirty : BOOLEAN]
      OBVIOUS
    <2>2. buffer' \in [Slot -> [nr : Nat, dirty : BOOLEAN]] /\ fpc' \in FillPC
      BY <1>4, <2>1 DEF BeginAnswered, TypeOK
    <2>3. ServerType'
      BY <1>4 DEF BeginAnswered, TypeOK, ServerType
    <2> QED
      BY <1>4, <1>00, <2>2, <2>3 DEF BeginAnswered, TypeOK
  <1>5. CASE SwitchBuffer
    <2>1. request' \in [op : Op, unit : UnitType] /\ reply' \in {"none", "ok", "fail"}
      BY <1>5, <1>0, CallType DEF SwitchBuffer, Op
    <2>2. buffer' \in [Slot -> [nr : Nat, dirty : BOOLEAN]]
      <3> DEFINE c == [buffer EXCEPT ![fill'].nr = Buffer_number + 1]
                 d == ~ending' \/ c[fill'].dirty
      <3>1. fill' \in Slot /\ c \in [Slot -> [nr : Nat, dirty : BOOLEAN]]
        BY <1>5, RingLemma DEF SwitchBuffer, TypeOK
      <3>2. d \in BOOLEAN
        OBVIOUS
      <3>3. buffer' = [c EXCEPT ![fill'].dirty = d]
        BY <1>5 DEF SwitchBuffer
      <3> HIDE DEF d, c
      <3> QED
        BY <3>1, <3>2, <3>3
    <2> QED
      BY <1>5, <1>00, <2>1, <2>2, RingLemma DEF SwitchBuffer, TypeOK, ServerType
  <1>6. CASE RolloverAnswered
    <2>1. request' \in [op : Op, unit : UnitType] /\ reply' \in {"none", "ok", "fail"}
      BY <1>6, <1>0, CallType DEF RolloverAnswered, Op
    <2> QED
      BY <1>6, <1>00, <2>1 DEF RolloverAnswered, TypeOK, ServerType
  <1>7. CASE DataAnswered
    <2>1. acked' \in Seq(AckType)
      <3>1. Sent \in AckType
        BY UnitLemma DEF TypeOK
      <3>2. acked' \in {acked, Append(acked, Sent)}
        BY <1>7 DEF DataAnswered, Sent
      <3>3. Append(acked, Sent) \in Seq(AckType)
        BY <3>1 DEF TypeOK, AckType
      <3> QED
        BY <3>2, <3>3 DEF TypeOK, AckType
    <2>2. buffer' \in [Slot -> [nr : Nat, dirty : BOOLEAN]]
      BY <1>7 DEF DataAnswered, TypeOK
    <2>3. BytesInThisFile' \in Nat
      BY <1>7, <1>00 DEF DataAnswered, TypeOK
    <2> QED
      BY <1>7, <1>00, <2>1, <2>2, <2>3 DEF DataAnswered, TypeOK, ServerType, AckType
  <1>8. CASE Drain
    <2>1. request' \in [op : Op, unit : UnitType] /\ reply' \in {"none", "ok", "fail"}
      BY <1>8, <1>0, CallType DEF Drain, Op
    <2> QED
      BY <1>8, <1>00, <2>1 DEF Drain, TypeOK, ServerType
  <1>9. CASE EndAnswered
    BY <1>9, <1>00 DEF EndAnswered, Close, TypeOK, ServerType
  <1>10. CASE Broken
    BY <1>10, <1>0 DEF Broken, NoRequest, Op, clientVars, TypeOK, ServerType
  <1> QED
    BY <1>1, <1>2, <1>3, <1>4, <1>5, <1>6, <1>7, <1>8, <1>9, <1>10 DEF Client

LEMMA TypeStep == TypeOK /\ [Next]_vars => TypeOK'
  <1> SUFFICES ASSUME TypeOK, [Next]_vars PROVE TypeOK'
    OBVIOUS
  <1>1. CASE Client
    BY <1>1, ClientTypeStep
  <1>2. CASE Server
    <2>1. ServerType'
      BY <1>2, ServerTypeStep DEF Server
    <2> QED
      BY <1>2, <2>1 DEF Server, clientVars, ringVars, TypeOK
  <1>3. CASE UNCHANGED vars
    BY <1>3 DEF vars, serverVars, clientVars, ringVars, lockVars, diskVars,
                threadVars, TypeOK, ServerType
  <1> QED
    BY <1>1, <1>2, <1>3 DEF Next, Done

(* Every variable of the client and of the server has its type. *)
THEOREM TypeCorrect == Spec => []TypeOK
  <1>1. Init => TypeOK
    <2> SUFFICES ASSUME Init PROVE TypeOK
      OBVIOUS
    <2>1. NoUnit \in UnitType /\ NoRequest \in [op : Op, unit : UnitType]
      BY DEF NoUnit, NoRequest, UnitType, Op
    <2>2. B \in [{0, 1} -> UnitType]
      BY <2>1 DEF Init, ServerInit
    <2>3. /\ M_write \in BOOLEAN /\ M_done \in BOOLEAN /\ write_error \in BOOLEAN
          /\ ending \in BOOLEAN /\ persistentErrorCondition \in BOOLEAN
      BY DEF Init, ServerInit
    <2>4. buffer \in [Slot -> [nr : Nat, dirty : BOOLEAN]]
      BY DEF Init, Slot
    <2>5. ServerType
      BY <2>1, <2>2, <2>3 DEF Init, ServerInit, ServerType
    <2> QED
      BY ZeroSlot, <2>3, <2>4, <2>5 DEF Init, TypeOK, FillPC
  <1> QED
    BY <1>1, TypeStep, PTL DEF Spec

---------------------------------------------------------------------------
(* Each part of the invariant, action by action.  A server's action leaves *)
(* the client's variables alone, and (but for Begin and the close at the   *)
(* end) the other way round.                                               *)

LEMMA DialogueClient == TypeOK /\ DialogueInv /\ Client => DialogueInv'
  <1> SUFFICES ASSUME TypeOK, DialogueInv, Client PROVE DialogueInv'
    OBVIOUS
  <1> USE DEF DialogueInv, Asked, Waiting, Unit, GotReply, Call, Gone
  <1>1. CASE Begin
    BY <1>1 DEF Begin, Fork, serverVars
  <1>2. CASE DaqOpen
    BY <1>2 DEF DaqOpen, serverVars, ringVars
  <1>3. CASE NameAnswered
    BY <1>3 DEF NameAnswered, ServerIdle, ringVars
  <1>4. CASE BeginAnswered
    BY <1>4 DEF BeginAnswered, ServerIdle
  <1>5. CASE SwitchBuffer
    <2>1. buffer'[fill].nr = buffer[fill].nr
      BY <1>5, RingLemma DEF SwitchBuffer, TypeOK
    <2> QED
      <3>1. /\ fpc = "fill" /\ fpc' \in {"roll", "send"} /\ TheRun' = TheRun
            /\ transport' = fill /\ reply' = "none" /\ UNCHANGED <<child, B, received>>
        BY <1>5 DEF SwitchBuffer, ServerIdle
      <3>4. \/ fpc' = "roll" /\ request'.op = "rollover"
            \/ fpc' = "send" /\ request'.op = "data" /\ request'.unit = Unit(fill)
        <4> DEFINE u == Unit(fill)
        <4>1. \/ request' = [op |-> "rollover", unit |-> NoUnit] /\ fpc' = "roll"
              \/ request' = [op |-> "data", unit |-> u] /\ fpc' = "send"
          BY <1>5 DEF SwitchBuffer
        <4> HIDE DEF u
        <4>2. \/ fpc' = "roll" /\ request'.op = "rollover"
              \/ fpc' = "send" /\ request'.op = "data" /\ request'.unit = u
          BY <4>1
        <4> QED
          BY <4>2 DEF u
      <3>2. Unit(fill) = Unit(transport)'
        BY <2>1, <3>1
      <3> QED
        BY <3>1, <3>2, <3>4
  <1>6. CASE RolloverAnswered
    BY <1>6 DEF RolloverAnswered, ServerIdle, ringVars
  <1>7. CASE DataAnswered
    BY <1>7 DEF DataAnswered, ServerIdle
  <1>8. CASE Drain
    BY <1>8 DEF Drain, ServerIdle, ringVars
  <1>9. CASE EndAnswered
    BY <1>9 DEF EndAnswered, Close
  <1>10. CASE Broken
    BY <1>10 DEF Broken, NoRequest, ServerIdle, clientVars, ringVars
  <1> QED
    BY <1>1, <1>2, <1>3, <1>4, <1>5, <1>6, <1>7, <1>8, <1>9, <1>10 DEF Client

LEMMA DialogueServer == TypeOK /\ DialogueInv /\ Server => DialogueInv'
  <1> SUFFICES ASSUME TypeOK, DialogueInv, Server PROVE DialogueInv'
    OBVIOUS
  <1> USE DEF DialogueInv, Asked, Waiting, Unit, Handle, Answer, NoRequest, Gone
  <1>0. UNCHANGED clientVars
    BY DEF Server
  <1>1. CASE SendFilename \/ BeginRun \/ RolloverFile
    BY <1>0, <1>1 DEF SendFilename, BeginRun, RolloverFile, clientVars, ringVars
  <1>2. CASE Receive
    BY <1>0, <1>2 DEF Receive, clientVars, ringVars, TypeOK, ServerType
  <1>3. CASE Swap \/ EndRun
    BY <1>0, <1>3 DEF Swap, EndRun, clientVars, ringVars
  <1>4. CASE Writer \/ ServerFails
    BY <1>0, <1>4 DEF Writer, WriterLock, WriterWrite, ServerFails, Running,
         clientVars, ringVars
  <1>5. CASE Cut
    BY <1>0, <1>5 DEF Cut, clientVars, ringVars, TypeOK, ServerType
  <1>6. CASE CutSwap
    BY <1>0, <1>6 DEF CutSwap, clientVars, ringVars
  <1> QED
    BY <1>1, <1>2, <1>3, <1>4, <1>5, <1>6 DEF Server, Receiver

LEMMA LockClient ==
  TypeOK /\ DialogueInv /\ LockInv /\ Client => LockInv'
  <1> SUFFICES ASSUME TypeOK, DialogueInv, LockInv, Client PROVE LockInv'
    OBVIOUS
  <1> USE DEF LockInv, Running
  <1>1. CASE Begin
    BY <1>1 DEF Begin, Fork, Call, serverVars, lockVars, threadVars, DialogueInv, Waiting
  <1>2. CASE EndAnswered
    BY <1>2 DEF EndAnswered, Close
  <1>3. CASE DaqOpen \/ NameAnswered \/ BeginAnswered \/ SwitchBuffer
    BY <1>3 DEF DaqOpen, NameAnswered, BeginAnswered, SwitchBuffer, ServerIdle,
         serverVars, lockVars, threadVars, GotReply, Call
  <1>4. CASE RolloverAnswered \/ DataAnswered \/ Drain \/ Broken
    BY <1>4 DEF RolloverAnswered, DataAnswered, Drain, Broken, ServerIdle,
         clientVars, lockVars, threadVars, GotReply, Call
  <1> QED
    BY <1>1, <1>2, <1>3, <1>4 DEF Client

LEMMA LockServer ==
  TypeOK /\ DialogueInv /\ LockInv /\ Server => LockInv'
  <1> SUFFICES ASSUME TypeOK, DialogueInv, LockInv, Server PROVE LockInv'
    OBVIOUS
  <1> USE DEF LockInv, Running, Handle
  <1>0. UNCHANGED <<fpc>>
    BY DEF Server, clientVars
  <1>1. CASE SendFilename \/ BeginRun \/ RolloverFile
    BY <1>0, <1>1 DEF SendFilename, BeginRun, RolloverFile, lockVars, threadVars,
         DialogueInv, Asked
  <1>2. CASE Receive
    BY <1>0, <1>2 DEF Receive, lockVars, threadVars
  <1>3. CASE Swap
    BY <1>0, <1>3 DEF Swap, SwitchBuffers, threadVars, DialogueInv
  <1>4. CASE EndRun
    BY <1>0, <1>4 DEF EndRun, lockVars, threadVars
  <1>5. CASE WriterLock
    BY <1>0, <1>5 DEF WriterLock
  <1>6. CASE WriterWrite
    BY <1>0, <1>6 DEF WriterWrite
  <1>7. CASE ServerFails
    BY <1>0, <1>7 DEF ServerFails, lockVars, threadVars
  <1>8. CASE Cut
    BY <1>0, <1>8 DEF Cut, lockVars, threadVars
  <1>9. CASE CutSwap
    BY <1>0, <1>9 DEF CutSwap, SwitchBuffers, threadVars, DialogueInv
  <1> QED
    BY <1>1, <1>2, <1>3, <1>4, <1>5, <1>6, <1>7, <1>8, <1>9 DEF Server, Receiver, Writer

LEMMA RingClient == TypeOK /\ RingInv /\ Client => RingInv'
  <1> SUFFICES ASSUME TypeOK, RingInv, Client PROVE RingInv'
    OBVIOUS
  <1> USE DEF RingInv
  <1>1. CASE Begin
    BY <1>1 DEF Begin
  <1>2. CASE DaqOpen \/ NameAnswered
    BY <1>2 DEF DaqOpen, NameAnswered, ringVars, GotReply
  <1>3. CASE BeginAnswered
    BY <1>3, ZeroSlot DEF BeginAnswered, GotReply, TypeOK
  <1>4. CASE SwitchBuffer
    <2>1. fill # Succ(fill) /\ fill \in Slot /\ Succ(fill) \in Slot
      BY RingLemma DEF TypeOK
    <2>2. /\ buffer'[fill] = buffer[fill]
          /\ buffer'[Succ(fill)].nr = Buffer_number + 1
          /\ ~ending' => buffer'[Succ(fill)].dirty
      BY <1>4, <2>1 DEF SwitchBuffer, TypeOK
    <2> QED
      BY <1>4, <2>1, <2>2 DEF SwitchBuffer, TypeOK
  <1>5. CASE RolloverAnswered \/ Drain \/ EndAnswered \/ Broken
    BY <1>5 DEF RolloverAnswered, Drain, EndAnswered, Broken, GotReply, ringVars,
         clientVars
  <1>6. CASE DataAnswered
    <2>1. fill # transport
      BY <1>6, RingLemma DEF DataAnswered, GotReply, TypeOK
    <2>2. buffer'[fill] = buffer[fill]
      BY <1>6, <2>1 DEF DataAnswered, TypeOK
    <2> QED
      BY <1>6, <2>1, <2>2 DEF DataAnswered, GotReply, TypeOK
  <1> QED
    BY <1>1, <1>2, <1>3, <1>4, <1>5, <1>6 DEF Client

LEMMA AppendLemma ==
  ASSUME NEW S, NEW s \in Seq(S), NEW e \in S
  PROVE  /\ Append(s, e) \in Seq(S) /\ Append(s, e) # <<>>
         /\ Len(Append(s, e)) = Len(s) + 1
         /\ DOMAIN Append(s, e) = DOMAIN s \cup {Len(s) + 1}
         /\ \A i \in DOMAIN s : Append(s, e)[i] = s[i]
         /\ Append(s, e)[Len(s) + 1] = e
         /\ s # <<>> => Len(s) \in DOMAIN s
  <1>1. Len(s) \in Nat /\ DOMAIN s = 1 .. Len(s)
    OBVIOUS
  <1>2. /\ Append(s, e) \in Seq(S) /\ Len(Append(s, e)) = Len(s) + 1
        /\ Append(s, e)[Len(s) + 1] = e
        /\ \A i \in DOMAIN s : Append(s, e)[i] = s[i]
    OBVIOUS
  <1>3. DOMAIN Append(s, e) = 1 .. Len(s) + 1 /\ Append(s, e) # <<>>
    BY <1>2
  <1>4. s # <<>> => Len(s) # 0
    OBVIOUS
  <1> QED
    BY <1>1, <1>2, <1>3, <1>4

\* The entry of buffer k of this run in a file.
Entry(f, k, w) == [file |-> f, run |-> TheRun, nr |-> k, whole |-> w]

\* What is written is of the run that is going on.
LEMMA WritesThisRun ==
  ASSUME TypeOK, Inv, WriterWrite
  PROVE  /\ M_done /\ ~M_done' /\ fpc \notin {"off", "name", "begin"}
         /\ B[Written].run = TheRun /\ B[Written].nr \in Nat /\ B[Written].whole \in BOOLEAN
         /\ Alive => B[Written].nr = Handed /\ B[Written].whole
         /\ ~Alive => child \in {"cut", "gone"} /\ Coming(Written)
         /\ \/ write_error' /\ UNCHANGED stream
            \/ \E f \in Nat, w \in BOOLEAN :
                 /\ stream' = Append(stream, Entry(f, B[Written].nr, w))
                 /\ w => B[Written].whole
                 /\ ~write_error' => ~write_error /\ w = B[Written].whole
                 /\ ~w /\ B[Written].whole => write_error'
  <1>1. M_done /\ ~M_done' /\ fpc \notin {"off", "name", "begin"}
    BY DEF WriterWrite, Inv, LockInv
  <1>2. B[Written] \in UnitType
    BY DEF TypeOK, ServerType, Written
  <1>3. B[Written].run \in Nat /\ B[Written].nr \in Nat /\ B[Written].whole \in BOOLEAN
    BY <1>2 DEF UnitType
  <1>4. ASSUME Alive PROVE B[Written].run = TheRun /\ B[Written].nr = Handed /\ B[Written].whole
    BY <1>1, <1>4 DEF Inv, OrderInv
  <1>5. ASSUME ~Alive PROVE child \in {"cut", "gone"} /\ Coming(Written)
    BY <1>1, <1>5 DEF WriterWrite, Running, Alive, Inv, CutInv
  <1>6. B[Written].run = TheRun
    BY <1>4, <1>5 DEF Coming
  <1>7. PICK f \in Destination(wfd) : \E failed \in {f = 0, f = 0 \/ DiskMayFail} :
          /\ write_error' = (write_error \/ failed)
          /\ stream' = IF f = 0 THEN stream
                       ELSE Append(stream, [file |-> f, run |-> B[Written].run,
                                            nr |-> B[Written].nr,
                                            whole |-> B[Written].whole /\ ~failed])
    BY DEF WriterWrite, Write
  <1>8. PICK failed \in BOOLEAN :
          /\ f = 0 => failed
          /\ write_error' = (write_error \/ failed)
          /\ stream' = IF f = 0 THEN stream
                       ELSE Append(stream, [file |-> f, run |-> B[Written].run,
                                            nr |-> B[Written].nr,
                                            whole |-> B[Written].whole /\ ~failed])
    BY <1>7, ServerAssumption
  <1>9. f \in Nat
    BY DestinationLemma
  <1> DEFINE w == B[Written].whole /\ ~failed
  <1>10. w \in BOOLEAN /\ (w => B[Written].whole) /\ (~failed => w = B[Written].whole)
         /\ (~w /\ B[Written].whole => failed)
    BY <1>3, <1>8
  <1>11. f # 0 => stream' = Append(stream, Entry(f, B[Written].nr, w))
    BY <1>6, <1>8 DEF Entry
  <1>12. write_error \in BOOLEAN
    BY DEF TypeOK, ServerType
  <1> HIDE DEF w
  <1>13. (write_error' /\ UNCHANGED stream) \/ f # 0
    BY <1>8
  <1> QED
    BY <1>1, <1>3, <1>4, <1>5, <1>6, <1>8, <1>9, <1>10, <1>11, <1>12, <1>13

LEMMA EntryLemma ==
  ASSUME TypeOK, NEW f \in Nat, NEW k \in Nat, NEW w \in BOOLEAN
  PROVE  /\ Entry(f, k, w) \in EntryType
         /\ Entry(f, k, w).run = TheRun /\ Entry(f, k, w).nr = k /\ Entry(f, k, w).whole = w
         /\ stream \in Seq(EntryType)
  BY DEF Entry, EntryType, TypeOK, ServerType

LEMMA RunsClient == TypeOK /\ Inv /\ Client => RunsInv'
  <1> SUFFICES ASSUME TypeOK, Inv, Client PROVE RunsInv'
    OBVIOUS
  <1> USE DEF RunsInv
  <1>1. CASE Begin
    <2>1. TheRun' = TheRun + 1 /\ acked' = acked /\ stream' = stream
      BY <1>1 DEF Begin, Fork, serverVars, diskVars
    <2>2. \A i \in DOMAIN acked : acked[i] \in AckType
      BY AckLemma
    <2>3. \A i \in DOMAIN stream : stream[i] \in EntryType
      BY DEF TypeOK, ServerType
    <2> QED
      BY <2>1, <2>2, <2>3 DEF Inv, TypeOK, AckType, EntryType
  <1>2. CASE DataAnswered
    <2>1. /\ TheRun' = TheRun /\ stream' = stream /\ fpc' \in {"fill", "drain"}
          /\ \/ acked' = acked
             \/ acked' = Append(acked, Sent)
      BY <1>2 DEF DataAnswered, ServerIdle, diskVars, Sent
    <2>2. Sent \in AckType /\ Sent.run = TheRun
      BY UnitLemma DEF TypeOK, Sent
    <2>3. \A i \in DOMAIN acked' : acked'[i].run <= TheRun
      <3>1. acked \in Seq(AckType)
        BY AckLemma
      <3>2. /\ DOMAIN Append(acked, Sent) = DOMAIN acked \cup {Len(acked) + 1}
            /\ \A i \in DOMAIN acked : Append(acked, Sent)[i] = acked[i]
            /\ Append(acked, Sent)[Len(acked) + 1] = Sent
        BY <2>2, <3>1, AppendLemma
      <3>3. TheRun <= TheRun /\ \A i \in DOMAIN acked : acked[i].run <= TheRun
        BY DEF Inv, TypeOK
      <3> QED
        BY <2>1, <2>2, <3>2, <3>3
    <2> QED
      BY <2>1, <2>3 DEF Inv
  <1>3. CASE DaqOpen \/ NameAnswered \/ BeginAnswered \/ SwitchBuffer
    BY <1>3 DEF DaqOpen, NameAnswered, BeginAnswered, SwitchBuffer, ServerIdle,
         serverVars, diskVars, GotReply, Inv
  <1>4. CASE RolloverAnswered \/ Drain \/ EndAnswered \/ Broken
    BY <1>4 DEF RolloverAnswered, Drain, EndAnswered, Broken, Close, ServerIdle,
         clientVars, diskVars, GotReply, Inv
  <1> QED
    BY <1>1, <1>2, <1>3, <1>4 DEF Client

LEMMA RunsServer == TypeOK /\ Inv /\ Server => RunsInv'
  <1> SUFFICES ASSUME TypeOK, Inv, Server PROVE RunsInv'
    OBVIOUS
  <1> USE DEF RunsInv
  <1>0. UNCHANGED <<fpc, TheRun, acked>>
    BY DEF Server, clientVars
  <1>1. CASE WriterWrite
    <2>1. CASE UNCHANGED stream
      BY <1>0, <2>1 DEF Inv
    <2>2. ASSUME NEW f \in Nat, NEW w \in BOOLEAN,
                 stream' = Append(stream, Entry(f, B[Written].nr, w))
          PROVE  RunsInv'
      <3> DEFINE e == Entry(f, B[Written].nr, w)
      <3>1. e \in EntryType /\ e.run = TheRun /\ stream \in Seq(EntryType)
        BY <1>1, WritesThisRun, EntryLemma
      <3> HIDE DEF e
      <3>2. stream' = Append(stream, e)
        BY <2>2 DEF e
      <3>3. \A i \in DOMAIN stream' : stream'[i].run <= TheRun
        BY <3>1, <3>2, AppendLemma DEF Inv, TypeOK
      <3> QED
        BY <1>0, <1>1, <3>3, WritesThisRun DEF Inv
    <2> QED
      BY <1>1, <2>1, <2>2, WritesThisRun
  <1>2. CASE ~WriterWrite
    <2>1. UNCHANGED stream
      BY <1>2 DEF Server, Receiver, Writer, SendFilename, BeginRun, RolloverFile,
           OpenNext, Receive, Swap, EndRun, WriterLock, Cut, CutSwap, ServerFails, diskVars
    <2> QED
      BY <1>0, <2>1 DEF Inv
  <1> QED
    BY <1>1, <1>2

LEMMA AckClient == TypeOK /\ Inv /\ Client => AckInv'
  <1> SUFFICES ASSUME TypeOK, Inv, Client, fpc' # "off" 
               PROVE  \/ \A k \in 1 .. Answers' : Acked(k)'
                      \/ fpc' \in {"fill", "roll", "send", "drain"} /\ Lost'
    BY DEF AckInv
  <1>1. CASE Begin \/ NameAnswered \/ BeginAnswered
    <2>1. Answers' = 0
      BY <1>1 DEF Begin, NameAnswered, BeginAnswered, ringVars, GotReply, Answers, Inv,
           RingInv
    <2> QED
      BY <2>1
  <1>2. CASE DataAnswered
    <2>1. Answers = Buffer_number - 2 /\ Answers' = Buffer_number - 1 /\ Buffer_number \in Nat
      BY <1>2 DEF DataAnswered, GotReply, Answers, TypeOK
    <2>2. CASE reply = "ok"
      <3>1. \A k \in 1 .. Answers : Acked(k)
        BY <1>2, <2>2 DEF DataAnswered, GotReply, Inv, AckInv, Lost
      <3>2. /\ acked' = Append(acked, Sent) /\ TheRun' = TheRun
            /\ Sent \in AckType /\ acked \in Seq(AckType)
            /\ Sent = [run |-> TheRun, nr |-> Buffer_number - 1]
        BY <1>2, <2>2, UnitLemma
           DEF DataAnswered, GotReply, Sent, AckType, TypeOK, Inv, RingInv
      <3>3. \A k \in 1 .. Answers : Acked(k)'
        BY <3>1, <3>2, AppendLemma DEF Acked
      <3>4. \E i \in DOMAIN acked' : /\ acked'[i].run = TheRun'
                                     /\ acked'[i].nr = Buffer_number - 1
        BY <3>2, AppendLemma
      <3>5. \A k \in 1 .. Buffer_number - 1 : k \in 1 .. Answers \/ k = Buffer_number - 1
        BY <2>1
      <3>6. \A k \in 1 .. Buffer_number - 1 : Acked(k)'
        BY <3>3, <3>4, <3>5 DEF Acked
      <3> QED
        BY <2>1, <3>6
    <2>3. CASE reply # "ok"
      <3>1. Gone' /\ reply' = "none" /\ buffer' = buffer
            /\ fpc' \in {"fill", "drain"}
        BY <1>2, <2>3 DEF DataAnswered, GotReply, ServerIdle, TypeOK, ServerType,
             Inv, DialogueInv, Gone
      <3>2. buffer[transport].dirty /\ transport \in Slot
        BY <1>2 DEF DataAnswered, GotReply, Inv, RingInv, TypeOK
      <3> QED
        BY <3>1, <3>2 DEF Lost
    <2> QED
      BY <2>2, <2>3
  <1>3. CASE SwitchBuffer
    <2>1. /\ Answers' = Answers /\ UNCHANGED <<acked, TheRun, child>>
          /\ reply' = "none" /\ fpc \notin {"off", "end"} /\ fpc' \in {"roll", "send"}
      BY <1>3 DEF SwitchBuffer, Answers, ServerIdle, Call, TypeOK
    <2>2. \A s \in Slot : buffer[s].dirty => buffer'[s].dirty
      BY <1>3, RingLemma DEF SwitchBuffer, TypeOK
    <2> QED
      BY <2>1, <2>2 DEF Inv, AckInv, Acked, Lost, Gone
  <1>4. CASE Drain
    <2>1. /\ Answers' = Answers /\ UNCHANGED <<acked, TheRun>> /\ fpc # "off" /\ ~Lost
      BY <1>4 DEF Drain, Answers, ringVars, Lost
    <2> QED
      BY <2>1 DEF Inv, AckInv, Acked
  <1>5. CASE RolloverAnswered \/ Broken
    <2>1. /\ Answers' = Answers /\ fpc # "off" /\ UNCHANGED <<acked, TheRun, child, buffer>>
          /\ reply' # "ok"
          /\ fpc' = "send" \/ fpc' = fpc
      BY <1>5 DEF RolloverAnswered, Broken, Answers, GotReply, ServerIdle, Call,
           Waiting, clientVars, ringVars
    <2> QED
      BY <2>1 DEF Inv, AckInv, Acked, Lost, Gone
  <1>6. ~DaqOpen /\ ~EndAnswered
    BY DEF DaqOpen, EndAnswered
  <1> QED
    BY <1>1, <1>2, <1>3, <1>4, <1>5, <1>6 DEF Client

LEMMA AckServer == TypeOK /\ Inv /\ Server => AckInv'
  <1> SUFFICES ASSUME TypeOK, Inv, Server PROVE AckInv'
    OBVIOUS
  <1>1. UNCHANGED <<fpc, TheRun, acked, buffer, Buffer_number>>
    BY DEF Server, clientVars, ringVars
  <1>2. Gone => Gone' /\ UNCHANGED reply
    BY DEF Server, Receiver, Writer, SendFilename, BeginRun, RolloverFile, Handle,
       Receive, Swap, EndRun, WriterLock, WriterWrite, Cut, CutSwap, ServerFails, Gone
  <1> QED
    BY <1>1, <1>2 DEF Inv, AckInv, Acked, Answers, Lost

LEMMA StoreClient == TypeOK /\ Inv /\ Client => StoreInv'
  <1> SUFFICES ASSUME TypeOK, Inv, Client, ~write_error', NEW k \in Nat, Confirmed(k)'
               PROVE  (Stored(k) \/ InWriting(k))'
    BY DEF StoreInv
  <1>1. CASE Begin
    <2>1. Acked(k)' /\ TheRun' = TheRun + 1 /\ acked' = acked
      BY <1>1 DEF Begin, Confirmed
    <2>2. \A i \in DOMAIN acked : acked[i].run <= TheRun /\ acked[i] \in AckType
      BY AckLemma DEF Inv, RunsInv
    <2> QED
      BY <2>1, <2>2 DEF Acked, AckType, TypeOK
  <1>2. CASE ~Begin
    <2>1. UNCHANGED <<TheRun, stream, M_done, B, received, write_error>>
      BY <1>2 DEF Client, DaqOpen, NameAnswered, BeginAnswered, SwitchBuffer,
         RolloverAnswered, DataAnswered, Drain, EndAnswered, Broken, Close,
         ServerIdle, serverVars, clientVars, lockVars, diskVars, threadVars
    <2>2. Confirmed(k)
      <3>1. CASE DataAnswered
        <4>1. CASE reply = "ok"
          <5>1. /\ acked' = Append(acked, Sent) /\ acked \in Seq(AckType)
                /\ Sent \in AckType
                /\ Sent = [run |-> TheRun, nr |-> buffer[transport].nr]
            BY <3>1, <4>1, UnitLemma DEF DataAnswered, Sent, AckType, TypeOK
          <5>2. fpc' \in {"fill", "drain"}
            BY <3>1 DEF DataAnswered
          <5>3. PICK i \in DOMAIN acked' : acked'[i].run = TheRun /\ acked'[i].nr = k
            BY <2>1, <5>2 DEF Confirmed, Acked
          <5>4. i \in DOMAIN acked \/ k = buffer[transport].nr
            BY <5>1, <5>3, AppendLemma
          <5>5. i \in DOMAIN acked => Acked(k)
            BY <5>1, <5>3, AppendLemma DEF Acked
          <5> QED
            BY <3>1, <4>1, <5>4, <5>5 DEF Confirmed, DataAnswered, GotReply
        <4>2. CASE reply # "ok"
          BY <2>1, <3>1, <4>2 DEF DataAnswered, Confirmed, Acked
        <4> QED
          BY <4>1, <4>2
      <3>2. CASE ~DataAnswered
        <4>1. UNCHANGED acked /\ (fpc' = "send" => reply' # "ok")
          BY <1>2, <3>2 DEF Client, DaqOpen, NameAnswered, BeginAnswered, SwitchBuffer,
             RolloverAnswered, Drain, EndAnswered, Broken, Call, GotReply, clientVars
        <4> QED
          BY <2>1, <4>1 DEF Confirmed, Acked
      <3> QED
        BY <3>1, <3>2
    <2> QED
      BY <2>1, <2>2 DEF Inv, StoreInv, Stored, InWriting, Written
  <1> QED
    BY <1>1, <1>2

LEMMA StoreServer == TypeOK /\ Inv /\ Server => StoreInv'
  <1> SUFFICES ASSUME TypeOK, Inv, Server, ~write_error', NEW k \in Nat, Confirmed(k)'
               PROVE  (Stored(k) \/ InWriting(k))'
    BY DEF StoreInv
  <1>0. UNCHANGED <<fpc, TheRun, acked, buffer, transport>>
    BY DEF Server, clientVars, ringVars
  <1>1. CASE Swap
    <2>1. ~write_error /\ UNCHANGED <<stream, B>> /\ M_done' /\ ~M_done
      BY <1>1 DEF Swap, SwitchBuffers, diskVars, threadVars
    <2>2. CASE Acked(k)
      BY <1>0, <2>1, <2>2 DEF Inv, StoreInv, Confirmed, Stored, InWriting
    <2>3. CASE k = buffer[transport].nr
      <3>1. B[received] = [run |-> TheRun, nr |-> k, whole |-> TRUE]
        BY <1>1, <2>3 DEF Swap, Inv, DialogueInv, Unit
      <3>2. Written' = received
        BY <1>1 DEF Swap, SwitchBuffers, Written, TypeOK, ServerType
      <3> QED
        BY <1>0, <2>1, <3>1, <3>2 DEF InWriting
    <2> QED
      BY <1>0, <2>2, <2>3 DEF Confirmed, Acked
  <1>2. CASE WriterWrite
    <2>1. UNCHANGED reply
      BY <1>2 DEF WriterWrite
    <2>2. PICK f \in Nat, w \in BOOLEAN :
            /\ stream' = Append(stream, Entry(f, B[Written].nr, w))
            /\ ~write_error' => ~write_error /\ w = B[Written].whole
      BY <1>2, WritesThisRun
    <2>3. ~write_error /\ w = B[Written].whole
      BY <2>2
    <2> DEFINE e == Entry(f, B[Written].nr, w)
    <2>4. /\ e \in EntryType /\ e.run = TheRun /\ e.nr = B[Written].nr /\ e.whole = w
          /\ stream \in Seq(EntryType) /\ stream' = Append(stream, e)
      BY <1>2, <2>2, WritesThisRun, EntryLemma
    <2> HIDE DEF e
    <2>5. Stored(k) \/ InWriting(k)
      BY <1>0, <2>1, <2>3 DEF Inv, StoreInv, Confirmed, Acked
    <2>6. CASE Stored(k)
      BY <1>0, <2>4, <2>6, AppendLemma DEF Stored
    <2>7. CASE InWriting(k)
      <3>1. e.nr = k /\ e.whole
        BY <2>3, <2>4, <2>7 DEF InWriting
      <3> QED
        BY <1>0, <2>4, <3>1, AppendLemma DEF Stored
    <2> QED
      BY <2>5, <2>6, <2>7
  <1>3. CASE CutSwap
    <2>1. ~write_error /\ UNCHANGED <<stream, reply>> /\ ~M_done
      BY <1>3 DEF CutSwap, SwitchBuffers, diskVars, threadVars
    <2>2. Confirmed(k)
      BY <1>0, <2>1 DEF Confirmed, Acked
    <2> QED
      BY <1>0, <2>1, <2>2 DEF Inv, StoreInv, Stored, InWriting
  <1>4. CASE ~Swap /\ ~CutSwap /\ ~WriterWrite
    <2>1. /\ UNCHANGED <<stream, M_done, write_error>>
          /\ fpc = "send" /\ reply' = "ok" => reply = "ok"
          /\ M_done => UNCHANGED <<received, B>> \/ Receive \/ Cut
      BY <1>4 DEF Server, Receiver, Writer, SendFilename, BeginRun, RolloverFile,
         OpenNext, Receive, EndRun, WriterLock, Cut, ServerFails, Handle, lockVars,
         diskVars, threadVars, Inv, DialogueInv, Asked, LockInv, Running
    <2>2. Receive \/ Cut => received' = received /\ B'[Written] = B[Written]
      BY DEF Receive, Cut, Written, TypeOK, ServerType
    <2>3. M_done => B'[Written'] = B[Written]
      BY <2>1, <2>2 DEF Written
    <2> QED
      BY <1>0, <2>1, <2>3 DEF Inv, StoreInv, Confirmed, Acked, Stored, InWriting
  <1> QED
    BY <1>1, <1>2, <1>3, <1>4

\* The last entry of a stream that has grown.
LEMMA ReachedLemma ==
  ASSUME TypeOK, NEW f \in Nat, NEW k \in Nat, NEW w \in BOOLEAN, TheRun' = TheRun,
         stream' = Append(stream, Entry(f, k, w))
  PROVE  Reached' = k
  <1> DEFINE e == Entry(f, k, w)
  <1>1. e \in EntryType /\ stream \in Seq(EntryType) /\ e.run = TheRun /\ e.nr = k
        /\ stream' = Append(stream, e)
    BY EntryLemma
  <1> HIDE DEF e
  <1> QED
    BY <1>1, AppendLemma DEF Reached

LEMMA ReachedNat == TypeOK => Reached \in Nat
  <1> SUFFICES ASSUME TypeOK PROVE Reached \in Nat
    OBVIOUS
  <1>1. stream # <<>> => stream[Len(stream)] \in EntryType
    BY DEF TypeOK, ServerType
  <1> QED
    BY <1>1 DEF Reached, EntryType

LEMMA OrderClient == TypeOK /\ Inv /\ Client => OrderInv'
  <1> SUFFICES ASSUME TypeOK, Inv, Client, Alive', fpc' # "off" PROVE OrderInv'
    BY DEF OrderInv
  <1>1. CASE Begin
    <2>1. TheRun' = TheRun + 1 /\ stream' = stream /\ ~M_done' /\ Handed' = 0
      BY <1>1 DEF Begin, Fork, Handed, TypeOK, Call
    <2>2. stream # <<>> => stream[Len(stream)] \in EntryType /\ stream[Len(stream)].run <= TheRun
      <3>1. stream # <<>> => Len(stream) \in DOMAIN stream
        BY DEF TypeOK, ServerType
      <3> QED
        BY <3>1 DEF Inv, RunsInv, TypeOK, ServerType
    <2>3. Reached' = 0
      BY <2>1, <2>2 DEF Reached, EntryType, TypeOK
    <2> QED
      BY <2>1, <2>3 DEF OrderInv
  <1>2. CASE ~Begin
    <2>1. UNCHANGED <<TheRun, stream, M_done, B, received, write_error>>
      BY <1>2 DEF Client, DaqOpen, NameAnswered, BeginAnswered, SwitchBuffer,
         RolloverAnswered, DataAnswered, Drain, EndAnswered, Broken, Close,
         ServerIdle, serverVars, clientVars, lockVars, diskVars, threadVars
    <2>2. fpc # "off" /\ Alive /\ ~Gone /\ UNCHANGED child
      BY <1>2 DEF Client, DaqOpen, NameAnswered, BeginAnswered, SwitchBuffer,
         RolloverAnswered, DataAnswered, Drain, EndAnswered, Broken,
         ServerIdle, GotReply, Alive, Gone
    <2>3. Handed' = Handed
      <3>1. CASE DataAnswered
        <4>1. reply = "ok"
          BY <2>2, <3>1 DEF DataAnswered, GotReply, Inv, DialogueInv, TypeOK, ServerType
        <4> QED
          BY <3>1, <4>1 DEF DataAnswered, GotReply, Handed
      <3>2. CASE SwitchBuffer
        BY <3>2 DEF SwitchBuffer, Call, Handed, TypeOK
      <3>3. CASE ~DataAnswered /\ ~SwitchBuffer
        BY <1>2, <2>2, <3>3 DEF Client, DaqOpen, NameAnswered, BeginAnswered,
           RolloverAnswered, Drain, EndAnswered, Broken, Handed, Call, GotReply, ringVars
      <3> QED
        BY <3>1, <3>2, <3>3
    <2> QED
      BY <2>1, <2>2, <2>3 DEF Inv, OrderInv, Alive, Reached, Written
  <1> QED
    BY <1>1, <1>2

LEMMA OrderServer == TypeOK /\ Inv /\ Server => OrderInv'
  <1> SUFFICES ASSUME TypeOK, Inv, Server, Alive', fpc' # "off" PROVE OrderInv'
    BY DEF OrderInv
  <1>0. UNCHANGED <<fpc, TheRun, Buffer_number, buffer, transport>> /\ Alive
    BY DEF Server, clientVars, ringVars, Receiver, Writer, SendFilename, BeginRun,
       RolloverFile, Receive, Swap, EndRun, WriterLock, WriterWrite, Cut, CutSwap,
       ServerFails, Handle, Alive
  <1>1. CASE Swap
    <2>1. UNCHANGED <<stream, B, write_error>> /\ M_done' /\ ~M_done /\ reply' = "ok"
      BY <1>1 DEF Swap, SwitchBuffers, diskVars, threadVars, Answer
    <2>2. fpc = "send" /\ reply # "ok" /\ B[received] = Unit(transport) 
          /\ buffer[transport].nr = Buffer_number - 1
      BY <1>1 DEF Swap, Inv, DialogueInv, RingInv
    <2>3. Handed = Buffer_number - 2 /\ Handed' = Buffer_number - 1 /\ Buffer_number \in Nat
      BY <1>0, <2>1, <2>2 DEF Handed, TypeOK
    <2>4. Written' = received
      BY <1>1 DEF Swap, SwitchBuffers, Written, TypeOK, ServerType
    <2>5. Reached' = Reached /\ Reached \in Nat
      BY <1>0, <2>1, ReachedNat DEF Reached
    <2>6. Reached <= Handed /\ (~write_error => Reached = Handed)
      BY <1>0, <2>1 DEF Inv, OrderInv
    <2>7. B'[Written'] = [run |-> TheRun', nr |-> Handed', whole |-> TRUE]
      BY <1>0, <2>1, <2>2, <2>3, <2>4 DEF Unit
    <2>8. Reached' < Handed' /\ (~write_error' => Reached' = Handed' - 1)
      BY <2>1, <2>3, <2>5, <2>6
    <2> QED
      BY <2>1, <2>7, <2>8 DEF OrderInv
  <1>2. CASE WriterWrite
    <2>1. ~M_done' /\ Handed' = Handed /\ Handed \in Nat /\ M_done /\ B[Written].nr = Handed
      BY <1>0, <1>2, WritesThisRun DEF WriterWrite, Handed
    <2>2. CASE write_error' /\ UNCHANGED stream
      <3>1. Reached' = Reached /\ Reached \in Nat /\ Reached < Handed
        BY <1>0, <2>1, <2>2, ReachedNat DEF Reached, Inv, OrderInv
      <3> QED
        BY <2>1, <2>2, <3>1 DEF OrderInv
    <2>3. ASSUME NEW f \in Nat, NEW w \in BOOLEAN,
                 stream' = Append(stream, Entry(f, B[Written].nr, w))
          PROVE  OrderInv'
      <3>1. Reached' = Handed
        BY <1>0, <2>1, <2>3, ReachedLemma
      <3> QED
        BY <2>1, <3>1 DEF OrderInv
    <2> QED
      BY <1>2, <2>2, <2>3, WritesThisRun
  <1>3. CASE ~Swap /\ ~WriterWrite
    <2>1. /\ UNCHANGED <<stream, M_done, write_error>>
          /\ fpc = "send" => UNCHANGED reply
          /\ M_done => UNCHANGED <<received, B>> \/ Receive
      BY <1>3 DEF Server, Receiver, Writer, SendFilename, BeginRun, RolloverFile,
         OpenNext, Receive, EndRun, WriterLock, Cut, CutSwap, ServerFails, Handle, lockVars,
         diskVars, threadVars, Inv, DialogueInv, Asked, LockInv, Running, Alive
    <2>2. Receive => received' = received /\ B'[Written] = B[Written]
      BY DEF Receive, Written, TypeOK, ServerType
    <2>3. M_done => B'[Written'] = B[Written]
      BY <2>1, <2>2 DEF Written
    <2>4. Handed' = Handed /\ Reached' = Reached
      BY <1>0, <2>1 DEF Handed, Reached
    <2> QED
      BY <1>0, <2>1, <2>3, <2>4 DEF Inv, OrderInv
  <1> QED
    BY <1>1, <1>2, <1>3

\* Until the run ends the client only adds to what is accepted, and does not
\* touch what the server has.
LEMMA CutClient == TypeOK /\ Inv /\ Client => CutInv'
  <1> SUFFICES ASSUME TypeOK, Inv, Client, child' \in {"cut", "gone"}, fpc' # "off"
               PROVE  CutInv'
    BY DEF CutInv
  <1>1. ~Begin
    BY DEF Begin, Fork, serverVars
  <1>2. ~EndAnswered /\ ~DaqOpen
    BY DEF EndAnswered, DaqOpen
  <1>3. UNCHANGED <<TheRun, stream, child, M_done, B, received>> /\ fpc # "off"
    BY <1>1, <1>2 DEF Client, NameAnswered, BeginAnswered, SwitchBuffer,
       RolloverAnswered, DataAnswered, Drain, Broken, ServerIdle, GotReply, clientVars,
       lockVars, diskVars, Waiting
  <1>4. Accepted <= Accepted' /\ Accepted \in Int /\ Accepted' \in Int
    <2>1. Buffer_number' \in {Buffer_number, Buffer_number + 1} /\ Buffer_number \in Nat
      BY <1>1, <1>2 DEF Client, NameAnswered, BeginAnswered, SwitchBuffer, TypeOK,
         RolloverAnswered, DataAnswered, Drain, Broken, clientVars, ringVars
    <2>2. \/ fpc \in {"name", "begin"}
          \/ fpc' \in {"roll", "send", "fill", "drain", "end"}
      BY <1>1, <1>2 DEF Client, NameAnswered, BeginAnswered, SwitchBuffer, GotReply,
         RolloverAnswered, DataAnswered, Drain, Broken, clientVars, Waiting
    <2>3. fpc \in {"name", "begin"} => Buffer_number = 1
      BY DEF Inv, RingInv
    <2>4. \/ fpc \in {"name", "begin"}
          \/ fpc \in {"roll", "send", "fill", "drain", "end"}
      BY <1>3 DEF TypeOK, FillPC
    <2>5. CASE fpc \in {"name", "begin"}
      <3>1. Buffer_number' \in {1, 2}
        BY <2>1, <2>3, <2>5
      <3> QED
        BY <2>5, <3>1 DEF Accepted
    <2>6. CASE fpc \notin {"name", "begin"}
      <3>1. /\ fpc \in {"roll", "send", "fill", "drain", "end"}
            /\ fpc' \in {"roll", "send", "fill", "drain", "end"}
        BY <2>2, <2>4, <2>6
      <3> QED
        BY <2>1, <3>1 DEF Accepted
    <2> QED
      BY <2>5, <2>6
  <1>5. Reached' = Reached /\ Written' = Written
    BY <1>3 DEF Reached, Written
  <1>6. B[Written].nr \in Nat /\ B[received].nr \in Nat /\ Reached \in Nat
    BY ReachedNat DEF TypeOK, ServerType, UnitType, Written
  <1> QED
    BY <1>3, <1>4, <1>5, <1>6 DEF Inv, CutInv, Coming

LEMMA CutServer == TypeOK /\ Inv /\ Server => CutInv'
  <1> SUFFICES ASSUME TypeOK, Inv, Server, child' \in {"cut", "gone"}, fpc' # "off"
               PROVE  CutInv'
    BY DEF CutInv
  <1>0. UNCHANGED <<fpc, TheRun, Buffer_number, buffer, transport>> /\ fpc # "off"
    BY DEF Server, clientVars, ringVars
  <1>00. Accepted' = Accepted /\ (fpc \in {"roll", "send", "fill", "drain", "end"}
                                    => Accepted = Buffer_number - 1)
    BY <1>0 DEF Accepted
  <1>01. /\ B[Written].nr \in Nat /\ B[received].nr \in Nat /\ Reached \in Nat
         /\ Buffer_number \in Nat /\ received \in {0, 1}
    BY ReachedNat DEF TypeOK, ServerType, UnitType, Written
  <1>1. CASE Cut
    <2>1. Alive /\ Running /\ UNCHANGED <<stream, M_done, received>>
      BY <1>1 DEF Cut, Handle, Alive, Running, lockVars, diskVars
    <2>2. Reached' = Reached /\ Written' = Written
      BY <1>0, <2>1 DEF Reached, Written
    <2>3. B'[Written] = B[Written]
      BY <1>1, <1>01 DEF Cut, Written, TypeOK, ServerType
    <2>4. M_done => fpc \in {"roll", "send", "fill", "drain", "end"}
      BY <1>0, <2>1 DEF Inv, LockInv, TypeOK, FillPC
    <2>5. Handed \in Int /\ (M_done => Handed <= Accepted)
      BY <1>00, <1>01, <2>4 DEF Handed
    <2>6. M_done => Coming(Written) /\ B[Written].nr = Handed
      BY <1>0, <2>1, <2>5, <1>01 DEF Inv, OrderInv, Coming
    <2>7. (M_done => Coming(Written))'
      BY <1>0, <1>00, <2>1, <2>2, <2>3, <2>6 DEF Coming
    <2>8. ASSUME child' = "cut"
          PROVE  Coming(received)' /\ (M_done' => B'[Written'].nr < B'[received'].nr)
      <3>1. /\ fpc = "send" /\ reply = "none" /\ Handed = Buffer_number - 2
            /\ Accepted = Buffer_number - 1 /\ Unit(transport).nr = Buffer_number - 1
            /\ Unit(transport).run = TheRun
        BY <1>1, <1>00, <2>8 DEF Cut, Handle, Inv, DialogueInv, Asked, Handed, RingInv, Unit
      <3>2. B'[received].run = TheRun /\ B'[received].nr = Buffer_number - 1
        <4>1. CASE child = "swap"
          BY <1>1, <3>1, <4>1 DEF Cut, Handle, Inv, DialogueInv
        <4>2. CASE Handle("data")
          <5>1. request.unit = Unit(transport) /\ child = "read"
            BY <4>2 DEF Handle, Inv, DialogueInv
          <5>2. B' = [B EXCEPT ![received] = [request.unit EXCEPT !.whole = FALSE]]
            BY <1>1, <2>8, <5>1 DEF Cut
          <5>3. B'[received] = [request.unit EXCEPT !.whole = FALSE]
            BY <5>2, <1>01 DEF TypeOK, ServerType
          <5>4. request.unit \in UnitType
            BY DEF TypeOK, ServerType
          <5>5. B'[received].run = request.unit.run /\ B'[received].nr = request.unit.nr
            BY <5>3, <5>4 DEF UnitType
          <5> QED
            BY <3>1, <5>1, <5>5
        <4> QED
          BY <1>1, <2>8, <4>1, <4>2 DEF Cut
      <3>3. Reached <= Handed
        BY <1>0, <1>01, <2>1, <3>1 DEF Inv, OrderInv
      <3>4. Reached < Buffer_number - 1 /\ Handed < Buffer_number - 1
        BY <1>01, <3>1, <3>3
      <3>5. Coming(received)'
        BY <1>0, <1>00, <1>01, <2>1, <2>2, <3>1, <3>2, <3>4 DEF Coming
      <3> QED
        BY <2>1, <2>2, <2>3, <2>6, <3>2, <3>4, <3>5
    <2> QED
      BY <2>7, <2>8 DEF CutInv
  <1>2. CASE CutSwap
    <2>1. /\ child = "cut" /\ child' = "gone" /\ UNCHANGED <<stream, B>> /\ Written' = received
      BY <1>2, <1>01 DEF CutSwap, SwitchBuffers, diskVars, Written
    <2>2. Coming(received)
      BY <1>0, <2>1 DEF Inv, CutInv
    <2>3. Coming(Written)'
      BY <1>0, <1>00, <2>1, <2>2 DEF Coming, Reached
    <2> QED
      BY <2>1, <2>3 DEF CutInv
  <1>3. CASE WriterWrite
    <2>1. child' = child /\ ~Alive /\ ~M_done' /\ M_done /\ UNCHANGED <<B, received>>
      BY <1>3, WritesThisRun DEF WriterWrite, Alive
    <2>2. Reached' = Reached \/ Reached' = B[Written].nr
      <3>1. CASE UNCHANGED stream
        BY <1>0, <3>1 DEF Reached
      <3>2. ASSUME NEW f \in Nat, NEW w \in BOOLEAN,
                   stream' = Append(stream, Entry(f, B[Written].nr, w))
            PROVE  Reached' = B[Written].nr
        BY <1>0, <1>01, <3>2, ReachedLemma
      <3> QED
        BY <1>3, <3>1, <3>2, WritesThisRun
    <2>3. child = "cut" => Coming(received) /\ B[Written].nr < B[received].nr
      BY <1>0, <2>1 DEF Inv, CutInv
    <2>4. child = "cut" => Coming(received)'
      BY <1>0, <1>00, <2>1, <2>2, <2>3 DEF Coming
    <2> QED
      BY <2>1, <2>4 DEF CutInv
  <1>4. CASE WriterLock
    <2>1. UNCHANGED <<child, stream, M_done, B, received>>
      BY <1>4 DEF WriterLock, diskVars
    <2> QED
      BY <1>0, <1>00, <2>1 DEF Inv, CutInv, Coming, Reached, Written
  <1> QED
    <2>1. ~(SendFilename \/ BeginRun \/ RolloverFile \/ Receive \/ Swap \/ EndRun \/ ServerFails)
      BY DEF SendFilename, BeginRun, RolloverFile, Receive, Swap, EndRun, ServerFails, Handle
    <2> QED
      BY <2>1, <1>1, <1>2, <1>3, <1>4 DEF Server, Receiver, Writer

---------------------------------------------------------------------------
(* The theorems.                                                           *)

LEMMA InvInit == Init => Inv
  <1> SUFFICES ASSUME Init PROVE Inv
    OBVIOUS
  <1>1. DialogueInv
    BY DEF Init, ServerInit, NoRequest, DialogueInv, Asked, Waiting
  <1>2. LockInv
    BY DEF Init, ServerInit, LockInv, Running
  <1>3. RingInv /\ RunsInv /\ AckInv /\ OrderInv
    BY DEF Init, ServerInit, RingInv, RunsInv, AckInv, OrderInv
  <1>4. StoreInv /\ CutInv
    BY DEF Init, ServerInit, StoreInv, Confirmed, Acked, CutInv
  <1> QED
    BY <1>1, <1>2, <1>3, <1>4 DEF Inv

LEMMA InvStutter == Inv /\ UNCHANGED vars => Inv'
  <1> SUFFICES ASSUME Inv, UNCHANGED vars PROVE Inv'
    OBVIOUS
  <1>1. /\ UNCHANGED <<TheRun, fpc, ending, fill, transport, Buffer_number, buffer, acked>>
        /\ UNCHANGED <<request, reply, child, B, received, M_write, M_done, stream, wpc,
                       write_error>>
    BY DEF vars, serverVars, clientVars, ringVars, lockVars, diskVars, threadVars
  <1>2. DialogueInv' /\ LockInv'
    BY <1>1 DEF Inv, DialogueInv, Asked, Unit, LockInv, Running, Gone
  <1>3. RingInv' /\ RunsInv'
    BY <1>1 DEF Inv, RingInv, RunsInv
  <1>4. AckInv' /\ StoreInv'
    BY <1>1 DEF Inv, AckInv, Answers, Acked, Lost, StoreInv, Confirmed, Stored,
       InWriting, Written, Gone
  <1>5. OrderInv'
    BY <1>1 DEF Inv, OrderInv, Alive, Handed, Reached, Written
  <1>6. CutInv'
    BY <1>1 DEF Inv, CutInv, Coming, Accepted, Reached, Written
  <1> QED
    BY <1>2, <1>3, <1>4, <1>5, <1>6 DEF Inv

LEMMA InvAlways == Spec => []Inv
  <1>1. TypeOK /\ Inv /\ [Next]_vars => Inv'
    <2> SUFFICES ASSUME TypeOK, Inv, [Next]_vars PROVE Inv'
      OBVIOUS
    <2>1. CASE Client
      BY <2>1, DialogueClient, LockClient, RingClient, RunsClient, AckClient,
         StoreClient, OrderClient, CutClient DEF Inv
    <2>2. CASE Server
      <3>1. RingInv'
        BY <2>2 DEF Server, clientVars, ringVars, Inv, RingInv
      <3> QED
        BY <2>2, <3>1, DialogueServer, LockServer, RunsServer, AckServer,
           StoreServer, OrderServer, CutServer DEF Inv
    <2>3. CASE UNCHANGED vars
      BY <2>3, InvStutter
    <2> QED
      BY <2>1, <2>2, <2>3 DEF Next, Done
  <1> QED
    BY <1>1, InvInit, TypeCorrect, PTL DEF Spec

(* Unless a write fails, a crash of the server takes at most one of the
   buffers that rcdaq has seen acknowledged: the one being written. *)
THEOREM OneUnstored == Spec => []AtMostOneUnstored
  <1>1. TypeOK /\ Inv => AtMostOneUnstored
    <2> SUFFICES ASSUME TypeOK, Inv, ~write_error PROVE Cardinality(Missing) <= 1
      BY DEF AtMostOneUnstored
    <2>1. ASSUME NEW a \in Missing PROVE M_done /\ a = B[Written].nr
      <3>1. PICK i \in DOMAIN acked : acked[i].run = TheRun /\ a = acked[i].nr
        BY <2>1 DEF Missing
      <3>2. acked[i] \in AckType
        BY AckLemma
      <3>3. a \in Nat /\ Acked(a)
        BY <3>1, <3>2 DEF AckType, Acked
      <3>4. ~Stored(a)
        BY <2>1 DEF Missing
      <3>5. InWriting(a)
        BY <3>3, <3>4 DEF Inv, StoreInv, Confirmed
      <3> QED
        BY <3>5 DEF InWriting
    <2>2. Missing \subseteq {B[Written].nr}
      BY <2>1
    <2>3. IsFiniteSet({B[Written].nr}) /\ Cardinality({B[Written].nr}) = 1
      BY FS_Singleton
    <2> QED
      BY <2>2, <2>3, FS_Subset
  <1> QED
    BY <1>1, TypeCorrect, InvAlways, PTL

(* daq_end asks the server to close a run only if it has acknowledged every
   buffer of it. *)
THEOREM AllAcked == Spec => []EndedAcked
  <1>1. Inv => EndedAcked
    BY DEF Inv, AckInv, Answers, Acked, EndedAcked
  <1> QED
    BY <1>1, InvAlways, PTL

(* A run whose end the server has acknowledged is on disk completely, unless a
   write failed. *)
THEOREM RunOnDisk == Spec => []RunStored
  <1>1. TypeOK /\ Inv => RunStored
    <2> SUFFICES ASSUME TypeOK, Inv, fpc = "end", reply = "ok", ~write_error,
                        NEW k \in 1 .. Buffer_number - 1
                 PROVE  Stored(k)
      BY DEF RunStored
    <2>1. Acked(k)
      BY DEF Inv, AckInv, Answers
    <2>2. k \in Nat /\ ~M_done
      BY DEF Inv, LockInv, TypeOK
    <2> QED
      BY <2>1, <2>2 DEF Inv, StoreInv, Confirmed, InWriting
  <1> QED
    BY <1>1, TypeCorrect, InvAlways, PTL

---------------------------------------------------------------------------
(* The refinement: a run begins and ends with the client, a unit is        *)
(* accepted when switch_buffer has taken the buffer from the filling       *)
(* thread, and logged when writebuffers has written it.                    *)

Mapped(e) == [run |-> e.run, nr |-> e.nr, whole |-> e.whole]

MappedLog ==
  [i \in DOMAIN stream |->
    [run |-> stream[i].run, nr |-> stream[i].nr, whole |-> stream[i].whole]]

LEMMA MappedType ==
  ASSUME TypeOK
  PROVE  /\ MappedLog \in Seq(UnitType) /\ Len(MappedLog) = Len(stream)
         /\ stream \in Seq(EntryType)
         /\ DOMAIN stream = 1 .. Len(stream) /\ Len(stream) \in Nat
         /\ \A i \in DOMAIN stream : MappedLog[i] = Mapped(stream[i])
  <1>1. stream \in Seq(EntryType)
    BY DEF TypeOK, ServerType
  <1>2. DOMAIN stream = 1 .. Len(stream) /\ Len(stream) \in Nat
    BY <1>1
  <1>3. ASSUME NEW i \in DOMAIN stream
        PROVE  [run |-> stream[i].run, nr |-> stream[i].nr, whole |-> stream[i].whole] \in UnitType
    <2>1. stream[i] \in EntryType
      BY <1>1
    <2> QED
      BY <2>1 DEF EntryType, UnitType
  <1>4. MappedLog \in [1 .. Len(stream) -> UnitType]
    BY <1>2, <1>3 DEF MappedLog
  <1>5. MappedLog \in Seq(UnitType) /\ Len(MappedLog) = Len(stream)
    BY <1>2, <1>4
  <1> QED
    BY <1>1, <1>2, <1>5 DEF MappedLog, Mapped

LEMMA LoggedLemma == TypeOK => Log!Logged = Reached
  <1> SUFFICES ASSUME TypeOK PROVE Log!Logged = Reached
    OBVIOUS
  <1> DEFINE log == MappedLog
  <1>1. stream \in Seq(EntryType) /\ log = MappedLog
    BY MappedType
  <1>2. DOMAIN stream = 1 .. Len(stream) /\ Len(stream) \in Nat
    BY MappedType
  <1>3. log \in Seq(UnitType) /\ Len(log) = Len(stream)
    BY MappedType
  <1>4. log = <<>> <=> stream = <<>>
    BY <1>1, <1>3
  <1>5. stream # <<>> => /\ log[Len(log)].run = stream[Len(stream)].run
                         /\ log[Len(log)].nr = stream[Len(stream)].nr
    BY <1>1, <1>2, <1>3 DEF MappedLog
  <1>6. Log!Logged = IF log = <<>> THEN 0
                     ELSE IF log[Len(log)].run = TheRun THEN log[Len(log)].nr ELSE 0
    BY DEF Log!Logged, MappedLog
  <1> HIDE DEF log
  <1> QED
    BY <1>4, <1>5, <1>6 DEF Reached

LEMMA MappedAppend ==
  ASSUME TypeOK, NEW e \in EntryType, stream' = Append(stream, e)
  PROVE  MappedLog' = Append(MappedLog, Mapped(e))
  <1> DEFINE u == Mapped(e)
             n == Len(stream)
  <1>1. stream \in Seq(EntryType) /\ n \in Nat /\ u \in UnitType
    BY MappedType DEF EntryType, UnitType, Mapped
  <1>2. /\ Len(stream') = n + 1 /\ stream'[n + 1] = e
        /\ \A i \in 1 .. n : stream'[i] = stream[i]
        /\ DOMAIN stream = 1 .. n /\ DOMAIN stream' = 1 .. n + 1
    BY <1>1
  <1>3. MappedLog \in Seq(UnitType) /\ Len(MappedLog) = n
    BY MappedType
  <1>4. \A i \in 1 .. n : MappedLog[i] = Mapped(stream[i])
    BY <1>2, MappedType
  <1>5. MappedLog' = [i \in 1 .. n + 1 |-> Mapped(stream'[i])]
    BY <1>2 DEF MappedLog, Mapped
  <1>6. Append(MappedLog, u) = [i \in 1 .. n + 1 |-> IF i = n + 1 THEN u ELSE MappedLog[i]]
    <2>1. u \in UnitType
      BY <1>1
    <2> HIDE DEF u
    <2>2. Append(MappedLog, u) \in Seq(UnitType) /\ Len(Append(MappedLog, u)) = n + 1
      BY <1>1, <1>3, <2>1
    <2>3. Append(MappedLog, u) \in [1 .. n + 1 -> UnitType]
      BY <2>2, LenProperties
    <2>4. \A i \in 1 .. n + 1 : Append(MappedLog, u)[i] = IF i = n + 1 THEN u ELSE MappedLog[i]
      BY <1>1, <1>3, <2>1
    <2> QED
      BY <2>3, <2>4
  <1>7. ASSUME NEW i \in 1 .. n + 1
        PROVE  Mapped(stream'[i]) = IF i = n + 1 THEN u ELSE MappedLog[i]
    <2>1. CASE i = n + 1
      BY <1>2, <2>1
    <2>2. CASE i # n + 1
      BY <1>1, <1>2, <1>4, <2>2
    <2> QED
      BY <2>1, <2>2
  <1> HIDE DEF u, n
  <1>8. MappedLog' = Append(MappedLog, u)
    BY <1>5, <1>6, <1>7
  <1> QED
    BY <1>8 DEF u

\* Before its first buffer nothing of a run is on disk.
LEMMA NothingYet == TypeOK /\ Inv /\ fpc \in {"name", "begin"} => Reached = 0
  <1> SUFFICES ASSUME TypeOK, Inv, fpc \in {"name", "begin"}, stream # <<>>
               PROVE  stream[Len(stream)].run # TheRun
    BY DEF Reached
  <1>1. Len(stream) \in DOMAIN stream /\ stream[Len(stream)] \in EntryType
    BY DEF TypeOK, ServerType
  <1> QED
    BY <1>1 DEF Inv, RunsInv, EntryType, TypeOK

LEMMA ClientSimulates == TypeOK /\ TypeOK' /\ Inv /\ Client => [Log!Next]_(Log!vars)
  <1> SUFFICES ASSUME TypeOK, TypeOK', Inv, Client PROVE [Log!Next]_(Log!vars)
    OBVIOUS
  <1>1. UNCHANGED stream
    BY DEF Client, Begin, Fork, DaqOpen, NameAnswered, BeginAnswered, SwitchBuffer,
       RolloverAnswered, DataAnswered, Drain, EndAnswered, Broken, Close, ServerIdle,
       serverVars, diskVars
  <1>2. MappedLog' = MappedLog
    BY <1>1 DEF MappedLog
  <1>3. CASE Begin
    <2>1. /\ fpc = "off" /\ TheRun' = TheRun + 1 /\ Accepted = 0
          /\ fpc' \in {"off", "name"} /\ Accepted' = 0
      BY <1>3 DEF Begin, Accepted
    <2>2. CASE fpc' = "off"
      <3>1. Log!RefuseRun
        BY <1>2, <2>1, <2>2 DEF Log!RefuseRun, MappedLog
      <3> QED
        BY <3>1 DEF Log!Next
    <2>3. CASE fpc' = "name"
      <3>1. Log!BeginRun
        BY <1>2, <2>1, <2>3 DEF Log!BeginRun, MappedLog
      <3> QED
        BY <3>1 DEF Log!Next
    <2> QED
      BY <2>1, <2>2, <2>3
  <1>4. CASE SwitchBuffer
    <2>1. /\ fpc = "fill" /\ fpc' \in {"roll", "send"} /\ UNCHANGED TheRun
          /\ Buffer_number' = Buffer_number + 1
      BY <1>4 DEF SwitchBuffer
    <2>2. Accepted' = Accepted + 1
      <3>1. Accepted = Buffer_number - 1
        BY <2>1 DEF Accepted
      <3>2. Accepted' = Buffer_number' - 1
        BY <2>1 DEF Accepted
      <3> QED
        BY <2>1, <3>1, <3>2 DEF TypeOK
    <2>3. Log!Accept
      BY <1>2, <2>1, <2>2 DEF Log!Accept, MappedLog
    <2> QED
      BY <2>3 DEF Log!Next
  <1>5. CASE (NameAnswered \/ BeginAnswered) /\ fpc' = "off"
    <2>1. fpc \in {"name", "begin"} /\ UNCHANGED TheRun /\ Accepted = 0 /\ Accepted' = 0
      BY <1>5 DEF NameAnswered, BeginAnswered, GotReply, Accepted
    <2>2. Log!Logged = 0
      BY <2>1, NothingYet, LoggedLemma
    <2>3. Log!EndRun
      BY <1>2, <1>5, <2>1, <2>2 DEF Log!EndRun, MappedLog
    <2> QED
      BY <2>3 DEF Log!Next
  <1>6. CASE EndAnswered
    <2>1. /\ fpc = "end" /\ reply # "none" /\ fpc' = "off" /\ UNCHANGED TheRun
          /\ Accepted = Buffer_number - 1 /\ Accepted' = 0
      BY <1>6 DEF EndAnswered, GotReply, Accepted
    <2>2. Log!Logged = Accepted \/ Gone \/ write_error
      <3>1. CASE reply = "fail"
        BY <2>1, <3>1 DEF Inv, DialogueInv
      <3>2. CASE reply = "ok"
        <4>1. ~M_done /\ (Alive \/ Gone)
          BY <2>1, <3>2 DEF Inv, LockInv, DialogueInv, TypeOK, ServerType, Alive, Gone
        <4>2. Alive /\ ~write_error => Reached = Buffer_number - 1
          BY <2>1, <4>1 DEF Inv, OrderInv, Handed
        <4> QED
          BY <2>1, <4>1, <4>2, LoggedLemma
      <3> QED
        BY <2>1, <3>1, <3>2 DEF TypeOK, ServerType
    <2>3. Log!EndRun
      BY <1>2, <2>1, <2>2 DEF Log!EndRun, MappedLog
    <2> QED
      BY <2>3 DEF Log!Next
  <1>7. CASE /\ ~Begin /\ ~SwitchBuffer /\ ~EndAnswered
             /\ ~((NameAnswered \/ BeginAnswered) /\ fpc' = "off")
    <2>1. /\ UNCHANGED <<TheRun, Buffer_number>>
          /\ \/ fpc' = fpc
             \/ fpc = "name" /\ fpc' = "begin"
             \/ fpc = "begin" /\ fpc' = "fill"
             \/ fpc \in {"roll", "send", "drain"} /\ fpc' \in {"send", "fill", "drain", "end"}
      BY <1>7 DEF Client, DaqOpen, NameAnswered, BeginAnswered, RolloverAnswered,
         DataAnswered, Drain, Broken, GotReply, ringVars, clientVars
    <2>2. Accepted' = Accepted /\ ((fpc' # "off") <=> (fpc # "off"))
      BY <2>1 DEF Accepted, Inv, RingInv
    <2>3. UNCHANGED Log!vars
      BY <1>2, <2>1, <2>2 DEF Log!vars, MappedLog
    <2> QED
      BY <2>3
  <1> QED
    BY <1>3, <1>4, <1>5, <1>6, <1>7

LEMMA ServerSimulates == TypeOK /\ Inv /\ Server => [Log!Next]_(Log!vars)
  <1> SUFFICES ASSUME TypeOK, Inv, Server PROVE [Log!Next]_(Log!vars)
    OBVIOUS
  <1>1. UNCHANGED <<fpc, TheRun, Buffer_number>>
    BY DEF Server, clientVars, ringVars
  <1>2. Accepted' = Accepted
    BY <1>1 DEF Accepted
  <1>3. CASE UNCHANGED stream
    <2>1. MappedLog' = MappedLog
      BY <1>3 DEF MappedLog
    <2> QED
      BY <1>1, <1>2, <2>1 DEF Log!vars, MappedLog
  <1>4. CASE WriterWrite /\ stream' # stream
    <2> DEFINE k == B[Written].nr
    <2>1. /\ M_done /\ fpc # "off" /\ k \in Nat /\ UNCHANGED child
          /\ fpc \in {"roll", "send", "fill", "drain", "end"}
      BY <1>4, WritesThisRun DEF WriterWrite, TypeOK, FillPC
    <2>2. PICK f \in Nat, w \in BOOLEAN :
             /\ stream' = Append(stream, Entry(f, k, w))
             /\ ~w /\ B[Written].whole => write_error'
      BY <1>4, WritesThisRun
    <2> DEFINE e == Entry(f, k, w)
    <2>3. e \in EntryType /\ e.run = TheRun /\ e.nr = k /\ e.whole = w
      BY <2>1, EntryLemma
    <2>4. MappedLog' = Append(MappedLog, [run |-> TheRun, nr |-> k, whole |-> w])
      <3>1. stream' = Append(stream, e)
        BY <2>2
      <3> HIDE DEF e
      <3> QED
        BY <2>3, <3>1, MappedAppend DEF Mapped
    <2>5. Accepted = Buffer_number - 1 /\ Handed <= Accepted /\ Handed \in Int
      BY <2>1 DEF Accepted, Handed, TypeOK
    <2>6. Reached \in Nat /\ Reached < k /\ k <= Accepted
      <3>1. CASE Alive
        BY <1>4, <2>1, <2>5, <3>1, ReachedNat, WritesThisRun DEF Inv, OrderInv
      <3>2. CASE ~Alive
        BY <1>4, <3>2, ReachedNat, WritesThisRun DEF Coming
      <3> QED
        BY <3>1, <3>2
    <2>7. ~(Gone \/ write_error) => k = Reached + 1
      <3> SUFFICES ASSUME ~Gone, ~write_error PROVE k = Reached + 1
        OBVIOUS
      <3>1. Alive
        BY <1>4 DEF WriterWrite, Running, Alive, Gone
      <3> QED
        BY <1>4, <2>1, <2>5, <2>6, <3>1, WritesThisRun DEF Inv, OrderInv
    <2>8. ~(Gone' \/ write_error') => w
      <3> SUFFICES ASSUME ~Gone', ~write_error' PROVE w
        OBVIOUS
      <3>1. Alive
        BY <1>4, <2>1 DEF WriterWrite, Running, Alive, Gone
      <3> QED
        BY <1>4, <2>2, <3>1, WritesThisRun
    <2>9. k \in Reached + 1 .. Accepted
      BY <2>1, <2>5, <2>6 DEF TypeOK
    <2> HIDE DEF k
    <2>10. Log!LogNext
      BY <1>1, <1>2, <2>1, <2>4, <2>7, <2>8, <2>9, LoggedLemma DEF Log!LogNext, MappedLog
    <2> QED
      BY <2>10 DEF Log!Next
  <1>5. UNCHANGED stream \/ WriterWrite
    BY DEF Server, Receiver, Writer, SendFilename, BeginRun, RolloverFile, OpenNext,
       Receive, Swap, EndRun, WriterLock, Cut, CutSwap, ServerFails, diskVars
  <1> QED
    BY <1>3, <1>4, <1>5

(* A remote log is a log: units reach the disk of the server in the order in
   which they were filled, none twice, and daq_end finds all of them there,
   unless the server died or a write failed. *)
THEOREM RemoteLogIsALog == Spec => ImplementsLog
  <1>1. Init => Log!Init
    BY DEF Init, ServerInit, Log!Init, Accepted
  <1>2. TypeOK /\ TypeOK' /\ Inv /\ [Next]_vars => [Log!Next]_(Log!vars)
    <2> SUFFICES ASSUME TypeOK, TypeOK', Inv, [Next]_vars PROVE [Log!Next]_(Log!vars)
      OBVIOUS
    <2>1. CASE UNCHANGED vars
      BY <2>1 DEF vars, serverVars, clientVars, ringVars, diskVars, Log!vars, Accepted
    <2> QED
      BY <2>1, ClientSimulates, ServerSimulates DEF Next, Done
  <1> QED
    BY <1>1, <1>2, TypeCorrect, InvAlways, PTL DEF Spec, ImplementsLog, Log!Spec

===========================================================================
