---------------------------- MODULE SfsServer ----------------------------
(***************************************************************************)
(* The process that sfs (sfs.cc) forks for a connection: handle_this_child *)
(* serves the requests of one rcdaq_server, and writebuffers, a thread of  *)
(* its own, writes the buffers to disk.  Two buffers change hands: one is  *)
(* received into while the other one is written.  The mutexes M_write and  *)
(* M_done work as a pair of semaphores: M_write is free when there is      *)
(* something to write, M_done when it has been written.                    *)
(*                                                                         *)
(* The connection is a byte stream and its client (RemoteLog) waits for    *)
(* each answer, so at most one request is under way.  When it breaks, the  *)
(* process finds out at the next word of control it reads, and exits; what *)
(* it is doing it does to the end, with whatever it has received.          *)
(***************************************************************************)
EXTENDS Integers, Sequences

CONSTANTS
  OpenMayFail,   \* a file cannot be opened (O_EXCL: it exists already)
  ServerMayFail, \* the child process may exit, and the connection break
  DiskMayFail    \* a write may fail, with a part of the buffer on disk or none

ASSUME ServerAssumption ==
  {OpenMayFail, ServerMayFail, DiskMayFail} \subseteq BOOLEAN

VARIABLES
  request,    \* [op, unit] sent and not yet handled
  reply,      \* answer sent and not yet read: "ok", "fail" or "none"
  child,      \* "none", "read" (next request), "swap" (in CTRL_DATA), or
              \* without a connection "cut" (in CTRL_DATA), "gone" or "dead"
  B,          \* contents of the buffers B0 and B1: [run, nr, whole]
  received,   \* bf_being_received is B[received]; the other is being written
  M_write, M_done, \* TRUE: locked
  output_fd,  \* the open file, numbered as opened; 0: none
  wpc,        \* writebuffers: "wait" for M_write, or "write"
  wfd,        \* the descriptor the thread is writing to
  write_error, \* a buffer has been marked with dirty = -1
  nfiles,     \* files opened so far
  stream      \* what is on disk: sequence of [file, run, nr, whole]

lockVars == <<M_write, M_done>>
diskVars == <<output_fd, nfiles, stream>>
threadVars == <<wpc, wfd, write_error>>
serverVars == <<request, reply, child, B, received, lockVars, diskVars, threadVars>>

Op == {"none", "sendfilename", "beginrun", "data", "rollover", "endrun"}
NoUnit == [run |-> 0, nr |-> 0, whole |-> TRUE]
NoRequest == [op |-> "none", unit |-> NoUnit]
Alive == child \in {"read", "swap"}
Gone == child \in {"cut", "gone", "dead"}
Running == child \in {"read", "swap", "cut", "gone"}
Written == 1 - received

ServerInit ==
  /\ request = NoRequest /\ reply = "none"
  /\ child = "none"
  /\ B = [i \in {0, 1} |-> NoUnit] /\ received = 0
  /\ M_write = TRUE /\ M_done = FALSE
  /\ output_fd = 0 /\ wpc = "wait" /\ wfd = 0 /\ write_error = FALSE
  /\ nfiles = 0 /\ stream = <<>>

\* accept and fork: a new process with a fresh pair of buffers and mutexes.
Fork ==
  /\ child' = "read"
  /\ B' = [i \in {0, 1} |-> NoUnit] /\ received' = 0
  /\ M_write' = TRUE /\ M_done' = FALSE
  /\ output_fd' = 0 /\ wpc' = "wait" /\ wfd' = 0 /\ write_error' = FALSE
  /\ UNCHANGED <<nfiles, stream>>

\* CTRL_CLOSE: the process ends, and with it the writing thread.  (One that has
\* lost its connection never hears of it; it is taken to have exited by then.)
Close ==
  /\ child' = "none" /\ wpc' = "wait"
  /\ UNCHANGED <<B, received, lockVars, diskVars, wfd, write_error>>

---------------------------------------------------------------------------
(* handle_this_child                                                       *)

Handle(op) == child = "read" /\ request.op = op

Answer(ok) ==
  /\ request' = NoRequest
  /\ reply' = IF ok THEN "ok" ELSE "fail"

OpenOutcome == IF OpenMayFail THEN BOOLEAN ELSE {TRUE}

\* The previous file, if one is open, is closed first.
OpenNext(ok) ==
  /\ nfiles' = IF ok THEN nfiles + 1 ELSE nfiles
  /\ output_fd' = IF ok THEN nfiles + 1 ELSE 0
  /\ UNCHANGED stream

\* A name longer than the buffer for it is refused.
SendFilename ==
  /\ Handle("sendfilename")
  /\ \E ok \in OpenOutcome : Answer(ok)
  /\ UNCHANGED <<child, B, received, lockVars, diskVars, threadVars>>

BeginRun ==
  /\ Handle("beginrun")
  /\ \E ok \in OpenOutcome :
       /\ OpenNext(ok) /\ Answer(ok)
       /\ received' = IF ok THEN 0 ELSE received
  /\ UNCHANGED <<child, B, lockVars, threadVars>>

\* Close and open, whether or not the thread is writing.
RolloverFile ==
  /\ Handle("rollover")
  /\ \E ok \in OpenOutcome : OpenNext(ok) /\ Answer(ok)
  /\ UNCHANGED <<child, B, received, lockVars, threadVars>>

\* CTRL_DATA up to pthread_mutex_lock(&M_done).
Receive ==
  /\ Handle("data")
  /\ B' = [B EXCEPT ![received] = request.unit]
  /\ request' = NoRequest
  /\ child' = "swap"
  /\ UNCHANGED <<reply, received, lockVars, diskVars, threadVars>>

BadSwitchBuffers ==  \* does not wait for M_done
  /\ M_done' = TRUE
  /\ received' = Written
  /\ M_write' = FALSE

\* Lock M_done, switch the buffers, unlock M_write.
SwitchBuffers ==
  /\ ~M_done /\ M_done' = TRUE
  /\ received' = Written
  /\ M_write' = FALSE

\* The rest of CTRL_DATA: switch and acknowledge.
Swap ==
  /\ child = "swap"
  /\ SwitchBuffers
  /\ child' = "read"
  /\ Answer(TRUE)
  /\ UNCHANGED <<B, diskVars, threadVars>>

BadEndRun ==  \* does not wait for M_done
  /\ Handle("endrun")
  /\ output_fd' = 0
  /\ Answer(TRUE)
  /\ UNCHANGED <<child, B, received, lockVars, nfiles, stream, threadVars>>

\* Lock M_done, close, acknowledge, unlock.
EndRun ==
  /\ Handle("endrun") /\ ~M_done
  /\ output_fd' = 0
  /\ Answer(TRUE)
  /\ UNCHANGED <<child, B, received, lockVars, nfiles, stream, threadVars>>

\* The connection breaks, and an answer under way may be lost.  CTRL_DATA does
\* not look at what readn says: a transfer that breaks off leaves a buffer with
\* a part of this unit and the rest of an older one.
Cut ==
  /\ ServerMayFail
  /\ \/ /\ Handle("data") /\ child' = "cut"
        /\ B' = [B EXCEPT ![received] = [request.unit EXCEPT !.whole = FALSE]]
     \/ child = "swap" /\ child' = "cut" /\ UNCHANGED B
     \/ child = "read" /\ child' = "gone" /\ UNCHANGED B
  /\ request' = NoRequest
  /\ \E answer \in {reply, "none"} : reply' = answer
  /\ UNCHANGED <<received, lockVars, diskVars, threadVars>>

\* The rest of CTRL_DATA, whose acknowledgement reaches nobody.
CutSwap ==
  /\ child = "cut"
  /\ SwitchBuffers
  /\ child' = "gone"
  /\ UNCHANGED <<request, reply, B, diskVars, threadVars>>

\* The process exits: by an accident, or by cleanup because it cannot read.
ServerFails ==
  /\ ServerMayFail /\ Running
  /\ child' = "dead"
  /\ UNCHANGED <<request, reply, B, received, lockVars, diskVars, threadVars>>

---------------------------------------------------------------------------
(* writebuffers                                                            *)

WriterLock ==
  /\ Running /\ wpc = "wait" /\ ~M_write
  /\ M_write' = TRUE
  /\ wpc' = "write" /\ wfd' = output_fd
  /\ UNCHANGED <<request, reply, child, B, received, M_done, diskVars, write_error>>

\* A descriptor closed by a rollover meanwhile is invalid (0), or is that of
\* the new file.  Nothing reaches the disk through an invalid one; a write that
\* fails leaves nothing there or a part.
Destination(fd) ==
  {f \in {0, output_fd} : f = 0 => DiskMayFail \/ fd # output_fd \/ fd = 0}

\* The error is noted in the buffer, where nobody reads it.
Write ==
  \E f \in Destination(wfd) : \E failed \in {f = 0, f = 0 \/ DiskMayFail} :
    /\ write_error' = (write_error \/ failed)
    /\ stream' = IF f = 0 THEN stream
                 ELSE Append(stream, [file |-> f, run |-> B[Written].run, nr |-> B[Written].nr,
                                      whole |-> B[Written].whole /\ ~failed])

BadWriterWrite ==  \* keeps M_done
  /\ Running /\ wpc = "write"
  /\ Write
  /\ wpc' = "wait"
  /\ UNCHANGED <<request, reply, child, B, received, lockVars, output_fd,
                 nfiles, wfd>>

WriterWrite ==
  /\ Running /\ wpc = "write"
  /\ Write
  /\ M_done' = FALSE
  /\ wpc' = "wait"
  /\ UNCHANGED <<request, reply, child, B, received, M_write, output_fd,
                 nfiles, wfd>>

Receiver ==
  SendFilename \/ BeginRun \/ RolloverFile \/ Receive \/ Swap \/ EndRun \/ CutSwap
Writer == WriterLock \/ WriterWrite

===========================================================================
