---------------------------- MODULE BufferRing ----------------------------
(***************************************************************************)
(* The ring of data buffers and the threads that write them to a local     *)
(* file: switch_buffer, daq_begin and daq_end in rcdaq.cc, writeout,       *)
(* Wait_for_free and Wait_for_Completion in daqBuffer.cc.                  *)
(*                                                                         *)
(* One thread at a time fills buffers (the event loop, or whoever runs     *)
(* daq_begin / daq_end: module RunControl is about who that is).  When a   *)
(* buffer is full the filler moves to the next one of the ring and starts  *)
(* a thread that writes the full one.  Nothing but the flags busy and      *)
(* dirty of the buffers, and the mutex FdManagementSem, orders the writers *)
(* with respect to each other and to the filler.                           *)
(*                                                                         *)
(* Data: a buffer is its number (_my_buffernr = Bufseq) and its run        *)
(* number; it holds the events of one unit, so its last event number is    *)
(* its buffer number, and its length is 1.  Logging to a remote server,    *)
(* where switch_buffer sends the buffer itself, is module RemoteLog.       *)
(***************************************************************************)
EXTENDS Integers, Sequences, FiniteSets

CONSTANTS
  NumBuffers,    \* daqBufferVector.size(), daq_set_number_of_write_threads
  Writers,       \* pool of writer threads; bounds how many exist at a time
  Compressed,    \* wants_compression
  MergedStores,  \* the build makes "_busy = 0; _dirty = 0" one store
  PatientWaits,  \* no 20 s guard of a wait ever expires
  OpenMayFail,   \* open() of an output file may fail
  MayBreak,      \* slots whose buffer may be _broken: no memory for LZO
  MaxFailures,   \* bound: write()s that fail (a full disk, ...)
  RolloverLimit, \* in buffers; 0: no rollover
  MaxBuffers,    \* bound: buffers of one run
  MaxRuns        \* bound: runs

ASSUME RingAssumption ==
  /\ NumBuffers \in Nat /\ NumBuffers >= 2
  /\ Compressed \in BOOLEAN /\ MergedStores \in BOOLEAN
  /\ PatientWaits \in BOOLEAN /\ OpenMayFail \in BOOLEAN
  /\ MayBreak \subseteq 0 .. NumBuffers - 1 /\ MaxFailures \in Nat
  /\ RolloverLimit \in Nat /\ MaxBuffers \in Nat \ {0} /\ MaxRuns \in Nat \ {0}

ASSUME NoThreadAssumption == "none" \notin Writers

Slot == 0 .. NumBuffers - 1
BadSucc(s) == IF s = NumBuffers THEN 0 ELSE s + 1      \* wraps one too late
Succ(s) == IF s = NumBuffers - 1 THEN 0 ELSE s + 1   \* next in the ring
Prev(s) == IF s = 0 THEN NumBuffers - 1 ELSE s - 1   \* previousBuffer

VARIABLES
  TheRun,        \* run number
  fpc,           \* where the filling thread is, see below
  ending,        \* the current switch_buffer is daq_end's, flag = 0
  fill,          \* currentFillBuffernr
  transport,     \* currentTransportBuffernr
  Buffer_number,
  buffer,        \* [Slot -> [nr, run, last, busy, dirty]]
  broken,        \* slots whose buffer is _broken
  writer,        \* [Writers -> [pc, slot, fd]]
  fdOwner,       \* holder of FdManagementSem, or "none"
  outfile_fd,    \* the open file, 0 if there is none
  nfiles,        \* files opened so far; files are numbered as they are opened
  BytesInThisFile,
  lastWritten,   \* last_written_buffernr, a slot
  firstEvent,    \* Event_number_at_last_open
  stream,        \* the buffers that writers have passed to writen, in order:
                 \* sequence of [file, run, nr, failed]
  reports        \* "update" reports of daq_generate_json: [file, first, last]

ringVars == <<fill, transport, Buffer_number, buffer>>
fileVars == <<outfile_fd, nfiles, BytesInThisFile, firstEvent, reports>>
vars == <<TheRun, fpc, ending, ringVars, broken, writer, fdOwner, fileVars,
          lastWritten, stream>>

(***************************************************************************)
(* fpc: "off" no run; "fill" events go to buffer[fill]; "free" switch_     *)
(* buffer waits for the new fill buffer; "roll" it checks the file size;   *)
(* "start" it hands the transport buffer to a writer; "drain" daq_end      *)
(* waits for the writers.                                                  *)
(* writer pc: "none" no thread; "compress", "waitprev" (compressed mode    *)
(* only); "waitfd" before getCurrentOutputFD; "write" holds the mutex;     *)
(* "tail" has released it; "stale" has cleared busy but not yet dirty.     *)
(***************************************************************************)
FillPC == {"off", "fill", "free", "roll", "start", "drain"}
WriterPC == {"none", "compress", "waitprev", "waitfd", "write", "tail", "stale"}

NoWriter == [pc |-> "none", slot |-> 0, fd |-> 0]
Idle(t) == writer[t].pc = "none"

Init ==
  /\ TheRun = 0
  /\ fpc = "off" /\ ending = FALSE
  /\ fill = 0 /\ transport = 0
  /\ Buffer_number = 0
  /\ buffer = [s \in Slot |-> [nr |-> s + 1, run |-> 0, last |-> 0,
                               busy |-> FALSE, dirty |-> FALSE]]
  /\ broken \in SUBSET MayBreak
  /\ writer = [t \in Writers |-> NoWriter]
  /\ fdOwner = "none"
  /\ outfile_fd = 0 /\ nfiles = 0 /\ BytesInThisFile = 0
  /\ firstEvent = 0
  /\ reports = <<>>
  /\ lastWritten = 0
  /\ stream = <<>>

---------------------------------------------------------------------------
(* Filling thread.                                                         *)

OpenOutcome == IF OpenMayFail THEN BOOLEAN ELSE {TRUE}

(* Operators named Bad... are the next definition with a plausible mistake
   in it.  No specification uses them; they serve to check that the
   properties below notice the mistake. *)

BadPrepared(b, nr, run, dirty) == [b EXCEPT !.nr = nr, !.run = run]

\* prepare_next(nr, run) and setDirty(dirty): _lastEventNumber is kept.
Prepared(b, nr, run, dirty) ==
  [b EXCEPT !.nr = nr, !.run = run, !.dirty = dirty \/ @]

\* daq_begin up to the begin-run event: open the file, buffer 1 in slot 0.
Begin ==
  /\ fpc = "off" /\ TheRun < MaxRuns
  /\ TheRun' = TheRun + 1
  /\ Buffer_number' = 1
  /\ fill' = 0 /\ transport' = 0
  /\ BytesInThisFile' = 0
  /\ \/ /\ nfiles' = nfiles + 1 /\ outfile_fd' = nfiles + 1
        /\ firstEvent' = 1
        /\ buffer' = [buffer EXCEPT ![0] = Prepared(@, 1, TheRun + 1, TRUE)]
        /\ fpc' = "fill"
     \/ /\ OpenMayFail                   \* "Run not started"
        /\ outfile_fd' = 0
        /\ firstEvent' = 0
        /\ UNCHANGED <<nfiles, buffer, fpc>>
  /\ UNCHANGED <<ending, writer, fdOwner, reports, lastWritten, stream>>

\* switch_buffer up to the wait: end of buffer, advance in the ring.
\* readout calls it when an event does not fit or the buffer is old;
\* daq_end calls it once with flag 0.
SwitchBuffer ==
  /\ fpc = "fill"
  /\ \/ Buffer_number < MaxBuffers /\ ending' = FALSE
     \/ ending' = TRUE
  /\ buffer' = [buffer EXCEPT ![fill].last = buffer[fill].nr]
  /\ transport' = fill
  /\ fill' = Succ(fill)
  /\ fpc' = "free"
  /\ UNCHANGED <<TheRun, Buffer_number, writer, fdOwner, fileVars,
                 lastWritten, stream>>

BadRecycle ==  \* no Wait_for_free
  /\ fpc = "free"
  /\ Buffer_number' = Buffer_number + 1
  /\ buffer' = [buffer EXCEPT ![fill] =
                  Prepared(@, Buffer_number + 1, TheRun, ~ending)]
  /\ fpc' = "roll"
  /\ UNCHANGED <<TheRun, ending, fill, transport, writer, fdOwner, fileVars,
                 lastWritten, stream>>

BadRecycleDirty ==  \* setDirty(1) whatever the flag
  /\ fpc = "free"
  /\ ~buffer[fill].busy \/ ~PatientWaits
  /\ Buffer_number' = Buffer_number + 1
  /\ buffer' = [buffer EXCEPT ![fill] =
                  Prepared(@, Buffer_number + 1, TheRun, TRUE)]
  /\ fpc' = "roll"
  /\ UNCHANGED <<TheRun, ending, fill, transport, writer, fdOwner, fileVars,
                 lastWritten, stream>>

\* Wait_for_free, then prepare_next and, unless the run ends, setDirty(1).
Recycle ==
  /\ fpc = "free"
  /\ ~buffer[fill].busy \/ ~PatientWaits
  /\ Buffer_number' = Buffer_number + 1
  /\ buffer' = [buffer EXCEPT ![fill] =
                  Prepared(@, Buffer_number + 1, TheRun, ~ending)]
  /\ fpc' = "roll"
  /\ UNCHANGED <<TheRun, ending, fill, transport, writer, fdOwner, fileVars,
                 lastWritten, stream>>

BadRolloverDue == RolloverLimit > 0 /\ BytesInThisFile > RolloverLimit

RolloverDue == RolloverLimit > 0 /\ 1 + BytesInThisFile > RolloverLimit

KeepFile ==
  /\ fpc = "roll" /\ ~RolloverDue
  /\ fpc' = "start"
  /\ UNCHANGED <<TheRun, ending, ringVars, writer, fdOwner, fileVars,
                 lastWritten, stream>>

BadReport == [file |-> outfile_fd, first |-> firstEvent,
              last |-> buffer[transport].last]

Report == [file |-> outfile_fd, first |-> firstEvent,
           last |-> buffer[lastWritten].last]

BadRollover ==  \* without FdManagementSem
  /\ fpc = "roll" /\ RolloverDue
  /\ reports' = Append(reports, Report)
  /\ firstEvent' = buffer[lastWritten].last + 1
  /\ \E ok \in OpenOutcome :
       /\ nfiles' = IF ok THEN nfiles + 1 ELSE nfiles
       /\ outfile_fd' = IF ok THEN nfiles + 1 ELSE 0
  /\ BytesInThisFile' = 0
  /\ fpc' = "start"
  /\ UNCHANGED <<TheRun, ending, ringVars, writer, fdOwner, lastWritten, stream>>

\* Close the file and open the next one, all under FdManagementSem.  A
\* failed open leaves 0, the descriptor of standard input, behind.
Rollover ==
  /\ fpc = "roll" /\ RolloverDue /\ fdOwner = "none"
  /\ reports' = Append(reports, Report)
  /\ firstEvent' = buffer[lastWritten].last + 1
  /\ \E ok \in OpenOutcome :
       /\ nfiles' = IF ok THEN nfiles + 1 ELSE nfiles
       /\ outfile_fd' = IF ok THEN nfiles + 1 ELSE 0
  /\ BytesInThisFile' = 0
  /\ fpc' = "start"
  /\ UNCHANGED <<TheRun, ending, ringVars, writer, fdOwner, lastWritten, stream>>

AfterSwitch == fpc' = IF ending THEN "drain" ELSE "fill"

\* start_writeout_thread for the transport buffer.  The thread of a broken
\* buffer returns at once, and leaves busy and dirty as they are.
StartWriter(t) ==
  /\ fpc = "start" /\ outfile_fd # 0 /\ Idle(t)
  /\ buffer' = [buffer EXCEPT ![transport].busy = TRUE]
  /\ writer' = IF transport \in broken THEN writer
               ELSE [writer EXCEPT ![t] =
                       [pc |-> IF Compressed THEN "compress" ELSE "waitfd",
                        slot |-> transport, fd |-> 0]]
  /\ AfterSwitch
  /\ UNCHANGED <<TheRun, ending, fill, transport, Buffer_number, fdOwner,
                 fileVars, lastWritten, stream>>

\* No output file: setDirty(0), the buffer is dropped.
DropBuffer ==
  /\ fpc = "start" /\ outfile_fd = 0
  /\ buffer' = [buffer EXCEPT ![transport].dirty = FALSE]
  /\ AfterSwitch
  /\ UNCHANGED <<TheRun, ending, fill, transport, Buffer_number, writer,
                 fdOwner, fileVars, lastWritten, stream>>

\* The end of daq_end: once no buffer is dirty, close the file (if it is
\* open) and reset the counters.  FdManagementSem is not taken.
End ==
  /\ fpc = "drain"
  /\ \A s \in Slot : ~buffer[s].dirty
  /\ reports' = IF outfile_fd # 0 THEN Append(reports, Report) ELSE reports
  /\ outfile_fd' = 0
  /\ BytesInThisFile' = 0
  /\ Buffer_number' = 0
  /\ fpc' = "off"
  /\ UNCHANGED <<TheRun, ending, fill, transport, buffer, writer, fdOwner,
                 nfiles, firstEvent, lastWritten, stream>>

---------------------------------------------------------------------------
(* Writer threads: writeout.                                               *)

Step(t, from, to) ==
  /\ writer[t].pc = from
  /\ writer' = [writer EXCEPT ![t].pc = to]

Compress(t) ==
  /\ Step(t, "compress", "waitprev")
  /\ UNCHANGED <<TheRun, fpc, ending, ringVars, fdOwner, fileVars,
                 lastWritten, stream>>

BadPrevDone(s) == TRUE  \* the wait commented out

\* previousBuffer->Wait_for_Completion(_my_buffernr)
PrevDone(s) ==
  \/ buffer[s].nr < buffer[Prev(s)].nr
  \/ ~buffer[Prev(s)].busy
  \/ ~PatientWaits

WaitPrevious(t) ==
  /\ PrevDone(writer[t].slot)
  /\ Step(t, "waitprev", "waitfd")
  /\ UNCHANGED <<TheRun, fpc, ending, ringVars, fdOwner, fileVars,
                 lastWritten, stream>>

BadAcquireFd(t) ==  \* returns outfile_fd without the lock
  /\ writer[t].pc = "waitfd"
  /\ fdOwner' = t
  /\ writer' = [writer EXCEPT ![t].pc = "write", ![t].fd = outfile_fd]
  /\ UNCHANGED <<TheRun, fpc, ending, ringVars, fileVars, lastWritten, stream>>

\* getCurrentOutputFD: lock FdManagementSem, return outfile_fd.
AcquireFd(t) ==
  /\ writer[t].pc = "waitfd" /\ fdOwner = "none"
  /\ fdOwner' = t
  /\ writer' = [writer EXCEPT ![t].pc = "write", ![t].fd = outfile_fd]
  /\ UNCHANGED <<TheRun, fpc, ending, ringVars, fileVars, lastWritten, stream>>

\* Where a write to descriptor fd goes.  A descriptor that daq_end closed
\* meanwhile is nobody's (0), or the next run's file got the same number.
Destination(fd) == IF fd = outfile_fd THEN {fd} ELSE {0, outfile_fd}

\* Whether writen returns 0 instead of the length: always on a closed
\* descriptor, otherwise when write() fails.
Outcome(fd, f) ==
  IF f = 0 /\ fd # 0 THEN {TRUE}
  ELSE {failed \in BOOLEAN :
          failed => Cardinality({i \in DOMAIN stream : stream[i].failed}) < MaxFailures}

\* writen to the descriptor obtained, UpdateFileSizes with what it returns,
\* UpdateLastWrittenBuffernr, releaseOutputFD.  Of a failed write there may be
\* a part in the file; the buffer is not written again.
WriteAndRelease(t) ==
  LET s == writer[t].slot IN
  /\ Step(t, "write", "tail")
  /\ fdOwner' = "none"
  /\ \E f \in Destination(writer[t].fd) : \E failed \in Outcome(writer[t].fd, f) :
       /\ stream' = Append(stream, [file |-> f, run |-> buffer[s].run,
                                    nr |-> buffer[s].nr, failed |-> failed])
       /\ BytesInThisFile' = IF failed THEN BytesInThisFile ELSE BytesInThisFile + 1
  /\ lastWritten' = s
  /\ UNCHANGED <<TheRun, fpc, ending, ringVars, outfile_fd, nfiles,
                 firstEvent, reports>>

\* _busy = 0; _dirty = 0; merged into one store ...
Finish(t) ==
  /\ MergedStores /\ Step(t, "tail", "none")
  /\ buffer' = [buffer EXCEPT ![writer[t].slot].busy = FALSE,
                              ![writer[t].slot].dirty = FALSE]
  /\ UNCHANGED <<TheRun, fpc, ending, fill, transport, Buffer_number, fdOwner,
                 fileVars, lastWritten, stream>>

\* ... or two stores.
ClearBusy(t) ==
  /\ ~MergedStores /\ Step(t, "tail", "stale")
  /\ buffer' = [buffer EXCEPT ![writer[t].slot].busy = FALSE]
  /\ UNCHANGED <<TheRun, fpc, ending, fill, transport, Buffer_number, fdOwner,
                 fileVars, lastWritten, stream>>

ClearDirty(t) ==
  /\ Step(t, "stale", "none")
  /\ buffer' = [buffer EXCEPT ![writer[t].slot].dirty = FALSE]
  /\ UNCHANGED <<TheRun, fpc, ending, fill, transport, Buffer_number, fdOwner,
                 fileVars, lastWritten, stream>>

WriterStep(t) ==
  \/ Compress(t) \/ WaitPrevious(t) \/ AcquireFd(t) \/ WriteAndRelease(t)
  \/ Finish(t) \/ ClearBusy(t) \/ ClearDirty(t)

FillStep ==
  \/ Begin \/ SwitchBuffer \/ Recycle \/ KeepFile \/ Rollover
  \/ (\E t \in Writers : StartWriter(t)) \/ DropBuffer \/ End

\* Every thread is gone, and the bound MaxRuns is reached or daq_end waits for
\* a broken buffer.
Done ==
  /\ \/ fpc = "off" /\ TheRun = MaxRuns
     \/ fpc = "drain" /\ \E s \in broken : buffer[s].dirty
  /\ \A t \in Writers : Idle(t)
  /\ UNCHANGED vars

Next ==
  \/ (FillStep \/ (\E t \in Writers : WriterStep(t))) /\ UNCHANGED broken
  \/ Done

Spec == Init /\ [][Next]_vars

\* A started thread is scheduled, and the filler gets out of a switch_buffer
\* and a daq_end it has entered as soon as what it waits for holds.  No new
\* data and no new run need ever come.
Fairness ==
  /\ \A t \in Writers : WF_vars(WriterStep(t) /\ UNCHANGED broken)
  /\ WF_vars(FillStep /\ UNCHANGED broken /\ fpc \notin {"off", "fill"})

FairSpec == Spec /\ Fairness

---------------------------------------------------------------------------
(* Properties.                                                             *)

PreWrite == {"compress", "waitprev", "waitfd", "write"}

BufferType == [nr : Nat, run : Nat, last : Nat, busy : BOOLEAN, dirty : BOOLEAN]
WriterType == [pc : WriterPC, slot : Slot, fd : Nat]
EntryType == [file : Nat, run : Nat, nr : Nat, failed : BOOLEAN]
ReportType == [file : Nat, first : Nat, last : Nat]

\* Every variable has its type.
TypeOK ==
  /\ TheRun \in Nat
  /\ fpc \in FillPC /\ ending \in BOOLEAN
  /\ fill \in Slot /\ transport \in Slot
  /\ Buffer_number \in Nat
  /\ buffer \in [Slot -> BufferType] /\ broken \subseteq MayBreak
  /\ writer \in [Writers -> WriterType]
  /\ fdOwner \in Writers \cup {"none"}
  /\ outfile_fd \in Nat /\ nfiles \in Nat /\ BytesInThisFile \in Nat
  /\ firstEvent \in Nat
  /\ reports \in Seq(ReportType)
  /\ lastWritten \in Slot
  /\ stream \in Seq(EntryType)

\* Two writers never hold an output descriptor at the same time.
FdMutex ==
  \A t, u \in Writers :
    writer[t].pc = "write" /\ writer[u].pc = "write" => t = u

\* While a writer writes, the descriptor it obtained is still the open file:
\* neither the rollover in switch_buffer nor the close in daq_end, which
\* does not take FdManagementSem, pulls it away.
FdStable ==
  \A t \in Writers : writer[t].pc = "write" => writer[t].fd = outfile_fd

\* No buffer that still has to be written is being filled again: this is
\* what Wait_for_free is for.
NoFillWhileWriting ==
  \A t \in Writers : writer[t].pc \in PreWrite =>
    fpc # "off" /\ (writer[t].slot = fill => fpc = "free")

\* The begin-run event is the first event of a run in the data stream:
\* nothing of a run is passed to writen before its first buffer.
BeginRunFirst ==
  \A i \in DOMAIN stream :
    \E j \in 1 .. i : stream[j].run = stream[i].run /\ stream[j].nr = 1

\* When daq_end sees no dirty buffer and closes the file, every buffer of the
\* run is in one of its files, the end-run event's included, but for those
\* whose own write() failed while the file was open.
Drained == fpc = "drain" /\ \A s \in Slot : ~buffer[s].dirty

CloseComplete ==
  Drained /\ outfile_fd # 0 =>
    \A k \in 1 .. Buffer_number - 1 :
      \E i \in DOMAIN stream :
        /\ stream[i].run = TheRun /\ stream[i].nr = k /\ stream[i].file # 0
        /\ stream[i].failed => MaxFailures > 0

\* A file gets buffers of one run only, and its "update" report names exactly
\* the events of those that were written to it (FirstEventNr, LastEventNr,
\* NrEvents), successfully or not.
InFile(f) == {i \in DOMAIN stream : stream[i].file = f}

ReportsMatch ==
  \A j \in DOMAIN reports :
    LET r == reports[j] IN
    /\ {stream[i].nr : i \in InFile(r.file)} = r.first .. r.last
    /\ \A i, k \in InFile(r.file) : stream[i].run = stream[k].run

\* The size check in switch_buffer does not see the buffers still under way:
\* a file may exceed the rollover limit by those, at most one per buffer of
\* the ring other than the two being switched.
Stored(f) == {i \in InFile(f) : ~stream[i].failed}

RolloverBound ==
  RolloverLimit > 0 =>
    \A f \in 1 .. nfiles : Cardinality(Stored(f)) <= RolloverLimit + NumBuffers - 2

\* The ring implements the log of RunLog: a unit is accepted when
\* switch_buffer leaves it, logged when its writer writes it.  If write() may
\* fail, a unit may be logged incompletely, but never be left out.
Accepted ==
  CASE fpc = "free" -> Buffer_number
    [] fpc \in {"fill", "roll", "start", "drain"} -> Buffer_number - 1
    [] OTHER -> 0

Log == INSTANCE RunLog WITH
  lossy <- FALSE,
  faulty <- MaxFailures > 0,
  run <- TheRun,
  active <- fpc # "off",
  accepted <- Accepted,
  log <- [i \in DOMAIN stream |->
            [run |-> stream[i].run, nr |-> stream[i].nr,
             whole |-> stream[i].file # 0 /\ ~stream[i].failed]]

ImplementsLog == Log!Spec

\* daq_end's wait for the dirty flags ends, unless the run has used a broken
\* buffer: nobody will ever clear its flag.
EndCompletes ==
  fpc = "drain" ~> fpc = "off" \/ \E s \in broken : buffer[s].dirty

===========================================================================
