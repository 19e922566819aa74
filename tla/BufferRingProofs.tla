------------------------- MODULE BufferRingProofs -------------------------
(***************************************************************************)
(* Theorems about BufferRing, for every number of buffers, every pool of   *)
(* threads and every bound.                                                *)
(***************************************************************************)
EXTENDS BufferRing, FiniteSetTheorems, SequenceTheorems, TLAPS

---------------------------------------------------------------------------
(* The ring.                                                               *)

LEMMA RingLemma ==
  ASSUME NEW s \in Slot
  PROVE  /\ Succ(s) \in Slot /\ Prev(s) \in Slot
         /\ Succ(s) # s
         /\ Prev(Succ(s)) = s
         /\ Succ(Prev(s)) = s
  BY RingAssumption DEF Slot, Succ, Prev

LEMMA ZeroSlot == 0 \in Slot
  BY RingAssumption DEF Slot

---------------------------------------------------------------------------
(* Type correctness.                                                       *)

LEMMA ReportType1 == TypeOK => Report \in ReportType
  BY DEF TypeOK, Report, ReportType, BufferType

LEMMA PreparedType ==
  ASSUME NEW b \in BufferType, NEW nr \in Nat, NEW run \in Nat,
         NEW dirty \in BOOLEAN
  PROVE  Prepared(b, nr, run, dirty) \in BufferType
  BY DEF Prepared, BufferType

LEMMA FillStepType == TypeOK /\ FillStep /\ UNCHANGED broken => TypeOK'
  <1> SUFFICES ASSUME TypeOK, FillStep, UNCHANGED broken PROVE TypeOK'
    OBVIOUS
  <1> USE ZeroSlot
  <1>1. CASE Begin
    <2>1. Prepared(buffer[0], 1, TheRun + 1, TRUE) \in BufferType
      <3>1. buffer[0] \in BufferType /\ TheRun + 1 \in Nat
        BY DEF TypeOK
      <3> QED
        BY <3>1, PreparedType
    <2> QED
      BY <1>1, <2>1 DEF Begin, TypeOK, FillPC
  <1>2. CASE SwitchBuffer
    <2>1. [buffer[fill] EXCEPT !.last = buffer[fill].nr] \in BufferType
      BY DEF TypeOK, BufferType
    <2> QED
      BY <1>2, <2>1, RingLemma DEF SwitchBuffer, TypeOK, FillPC, fileVars
  <1>3. CASE Recycle
    <2>1. Prepared(buffer[fill], Buffer_number + 1, TheRun, ~ending) \in BufferType
      <3>1. buffer[fill] \in BufferType /\ Buffer_number + 1 \in Nat
            /\ TheRun \in Nat /\ (~ending) \in BOOLEAN
        BY DEF TypeOK
      <3> QED
        BY <3>1, PreparedType
    <2> QED
      BY <1>3, <2>1 DEF Recycle, TypeOK, FillPC, fileVars
  <1>4. CASE KeepFile
    BY <1>4 DEF KeepFile, TypeOK, FillPC, fileVars, ringVars
  <1>5. CASE Rollover
    <2>1. Append(reports, Report) \in Seq(ReportType)
      BY ReportType1 DEF TypeOK
    <2>2. buffer[lastWritten].last + 1 \in Nat
      BY DEF TypeOK, BufferType
    <2> QED
      BY <1>5, <2>1, <2>2 DEF Rollover, TypeOK, FillPC, ringVars
  <1>6. ASSUME NEW t \in Writers, StartWriter(t) PROVE TypeOK'
    <2>1. [buffer[transport] EXCEPT !.busy = TRUE] \in BufferType
      BY DEF TypeOK, BufferType
    <2>2. [pc |-> IF Compressed THEN "compress" ELSE "waitfd",
           slot |-> transport, fd |-> 0] \in WriterType
      BY DEF TypeOK, WriterType, WriterPC
    <2>3. writer' \in [Writers -> WriterType]
      BY <1>6, <2>2 DEF StartWriter, TypeOK
    <2> QED
      BY <1>6, <2>1, <2>3 DEF StartWriter, AfterSwitch, TypeOK, FillPC, fileVars
  <1>7. CASE DropBuffer
    <2>1. [buffer[transport] EXCEPT !.dirty = FALSE] \in BufferType
      BY DEF TypeOK, BufferType
    <2> QED
      BY <1>7, <2>1 DEF DropBuffer, AfterSwitch, TypeOK, FillPC, fileVars
  <1>8. CASE End
    <2>1. Append(reports, Report) \in Seq(ReportType)
      BY ReportType1 DEF TypeOK
    <2> QED
      BY <1>8, <2>1 DEF End, TypeOK, FillPC
  <1> QED
    BY <1>1, <1>2, <1>3, <1>4, <1>5, <1>6, <1>7, <1>8 DEF FillStep

LEMMA StepType ==
  ASSUME TypeOK, NEW t \in Writers, NEW from, NEW to \in WriterPC,
         Step(t, from, to)
  PROVE  writer' \in [Writers -> WriterType]
  <1>1. [writer[t] EXCEPT !.pc = to] \in WriterType
    BY DEF TypeOK, WriterType
  <1> QED
    BY <1>1 DEF Step, TypeOK

LEMMA StepKeeps ==
  ASSUME TypeOK, NEW t \in Writers, NEW from, NEW to, Step(t, from, to)
  PROVE  /\ writer[t].pc = from /\ writer'[t].pc = to
         /\ \A u \in Writers : /\ writer'[u].slot = writer[u].slot
                               /\ writer'[u].fd = writer[u].fd
                               /\ u # t => writer'[u].pc = writer[u].pc
  BY DEF Step, TypeOK, WriterType

LEMMA WriterStepType ==
  ASSUME TypeOK, NEW t \in Writers, WriterStep(t), UNCHANGED broken
  PROVE  TypeOK'
  <1>1. CASE Compress(t)
    BY <1>1, StepType DEF Compress, TypeOK, ringVars, fileVars, WriterPC
  <1>2. CASE WaitPrevious(t)
    BY <1>2, StepType DEF WaitPrevious, TypeOK, ringVars, fileVars, WriterPC
  <1>3. CASE AcquireFd(t)
    <2>1. [writer[t] EXCEPT !.pc = "write", !.fd = outfile_fd] \in WriterType
      BY DEF TypeOK, WriterType, WriterPC
    <2> QED
      BY <1>3, <2>1 DEF AcquireFd, TypeOK, ringVars, fileVars
  <1>4. CASE WriteAndRelease(t)
    <2>1. writer' \in [Writers -> WriterType]
      BY <1>4, StepType DEF WriteAndRelease, WriterPC
    <2>2. stream' \in Seq(EntryType) /\ BytesInThisFile' \in Nat
      <3>1. PICK f \in Destination(writer[t].fd), failed \in BOOLEAN :
              /\ stream' = Append(stream, [file |-> f,
                                           run |-> buffer[writer[t].slot].run,
                                           nr |-> buffer[writer[t].slot].nr,
                                           failed |-> failed])
              /\ BytesInThisFile' = IF failed THEN BytesInThisFile ELSE BytesInThisFile + 1
        BY <1>4 DEF WriteAndRelease, Outcome
      <3>2. f \in Nat
        BY DEF TypeOK, WriterType, Destination
      <3>3. [file |-> f, run |-> buffer[writer[t].slot].run,
             nr |-> buffer[writer[t].slot].nr, failed |-> failed] \in EntryType
        BY <3>2 DEF TypeOK, WriterType, BufferType, EntryType
      <3>4. stream' \in Seq(EntryType)
        BY <3>1, <3>3 DEF TypeOK
      <3>5. BytesInThisFile' \in Nat
        BY <3>1 DEF TypeOK
      <3> QED
        BY <3>4, <3>5
    <2>3. writer[t].slot \in Slot
      BY DEF TypeOK, WriterType
    <2> QED
      BY <1>4, <2>1, <2>2, <2>3 DEF WriteAndRelease, TypeOK, ringVars
  <1>5. CASE Finish(t)
    <2>1. writer' \in [Writers -> WriterType]
      BY <1>5, StepType DEF Finish, WriterPC
    <2>2. [buffer[writer[t].slot] EXCEPT !.busy = FALSE, !.dirty = FALSE]
            \in BufferType
      <3>1. buffer[writer[t].slot] \in BufferType
        BY DEF TypeOK, WriterType
      <3> QED
        BY <3>1 DEF BufferType
    <2>3. buffer' \in [Slot -> BufferType]
      BY <1>5, <2>2 DEF Finish, TypeOK, BufferType
    <2> QED
      BY <1>5, <2>1, <2>3 DEF Finish, TypeOK, fileVars
  <1>6. CASE ClearBusy(t)
    <2>1. writer' \in [Writers -> WriterType]
      BY <1>6, StepType DEF ClearBusy, WriterPC
    <2>2. buffer' \in [Slot -> BufferType]
      BY <1>6 DEF ClearBusy, TypeOK, BufferType
    <2> QED
      BY <1>6, <2>1, <2>2 DEF ClearBusy, TypeOK, fileVars
  <1>7. CASE ClearDirty(t)
    <2>1. writer' \in [Writers -> WriterType]
      BY <1>7, StepType DEF ClearDirty, WriterPC
    <2>2. buffer' \in [Slot -> BufferType]
      BY <1>7 DEF ClearDirty, TypeOK, BufferType
    <2> QED
      BY <1>7, <2>1, <2>2 DEF ClearDirty, TypeOK, fileVars
  <1> QED
    BY <1>1, <1>2, <1>3, <1>4, <1>5, <1>6, <1>7 DEF WriterStep

(* Every reachable state is of the types declared in TypeOK. *)
THEOREM TypeCorrect == Spec => []TypeOK
  <1>1. Init => TypeOK
    <2> SUFFICES ASSUME Init PROVE TypeOK
      OBVIOUS
    <2>1. \A s \in Slot : [nr |-> s + 1, run |-> 0, last |-> 0,
                           busy |-> FALSE, dirty |-> FALSE] \in BufferType
      BY DEF BufferType, Slot
    <2>2. buffer \in [Slot -> BufferType]
      BY <2>1 DEF Init
    <2>3. writer \in [Writers -> WriterType]
      BY ZeroSlot DEF Init, NoWriter, WriterType, WriterPC
    <2>4. reports \in Seq(ReportType) /\ stream \in Seq(EntryType)
      BY DEF Init
    <2>5. /\ TheRun \in Nat /\ fpc \in FillPC /\ ending \in BOOLEAN
          /\ fill \in Slot /\ transport \in Slot /\ lastWritten \in Slot
          /\ Buffer_number \in Nat /\ firstEvent \in Nat
          /\ outfile_fd \in Nat /\ nfiles \in Nat /\ BytesInThisFile \in Nat
      BY ZeroSlot DEF Init, FillPC
    <2>6. fdOwner \in Writers \cup {"none"} /\ broken \subseteq MayBreak
      BY DEF Init
    <2> QED
      BY <2>2, <2>3, <2>4, <2>5, <2>6 DEF TypeOK
  <1>2. TypeOK /\ [Next]_vars => TypeOK'
    <2> SUFFICES ASSUME TypeOK, [Next]_vars PROVE TypeOK'
      OBVIOUS
    <2>1. CASE FillStep /\ UNCHANGED broken
      BY <2>1, FillStepType
    <2>2. ASSUME NEW t \in Writers, WriterStep(t), UNCHANGED broken PROVE TypeOK'
      BY <2>2, WriterStepType
    <2>3. CASE UNCHANGED vars
      BY <2>3 DEF vars, ringVars, fileVars, TypeOK
    <2> QED
      BY <2>1, <2>2, <2>3 DEF Next, Done
  <1> QED
    BY <1>1, <1>2, PTL DEF Spec

---------------------------------------------------------------------------
(* FdManagementSem.                                                        *)

HolderWrites == \A t \in Writers : writer[t].pc = "write" => fdOwner = t

LEMMA HolderWritesInv == Spec => []HolderWrites
  <1>1. Init => HolderWrites
    BY DEF Init, HolderWrites, NoWriter
  <1>2. TypeOK /\ HolderWrites /\ [Next]_vars => HolderWrites'
    <2> SUFFICES ASSUME TypeOK, HolderWrites, [Next]_vars, NEW u \in Writers,
                        writer'[u].pc = "write"
                 PROVE  fdOwner' = u
      BY DEF HolderWrites
    <2> USE NoThreadAssumption DEF HolderWrites, TypeOK
    <2>1. ASSUME NEW t \in Writers, StartWriter(t) PROVE fdOwner' = u
      BY <2>1 DEF StartWriter, Idle
    <2>2. ASSUME FillStep, \A t \in Writers : ~StartWriter(t) PROVE fdOwner' = u
      BY <2>2 DEF FillStep, Begin, SwitchBuffer, Recycle, KeepFile, Rollover,
                  DropBuffer, End
    <2>3. ASSUME NEW t \in Writers, AcquireFd(t) PROVE fdOwner' = u
      BY <2>3 DEF AcquireFd
    <2>4. ASSUME NEW t \in Writers, WriteAndRelease(t) PROVE fdOwner' = u
      BY <2>4 DEF WriteAndRelease, Step
    <2>5. ASSUME NEW t \in Writers, WriterStep(t), ~AcquireFd(t), ~WriteAndRelease(t)
          PROVE  fdOwner' = u
      <3>1. fdOwner' = fdOwner
        BY <2>5 DEF WriterStep, Compress, WaitPrevious, Finish, ClearBusy,
                    ClearDirty
      <3>2. PICK from, to \in WriterPC \ {"write"} : Step(t, from, to)
        BY <2>5 DEF WriterStep, Compress, WaitPrevious, Finish, ClearBusy,
                    ClearDirty, WriterPC
      <3>3. writer[u].pc = "write"
        BY <3>2, StepKeeps
      <3> QED
        BY <3>1, <3>3
    <2>6. CASE UNCHANGED vars
      BY <2>6 DEF vars
    <2> QED
      BY <2>1, <2>2, <2>3, <2>4, <2>5, <2>6 DEF Next, Done
  <1> QED
    BY <1>1, <1>2, TypeCorrect, PTL DEF Spec

(* No two writers write at the same time, whatever the scheduling, the
   stalls and the failures. *)
THEOREM MutualExclusion == Spec => []FdMutex
  <1>1. HolderWrites => FdMutex
    BY DEF HolderWrites, FdMutex
  <1> QED
    BY <1>1, HolderWritesInv, PTL

---------------------------------------------------------------------------
(* The flags of the ring.  From here on no guard of a wait expires, the    *)
(* two stores at the end of writeout are one, and no buffer is broken.     *)

Calm == PatientWaits /\ MergedStores /\ MayBreak = {}

LEMMA NoneBroken == Calm /\ TypeOK => broken = {}
  BY DEF Calm, TypeOK

\* The slot being filled, or last filled: no writer has it.
HeadSlot == IF fpc = "free" THEN transport ELSE fill

(* The flags tell the truth: a slot with a writer is busy, a busy slot is  *)
(* dirty, and a buffer with data is dirty until it is written.             *)
FlagInv ==
  /\ \A t \in Writers : ~Idle(t) => buffer[writer[t].slot].busy
  /\ \A t, u \in Writers :
       ~Idle(t) /\ ~Idle(u) /\ writer[t].slot = writer[u].slot => t = u
  /\ \A s \in Slot : buffer[s].busy => buffer[s].dirty /\ fpc # "off"
  /\ fpc # "off" => ~buffer[HeadSlot].busy
  /\ fpc \in {"roll", "start"} => ~buffer[transport].busy
  /\ fpc \in {"free", "roll", "start"} => fill = Succ(transport)
  /\ fpc = "fill" => buffer[fill].dirty
  /\ fpc \in {"free", "roll", "start"} => buffer[transport].dirty
  /\ fpc \in {"roll", "start"} /\ ~ending => buffer[fill].dirty
  /\ \A t \in Writers : writer[t].pc # "stale"

LEMMA FlagInit == Init => FlagInv
  BY DEF Init, FlagInv, Idle, NoWriter, HeadSlot

LEMMA FlagFill ==
  ASSUME Calm, TypeOK, FlagInv, FillStep
  PROVE  FlagInv'
  <1> USE DEF Idle
  <1>1. CASE Begin
    <2>1. \A s \in Slot : buffer'[s].busy = buffer[s].busy /\ ~buffer[s].busy
      <3>1. \A s \in Slot : ~buffer[s].busy
        BY <1>1 DEF Begin, FlagInv
      <3>2. Prepared(buffer[0], 1, TheRun + 1, TRUE).busy = buffer[0].busy
        <4>1. buffer[0] \in BufferType
          BY ZeroSlot DEF TypeOK
        <4> QED
          BY <4>1 DEF Prepared, BufferType
      <3>3. \A s \in Slot : buffer'[s] = buffer[s] \/
              (s = 0 /\ buffer'[s] = Prepared(buffer[0], 1, TheRun + 1, TRUE))
        BY <1>1, ZeroSlot DEF Begin, TypeOK
      <3> QED
        BY <3>1, <3>2, <3>3
    <2>2. \A t \in Writers : Idle(t) /\ writer' = writer
      BY <1>1, <2>1 DEF Begin, FlagInv, TypeOK, WriterType
    <2>3. fpc' = "off" \/ (fpc' = "fill" /\ buffer'[fill'].dirty)
      BY <1>1, ZeroSlot DEF Begin, TypeOK, Prepared, BufferType
    <2>4. fill' \in Slot
      BY <1>1, ZeroSlot DEF Begin
    <2> QED
      BY <2>1, <2>2, <2>3, <2>4 DEF FlagInv, HeadSlot
  <1>2. CASE SwitchBuffer
    BY <1>2, RingLemma DEF SwitchBuffer, FlagInv, TypeOK, HeadSlot, BufferType, WriterType
  <1>3. CASE Recycle
    BY <1>3, RingLemma DEF Calm, Recycle, FlagInv, TypeOK, Prepared, HeadSlot, BufferType, WriterType
  <1>4. CASE KeepFile
    BY <1>4 DEF KeepFile, FlagInv, TypeOK, HeadSlot, ringVars
  <1>5. CASE Rollover
    BY <1>5 DEF Rollover, FlagInv, TypeOK, HeadSlot, ringVars
  <1>6. ASSUME NEW t \in Writers, StartWriter(t) PROVE FlagInv'
    BY <1>6, NoneBroken, RingLemma
       DEF StartWriter, AfterSwitch, FlagInv, TypeOK, HeadSlot, BufferType, WriterType
  <1>7. CASE DropBuffer
    BY <1>7, RingLemma DEF DropBuffer, AfterSwitch, FlagInv, TypeOK, HeadSlot,
                           BufferType, WriterType
  <1>8. CASE End
    BY <1>8 DEF End, FlagInv, TypeOK, HeadSlot
  <1> QED
    BY <1>1, <1>2, <1>3, <1>4, <1>5, <1>6, <1>7, <1>8 DEF FillStep

LEMMA FlagWriter ==
  ASSUME Calm, TypeOK, FlagInv, NEW t \in Writers, WriterStep(t)
  PROVE  FlagInv'
  <1> USE DEF Idle
  <1>1. ASSUME Compress(t) \/ WaitPrevious(t) PROVE FlagInv'
    <2>1. PICK from, to \in {"compress", "waitprev", "waitfd"} : Step(t, from, to)
      BY <1>1 DEF Compress, WaitPrevious
    <2>2. UNCHANGED <<fpc, ending, fill, transport, buffer>>
      BY <1>1 DEF Compress, WaitPrevious, ringVars
    <2> QED
      BY <2>1, <2>2, StepKeeps DEF FlagInv, HeadSlot
  <1>2. CASE AcquireFd(t)
    BY <1>2 DEF AcquireFd, FlagInv, TypeOK, HeadSlot, ringVars
  <1>3. CASE WriteAndRelease(t)
    BY <1>3 DEF WriteAndRelease, Step, FlagInv, TypeOK, HeadSlot, ringVars
  <1>4. ASSUME Finish(t) PROVE FlagInv'
    <2>1. Step(t, "tail", "none")
      BY <1>4 DEF Finish
    <2>2. writer[t].slot \in Slot
      BY DEF TypeOK, WriterType
    <2>3. \A s \in Slot :
            /\ s # writer[t].slot => buffer'[s] = buffer[s]
            /\ s = writer[t].slot => ~buffer'[s].busy
      BY <1>4, <2>2 DEF Finish, TypeOK, BufferType
    <2>4. UNCHANGED <<fpc, ending, fill, transport>>
      BY <1>4 DEF Finish
    <2>5. \A u \in Writers : ~Idle(u)' =>
            ~Idle(u) /\ u # t /\ writer'[u].slot = writer[u].slot
      BY <2>1, StepKeeps
    <2>6. \A u \in Writers : writer[u].slot \in Slot
      BY DEF TypeOK, WriterType
    <2>7. ~Idle(t) /\ writer[t].slot # HeadSlot
      <3>1. ~Idle(t) /\ buffer[writer[t].slot].busy
        BY <2>1, StepKeeps DEF FlagInv
      <3>2. ~buffer[HeadSlot].busy
        BY <3>1, <2>2 DEF FlagInv
      <3> QED
        BY <3>1, <3>2
    <2>8. /\ \A u \in Writers : ~Idle(u)' => buffer'[writer'[u].slot].busy
          /\ \A u, v \in Writers :
               ~Idle(u)' /\ ~Idle(v)' /\ writer'[u].slot = writer'[v].slot => u = v
          /\ \A u \in Writers : writer'[u].pc # "stale"
      BY <2>1, <2>3, <2>5, <2>6, <2>7, StepKeeps DEF FlagInv
    <2>9. \A s \in Slot : buffer'[s].busy => buffer'[s].dirty /\ fpc' # "off"
      BY <2>3, <2>4 DEF FlagInv
    <2>10. /\ fill \in Slot /\ transport \in Slot
           /\ writer[t].slot # transport \/ fpc \notin {"free", "roll", "start"}
      BY <2>7 DEF FlagInv, TypeOK, HeadSlot
    <2> QED
      BY <2>3, <2>4, <2>7, <2>8, <2>9, <2>10 DEF FlagInv, HeadSlot, TypeOK
  <1>5. CASE ClearBusy(t) \/ ClearDirty(t)
    BY <1>5 DEF Calm, ClearBusy, ClearDirty, Step, FlagInv
  <1> QED
    BY <1>1, <1>2, <1>3, <1>4, <1>5 DEF WriterStep

LEMMA FlagsTrue == ASSUME Calm PROVE Spec => []FlagInv
  <1>1. TypeOK /\ FlagInv /\ [Next]_vars => FlagInv'
    BY FlagFill, FlagWriter
       DEF Next, Done, vars, ringVars, FlagInv, Idle, HeadSlot
  <1> QED
    BY <1>1, FlagInit, TypeCorrect, PTL DEF Spec

(* A buffer is not filled again before its writer has written it. *)
THEOREM NoOverwrite == ASSUME Calm PROVE Spec => []NoFillWhileWriting
  <1>1. TypeOK /\ FlagInv => NoFillWhileWriting
    <2> SUFFICES ASSUME TypeOK, FlagInv, NEW t \in Writers,
                        writer[t].pc \in PreWrite
                 PROVE  fpc # "off" /\ (writer[t].slot = fill => fpc = "free")
      BY DEF NoFillWhileWriting
    <2>1. writer[t].slot \in Slot
      BY DEF TypeOK, WriterType
    <2>2. buffer[writer[t].slot].busy
      BY DEF PreWrite, FlagInv, Idle
    <2> QED
      BY <2>1, <2>2 DEF FlagInv, HeadSlot
  <1> QED
    BY <1>1, FlagsTrue, TypeCorrect, PTL

(* Nobody closes or replaces the output file under a writer's hands, although
   daq_end closes it without FdManagementSem. *)
THEOREM FileStaysOpen == ASSUME Calm PROVE Spec => []FdStable
  <1>1. Init => HolderWrites /\ FdStable
    BY DEF Init, HolderWrites, FdStable, NoWriter
  <1>2. TypeOK /\ FlagInv /\ HolderWrites /\ FdStable /\ [Next]_vars => FdStable'
    <2> SUFFICES ASSUME TypeOK, FlagInv, HolderWrites, FdStable, [Next]_vars,
                        NEW u \in Writers, writer'[u].pc = "write"
                 PROVE  writer'[u].fd = outfile_fd'
      BY DEF FdStable
    <2>1. CASE writer[u].pc = "write"
      <3>1. writer[u].fd = outfile_fd /\ fdOwner = u /\ fdOwner # "none"
        BY <2>1, NoThreadAssumption DEF FdStable, HolderWrites
      <3>2. fpc # "off" /\ \E s \in Slot : buffer[s].dirty
        <4>1. writer[u].slot \in Slot
          BY DEF TypeOK, WriterType
        <4> QED
          BY <2>1, <4>1 DEF FlagInv, Idle
      <3>3. CASE FillStep
        <4>1. ~Begin /\ ~Rollover /\ ~End
          BY <3>1, <3>2 DEF Begin, Rollover, End
        <4>2. outfile_fd' = outfile_fd
          BY <3>3, <4>1 DEF FillStep, SwitchBuffer, Recycle, KeepFile,
                            StartWriter, DropBuffer, fileVars
        <4>3. writer'[u].fd = writer[u].fd
          BY <3>3, <4>1, <2>1
             DEF FillStep, SwitchBuffer, Recycle, KeepFile, StartWriter,
                 DropBuffer, Idle, TypeOK
        <4> QED
          BY <4>2, <4>3, <3>1
      <3>4. ASSUME NEW t \in Writers, WriterStep(t)
            PROVE  writer'[u].fd = outfile_fd'
        <4>1. outfile_fd' = outfile_fd
          BY <3>4 DEF WriterStep, Compress, WaitPrevious, AcquireFd,
                      WriteAndRelease, Finish, ClearBusy, ClearDirty, fileVars
        <4>2. CASE AcquireFd(t)
          BY <4>2, <3>1 DEF AcquireFd
        <4>3. CASE ~AcquireFd(t)
          <5>1. PICK from, to \in WriterPC : Step(t, from, to)
            BY <3>4, <4>3 DEF WriterStep, Compress, WaitPrevious,
                 WriteAndRelease, Finish, ClearBusy, ClearDirty, WriterPC
          <5> QED
            BY <5>1, StepKeeps, <4>1, <3>1
        <4> QED
          BY <4>2, <4>3
      <3>5. CASE UNCHANGED vars
        BY <3>5, <3>1 DEF vars, fileVars
      <3> QED
        BY <3>3, <3>4, <3>5 DEF Next, Done
    <2>2. CASE writer[u].pc # "write"
      <3>1. AcquireFd(u)
        <4>1. ASSUME NEW t \in Writers, WriterStep(t), ~AcquireFd(t)
              PROVE  FALSE
          <5>1. PICK from, to \in WriterPC \ {"write"} : 
                  Step(t, from, to) \/ Step(t, "write", to)
            BY <4>1 DEF WriterStep, Compress, WaitPrevious,
                 WriteAndRelease, Finish, ClearBusy, ClearDirty, WriterPC
          <5> QED
            BY <5>1, <2>2, StepKeeps
        <4>2. ASSUME NEW t \in Writers, AcquireFd(t) PROVE t = u
          BY <4>2, <2>2 DEF AcquireFd, TypeOK
        <4>3. ~FillStep
          <5>1. ASSUME NEW t \in Writers, StartWriter(t) PROVE FALSE
            <6>1. writer'[u].pc \in {writer[u].pc, "compress", "waitfd"}
              BY <5>1 DEF StartWriter, TypeOK
            <6> QED
              BY <6>1, <2>2
          <5> QED
            BY <5>1, <2>2 DEF FillStep, Begin, SwitchBuffer, Recycle, KeepFile,
                 Rollover, DropBuffer, End
        <4> QED
          BY <4>1, <4>2, <4>3, <2>2 DEF Next, Done, vars
      <3> QED
        BY <3>1 DEF AcquireFd, TypeOK, WriterType, fileVars
    <2> QED
      BY <2>1, <2>2
  <1> QED
    BY <1>1, <1>2, HolderWritesInv, FlagsTrue, TypeCorrect, PTL DEF Spec

---------------------------------------------------------------------------
(* The numbers of the buffers.  From here on files can be opened.          *)

Smooth == Calm /\ ~OpenMayFail

\* The slot i steps behind slot h in the ring.
Back(h, i) == IF h >= i THEN h - i ELSE h - i + NumBuffers

LEMMA BackLemma ==
  ASSUME NEW h \in Slot
  PROVE  /\ Back(h, 0) = h /\ Back(h, NumBuffers) = h
         /\ \A i \in 0 .. NumBuffers : Back(h, i) \in Slot
         /\ \A i, j \in 0 .. NumBuffers - 1 : Back(h, i) = Back(h, j) => i = j
         /\ \A s \in Slot : \E i \in 0 .. NumBuffers - 1 : s = Back(h, i)
         /\ \A i \in 0 .. NumBuffers - 1 : /\ Prev(Back(h, i)) = Back(h, i + 1)
                                          /\ Back(Succ(h), i + 1) = Back(h, i)
  <1> USE RingAssumption DEF Slot, Back
  <1>1. \A s \in Slot : s = Back(h, IF h >= s THEN h - s ELSE h - s + NumBuffers)
    OBVIOUS
  <1>2. \A s \in Slot : (IF h >= s THEN h - s ELSE h - s + NumBuffers) \in 0 .. NumBuffers - 1
    OBVIOUS
  <1>3. \A s \in Slot : \E i \in 0 .. NumBuffers - 1 : s = Back(h, i)
    BY <1>1, <1>2
  <1>4. \A i \in 0 .. NumBuffers - 1 : Prev(Back(h, i)) = Back(h, i + 1)
    BY DEF Prev
  <1>5. \A i \in 0 .. NumBuffers - 1 : Back(Succ(h), i + 1) = Back(h, i)
    BY DEF Succ
  <1> QED
    BY <1>3, <1>4, <1>5

\* The numbers from 1 to this one have been handed to a writer.
Started ==
  IF fpc \in {"roll", "start"} THEN Buffer_number - 2 ELSE Buffer_number - 1

\* The ring holds the last buffers of the run, in order.
NumberInv ==
  fpc # "off" =>
    /\ outfile_fd # 0
    /\ Buffer_number >= 1 /\ (fpc \in {"roll", "start", "drain"} => Buffer_number >= 2)
    /\ \A i \in 0 .. NumBuffers - 1 : i < Buffer_number =>
         /\ buffer[Back(HeadSlot, i)].nr = Buffer_number - i
         /\ buffer[Back(HeadSlot, i)].run = TheRun

\* All that the other steps than Begin, SwitchBuffer, Recycle and End do to
\* the ring is to change flags.
SameRing ==
  /\ UNCHANGED <<Buffer_number, TheRun, fill, transport, ending>>
  /\ \A s \in Slot : /\ buffer'[s].nr = buffer[s].nr /\ buffer'[s].run = buffer[s].run
                     /\ buffer'[s].last = buffer[s].last

LEMMA FlagsOnly ==
  ASSUME TypeOK, NEW s \in Slot, NEW b \in BOOLEAN, NEW d \in BOOLEAN,
         buffer' = [buffer EXCEPT ![s].busy = b, ![s].dirty = d]
  PROVE  \A r \in Slot : /\ buffer'[r].nr = buffer[r].nr /\ buffer'[r].run = buffer[r].run
                        /\ buffer'[r].last = buffer[r].last
  <1>1. buffer[s] \in BufferType
    BY DEF TypeOK
  <1>2. \A r \in Slot : r # s => buffer'[r] = buffer[r]
    BY DEF TypeOK
  <1>3. buffer'[s] = [buffer[s] EXCEPT !.busy = b, !.dirty = d]
    BY <1>1 DEF TypeOK, BufferType
  <1>4. \A c \in BufferType : LET e == [c EXCEPT !.busy = b, !.dirty = d]
                            IN  e.nr = c.nr /\ e.run = c.run /\ e.last = c.last
    BY DEF BufferType
  <1>5. /\ buffer'[s].nr = buffer[s].nr /\ buffer'[s].run = buffer[s].run
        /\ buffer'[s].last = buffer[s].last
    BY <1>1, <1>3, <1>4
  <1> QED
    BY <1>2, <1>5

LEMMA BusyOnly ==
  ASSUME TypeOK, NEW s \in Slot, NEW b \in BOOLEAN,
         \/ buffer' = [buffer EXCEPT ![s].busy = b]
         \/ buffer' = [buffer EXCEPT ![s].dirty = b]
  PROVE  \A r \in Slot : /\ buffer'[r].nr = buffer[r].nr /\ buffer'[r].run = buffer[r].run
                        /\ buffer'[r].last = buffer[r].last
  <1>1. buffer[s] \in BufferType
    BY DEF TypeOK
  <1>2. \A r \in Slot : r # s => buffer'[r] = buffer[r]
    BY DEF TypeOK
  <1>3. \/ buffer'[s] = [buffer[s] EXCEPT !.busy = b]
        \/ buffer'[s] = [buffer[s] EXCEPT !.dirty = b]
    BY <1>1 DEF TypeOK
  <1>4. /\ buffer'[s].nr = buffer[s].nr /\ buffer'[s].run = buffer[s].run
        /\ buffer'[s].last = buffer[s].last
    BY <1>1, <1>3 DEF BufferType
  <1> QED
    BY <1>2, <1>4

LEMMA WriterSame ==
  ASSUME TypeOK, NEW t \in Writers, WriterStep(t)
  PROVE  SameRing /\ UNCHANGED <<fpc, outfile_fd, firstEvent, reports>>
  <1>1. writer[t].slot \in Slot
    BY DEF TypeOK, WriterType
  <1>2. CASE Compress(t) \/ WaitPrevious(t) \/ AcquireFd(t) \/ WriteAndRelease(t)
    BY <1>2 DEF Compress, WaitPrevious, AcquireFd, WriteAndRelease, SameRing, ringVars, fileVars
  <1>3. CASE Finish(t)
    BY <1>1, <1>3, FlagsOnly DEF Finish, SameRing, fileVars
  <1>4. CASE ClearBusy(t) \/ ClearDirty(t)
    BY <1>1, <1>4, BusyOnly DEF ClearBusy, ClearDirty, SameRing, fileVars
  <1> QED
    BY <1>2, <1>3, <1>4 DEF WriterStep

LEMMA StartSame ==
  ASSUME TypeOK, NEW t \in Writers, StartWriter(t)
  PROVE  /\ SameRing /\ fpc = "start" /\ fpc' \in {"fill", "drain"}
         /\ UNCHANGED <<outfile_fd, firstEvent, reports, stream>>
  <1>1. /\ buffer' = [buffer EXCEPT ![transport].busy = TRUE] /\ transport \in Slot
        /\ UNCHANGED <<TheRun, ending, fill, transport, Buffer_number, fileVars>>
    BY DEF StartWriter, TypeOK
  <1> QED
    BY <1>1, BusyOnly DEF StartWriter, SameRing, AfterSwitch, fileVars

LEMMA RollSame ==
  ASSUME TypeOK, KeepFile \/ Rollover
  PROVE  /\ UNCHANGED <<ringVars, writer, fdOwner, TheRun, ending, lastWritten, stream>>
         /\ fpc = "roll" /\ fpc' = "start"
         /\ ~OpenMayFail /\ outfile_fd # 0 => outfile_fd' # 0
  <1>1. CASE KeepFile
    BY <1>1 DEF KeepFile, ringVars, fileVars
  <1>2. CASE Rollover
    <2>1. ~OpenMayFail => outfile_fd' = nfiles + 1
      BY <1>2 DEF Rollover, OpenOutcome
    <2> QED
      BY <1>2, <2>1 DEF Rollover, ringVars, TypeOK
  <1> QED
    BY <1>1, <1>2

LEMMA BeginShape ==
  ASSUME Smooth, TypeOK, Begin
  PROVE  /\ fpc = "off" /\ fpc' = "fill" /\ TheRun' = TheRun + 1 /\ Buffer_number' = 1
         /\ fill' = 0 /\ nfiles' = nfiles + 1 /\ outfile_fd' = nfiles + 1 /\ firstEvent' = 1
         /\ BytesInThisFile' = 0
         /\ UNCHANGED <<writer, stream, reports, lastWritten>>
         /\ buffer'[0].nr = 1 /\ buffer'[0].run = TheRun + 1
         /\ \A s \in Slot : s # 0 => buffer'[s] = buffer[s]
  <1>1. /\ buffer' = [buffer EXCEPT ![0] = Prepared(@, 1, TheRun + 1, TRUE)]
        /\ buffer[0] \in BufferType
    BY ZeroSlot DEF Smooth, Begin, TypeOK
  <1>2. /\ buffer'[0] = Prepared(buffer[0], 1, TheRun + 1, TRUE)
        /\ \A s \in Slot : s # 0 => buffer'[s] = buffer[s]
    BY <1>1, ZeroSlot DEF TypeOK
  <1>3. buffer'[0].nr = 1 /\ buffer'[0].run = TheRun + 1
    BY <1>1, <1>2 DEF Prepared, BufferType
  <1> QED
    BY <1>2, <1>3 DEF Smooth, Begin

LEMMA SwitchShape ==
  ASSUME TypeOK, SwitchBuffer
  PROVE  /\ fpc = "fill" /\ fpc' = "free" /\ transport' = fill /\ fill' = Succ(fill)
         /\ HeadSlot = fill /\ HeadSlot' = fill
         /\ UNCHANGED <<Buffer_number, TheRun, nfiles, outfile_fd, firstEvent, reports,
                        BytesInThisFile, writer, stream, lastWritten>>
         /\ buffer'[fill].last = buffer[fill].nr
         /\ \A s \in Slot : /\ buffer'[s].nr = buffer[s].nr /\ buffer'[s].run = buffer[s].run
                            /\ s # fill => buffer'[s] = buffer[s]
  <1>1. /\ buffer' = [buffer EXCEPT ![fill].last = buffer[fill].nr]
        /\ fill \in Slot /\ buffer[fill] \in BufferType
    BY DEF SwitchBuffer, TypeOK
  <1>2. /\ buffer'[fill] = [buffer[fill] EXCEPT !.last = buffer[fill].nr]
        /\ \A s \in Slot : s # fill => buffer'[s] = buffer[s]
    BY <1>1 DEF TypeOK
  <1>3. /\ buffer'[fill].last = buffer[fill].nr
        /\ buffer'[fill].nr = buffer[fill].nr /\ buffer'[fill].run = buffer[fill].run
    BY <1>1, <1>2 DEF BufferType
  <1> QED
    BY <1>2, <1>3 DEF SwitchBuffer, HeadSlot, fileVars

LEMMA RecycleShape ==
  ASSUME Calm, TypeOK, FlagInv, Recycle
  PROVE  /\ fpc = "free" /\ fpc' = "roll" /\ Buffer_number' = Buffer_number + 1
         /\ HeadSlot \in Slot /\ HeadSlot' = Succ(HeadSlot) /\ fill = Succ(HeadSlot)
         /\ ~buffer[fill].busy
         /\ UNCHANGED <<TheRun, fill, transport, nfiles, outfile_fd, firstEvent, reports,
                        BytesInThisFile, writer, stream, lastWritten>>
         /\ buffer'[fill].nr = Buffer_number + 1 /\ buffer'[fill].run = TheRun
         /\ buffer'[fill].last = buffer[fill].last
         /\ \A s \in Slot : s # fill => buffer'[s] = buffer[s]
  <1>1. /\ buffer' = [buffer EXCEPT ![fill] = Prepared(@, Buffer_number + 1, TheRun, ~ending)]
        /\ fill \in Slot /\ buffer[fill] \in BufferType
    BY DEF Recycle, TypeOK
  <1>2. /\ buffer'[fill] = Prepared(buffer[fill], Buffer_number + 1, TheRun, ~ending)
        /\ \A s \in Slot : s # fill => buffer'[s] = buffer[s]
    BY <1>1 DEF TypeOK
  <1>3. /\ buffer'[fill].nr = Buffer_number + 1 /\ buffer'[fill].run = TheRun
        /\ buffer'[fill].last = buffer[fill].last
    <2>1. PICK d : d = ~ending
      OBVIOUS
    <2>2. \A b \in BufferType : \A nr, run :
            /\ Prepared(b, nr, run, d).nr = nr
            /\ Prepared(b, nr, run, d).run = run
            /\ Prepared(b, nr, run, d).last = b.last
      BY DEF Prepared, BufferType
    <2> QED
      BY <1>1, <1>2, <2>1, <2>2
  <1>4. fpc = "free" /\ ~buffer[fill].busy
    BY DEF Recycle, Calm
  <1>5. transport \in Slot /\ fill = Succ(transport)
    BY <1>4 DEF FlagInv, TypeOK
  <1> QED
    BY <1>2, <1>3, <1>4, <1>5 DEF Recycle, HeadSlot, fileVars

LEMMA HeadType == TypeOK => HeadSlot \in Slot
  BY DEF TypeOK, HeadSlot

LEMMA NumberSame ==
  ASSUME TypeOK, NumberInv, SameRing, fpc # "off", HeadSlot' = HeadSlot, outfile_fd' # 0,
         fpc' \in {"roll", "start", "drain"} => fpc \in {"roll", "start", "drain"}
  PROVE  NumberInv'
  <1>1. \A i \in 0 .. NumBuffers - 1 : Back(HeadSlot, i) \in Slot
    BY BackLemma, HeadType, RingAssumption
  <1> QED
    BY <1>1 DEF NumberInv, SameRing

LEMMA NumberStep ==
  ASSUME Smooth, TypeOK, FlagInv, NumberInv, [Next]_vars
  PROVE  NumberInv'
  <1> USE RingAssumption
  <1>0. Calm /\ UNCHANGED broken
    BY DEF Smooth, Next, Done, vars
  <1>1. CASE Begin
    <2>1. TypeOK' /\ HeadSlot' = 0 /\ 0 \in Slot
      BY <1>0, <1>1, BeginShape, ZeroSlot, FillStepType DEF HeadSlot, FillStep
    <2>2. \A i \in 0 .. NumBuffers - 1 : i < 1 => Back(0, i) = 0
      BY DEF Back
    <2> QED
      BY <1>1, <2>1, <2>2, BeginShape DEF NumberInv, TypeOK
  <1>2. CASE SwitchBuffer
    <2>1. \A i \in 0 .. NumBuffers - 1 : Back(HeadSlot, i) \in Slot
      BY BackLemma, HeadType
    <2> QED
      BY <1>2, <2>1, SwitchShape DEF NumberInv
  <1>3. CASE Recycle
    <2>1. /\ \A i \in 0 .. NumBuffers - 1 : Back(Succ(HeadSlot), i + 1) = Back(HeadSlot, i)
          /\ Succ(HeadSlot) \in Slot
      BY BackLemma, HeadType, RingLemma
    <2>2. ASSUME NEW i \in 0 .. NumBuffers - 1, i < Buffer_number + 1
          PROVE  /\ buffer'[Back(Succ(HeadSlot), i)].nr = Buffer_number + 1 - i
                 /\ buffer'[Back(Succ(HeadSlot), i)].run = TheRun
      <3>1. CASE i = 0
        <4>1. Back(Succ(HeadSlot), 0) = Succ(HeadSlot)
          BY <2>1, BackLemma
        <4> QED
          BY <1>0, <1>3, <3>1, <4>1, RecycleShape
      <3>2. CASE i # 0
        <4>1. i - 1 \in 0 .. NumBuffers - 1 /\ i - 1 < Buffer_number /\ Buffer_number \in Nat
              /\ 0 \in 0 .. NumBuffers - 1
          BY <2>2, <3>2 DEF TypeOK
        <4>2. /\ Back(Succ(HeadSlot), i) = Back(HeadSlot, i - 1)
              /\ Back(Succ(HeadSlot), i) \in Slot /\ Back(Succ(HeadSlot), i) # Succ(HeadSlot)
          <5>1. Back(Succ(HeadSlot), i) = Back(HeadSlot, i - 1)
            BY <2>1, <4>1
          <5>2. Back(Succ(HeadSlot), i) \in Slot
            BY <2>1, BackLemma
          <5>3. Back(Succ(HeadSlot), i) # Back(Succ(HeadSlot), 0)
            BY <2>1, <3>2, <4>1, BackLemma
          <5>4. Back(Succ(HeadSlot), 0) = Succ(HeadSlot)
            BY <2>1, BackLemma
          <5> QED
            BY <5>1, <5>2, <5>3, <5>4
        <4>3. buffer'[Back(Succ(HeadSlot), i)] = buffer[Back(HeadSlot, i - 1)]
          BY <1>0, <1>3, <4>2, RecycleShape
        <4>4. /\ buffer[Back(HeadSlot, i - 1)].nr = Buffer_number - (i - 1)
              /\ buffer[Back(HeadSlot, i - 1)].run = TheRun
          BY <1>0, <1>3, <4>1, RecycleShape DEF NumberInv
        <4> QED
          BY <4>1, <4>3, <4>4
      <3> QED
        BY <3>1, <3>2
    <2>3. fpc # "off" /\ Buffer_number \in Nat /\ Buffer_number >= 1 /\ outfile_fd # 0
      BY <1>0, <1>3, RecycleShape DEF NumberInv, TypeOK
    <2> QED
      BY <1>0, <1>3, <2>2, <2>3, RecycleShape DEF NumberInv
  <1>4. CASE KeepFile \/ Rollover
    <2>1. SameRing /\ HeadSlot' = HeadSlot
      BY <1>4, RollSame DEF SameRing, ringVars, HeadSlot
    <2> QED
      BY <1>4, RollSame DEF NumberInv, ringVars, HeadSlot, Smooth
  <1>5. CASE \E t \in Writers : StartWriter(t)
    BY <1>5, StartSame, NumberSame DEF NumberInv, HeadSlot, SameRing
  <1>6. CASE DropBuffer \/ End
    BY <1>6 DEF DropBuffer, End, NumberInv
  <1>7. CASE \E t \in Writers : WriterStep(t)
    <2>1. SameRing /\ HeadSlot' = HeadSlot /\ UNCHANGED <<fpc, outfile_fd>>
      BY <1>7, WriterSame DEF HeadSlot, SameRing
    <2> QED
      BY <2>1, NumberSame DEF NumberInv
  <1>8. CASE UNCHANGED vars
    BY <1>8 DEF vars, ringVars, fileVars, NumberInv, HeadSlot
  <1> QED
    BY <1>1, <1>2, <1>3, <1>4, <1>5, <1>6, <1>7, <1>8 DEF Next, FillStep, Done

LEMMA NumbersTrue == ASSUME Smooth PROVE Spec => []NumberInv
  <1>1. Init => NumberInv
    BY DEF Init, NumberInv
  <1>2. TypeOK /\ FlagInv /\ NumberInv /\ [Next]_vars => NumberInv'
    BY NumberStep
  <1>3. Spec => []FlagInv
    BY FlagsTrue DEF Smooth
  <1> QED
    BY <1>1, <1>2, <1>3, TypeCorrect, PTL DEF Spec

---------------------------------------------------------------------------
(* The writers' work.                                                      *)

\* Writer t has still to write slot s.
Has(t, s) == writer[t].pc \in PreWrite /\ writer[t].slot = s

LEMMA HasFill ==
  ASSUME FillStep, \A t \in Writers : ~StartWriter(t)
  PROVE  UNCHANGED <<writer, stream, lastWritten>>
  BY DEF FillStep, Begin, SwitchBuffer, Recycle, KeepFile, Rollover, DropBuffer, End

LEMMA HasStart ==
  ASSUME Calm, TypeOK, NEW t \in Writers, StartWriter(t)
  PROVE  /\ Has(t, transport)' /\ ~(writer[t].pc \in PreWrite)
         /\ \A u \in Writers : u # t => writer'[u] = writer[u]
         /\ UNCHANGED <<stream, lastWritten, BytesInThisFile>>
  BY NoneBroken DEF StartWriter, Has, Idle, PreWrite, TypeOK, fileVars

LEMMA HasWriter ==
  ASSUME TypeOK, NEW t \in Writers, WriterStep(t), ~WriteAndRelease(t)
  PROVE  /\ \A u \in Writers : /\ (writer'[u].pc \in PreWrite) = (writer[u].pc \in PreWrite)
                              /\ writer'[u].slot = writer[u].slot
         /\ UNCHANGED <<stream, lastWritten, BytesInThisFile>>
  <1>1. CASE AcquireFd(t)
    BY <1>1 DEF AcquireFd, PreWrite, TypeOK, WriterType, fileVars
  <1>2. CASE Compress(t) \/ WaitPrevious(t)
    <2>1. PICK from \in PreWrite, to \in PreWrite : Step(t, from, to)
      BY <1>2 DEF Compress, WaitPrevious, PreWrite
    <2> QED
      BY <1>2, <2>1, StepKeeps DEF Compress, WaitPrevious, fileVars
  <1>3. CASE Finish(t) \/ ClearBusy(t) \/ ClearDirty(t)
    <2>1. PICK from \in {"tail", "stale"}, to \in {"stale", "none"} : Step(t, from, to)
      BY <1>3 DEF Finish, ClearBusy, ClearDirty
    <2>2. from \notin PreWrite /\ to \notin PreWrite
      BY DEF PreWrite
    <2> QED
      BY <1>3, <2>1, <2>2, StepKeeps DEF Finish, ClearBusy, ClearDirty, fileVars
  <1> QED
    BY <1>1, <1>2, <1>3 DEF WriterStep

\* What a writer appends to the stream: its descriptor is that of the file.
Entry(t) ==
  [file |-> outfile_fd, run |-> buffer[writer[t].slot].run, nr |-> buffer[writer[t].slot].nr,
   failed |-> stream'[Len(stream) + 1].failed]

LEMMA WriteShape ==
  ASSUME TypeOK, FdStable, NEW t \in Writers, WriteAndRelease(t)
  PROVE  /\ writer[t].pc = "write" /\ writer'[t].pc = "tail"
         /\ \A u \in Writers : /\ u # t => writer'[u].pc = writer[u].pc
                             /\ writer'[u].slot = writer[u].slot
         /\ Entry(t) \in EntryType /\ stream' = Append(stream, Entry(t))
         /\ Len(stream') = Len(stream) + 1 /\ stream'[Len(stream) + 1] = Entry(t)
         /\ \A i \in DOMAIN stream : i \in DOMAIN stream' /\ stream'[i] = stream[i]
         /\ \A i \in DOMAIN stream' : i \in DOMAIN stream \/ i = Len(stream) + 1
         /\ Len(stream) + 1 \in DOMAIN stream'
         /\ BytesInThisFile' = BytesInThisFile + (IF Entry(t).failed THEN 0 ELSE 1)
         /\ lastWritten' = writer[t].slot
         /\ outfile_fd # 0 /\ Entry(t).failed => MaxFailures > 0
  <1>1. Step(t, "write", "tail")
    BY DEF WriteAndRelease
  <1>2. writer[t].fd = outfile_fd
    BY <1>1, StepKeeps DEF FdStable
  <1>0. PICK failed \in BOOLEAN :
          /\ stream' = Append(stream, [file |-> outfile_fd,
                                       run |-> buffer[writer[t].slot].run,
                                       nr |-> buffer[writer[t].slot].nr,
                                       failed |-> failed])
          /\ BytesInThisFile' = IF failed THEN BytesInThisFile ELSE BytesInThisFile + 1
          /\ failed \in Outcome(outfile_fd, outfile_fd)
    BY <1>2 DEF WriteAndRelease, Destination, Outcome
  <1> DEFINE e == [file |-> outfile_fd, run |-> buffer[writer[t].slot].run,
                   nr |-> buffer[writer[t].slot].nr, failed |-> failed]
  <1>4. e \in EntryType
    BY DEF TypeOK, WriterType, BufferType, EntryType
  <1>3. Entry(t) = e
    <2>1. stream \in Seq(EntryType) /\ stream' = Append(stream, e)
      BY <1>0 DEF TypeOK
    <2>2. stream'[Len(stream) + 1] = e
      BY <1>4, <2>1
    <2> QED
      BY <2>2 DEF Entry
  <1>7. outfile_fd # 0 /\ failed => MaxFailures > 0
    <2>1. IsFiniteSet({i \in DOMAIN stream : stream[i].failed})
      <3>1. DOMAIN stream = 1 .. Len(stream) /\ Len(stream) \in Nat
        BY DEF TypeOK
      <3>2. IsFiniteSet(1 .. Len(stream))
        BY <3>1, FS_Interval
      <3> QED
        BY <3>1, <3>2, FS_Subset
    <2>2. Cardinality({i \in DOMAIN stream : stream[i].failed}) \in Nat
      BY <2>1, FS_CardinalityType
    <2> QED
      BY <1>0, <2>2, RingAssumption DEF Outcome
  <1>8. BytesInThisFile' = BytesInThisFile + (IF failed THEN 0 ELSE 1)
    BY <1>0 DEF TypeOK
  <1>5. /\ stream \in Seq(EntryType) /\ Len(stream) \in Nat
        /\ Len(stream') = Len(stream) + 1 /\ stream'[Len(stream) + 1] = Entry(t)
        /\ DOMAIN stream = 1 .. Len(stream) /\ DOMAIN stream' = 1 .. Len(stream) + 1
        /\ \A i \in 1 .. Len(stream) : stream'[i] = stream[i]
    BY <1>0, <1>3, <1>4 DEF TypeOK
  <1>6. /\ writer[t].pc = "write" /\ writer'[t].pc = "tail"
        /\ \A u \in Writers : /\ u # t => writer'[u].pc = writer[u].pc
                            /\ writer'[u].slot = writer[u].slot
    BY <1>1, StepKeeps
  <1>9. lastWritten' = writer[t].slot
    BY DEF WriteAndRelease
  <1> QED
    BY <1>0, <1>3, <1>4, <1>5, <1>6, <1>7, <1>8, <1>9

\* A buffer of the run that was handed to a writer is written or under way.
Written(k) ==
  \E i \in DOMAIN stream : /\ stream[i].run = TheRun /\ stream[i].nr = k
                           /\ stream[i].file # 0
                           /\ stream[i].failed => MaxFailures > 0

UnderWay(k) ==
  \E t \in Writers : /\ writer[t].pc \in PreWrite
                     /\ buffer[writer[t].slot].nr = k
                     /\ buffer[writer[t].slot].run = TheRun

WrittenInv == fpc # "off" => \A k \in 1 .. Started : Written(k) \/ UnderWay(k)

LEMMA SlotType == TypeOK => \A t \in Writers : writer[t].slot \in Slot
  BY DEF TypeOK, WriterType

LEMMA TransportNumber ==
  ASSUME TypeOK, FlagInv, NumberInv, fpc \in {"roll", "start"}
  PROVE  /\ transport = Back(HeadSlot, 1) /\ Buffer_number >= 2
         /\ buffer[transport].nr = Buffer_number - 1 /\ buffer[transport].run = TheRun
  <1> USE RingAssumption
  <1>1. HeadSlot = Succ(transport) /\ transport \in Slot
    BY DEF FlagInv, HeadSlot, TypeOK
  <1>2. Back(Succ(transport), 0 + 1) = Back(transport, 0) /\ Back(transport, 0) = transport
    BY <1>1, BackLemma
  <1>3. Buffer_number >= 2 /\ Buffer_number \in Nat
    BY DEF NumberInv, TypeOK
  <1> QED
    BY <1>1, <1>2, <1>3 DEF NumberInv

LEMMA WrittenStep ==
  ASSUME Smooth, TypeOK, FlagInv, NumberInv, FdStable, WrittenInv, [Next]_vars
  PROVE  WrittenInv'
  <1> USE RingAssumption
  <1>0. Calm /\ Buffer_number \in Nat
    BY DEF Smooth, TypeOK
  <1>1. CASE Begin
    BY <1>1, BeginShape DEF WrittenInv, Started
  <1>2. CASE SwitchBuffer
    <2>1. UNCHANGED <<writer, stream, TheRun, Started>> /\ fpc # "off"
      BY <1>2, SwitchShape DEF Started
    <2>2. \A k : Written(k) => Written(k)'
      BY <2>1 DEF Written
    <2>3. \A k : UnderWay(k) => UnderWay(k)'
      BY <1>2, <2>1, SlotType, SwitchShape DEF UnderWay
    <2> QED
      BY <2>1, <2>2, <2>3 DEF WrittenInv
  <1>3. CASE Recycle
    <2>1. UNCHANGED <<writer, stream, TheRun>> /\ fpc # "off" /\ Started' = Started
      BY <1>0, <1>3, RecycleShape DEF Started
    <2>2. \A k : Written(k) => Written(k)'
      BY <2>1 DEF Written
    <2>3. \A t \in Writers : writer[t].pc \in PreWrite => writer[t].slot # fill
      BY <1>0, <1>3, RecycleShape DEF FlagInv, Idle, PreWrite
    <2>4. \A k : UnderWay(k) => UnderWay(k)'
      BY <1>0, <1>3, <2>1, <2>3, SlotType, RecycleShape DEF UnderWay
    <2> QED
      BY <2>1, <2>2, <2>4 DEF WrittenInv
  <1>4. CASE KeepFile \/ Rollover
    <2>1. UNCHANGED <<writer, stream, TheRun, buffer, Started>> /\ fpc # "off"
      BY <1>4, RollSame DEF Started, ringVars
    <2> QED
      BY <2>1 DEF WrittenInv, Written, UnderWay
  <1>5. ASSUME NEW t \in Writers, StartWriter(t) PROVE WrittenInv'
    <2>1. /\ UNCHANGED <<stream, TheRun, transport, Buffer_number>>
          /\ fpc = "start" /\ fpc' \in {"fill", "drain"}
      BY <1>5, StartSame DEF SameRing
    <2>2. \A k : Written(k) => Written(k)'
      BY <2>1 DEF Written
    <2>3. \A k : UnderWay(k) => UnderWay(k)'
      <3> SUFFICES ASSUME NEW k, NEW u \in Writers, writer[u].pc \in PreWrite,
                          buffer[writer[u].slot].nr = k, buffer[writer[u].slot].run = TheRun
                   PROVE  UnderWay(k)'
        BY DEF UnderWay
      <3>1. writer'[u] = writer[u] /\ writer[u].slot \in Slot
        BY <1>0, <1>5, HasStart, SlotType
      <3> QED
        BY <1>5, <2>1, <3>1, StartSame DEF UnderWay, SameRing
    <2>4. UnderWay(Buffer_number - 1)'
      <3>1. buffer'[transport].nr = Buffer_number - 1 /\ buffer'[transport].run = TheRun
        BY <1>5, <2>1, StartSame, TransportNumber DEF SameRing, TypeOK
      <3>2. writer'[t].pc \in PreWrite /\ writer'[t].slot = transport
        BY <1>0, <1>5, <2>1, HasStart DEF Has
      <3> QED
        BY <2>1, <3>1, <3>2 DEF UnderWay
    <2>5. \A k \in 1 .. Started' : k \in 1 .. Started \/ k = Buffer_number - 1
      BY <1>0, <2>1 DEF Started
    <2> QED
      BY <2>1, <2>2, <2>3, <2>4, <2>5 DEF WrittenInv
  <1>6. CASE DropBuffer \/ End
    BY <1>6 DEF DropBuffer, End, NumberInv, WrittenInv
  <1>7. ASSUME NEW t \in Writers, WriterStep(t) PROVE WrittenInv'
    <2>1. SameRing /\ UNCHANGED <<fpc, TheRun>> /\ Started' = Started
      BY <1>7, WriterSame DEF SameRing, Started
    <2>2. CASE ~WriteAndRelease(t)
      <3>1. UNCHANGED stream
        BY <1>7, <2>2, HasWriter
      <3>2. \A k : Written(k) => Written(k)'
        BY <2>1, <3>1 DEF Written
      <3>3. \A k : UnderWay(k) => UnderWay(k)'
        BY <1>7, <2>1, <2>2, HasWriter, SlotType DEF UnderWay, SameRing
      <3> QED
        BY <2>1, <3>2, <3>3 DEF WrittenInv
    <2>3. CASE WriteAndRelease(t)
      <3>1. \A k : Written(k) => Written(k)'
        BY <2>1, <2>3, WriteShape DEF Written
      <3>2. \A k : UnderWay(k) => UnderWay(k)' \/ Written(k)'
        <4> SUFFICES ASSUME NEW k, NEW u \in Writers, writer[u].pc \in PreWrite,
                            buffer[writer[u].slot].nr = k, buffer[writer[u].slot].run = TheRun
                     PROVE  UnderWay(k)' \/ Written(k)'
          BY DEF UnderWay
        <4>1. writer[u].slot \in Slot /\ writer'[u].slot = writer[u].slot
          BY <2>3, WriteShape, SlotType
        <4>2. CASE u # t
          BY <2>1, <2>3, <4>1, <4>2, WriteShape DEF UnderWay, SameRing
        <4>3. CASE u = t
          <5>1. outfile_fd # 0 \/ fpc = "off"
            BY DEF NumberInv
          <5>2. fpc # "off"
            BY <4>1, <4>3 DEF FlagInv, Idle, PreWrite
          <5>3. /\ Entry(t).run = TheRun /\ Entry(t).nr = k /\ Entry(t).file # 0
            BY <4>3, <5>1, <5>2 DEF Entry
          <5>4. Entry(t).failed => MaxFailures > 0
            BY <2>3, <5>1, <5>2, WriteShape
          <5> QED
            BY <2>1, <2>3, <5>3, <5>4, WriteShape DEF Written
        <4> QED
          BY <4>2, <4>3
      <3> QED
        BY <2>1, <3>1, <3>2 DEF WrittenInv
    <2> QED
      BY <2>2, <2>3
  <1>8. CASE UNCHANGED vars
    BY <1>8 DEF vars, ringVars, WrittenInv, Started, Written, UnderWay
  <1> QED
    BY <1>1, <1>2, <1>3, <1>4, <1>5, <1>6, <1>7, <1>8 DEF Next, FillStep, Done

LEMMA WrittenTrue == ASSUME Smooth PROVE Spec => []WrittenInv
  <1>1. Init => WrittenInv
    BY DEF Init, WrittenInv
  <1>2. TypeOK /\ FlagInv /\ NumberInv /\ FdStable /\ WrittenInv /\ [Next]_vars => WrittenInv'
    BY WrittenStep
  <1>3. Spec => []FlagInv /\ []FdStable
    BY FlagsTrue, FileStaysOpen DEF Smooth
  <1> QED
    BY <1>1, <1>2, <1>3, NumbersTrue, TypeCorrect, PTL DEF Spec

(* When daq_end closes the file, every buffer of the run has been written to
   one of its files, in whatever order the writers came; if no write() fails
   it is there. *)
THEOREM ClosesComplete == ASSUME Smooth PROVE Spec => []CloseComplete
  <1>1. TypeOK /\ FlagInv /\ WrittenInv => CloseComplete
    <2> SUFFICES ASSUME TypeOK, FlagInv, WrittenInv, Drained
                 PROVE  \A k \in 1 .. Buffer_number - 1 : Written(k)
      BY DEF CloseComplete, Written
    <2>1. \A t \in Writers : writer[t].pc \notin PreWrite
      BY SlotType DEF Drained, FlagInv, Idle, PreWrite
    <2>2. fpc # "off" /\ Started = Buffer_number - 1
      BY DEF Drained, Started
    <2> QED
      BY <2>1, <2>2 DEF WrittenInv, UnderWay
  <1> QED
    BY <1>1, WrittenTrue, TypeCorrect, FlagsTrue, PTL DEF Smooth

---------------------------------------------------------------------------
(* The size of a file.                                                     *)

\* The slots that a writer has still to write.
Pending == {s \in Slot : \E t \in Writers : Has(t, s)}

FilesInv ==
  /\ \A i \in DOMAIN stream : stream[i].file <= nfiles
  /\ outfile_fd <= nfiles
  /\ outfile_fd # 0 => fpc # "off"

\* The bytes in the file and the buffers under way, that of the next writer
\* included.
SizeInv ==
  RolloverLimit > 0 /\ fpc # "off" =>
    BytesInThisFile + Cardinality(Pending) + (IF fpc = "start" THEN 1 ELSE 0)
      <= RolloverLimit + NumBuffers - 2

CountInv == outfile_fd # 0 => BytesInThisFile = Cardinality(Stored(outfile_fd))

LEMMA SlotsFinite ==
  /\ IsFiniteSet(Slot) /\ Cardinality(Slot) = NumBuffers
  /\ IsFiniteSet(Pending) /\ Cardinality(Pending) \in Nat
  /\ IsFiniteSet(Pending') /\ Cardinality(Pending') \in Nat
  <1>1. IsFiniteSet(Slot) /\ Cardinality(Slot) = NumBuffers
    BY FS_Interval, RingAssumption DEF Slot
  <1>2. IsFiniteSet(Pending) /\ IsFiniteSet(Pending')
    <2>1. Pending \in SUBSET Slot /\ Pending' \in SUBSET Slot
      BY DEF Pending
    <2> QED
      BY <1>1, <2>1, FS_Subset
  <1> QED
    BY <1>1, <1>2, FS_CardinalityType

LEMMA StoredFinite ==
  ASSUME TypeOK, NEW f
  PROVE  IsFiniteSet(Stored(f)) /\ Cardinality(Stored(f)) \in Nat
  <1>1. Stored(f) \subseteq 1 .. Len(stream) /\ Len(stream) \in Int
    BY DEF Stored, InFile, TypeOK
  <1>2. IsFiniteSet(1 .. Len(stream))
    BY <1>1, FS_Interval
  <1> QED
    BY <1>1, <1>2, FS_Subset, FS_CardinalityType

\* When the size is checked two slots of the ring have nothing to write.
LEMMA TwoFree ==
  ASSUME TypeOK, FlagInv, fpc = "roll"
  PROVE  Cardinality(Pending) <= NumBuffers - 2
  <1>1. /\ fill \in Slot /\ transport \in Slot /\ fill # transport
        /\ ~buffer[fill].busy /\ ~buffer[transport].busy
    BY RingLemma DEF FlagInv, TypeOK, HeadSlot
  <1>2. Pending \in SUBSET ((Slot \ {fill}) \ {transport})
    BY <1>1 DEF Pending, Has, FlagInv, Idle, PreWrite
  <1>3. /\ IsFiniteSet(Slot \ {fill})
        /\ Cardinality(Slot \ {fill}) = NumBuffers - 1
    BY <1>1, SlotsFinite, FS_RemoveElement
  <1>4. /\ IsFiniteSet((Slot \ {fill}) \ {transport})
        /\ Cardinality((Slot \ {fill}) \ {transport}) = NumBuffers - 1 - 1
    BY <1>1, <1>3, FS_RemoveElement
  <1> QED
    BY <1>2, <1>4, FS_Subset, RingAssumption

\* A write that does not fail adds one entry to the file it goes to.
LEMMA WriteCount ==
  ASSUME TypeOK, FdStable, NEW t \in Writers, WriteAndRelease(t), NEW f
  PROVE  Cardinality(Stored(f)') =
           IF f = outfile_fd /\ ~Entry(t).failed THEN Cardinality(Stored(f)) + 1
           ELSE Cardinality(Stored(f))
  <1>1. Stored(f)' = IF f = outfile_fd /\ ~Entry(t).failed
                     THEN Stored(f) \cup {Len(stream) + 1} ELSE Stored(f)
    <2>1. Entry(t).file = outfile_fd
      BY DEF Entry
    <2>2. \A i : i \in Stored(f)' <=>
            i \in Stored(f) \/ (f = outfile_fd /\ ~Entry(t).failed /\ i = Len(stream) + 1)
      BY <2>1, WriteShape DEF InFile, Stored
    <2> QED
      BY <2>2
  <1>2. Len(stream) + 1 \notin Stored(f)
    BY DEF InFile, Stored, TypeOK
  <1> QED
    BY <1>1, <1>2, StoredFinite, FS_AddElement

\* A write empties one slot.
LEMMA WritePending ==
  ASSUME TypeOK, FlagInv, FdStable, NEW t \in Writers, WriteAndRelease(t)
  PROVE  Cardinality(Pending') = Cardinality(Pending) - 1
  <1>1. /\ writer[t].pc = "write" /\ writer'[t].pc = "tail"
        /\ \A u \in Writers : /\ u # t => writer'[u].pc = writer[u].pc
                              /\ writer'[u].slot = writer[u].slot
    BY WriteShape
  <1>2. writer[t].slot \in Pending
    BY <1>1, SlotType DEF Pending, Has, PreWrite
  <1>3. \A u \in Writers : writer[u].pc \in PreWrite /\ writer[u].slot = writer[t].slot => u = t
    BY <1>1 DEF FlagInv, Idle, PreWrite
  <1>4. Pending' = Pending \ {writer[t].slot}
    BY <1>1, <1>3 DEF Pending, Has, PreWrite
  <1> QED
    BY <1>2, <1>4, SlotsFinite, FS_RemoveElement

LEMMA SizeStep ==
  ASSUME Calm, TypeOK, FlagInv, FdStable, FilesInv, SizeInv, CountInv, RolloverBound,
         [Next]_vars
  PROVE  (FilesInv /\ SizeInv /\ CountInv /\ RolloverBound)'
  <1> USE RingAssumption, SlotsFinite
  <1>0. /\ BytesInThisFile \in Nat /\ nfiles \in Nat /\ outfile_fd \in Nat
        /\ RolloverLimit \in Nat /\ NumBuffers \in Nat /\ NumBuffers >= 2
        /\ \A i \in DOMAIN stream : stream[i].file \in Nat
    <2>1. \A i \in DOMAIN stream : stream[i] \in EntryType
      BY DEF TypeOK
    <2> QED
      BY <2>1 DEF TypeOK, EntryType
  <1>1. ASSUME UNCHANGED <<nfiles, outfile_fd, stream>>, fpc' # "off" \/ outfile_fd = 0,
               UNCHANGED BytesInThisFile \/ outfile_fd = 0
        PROVE  (FilesInv /\ CountInv /\ RolloverBound)'
    BY <1>1 DEF FilesInv, CountInv, RolloverBound, InFile, Stored
  <1>2. ASSUME UNCHANGED <<nfiles, stream>>, outfile_fd' = 0
        PROVE  (FilesInv /\ CountInv /\ RolloverBound)'
    BY <1>0, <1>2 DEF FilesInv, CountInv, RolloverBound, InFile, Stored
  <1>3. ASSUME nfiles' = nfiles + 1, outfile_fd' = nfiles + 1, BytesInThisFile' = 0,
               fpc' # "off", UNCHANGED stream
        PROVE  (FilesInv /\ CountInv /\ RolloverBound)'
    <2>1. Stored(nfiles + 1) = {}
      BY <1>0 DEF FilesInv, InFile, Stored
    <2>2. Cardinality(Stored(nfiles + 1)) = 0
      BY <2>1, FS_EmptySet
    <2>3. \A f : Stored(f)' = Stored(f)
      BY <1>3 DEF InFile, Stored
    <2>4. FilesInv'
      BY <1>0, <1>3 DEF FilesInv
    <2>5. CountInv'
      BY <1>3, <2>2, <2>3 DEF CountInv
    <2>6. \A f \in 1 .. nfiles + 1 : f \in 1 .. nfiles \/ f = nfiles + 1
      BY <1>0
    <2>7. RolloverBound'
      BY <1>0, <1>3, <2>2, <2>3, <2>6 DEF RolloverBound
    <2> QED
      BY <2>4, <2>5, <2>7
  <1>4. CASE Begin
    <2>1. Cardinality(Pending') = 0
      <3>1. \A t \in Writers : writer'[t] = writer[t] /\ writer[t].pc \notin PreWrite
        BY <1>4, SlotType DEF Begin, FlagInv, Idle, PreWrite
      <3>2. Pending' = {}
        BY <3>1 DEF Pending, Has
      <3> QED
        BY <3>2, FS_EmptySet
    <2>2. SizeInv'
      BY <1>0, <1>4, <2>1 DEF Begin, SizeInv
    <2>3. CASE outfile_fd' = 0
      <3>1. nfiles + 1 # 0
        BY <1>0
      <3>2. UNCHANGED <<nfiles, stream>>
        BY <1>4, <2>3, <3>1 DEF Begin
      <3> QED
        BY <1>2, <2>2, <2>3, <3>2
    <2>4. CASE outfile_fd' # 0
      <3>1. nfiles' = nfiles + 1 /\ outfile_fd' = nfiles + 1 /\ BytesInThisFile' = 0
            /\ fpc' # "off" /\ UNCHANGED stream
        BY <1>4, <2>4 DEF Begin
      <3> QED
        BY <1>3, <2>2, <3>1
    <2> QED
      BY <2>3, <2>4
  <1>5. ASSUME UNCHANGED <<writer, BytesInThisFile>>, fpc # "off", fpc' # "start"
        PROVE  SizeInv'
    <2>1. Pending' = Pending
      BY <1>5 DEF Pending, Has
    <2> QED
      BY <1>0, <1>5, <2>1 DEF SizeInv
  <1>6. CASE SwitchBuffer \/ Recycle \/ DropBuffer
    BY <1>1, <1>5, <1>6
       DEF SwitchBuffer, Recycle, DropBuffer, AfterSwitch, fileVars
  <1>7. CASE KeepFile \/ Rollover
    <2>1. /\ fpc = "roll" /\ fpc' = "start" /\ Cardinality(Pending) <= NumBuffers - 2
          /\ UNCHANGED <<writer, stream>> /\ Pending' = Pending
      BY <1>7, RollSame, TwoFree DEF Pending, Has
    <2>2. RolloverLimit > 0 => BytesInThisFile' + 1 <= RolloverLimit
      BY <1>0, <1>7 DEF KeepFile, Rollover, RolloverDue, fileVars
    <2>3. BytesInThisFile' \in Nat
      BY <1>0, <1>7 DEF KeepFile, Rollover, fileVars
    <2>4. SizeInv'
      <3>1. /\ Cardinality(Pending') <= NumBuffers - 2
            /\ Cardinality(Pending') \in Nat
        BY <2>1
      <3>2. RolloverLimit > 0 =>
              BytesInThisFile' + Cardinality(Pending') + 1 <= RolloverLimit + NumBuffers - 2
        <4>1. \A b, p \in Nat : b + 1 <= RolloverLimit /\ p <= NumBuffers - 2
                                => b + p + 1 <= RolloverLimit + NumBuffers - 2
          BY <1>0
        <4> QED
          BY <2>2, <2>3, <3>1, <4>1
      <3> QED
        BY <2>1, <3>2 DEF SizeInv
    <2>5. CASE KeepFile
      BY <1>1, <2>1, <2>4, <2>5 DEF KeepFile, fileVars
    <2>6. CASE Rollover
      <3>1. \/ nfiles' = nfiles /\ outfile_fd' = 0
            \/ nfiles' = nfiles + 1 /\ outfile_fd' = nfiles + 1
        BY <2>6 DEF Rollover
      <3>2. BytesInThisFile' = 0
        BY <2>6 DEF Rollover
      <3> QED
        BY <1>2, <1>3, <2>1, <2>4, <3>1, <3>2
    <2> QED
      BY <1>7, <2>5, <2>6
  <1>8. ASSUME NEW t \in Writers, StartWriter(t)
        PROVE  (FilesInv /\ SizeInv /\ CountInv /\ RolloverBound)'
    <2>1. /\ fpc = "start" /\ fpc' \in {"fill", "drain"}
          /\ UNCHANGED <<nfiles, outfile_fd, BytesInThisFile, stream, transport>>
      BY <1>8, StartSame DEF StartWriter, fileVars
    <2>2. Pending' \subseteq Pending \cup {transport}
      BY <1>8, <2>1, HasStart DEF Pending, Has
    <2>3. /\ IsFiniteSet(Pending \cup {transport})
          /\ Cardinality(Pending \cup {transport}) <= Cardinality(Pending) + 1
      <3>1. /\ IsFiniteSet(Pending \cup {transport})
            /\ Cardinality(Pending \cup {transport}) =
                 IF transport \in Pending THEN Cardinality(Pending) ELSE Cardinality(Pending) + 1
        BY FS_AddElement
      <3> QED
        BY <3>1
    <2>4. Cardinality(Pending') <= Cardinality(Pending) + 1 /\ Cardinality(Pending') \in Nat
      <3>1. IsFiniteSet(Pending')
            /\ Cardinality(Pending') <= Cardinality(Pending \cup {transport})
        BY <2>2, <2>3, FS_Subset
      <3>2. Cardinality(Pending') \in Nat /\ Cardinality(Pending \cup {transport}) \in Nat
        BY <2>3, <3>1, FS_CardinalityType
      <3> QED
        BY <2>3, <3>1, <3>2
    <2>5. SizeInv'
      BY <1>0, <2>1, <2>4 DEF SizeInv
    <2> QED
      BY <1>1, <2>1, <2>5
  <1>9. CASE End
    BY <1>2, <1>9 DEF End, SizeInv
  <1>10. ASSUME NEW t \in Writers, WriterStep(t)
         PROVE  (FilesInv /\ SizeInv /\ CountInv /\ RolloverBound)'
    <2>1. UNCHANGED <<nfiles, outfile_fd, fpc>>
      BY <1>10, WriterSame
         DEF WriterStep, Compress, WaitPrevious, AcquireFd, WriteAndRelease, Finish,
             ClearBusy, ClearDirty, fileVars
    <2>2. CASE ~WriteAndRelease(t)
      <3>1. UNCHANGED <<stream, BytesInThisFile>> /\ Pending' = Pending
        BY <1>10, <2>2, HasWriter DEF Pending, Has
      <3> QED
        BY <1>1, <2>1, <3>1 DEF SizeInv, FilesInv
    <2>3. CASE WriteAndRelease(t)
      <3>0. PICK n \in {0, 1} : n = IF Entry(t).failed THEN 0 ELSE 1
        OBVIOUS
      <3>1. BytesInThisFile' = BytesInThisFile + n
        BY <2>3, <3>0, WriteShape
      <3>7. \A f : Cardinality(Stored(f)') =
                     IF f = outfile_fd THEN Cardinality(Stored(f)) + n
                     ELSE Cardinality(Stored(f))
        BY <2>3, <3>0, WriteCount, StoredFinite
      <3>2. Cardinality(Pending') = Cardinality(Pending) - 1
        BY <2>3, WritePending
      <3>3. SizeInv'
        BY <1>0, <2>1, <3>1, <3>2 DEF SizeInv
      <3>4. CountInv'
        BY <1>0, <2>1, <2>3, <3>1, <3>7 DEF CountInv
      <3>5. FilesInv'
        <4>1. Entry(t).file = outfile_fd
          BY DEF Entry
        <4> QED
          BY <2>1, <2>3, <4>1, WriteShape DEF FilesInv
      <3>6. RolloverBound'
        <4> SUFFICES ASSUME RolloverLimit > 0, NEW f \in 1 .. nfiles
                     PROVE  Cardinality(Stored(f)') <= RolloverLimit + NumBuffers - 2
          BY <2>1 DEF RolloverBound
        <4>1. CASE f # outfile_fd
          BY <3>7, <4>1 DEF RolloverBound
        <4>2. CASE f = outfile_fd
          <5>1. outfile_fd # 0 /\ fpc # "off" /\ fpc' # "off"
            BY <1>0, <2>1, <4>2 DEF FilesInv
          <5>2. /\ Cardinality(Stored(f)) = BytesInThisFile
                /\ Cardinality(Stored(f)') = Cardinality(Stored(f)) + n
            BY <3>7, <4>2, <5>1 DEF CountInv
          <5> QED
            <6>1. BytesInThisFile' + Cardinality(Pending') <= RolloverLimit + NumBuffers - 2
              <7>1. RolloverLimit > 0
                OBVIOUS
              <7>2. \A b, p \in Nat, e \in {0, 1} :
                      b + p + e <= RolloverLimit + NumBuffers - 2
                        => b + p <= RolloverLimit + NumBuffers - 2
                BY <1>0
              <7>3. BytesInThisFile' \in Nat
                BY <1>0, <3>1
              <7> QED
                BY <3>3, <5>1, <7>1, <7>2, <7>3 DEF SizeInv
            <6>2. Cardinality(Stored(f)') = BytesInThisFile'
              BY <3>1, <5>2
            <6>3. \A b, p \in Nat : b + p <= RolloverLimit + NumBuffers - 2
                                    => b <= RolloverLimit + NumBuffers - 2
              BY <1>0
            <6>4. BytesInThisFile' \in Nat
              BY <1>0, <3>1
            <6> QED
              BY <6>1, <6>2, <6>3, <6>4
        <4> QED
          BY <4>1, <4>2
      <3> QED
        BY <3>3, <3>4, <3>5, <3>6
    <2> QED
      BY <2>2, <2>3
  <1>11. CASE UNCHANGED vars
    BY <1>11 DEF vars, fileVars, FilesInv, SizeInv, CountInv, RolloverBound, InFile, Stored,
                 Pending, Has
  <1> QED
    BY <1>4, <1>6, <1>7, <1>8, <1>9, <1>10, <1>11 DEF Next, FillStep, Done

(* A file exceeds the rollover limit by the buffers under way when the size
   was checked, and those are never more than the ring less two: with as many
   threads as one likes, and whether or not files can be opened. *)
THEOREM FilesBounded == ASSUME Calm PROVE Spec => []RolloverBound
  <1>1. Init => FilesInv /\ SizeInv /\ CountInv /\ RolloverBound
    BY DEF Init, FilesInv, SizeInv, CountInv, RolloverBound
  <1>2. TypeOK /\ FlagInv /\ FdStable /\ FilesInv /\ SizeInv /\ CountInv /\ RolloverBound
          /\ [Next]_vars => FilesInv' /\ SizeInv' /\ CountInv' /\ RolloverBound'
    BY SizeStep
  <1> QED
    BY <1>1, <1>2, FlagsTrue, FileStaysOpen, TypeCorrect, PTL DEF Spec

---------------------------------------------------------------------------
(* The order of the writers.  From here on the buffers are compressed, so  *)
(* that every writer waits for the one before it.                          *)

Ordered == Smooth /\ Compressed

\* The slot of buffer k, while the ring has it.
At(k) == Back(HeadSlot, Buffer_number - k)

LEMMA AtLemma ==
  ASSUME TypeOK
  PROVE  /\ Buffer_number \in Nat /\ At(Buffer_number) = HeadSlot
         /\ \A k \in Buffer_number - NumBuffers .. Buffer_number : At(k) \in Slot
         /\ \A k \in Buffer_number - NumBuffers + 1 .. Buffer_number :
              /\ Prev(At(k)) = At(k - 1)
              /\ \A j \in Buffer_number - NumBuffers + 1 .. Buffer_number :
                   At(j) = At(k) => j = k
  <1>1. HeadSlot \in Slot /\ Buffer_number \in Nat
    BY HeadType DEF TypeOK
  <1> HIDE DEF HeadSlot
  <1> QED
    BY <1>1, RingAssumption DEF At, Back, Slot, Prev

LEMMA AtSame ==
  ASSUME HeadSlot' = HeadSlot, UNCHANGED Buffer_number
  PROVE  \A k : At(k)' = At(k)
  BY DEF At, Back

LEMMA AtRecycle ==
  ASSUME TypeOK, HeadSlot' = Succ(HeadSlot), Buffer_number' = Buffer_number + 1
  PROVE  /\ \A k \in Buffer_number - NumBuffers + 1 .. Buffer_number : At(k)' = At(k)
         /\ At(Buffer_number - NumBuffers + 1) = Succ(HeadSlot)
  <1>1. HeadSlot \in Slot /\ Buffer_number \in Nat
    BY HeadType DEF TypeOK
  <1>2. \A k \in Int : At(k)' = Back(Succ(HeadSlot), Buffer_number + 1 - k)
    BY <1>1 DEF At, Back
  <1> HIDE DEF HeadSlot
  <1> QED
    BY <1>1, <1>2, RingAssumption DEF At, Back, Slot, Succ

LEMMA NumberAt ==
  ASSUME TypeOK, NumberInv, fpc # "off"
  PROVE  \A k \in Buffer_number - NumBuffers + 1 .. Buffer_number : k >= 1 =>
           buffer[At(k)].nr = k /\ buffer[At(k)].run = TheRun
  <1>1. Buffer_number \in Nat
    BY DEF TypeOK
  <1>2. ASSUME NEW k \in Buffer_number - NumBuffers + 1 .. Buffer_number, k >= 1
        PROVE  buffer[At(k)].nr = k /\ buffer[At(k)].run = TheRun
    <2>1. /\ Buffer_number - k \in 0 .. NumBuffers - 1 /\ Buffer_number - k < Buffer_number
          /\ Buffer_number - (Buffer_number - k) = k
      BY <1>1, <1>2, RingAssumption
    <2> QED
      BY <2>1 DEF NumberInv, At
  <1> QED
    BY <1>2

\* The last buffer of the run in the stream.
Logged ==
  IF stream = <<>> THEN 0
  ELSE IF stream[Len(stream)].run = TheRun THEN stream[Len(stream)].nr ELSE 0

LEMMA LoggedNat == TypeOK => Logged \in Nat
  <1> SUFFICES ASSUME TypeOK, stream # <<>> PROVE stream[Len(stream)].nr \in Nat
    BY DEF Logged
  <1>1. stream[Len(stream)] \in EntryType
    BY DEF TypeOK
  <1> QED
    BY <1>1 DEF EntryType

\* The buffers handed over and not yet written are those after the last one
\* in the stream, each has a writer, and it is the turn of the first.
QueueInv ==
  fpc # "off" =>
    /\ Logged <= Started /\ Buffer_number - Logged <= NumBuffers
    /\ \A t \in Writers : writer[t].pc \in PreWrite =>
         \E k \in Logged + 1 .. Started : writer[t].slot = At(k)
    /\ \A k \in Logged + 1 .. Started : \E t \in Writers : Has(t, At(k))
    /\ \A t \in Writers : writer[t].pc \in {"waitfd", "write"} =>
         writer[t].slot = At(Logged + 1)

\* Nothing of a later run is in the stream.
RunsInv == \A i \in DOMAIN stream : stream[i].run <= TheRun

LEMMA StartedNat ==
  ASSUME TypeOK, NumberInv, fpc # "off"
  PROVE  Started \in Nat /\ Started < Buffer_number
  BY DEF TypeOK, NumberInv, Started

\* What is next to be written, or under way, is in the ring.
LEMMA QueueLive ==
  ASSUME TypeOK, NumberInv, QueueInv, fpc # "off"
  PROVE  /\ Logged \in Nat /\ Started \in Nat /\ Buffer_number \in Nat
         /\ \A k \in Logged + 1 .. Started :
              /\ k \in Buffer_number - NumBuffers + 1 .. Buffer_number /\ k >= 1
              /\ At(k) \in Slot /\ Prev(At(k)) = At(k - 1)
              /\ buffer[At(k)].nr = k /\ buffer[At(k)].run = TheRun
              /\ \A j \in Logged + 1 .. Started : At(j) = At(k) => j = k
  <1>1. Logged \in Nat /\ Started \in Nat /\ Started < Buffer_number /\ Buffer_number \in Nat
        /\ Buffer_number - Logged <= NumBuffers
    BY LoggedNat, StartedNat DEF TypeOK, QueueInv
  <1>2. \A k \in Logged + 1 .. Started :
          /\ k \in Buffer_number - NumBuffers + 1 .. Buffer_number /\ k >= 1
          /\ k \in Buffer_number - NumBuffers .. Buffer_number
    BY <1>1, RingAssumption
  <1> QED
    BY <1>1, <1>2, AtLemma, NumberAt

\* What the step of another thread than a writing one leaves to be shown.
LEMMA QueueSame ==
  ASSUME TypeOK, NumberInv, QueueInv, fpc # "off", HeadSlot' = HeadSlot,
         UNCHANGED <<Buffer_number, TheRun, stream, Started>>,
         \A u \in Writers : /\ (writer'[u].pc \in PreWrite) = (writer[u].pc \in PreWrite)
                            /\ writer'[u].slot = writer[u].slot,
         \A u \in Writers : writer'[u].pc \in {"waitfd", "write"}
                              => \/ writer[u].pc \in {"waitfd", "write"}
                                 \/ writer[u].slot = At(Logged + 1)
  PROVE  QueueInv'
  <1>1. Logged' = Logged /\ \A k : At(k)' = At(k)
    BY AtSame DEF Logged
  <1>2. \A u \in Writers : \A s : Has(u, s)' <=> Has(u, s)
    BY DEF Has
  <1> QED
    BY <1>1, <1>2 DEF QueueInv

LEMMA QueueStep ==
  ASSUME Ordered, TypeOK, FlagInv, FdStable, NumberInv, QueueInv, RunsInv, [Next]_vars
  PROVE  QueueInv' /\ RunsInv'
  <1> USE RingAssumption
  <1>0. Smooth /\ Calm /\ Compressed /\ Buffer_number \in Nat /\ TheRun \in Nat
    BY DEF Ordered, Smooth, TypeOK
  <1>1. CASE Begin
    <2>1. /\ UNCHANGED <<writer, stream>> /\ TheRun' = TheRun + 1 /\ Buffer_number' = 1
          /\ fpc = "off" /\ fpc' = "fill"
      BY <1>0, <1>1, BeginShape
    <2>2. RunsInv' /\ Logged' = 0
      <3>1. \A i \in DOMAIN stream : stream[i] \in EntryType
        BY DEF TypeOK
      <3>2. \A i \in DOMAIN stream : stream[i].run < TheRun + 1
        BY <1>0, <3>1 DEF RunsInv, EntryType
      <3>3. stream # <<>> => Len(stream) \in DOMAIN stream
        BY DEF TypeOK
      <3>4. stream # <<>> => stream[Len(stream)].run # TheRun + 1
        BY <1>0, <3>1, <3>2, <3>3 DEF EntryType
      <3>5. \A i \in DOMAIN stream : stream[i].run <= TheRun + 1
        BY <1>0, <3>1, <3>2 DEF EntryType
      <3> QED
        BY <2>1, <3>4, <3>5 DEF RunsInv, Logged
    <2>3. \A t \in Writers : writer'[t].pc \notin PreWrite
      BY <2>1, SlotType DEF FlagInv, Idle, PreWrite
    <2>4. Started' = 0
      BY <2>1 DEF Started
    <2> QED
      BY <2>1, <2>2, <2>3, <2>4 DEF QueueInv, PreWrite
  <1>2. CASE SwitchBuffer
    <2>1. fpc # "off" /\ HeadSlot' = HeadSlot /\ UNCHANGED <<Buffer_number, TheRun, stream, Started, writer>>
      BY <1>2, SwitchShape DEF Started
    <2> QED
      BY <2>1, QueueSame DEF RunsInv
  <1>3. CASE Recycle
    <2>1. /\ HeadSlot' = Succ(HeadSlot) /\ fill = Succ(HeadSlot) /\ ~buffer[fill].busy
          /\ UNCHANGED <<writer, stream, TheRun>> /\ Buffer_number' = Buffer_number + 1
          /\ fpc = "free" /\ fpc' = "roll" /\ Started' = Started /\ Logged' = Logged
      BY <1>0, <1>3, RecycleShape DEF Started, Logged
    <2>2. \A k \in Logged + 1 .. Started : At(k)' = At(k)
      BY <2>1, AtRecycle, QueueLive
    <2>3. Logged \in Nat /\ Started = Buffer_number - 1
      BY <2>1, LoggedNat DEF Started
    <2>4. Buffer_number - Logged # NumBuffers
      <3> SUFFICES ASSUME Buffer_number - Logged = NumBuffers PROVE FALSE
        OBVIOUS
      <3>1. Logged + 1 \in Logged + 1 .. Started
        BY <1>0, <2>3
      <3>2. Logged + 1 = Buffer_number - NumBuffers + 1
        BY <1>0, <2>3
      <3>3. At(Logged + 1) = fill
        BY <2>1, <3>2, AtRecycle
      <3>4. PICK t \in Writers : Has(t, fill)
        BY <2>1, <3>1, <3>3 DEF QueueInv
      <3> QED
        BY <2>1, <3>4 DEF Has, FlagInv, Idle, PreWrite
    <2>5. Buffer_number + 1 - Logged <= NumBuffers
      BY <1>0, <2>1, <2>3, <2>4 DEF QueueInv
    <2>6. \A t \in Writers : writer[t].pc \in {"waitfd", "write"} => Logged + 1 \in Logged + 1 .. Started
      BY <1>0, <2>1, <2>3 DEF QueueInv, PreWrite
    <2>7. \A u \in Writers : \A s : Has(u, s)' <=> Has(u, s)
      BY <2>1 DEF Has
    <2>8. \A t \in Writers : writer'[t].pc \in PreWrite =>
            \E k \in Logged + 1 .. Started : writer'[t].slot = At(k)'
      BY <2>1, <2>2 DEF QueueInv
    <2>9. \A k \in Logged + 1 .. Started : \E t \in Writers : Has(t, At(k))'
      <3>1. \A k \in Logged + 1 .. Started : \E t \in Writers : Has(t, At(k))
        BY <2>1 DEF QueueInv
      <3> QED
        BY <2>1, <2>2, <3>1 DEF Has
    <2>10. \A t \in Writers : writer'[t].pc \in {"waitfd", "write"} =>
             writer'[t].slot = At(Logged + 1)'
      <3>1. \A t \in Writers : writer[t].pc \in {"waitfd", "write"} => writer[t].slot = At(Logged + 1)
        BY <2>1 DEF QueueInv
      <3>2. Logged + 1 \in Logged + 1 .. Started => At(Logged + 1)' = At(Logged + 1)
        <4>1. \A k \in Logged + 1 .. Started : At(k)' = Back(HeadSlot', Buffer_number' - k)
          BY DEF At, Back
        <4>2. At(Logged + 1)' = Back(HeadSlot', Buffer_number' - (Logged + 1))
          BY <2>1 DEF At, Back
        <4> QED
          BY <2>2, <4>1, <4>2
      <3> QED
        BY <2>1, <2>6, <3>1, <3>2
    <2>11. Logged' <= Started'
      BY <2>1 DEF QueueInv
    <2>12. RunsInv'
      BY <2>1 DEF RunsInv
    <2>13. QueueInv'
      <3>1. /\ Logged' <= Started' /\ Buffer_number' - Logged' <= NumBuffers
            /\ Logged' + 1 = Logged + 1 /\ Started' = Started
        BY <1>0, <2>1, <2>3, <2>5, <2>11
      <3> QED
        BY <2>8, <2>9, <2>10, <3>1 DEF QueueInv
    <2> QED
      BY <2>12, <2>13
  <1>4. CASE KeepFile \/ Rollover
    <2>1. /\ fpc # "off" /\ HeadSlot' = HeadSlot
          /\ UNCHANGED <<Buffer_number, TheRun, stream, Started, writer>>
      BY <1>4, RollSame DEF Started, ringVars, HeadSlot
    <2> QED
      BY <2>1, QueueSame DEF RunsInv
  <1>5. ASSUME NEW t \in Writers, StartWriter(t) PROVE QueueInv' /\ RunsInv'
    <2>1. /\ UNCHANGED <<stream, TheRun, transport, Buffer_number>> /\ Logged' = Logged
          /\ fpc = "start" /\ fpc' \in {"fill", "drain"} /\ HeadSlot' = HeadSlot
      BY <1>5, StartSame DEF SameRing, HeadSlot, Logged
    <2>2. transport = At(Buffer_number - 1) /\ Started = Buffer_number - 2
          /\ Started' = Buffer_number - 1
      BY <1>0, <2>1, TransportNumber DEF At, Started
    <2>3. \A k : At(k)' = At(k)
      BY <2>1, AtSame
    <2>4. Logged \in Nat /\ Started \in Nat
      BY <2>1, QueueLive
    <2>5. /\ Started + 1 = Buffer_number - 1 /\ Started' = Started + 1
          /\ Started + 1 \in Logged + 1 .. Started + 1
          /\ \A k \in Logged + 1 .. Started + 1 : k \in Logged + 1 .. Started \/ k = Started + 1
          /\ \A k \in Logged + 1 .. Started : k \in Logged + 1 .. Started + 1
      BY <1>0, <2>1, <2>2, <2>4 DEF QueueInv
    <2>6. /\ writer'[t].pc = "compress" /\ writer'[t].slot = At(Started + 1)
          /\ \A u \in Writers : u # t => writer'[u] = writer[u]
      BY <1>0, <1>5, <2>2, <2>5, NoneBroken DEF StartWriter, TypeOK
    <2>7. writer[t].pc \notin PreWrite
      BY <1>0, <1>5, HasStart
    <2>8. \A u \in Writers : writer'[u].pc \in PreWrite =>
            \E k \in Logged + 1 .. Started + 1 : writer'[u].slot = At(k)
      BY <2>1, <2>5, <2>6 DEF QueueInv
    <2>9. \A k \in Logged + 1 .. Started + 1 : \E u \in Writers :
            writer'[u].pc \in PreWrite /\ writer'[u].slot = At(k)
      <3>1. writer'[t].pc \in PreWrite
        BY <2>6 DEF PreWrite
      <3>2. \A k \in Logged + 1 .. Started : \E u \in Writers :
              u # t /\ writer[u].pc \in PreWrite /\ writer[u].slot = At(k)
        BY <2>1, <2>7 DEF QueueInv, Has
      <3> QED
        BY <2>5, <2>6, <3>1, <3>2
    <2>10. \A u \in Writers : writer'[u].pc \in {"waitfd", "write"} => writer'[u].slot = At(Logged + 1)
      BY <2>1, <2>6 DEF QueueInv
    <2>11. Logged <= Started + 1 /\ Buffer_number - Logged <= NumBuffers
      BY <2>1, <2>4 DEF QueueInv
    <2> QED
      BY <2>1, <2>3, <2>5, <2>8, <2>9, <2>10, <2>11 DEF QueueInv, RunsInv, Has
  <1>6. CASE DropBuffer \/ End
    BY <1>6 DEF DropBuffer, End, NumberInv, QueueInv, RunsInv
  <1>7. ASSUME NEW t \in Writers, WriterStep(t), ~WriteAndRelease(t)
        PROVE  QueueInv' /\ RunsInv'
    <2>1. /\ HeadSlot' = HeadSlot /\ UNCHANGED <<Buffer_number, TheRun, stream, Started, fpc>>
      BY <1>7, WriterSame, HasWriter DEF SameRing, Started, HeadSlot
    <2>2. RunsInv'
      BY <2>1 DEF RunsInv
    <2>3. CASE fpc = "off"
      BY <2>1, <2>2, <2>3 DEF QueueInv
    <2>4. ASSUME fpc # "off", NEW u \in Writers, writer'[u].pc \in {"waitfd", "write"},
                 writer[u].pc \notin {"waitfd", "write"}
          PROVE  writer[u].slot = At(Logged + 1)
      <3>1. u = t /\ WaitPrevious(t)
        <4>1. CASE AcquireFd(t)
          BY <2>4, <4>1 DEF AcquireFd, TypeOK
        <4>2. CASE ~AcquireFd(t) /\ ~WaitPrevious(t)
          <5>1. PICK from \in WriterPC, to \in {"waitprev", "none", "stale"} : Step(t, from, to)
            BY <1>7, <4>2 DEF WriterStep, Compress, Finish, ClearBusy, ClearDirty, WriterPC
          <5> QED
            BY <2>4, <5>1, StepKeeps
        <4>3. CASE WaitPrevious(t)
          BY <2>4, <4>3, StepKeeps DEF WaitPrevious
        <4> QED
          BY <4>1, <4>2, <4>3
      <3>2. writer[t].pc = "waitprev" /\ PrevDone(writer[t].slot)
        BY <3>1 DEF WaitPrevious, Step
      <3>3. PICK k \in Logged + 1 .. Started : writer[t].slot = At(k)
        BY <2>4, <3>2 DEF QueueInv, PreWrite
      <3>4. /\ Logged \in Nat /\ Started \in Nat /\ Prev(At(k)) = At(k - 1) /\ At(k - 1) \in Slot
            /\ buffer[At(k)].nr = k
        <4>1. k - 1 \in Buffer_number - NumBuffers .. Buffer_number
          BY <1>0, <2>4, <3>3, QueueLive
        <4> QED
          BY <2>4, <3>3, <4>1, QueueLive, AtLemma
      <3>5. CASE k # Logged + 1
        <4>1. k - 1 \in Logged + 1 .. Started
          BY <3>4, <3>5
        <4>2. PICK v \in Writers : Has(v, At(k - 1))
          BY <2>4, <4>1 DEF QueueInv
        <4>3. buffer[At(k - 1)].busy
          BY <4>2 DEF Has, FlagInv, Idle, PreWrite
        <4>4. buffer[At(k - 1)].nr = k - 1
          BY <2>4, <4>1, QueueLive
        <4>5. ~(k < k - 1)
          BY <3>4
        <4> QED
          BY <1>0, <3>2, <3>3, <3>4, <4>3, <4>4, <4>5 DEF PrevDone, Calm
      <3> QED
        BY <3>1, <3>3, <3>5
    <2>5. CASE fpc # "off"
      <3>1. \A u \in Writers : /\ (writer'[u].pc \in PreWrite) = (writer[u].pc \in PreWrite)
                               /\ writer'[u].slot = writer[u].slot
        BY <1>7, HasWriter
      <3>2. \A u \in Writers : writer'[u].pc \in {"waitfd", "write"}
                              => \/ writer[u].pc \in {"waitfd", "write"}
                                 \/ writer[u].slot = At(Logged + 1)
        BY <2>4, <2>5
      <3> QED
        BY <2>1, <2>2, <2>5, <3>1, <3>2, QueueSame
    <2> QED
      BY <2>3, <2>5
  <1>8. ASSUME NEW t \in Writers, WriteAndRelease(t)
        PROVE  QueueInv' /\ RunsInv'
    <2>1. /\ HeadSlot' = HeadSlot /\ UNCHANGED <<Buffer_number, TheRun, Started, fpc>>
          /\ \A k : At(k)' = At(k)
      <3>1. HeadSlot' = HeadSlot /\ UNCHANGED <<Buffer_number, TheRun, Started, fpc>>
        BY <1>8, WriterSame DEF WriterStep, SameRing, Started, HeadSlot
      <3> QED
        BY <3>1, AtSame
    <2>2. /\ writer[t].pc = "write" /\ writer[t].slot = At(Logged + 1) /\ fpc # "off"
          /\ writer[t].pc \in PreWrite
      <3>1. writer[t].pc = "write" /\ writer[t].pc \in PreWrite
        BY <1>8, WriteShape DEF PreWrite
      <3>2. fpc # "off"
        BY <3>1, SlotType DEF FlagInv, Idle
      <3> QED
        BY <3>1, <3>2 DEF QueueInv
    <2>3. /\ Logged \in Nat /\ Started \in Nat /\ Logged + 1 \in Logged + 1 .. Started
          /\ Entry(t).run = TheRun /\ Entry(t).nr = Logged + 1
      <3>1. PICK k \in Logged + 1 .. Started : writer[t].slot = At(k)
        BY <2>2 DEF QueueInv
      <3>2. Logged \in Nat /\ Started \in Nat /\ Logged + 1 \in Logged + 1 .. Started
        BY <2>2, <3>1, QueueLive
      <3> QED
        BY <2>2, <3>2, QueueLive DEF Entry
    <2>4. Logged' = Logged + 1 /\ RunsInv'
      <3>1. stream' # <<>>
        BY <1>8, WriteShape DEF TypeOK
      <3> QED
        BY <1>0, <1>8, <2>1, <2>3, <3>1, WriteShape DEF Logged, RunsInv
    <2>5. \A u \in Writers : writer[u].pc \in PreWrite /\ u # t => writer[u].slot # At(Logged + 1)
      BY <2>2 DEF FlagInv, Idle, PreWrite
    <2>6. \A u \in Writers : /\ u # t => writer'[u].pc = writer[u].pc
                             /\ writer'[u].slot = writer[u].slot
                             /\ writer'[t].pc \notin PreWrite
      BY <1>8, WriteShape DEF PreWrite
    <2>7. /\ \A k \in Logged + 1 .. Started : k \in Logged + 1 + 1 .. Started \/ k = Logged + 1
          /\ \A k \in Logged + 1 + 1 .. Started : k \in Logged + 1 .. Started /\ k # Logged + 1
      BY <2>3
    <2>8. \A u \in Writers : writer'[u].pc \in PreWrite =>
            \E k \in Logged + 1 + 1 .. Started : writer'[u].slot = At(k)
      BY <2>2, <2>5, <2>6, <2>7 DEF QueueInv
    <2>9. \A k \in Logged + 1 + 1 .. Started : \E u \in Writers :
            writer'[u].pc \in PreWrite /\ writer'[u].slot = At(k)
      <3> SUFFICES ASSUME NEW k \in Logged + 1 + 1 .. Started
                   PROVE  \E u \in Writers : writer'[u].pc \in PreWrite /\ writer'[u].slot = At(k)
        OBVIOUS
      <3>1. k \in Logged + 1 .. Started /\ k # Logged + 1
        BY <2>7
      <3>2. At(k) # At(Logged + 1)
        BY <2>2, <2>3, <3>1, QueueLive
      <3>3. PICK u \in Writers : Has(u, At(k))
        BY <2>2, <3>1 DEF QueueInv
      <3> QED
        BY <2>2, <2>6, <3>2, <3>3 DEF Has
    <2>10. \A u \in Writers : writer'[u].pc \notin {"waitfd", "write"}
      BY <2>2, <2>5, <2>6 DEF QueueInv, PreWrite
    <2>11. Logged + 1 <= Started /\ Buffer_number - (Logged + 1) <= NumBuffers
      BY <1>0, <2>2, <2>3 DEF QueueInv
    <2> QED
      BY <2>1, <2>4, <2>8, <2>9, <2>10, <2>11 DEF QueueInv, Has
  <1>9. CASE UNCHANGED vars
    BY <1>9 DEF vars, ringVars, QueueInv, RunsInv, Logged, Started, At, Back, HeadSlot, Has
  <1> QED
    BY <1>1, <1>2, <1>3, <1>4, <1>5, <1>6, <1>7, <1>8, <1>9 DEF Next, FillStep, Done

LEMMA QueueTrue == ASSUME Ordered PROVE Spec => [](QueueInv /\ RunsInv)
  <1>1. Init => QueueInv /\ RunsInv
    BY DEF Init, QueueInv, RunsInv
  <1>2. TypeOK /\ FlagInv /\ FdStable /\ NumberInv /\ (QueueInv /\ RunsInv) /\ [Next]_vars
          => (QueueInv /\ RunsInv)'
    BY QueueStep
  <1>3. Spec => []FlagInv /\ []FdStable /\ []NumberInv
    BY FlagsTrue, FileStaysOpen, NumbersTrue DEF Ordered, Smooth
  <1> QED
    BY <1>1, <1>2, <1>3, TypeCorrect, PTL DEF Spec

\* What the writer that holds the mutex appends.
LEMMA NextWritten ==
  ASSUME Ordered, TypeOK, FlagInv, FdStable, NumberInv, QueueInv,
         NEW t \in Writers, WriteAndRelease(t)
  PROVE  /\ fpc # "off" /\ outfile_fd # 0 /\ Logged + 1 \in 1 .. Started
         /\ Entry(t).file = outfile_fd /\ Entry(t).run = TheRun /\ Entry(t).nr = Logged + 1
         /\ Entry(t).failed => MaxFailures > 0
         /\ Logged' = Logged + 1 /\ lastWritten' = At(Logged + 1)
         /\ \A k : At(k)' = At(k)
         /\ UNCHANGED <<fpc, TheRun, Buffer_number, fill, transport, outfile_fd, nfiles, firstEvent,
                        reports, buffer>>
  <1>1. writer[t].pc = "write" /\ writer[t].pc \in PreWrite
    BY WriteShape DEF PreWrite
  <1>2. fpc # "off"
    BY <1>1, SlotType DEF FlagInv, Idle
  <1>3. writer[t].slot = At(Logged + 1) /\ \E k \in Logged + 1 .. Started : writer[t].slot = At(k)
    BY <1>1, <1>2 DEF QueueInv
  <1>4. /\ Logged \in Nat /\ Started \in Nat /\ Logged + 1 \in Logged + 1 .. Started
        /\ Logged + 1 \in 1 .. Started
    BY <1>2, <1>3, QueueLive
  <1>5. /\ buffer[writer[t].slot].nr = Logged + 1 /\ buffer[writer[t].slot].run = TheRun
    BY <1>2, <1>3, <1>4, QueueLive
  <1>6. Entry(t).file = outfile_fd /\ Entry(t).run = TheRun /\ Entry(t).nr = Logged + 1
    BY <1>5 DEF Entry
  <1>7. UNCHANGED <<fpc, TheRun, Buffer_number, fill, transport, outfile_fd, nfiles, firstEvent,
                    reports, buffer>>
    BY DEF WriteAndRelease, ringVars
  <1>8. Logged' = Logged + 1
    <2>1. stream' # <<>> /\ stream'[Len(stream')] = Entry(t)
      BY WriteShape DEF TypeOK
    <2> QED
      BY <1>6, <1>7, <2>1 DEF Logged
  <1>9. \A k : At(k)' = At(k)
    BY <1>7, AtSame DEF HeadSlot
  <1>10. /\ lastWritten' = At(Logged + 1) /\ outfile_fd # 0
         /\ Entry(t).failed => MaxFailures > 0
    BY <1>2, <1>3, WriteShape DEF NumberInv
  <1> QED
    BY <1>2, <1>4, <1>6, <1>7, <1>8, <1>9, <1>10

LEMMA StreamFrame ==
  ASSUME Calm, TypeOK, [Next]_vars, \A t \in Writers : ~WriteAndRelease(t)
  PROVE  UNCHANGED stream
  BY HasFill, HasStart, HasWriter DEF Next, FillStep, Done, vars

(* With compression the begin-run event is the first event of a run in the
   data stream. *)
THEOREM BeginsFirst == ASSUME Ordered PROVE Spec => []BeginRunFirst
  <1>1. Init => BeginRunFirst
    BY DEF Init, BeginRunFirst
  <1>2. ASSUME TypeOK, FlagInv, FdStable, NumberInv, QueueInv, BeginRunFirst, [Next]_vars
        PROVE  BeginRunFirst'
    <2>1. CASE UNCHANGED stream
      BY <1>2, <2>1 DEF BeginRunFirst
    <2>2. ASSUME NEW t \in Writers, WriteAndRelease(t) PROVE BeginRunFirst'
      <3>1. /\ Entry(t).run = TheRun /\ Entry(t).nr = Logged + 1 /\ TheRun' = TheRun
            /\ Logged \in Nat
        BY <1>2, <2>2, NextWritten, LoggedNat
      <3>2. /\ stream'[Len(stream) + 1] = Entry(t) /\ Len(stream) \in Nat
            /\ DOMAIN stream' = 1 .. Len(stream) + 1 /\ DOMAIN stream = 1 .. Len(stream)
            /\ \A i \in 1 .. Len(stream) : stream'[i] = stream[i]
        <4>1. stream \in Seq(EntryType) /\ Entry(t) \in EntryType /\ stream' = Append(stream, Entry(t))
          BY <1>2, <2>2, WriteShape DEF TypeOK
        <4> QED
          BY <4>1
      <3>3. ASSUME NEW i \in 1 .. Len(stream)
            PROVE  \E j \in 1 .. i : stream'[j].run = stream'[i].run /\ stream'[j].nr = 1
        <4>1. PICK j \in 1 .. i : stream[j].run = stream[i].run /\ stream[j].nr = 1
          BY <1>2, <3>2 DEF BeginRunFirst
        <4>2. j \in 1 .. Len(stream)
          BY <3>2, <4>1
        <4> QED
          BY <3>2, <4>1, <4>2
      <3>4. \E j \in 1 .. Len(stream) + 1 : stream'[j].run = TheRun /\ stream'[j].nr = 1
        <4>1. CASE Logged = 0
          BY <3>1, <3>2, <4>1
        <4>2. CASE Logged # 0
          <5>1. Len(stream) \in 1 .. Len(stream) /\ stream[Len(stream)].run = TheRun
            BY <3>2, <4>2, <1>2 DEF Logged, TypeOK
          <5>2. PICK j \in 1 .. Len(stream) : stream'[j].run = stream'[Len(stream)].run /\ stream'[j].nr = 1
            BY <3>3, <5>1
          <5> QED
            BY <3>2, <5>1, <5>2
        <4> QED
          BY <4>1, <4>2
      <3>5. \A i \in DOMAIN stream' : i \in 1 .. Len(stream) \/ i = Len(stream) + 1
        BY <3>2
      <3> QED
        BY <3>1, <3>2, <3>3, <3>4, <3>5 DEF BeginRunFirst
    <2> QED
      BY <1>2, <2>1, <2>2, StreamFrame DEF Ordered, Smooth
  <1>3. TypeOK /\ FlagInv /\ FdStable /\ NumberInv /\ (QueueInv /\ RunsInv) /\ BeginRunFirst
          /\ [Next]_vars => BeginRunFirst'
    BY <1>2
  <1>4. Spec => []FlagInv /\ []FdStable /\ []NumberInv
    BY FlagsTrue, FileStaysOpen, NumbersTrue DEF Ordered, Smooth
  <1> QED
    BY <1>1, <1>3, <1>4, QueueTrue, TypeCorrect, PTL DEF Spec

---------------------------------------------------------------------------
(* What the reports are made from.                                         *)

\* last_written_buffernr names the last buffer in the stream, and a slot
\* keeps the last event number of its old buffer until its new one is full.
LastInv ==
  fpc # "off" =>
    /\ Logged > 0 => lastWritten = At(Logged)
    /\ BytesInThisFile > 0 => Logged > 0
    /\ \A k \in Buffer_number - NumBuffers + 1 .. Buffer_number - 1 :
         k >= 1 => buffer[At(k)].last = k
    /\ fpc = "free" => buffer[HeadSlot].last = Buffer_number
    /\ fpc # "free" /\ Buffer_number > NumBuffers =>
         buffer[HeadSlot].last = Buffer_number - NumBuffers

LEMMA LastSame ==
  ASSUME TypeOK, LastInv, fpc # "off", HeadSlot' = HeadSlot,
         UNCHANGED <<Buffer_number, TheRun, stream, lastWritten>>,
         fpc' = "free" <=> fpc = "free",
         BytesInThisFile' = BytesInThisFile \/ BytesInThisFile' = 0,
         \A s \in Slot : buffer'[s].last = buffer[s].last
  PROVE  LastInv'
  <1>1. Logged' = Logged /\ \A k : At(k)' = At(k)
    BY AtSame DEF Logged
  <1>2. \A k \in Buffer_number - NumBuffers + 1 .. Buffer_number - 1 : At(k) \in Slot
    BY AtLemma, RingAssumption
  <1>3. HeadSlot \in Slot
    BY HeadType
  <1>4. BytesInThisFile' > 0 => BytesInThisFile > 0
    OBVIOUS
  <1> QED
    BY <1>1, <1>2, <1>3, <1>4 DEF LastInv

LEMMA LastStep ==
  ASSUME Ordered, TypeOK, FlagInv, FdStable, NumberInv, QueueInv, RunsInv, LastInv, [Next]_vars
  PROVE  LastInv'
  <1> USE RingAssumption
  <1>0. Smooth /\ Calm /\ Buffer_number \in Nat /\ TheRun \in Nat /\ BytesInThisFile \in Nat
        /\ Logged \in Nat
    BY LoggedNat DEF Ordered, Smooth, TypeOK
  <1>1. CASE Begin
    <2>1. /\ UNCHANGED stream /\ TheRun' = TheRun + 1 /\ Buffer_number' = 1
          /\ fpc' = "fill" /\ BytesInThisFile' = 0
      BY <1>0, <1>1, BeginShape
    <2>2. Logged' = 0
      <3>1. stream # <<>> => /\ Len(stream) \in DOMAIN stream
                             /\ stream[Len(stream)] \in EntryType
        BY DEF TypeOK
      <3>2. stream # <<>> => stream[Len(stream)].run # TheRun + 1
        BY <1>0, <3>1 DEF RunsInv, EntryType
      <3> QED
        BY <2>1, <3>2 DEF Logged
    <2> QED
      BY <2>1, <2>2 DEF LastInv
  <1>2. CASE SwitchBuffer
    <2>1. /\ fpc = "fill" /\ fpc' = "free" /\ HeadSlot = fill /\ HeadSlot' = fill
          /\ UNCHANGED <<Buffer_number, TheRun, stream, lastWritten, BytesInThisFile>>
          /\ buffer'[fill].last = buffer[fill].nr
          /\ \A s \in Slot : s # fill => buffer'[s] = buffer[s]
      BY <1>2, SwitchShape
    <2>2. Logged' = Logged /\ \A k : At(k)' = At(k)
      BY <2>1, AtSame DEF Logged
    <2>3. At(Buffer_number) = fill
      BY <2>1, AtLemma
    <2>4. \A k \in Buffer_number - NumBuffers + 1 .. Buffer_number - 1 : At(k) \in Slot /\ At(k) # fill
      <3>1. \A k \in Buffer_number - NumBuffers + 1 .. Buffer_number - 1 :
              /\ k \in Buffer_number - NumBuffers + 1 .. Buffer_number
              /\ Buffer_number \in Buffer_number - NumBuffers + 1 .. Buffer_number
              /\ k \in Buffer_number - NumBuffers .. Buffer_number
              /\ k # Buffer_number
        BY <1>0
      <3> QED
        BY <2>3, <3>1, AtLemma
    <2>5. buffer[fill].nr = Buffer_number
      <3>1. Buffer_number \in Buffer_number - NumBuffers + 1 .. Buffer_number /\ Buffer_number >= 1
        BY <1>0, <2>1 DEF NumberInv
      <3> QED
        BY <2>1, <2>3, <3>1, NumberAt
    <2> QED
      BY <2>1, <2>2, <2>4, <2>5 DEF LastInv
  <1>3. CASE Recycle
    <2>1. /\ HeadSlot' = Succ(HeadSlot) /\ fill = Succ(HeadSlot) /\ HeadSlot \in Slot
          /\ UNCHANGED <<stream, TheRun, lastWritten, BytesInThisFile>>
          /\ Buffer_number' = Buffer_number + 1
          /\ fpc = "free" /\ fpc' = "roll" /\ Logged' = Logged
          /\ buffer'[fill].last = buffer[fill].last
          /\ \A s \in Slot : s # fill => buffer'[s] = buffer[s]
      BY <1>0, <1>3, RecycleShape DEF Logged
    <2>2. \A s \in Slot : buffer'[s].last = buffer[s].last
      BY <2>1
    <2>3. \A k \in Buffer_number - NumBuffers + 1 .. Buffer_number : At(k)' = At(k) /\ At(k) \in Slot
      <3>1. \A k \in Buffer_number - NumBuffers + 1 .. Buffer_number :
              k \in Buffer_number - NumBuffers .. Buffer_number
        BY <1>0
      <3> QED
        BY <2>1, <3>1, AtRecycle, AtLemma
    <2>4. Logged > 0 => At(Logged)' = At(Logged)
      <3> SUFFICES ASSUME Logged > 0 PROVE At(Logged)' = At(Logged)
        OBVIOUS
      <3>1. Logged # Buffer_number - NumBuffers
        <4> SUFFICES ASSUME Logged = Buffer_number - NumBuffers PROVE FALSE
          OBVIOUS
        <4>1. Logged + 1 \in Logged + 1 .. Started /\ Logged + 1 = Buffer_number - NumBuffers + 1
          BY <1>0, <2>1 DEF Started
        <4>2. At(Logged + 1) = fill
          BY <2>1, <4>1, AtRecycle
        <4>3. PICK t \in Writers : Has(t, fill)
          BY <2>1, <4>1, <4>2 DEF QueueInv
        <4> QED
          BY <1>0, <1>3, <4>3, RecycleShape DEF Has, FlagInv, Idle, PreWrite
      <3>2. Logged \in Buffer_number - NumBuffers + 1 .. Buffer_number
        BY <1>0, <2>1, <3>1 DEF QueueInv, Started
      <3>3. \A k \in Buffer_number - NumBuffers + 1 .. Buffer_number :
              Back(HeadSlot', Buffer_number' - k) = At(k)
        BY <2>3 DEF At, Back
      <3>4. At(Logged)' = Back(HeadSlot', Buffer_number' - Logged)
        BY <2>1 DEF At, Back
      <3> QED
        BY <3>2, <3>3, <3>4
    <2>5. \A k \in Buffer_number - NumBuffers + 1 .. Buffer_number : k >= 1 => buffer[At(k)].last = k
      <3>1. At(Buffer_number) = HeadSlot
        BY AtLemma
      <3>2. \A k \in Buffer_number - NumBuffers + 1 .. Buffer_number :
              k \in Buffer_number - NumBuffers + 1 .. Buffer_number - 1 \/ k = Buffer_number
        BY <1>0
      <3> QED
        BY <2>1, <3>1, <3>2 DEF LastInv
    <2>6. \A k \in Buffer_number + 1 - NumBuffers + 1 .. Buffer_number : k >= 1 => buffer'[At(k)'].last = k
      <3>1. \A k \in Buffer_number + 1 - NumBuffers + 1 .. Buffer_number :
              k \in Buffer_number - NumBuffers + 1 .. Buffer_number
        BY <1>0
      <3> QED
        BY <2>2, <2>3, <2>5, <3>1
    <2>7. Buffer_number + 1 > NumBuffers => buffer'[HeadSlot'].last = Buffer_number + 1 - NumBuffers
      <3> SUFFICES ASSUME Buffer_number + 1 > NumBuffers
                   PROVE  buffer'[HeadSlot'].last = Buffer_number + 1 - NumBuffers
        OBVIOUS
      <3>1. /\ Buffer_number - NumBuffers + 1 \in Buffer_number - NumBuffers + 1 .. Buffer_number
            /\ Buffer_number - NumBuffers + 1 >= 1
            /\ Buffer_number - NumBuffers + 1 = Buffer_number + 1 - NumBuffers
        BY <1>0
      <3>2. At(Buffer_number - NumBuffers + 1) = HeadSlot' /\ HeadSlot' \in Slot
        BY <2>1, AtRecycle, RingLemma
      <3> QED
        BY <2>2, <2>5, <3>1, <3>2
    <2>8. /\ Logged' > 0 => lastWritten' = At(Logged)'
          /\ BytesInThisFile' > 0 => Logged' > 0
      BY <2>1, <2>4 DEF LastInv
    <2>9. \A k \in Buffer_number' - NumBuffers + 1 .. Buffer_number' - 1 : k >= 1 => buffer'[At(k)'].last = k
      <3>1. /\ Buffer_number' - 1 = Buffer_number
            /\ Buffer_number' - NumBuffers + 1 = Buffer_number + 1 - NumBuffers + 1
        BY <1>0, <2>1
      <3> QED
        BY <2>1, <2>6, <3>1
    <2> QED
      <3>1. Buffer_number' > NumBuffers => buffer'[HeadSlot'].last = Buffer_number' - NumBuffers
        BY <1>0, <2>1, <2>7
      <3> QED
        BY <2>1, <2>8, <2>9, <3>1 DEF LastInv
  <1>4. CASE KeepFile \/ Rollover
    <2>1. /\ fpc = "roll" /\ fpc' = "start" /\ HeadSlot' = HeadSlot
          /\ UNCHANGED <<Buffer_number, TheRun, stream, buffer, lastWritten>>
          /\ (BytesInThisFile' = BytesInThisFile \/ BytesInThisFile' = 0)
      BY <1>4, RollSame DEF ringVars, HeadSlot, KeepFile, Rollover, fileVars
    <2> QED
      BY <2>1, LastSame
  <1>5. ASSUME NEW t \in Writers, StartWriter(t) PROVE LastInv'
    <2>1. /\ SameRing /\ UNCHANGED <<stream, lastWritten, BytesInThisFile>>
          /\ fpc = "start" /\ fpc' \in {"fill", "drain"} /\ HeadSlot' = HeadSlot
      BY <1>0, <1>5, StartSame, HasStart DEF SameRing, HeadSlot
    <2>2. /\ UNCHANGED <<Buffer_number, TheRun>>
          /\ \A s \in Slot : buffer'[s].last = buffer[s].last
      BY <2>1 DEF SameRing
    <2> QED
      BY <2>1, <2>2, LastSame
  <1>6. CASE DropBuffer \/ End
    BY <1>6 DEF DropBuffer, End, NumberInv, LastInv
  <1>7. ASSUME NEW t \in Writers, WriterStep(t), ~WriteAndRelease(t) PROVE LastInv'
    <2>1. /\ SameRing /\ UNCHANGED <<stream, lastWritten, BytesInThisFile, fpc>> /\ HeadSlot' = HeadSlot
      BY <1>7, WriterSame, HasWriter DEF SameRing, HeadSlot
    <2>2. /\ UNCHANGED <<Buffer_number, TheRun>>
          /\ \A s \in Slot : buffer'[s].last = buffer[s].last
      BY <2>1 DEF SameRing
    <2>3. CASE fpc = "off"
      BY <2>1, <2>3 DEF LastInv
    <2>4. CASE fpc # "off"
      BY <2>1, <2>2, <2>4, LastSame
    <2> QED
      BY <2>3, <2>4
  <1>8. ASSUME NEW t \in Writers, WriteAndRelease(t) PROVE LastInv'
    <2>1. /\ Logged' = Logged + 1 /\ lastWritten' = At(Logged + 1) /\ \A k : At(k)' = At(k)
          /\ fpc # "off" /\ HeadSlot' = HeadSlot
          /\ UNCHANGED <<fpc, Buffer_number, buffer>>
      BY <1>8, NextWritten DEF HeadSlot
    <2>2. Logged' > 0 => lastWritten' = At(Logged)'
      <3>1. At(Logged)' = Back(HeadSlot, Buffer_number - (Logged + 1))
        BY <2>1 DEF At, Back
      <3> QED
        BY <2>1, <3>1 DEF At
    <2>3. Logged' > 0
      BY <1>0, <2>1
    <2> QED
      BY <2>1, <2>2, <2>3 DEF LastInv
  <1>9. CASE UNCHANGED vars
    BY <1>9 DEF vars, ringVars, fileVars, LastInv, Logged, At, Back, HeadSlot
  <1> QED
    BY <1>1, <1>2, <1>3, <1>4, <1>5, <1>6, <1>7, <1>8, <1>9 DEF Next, FillStep, Done

LEMMA LastTrue == ASSUME Ordered PROVE Spec => []LastInv
  <1>1. Init => LastInv
    BY DEF Init, LastInv
  <1>2. TypeOK /\ FlagInv /\ FdStable /\ NumberInv /\ (QueueInv /\ RunsInv) /\ LastInv /\ [Next]_vars
          => LastInv'
    BY LastStep
  <1>3. Spec => []FlagInv /\ []FdStable /\ []NumberInv
    BY FlagsTrue, FileStaysOpen, NumbersTrue DEF Ordered, Smooth
  <1> QED
    BY <1>1, <1>2, <1>3, QueueTrue, TypeCorrect, PTL DEF Spec

\* A report of a run names the last buffer written.
LEMMA ReportLast ==
  ASSUME Ordered, TypeOK, NumberInv, QueueInv, LastInv, fpc \notin {"off", "free"}, Logged > 0
  PROVE  buffer[lastWritten].last = Logged
  <1> USE RingAssumption
  <1>1. Logged \in Nat /\ Buffer_number \in Nat /\ Started \in Nat /\ Started < Buffer_number
        /\ Logged <= Started /\ Buffer_number - Logged <= NumBuffers
    BY LoggedNat, StartedNat DEF TypeOK, QueueInv
  <1>2. CASE Buffer_number - Logged < NumBuffers
    <2>1. Logged \in Buffer_number - NumBuffers + 1 .. Buffer_number - 1 /\ Logged >= 1
      BY <1>1, <1>2
    <2> QED
      BY <2>1 DEF LastInv
  <1>3. CASE Buffer_number - Logged = NumBuffers
    <2>1. At(Logged) = HeadSlot
      BY <1>3, HeadType, BackLemma DEF At
    <2> QED
      BY <1>1, <1>3, <2>1 DEF LastInv
  <1> QED
    BY <1>1, <1>2, <1>3

---------------------------------------------------------------------------
(* The files and their reports.                                            *)

\* What is in file f.
Numbers(f) == {stream[i].nr : i \in InFile(f)}
OneRun(f) == \A i, k \in InFile(f) : stream[i].run = stream[k].run

\* The open file holds the buffers from firstEvent on that are written.
OpenFileInv ==
  /\ \A i \in DOMAIN stream : stream[i].file <= nfiles
  /\ \A j \in DOMAIN reports : reports[j].file <= nfiles
  /\ fpc # "off" =>
       /\ outfile_fd = nfiles
       /\ \A j \in DOMAIN reports : reports[j].file < nfiles
       /\ firstEvent >= 1 /\ firstEvent <= Logged + 1
       /\ Numbers(nfiles) = firstEvent .. Logged
       /\ \A i \in InFile(nfiles) : stream[i].run = TheRun

LEMMA ReportsOf ==
  ReportsMatch <=> \A j \in DOMAIN reports :
                     /\ Numbers(reports[j].file) = reports[j].first .. reports[j].last
                     /\ OneRun(reports[j].file)
  BY DEF ReportsMatch, Numbers, OneRun

\* A report of the open file, made at a rollover or at the end of the run.
LEMMA NewReport ==
  ASSUME Ordered, TypeOK, NumberInv, QueueInv, LastInv, OpenFileInv, ReportsMatch,
         fpc \notin {"off", "free"}, Logged > 0, UNCHANGED stream,
         reports' = Append(reports, Report)
  PROVE  /\ ReportsMatch' /\ Report.last = Logged
         /\ \A j \in DOMAIN reports' : reports'[j].file <= nfiles
  <1>1. Report.last = Logged /\ Report.file = nfiles /\ Report.first = firstEvent
    BY ReportLast DEF Report, OpenFileInv
  <1>3. /\ DOMAIN reports' = 1 .. Len(reports) + 1 /\ DOMAIN reports = 1 .. Len(reports)
        /\ Len(reports) \in Nat
        /\ reports'[Len(reports) + 1] = Report
        /\ \A j \in 1 .. Len(reports) : reports'[j] = reports[j]
    <2>1. reports \in Seq(ReportType) /\ Report \in ReportType
      BY ReportType1 DEF TypeOK
    <2> QED
      BY <2>1
  <1>4. \A j \in DOMAIN reports' : j \in DOMAIN reports \/ j = Len(reports) + 1
    BY <1>3
  <1>5. Numbers(nfiles) = firstEvent .. Logged /\ OneRun(nfiles)
    BY DEF OpenFileInv, OneRun
  <1>6. ReportsMatch'
    <2>1. ASSUME NEW j \in DOMAIN reports'
          PROVE  /\ Numbers(reports'[j].file) = reports'[j].first .. reports'[j].last
                 /\ OneRun(reports'[j].file)
      <3>1. CASE j \in DOMAIN reports
        <4>1. reports'[j] = reports[j]
          BY <1>3, <3>1
        <4> QED
          BY <3>1, <4>1, ReportsOf
      <3>2. CASE j = Len(reports) + 1
        <4>1. reports'[j] = Report
          BY <1>3, <3>2
        <4> QED
          BY <1>1, <1>5, <4>1
      <3> QED
        BY <1>4, <3>1, <3>2
    <2> QED
      BY <2>1 DEF ReportsMatch, Numbers, OneRun, InFile
  <1>7. \A j \in DOMAIN reports' : reports'[j].file <= nfiles
    <2>1. nfiles <= nfiles
      BY DEF TypeOK
    <2> QED
      BY <1>1, <1>3, <1>4, <2>1 DEF OpenFileInv
  <1> QED
    BY <1>1, <1>6, <1>7

\* A file that is opened is empty.
LEMMA NewFile ==
  ASSUME TypeOK, OpenFileInv
  PROVE  InFile(nfiles + 1) = {}
  <1>1. \A i \in DOMAIN stream : stream[i] \in EntryType
    BY DEF TypeOK
  <1>2. \A i \in DOMAIN stream : stream[i].file \in Nat /\ stream[i].file <= nfiles /\ nfiles \in Nat
    BY <1>1 DEF OpenFileInv, EntryType, TypeOK
  <1>3. \A i \in DOMAIN stream : stream[i].file # nfiles + 1
    BY <1>2
  <1> QED
    BY <1>3 DEF InFile

LEMMA FileSame ==
  ASSUME OpenFileInv, ReportsMatch,
         UNCHANGED <<stream, reports, nfiles, outfile_fd, firstEvent, TheRun>>,
         fpc' # "off" => fpc # "off"
  PROVE  OpenFileInv' /\ ReportsMatch'
  <1>1. Logged' = Logged
    BY DEF Logged
  <1>3. OpenFileInv'
    <2>1. Numbers(nfiles)' = Numbers(nfiles) /\ InFile(nfiles)' = InFile(nfiles)
      BY DEF Numbers, InFile
    <2> QED
      BY <1>1, <2>1 DEF OpenFileInv
  <1>4. ReportsMatch'
    BY DEF ReportsMatch, InFile
  <1> QED
    BY <1>3, <1>4

\* A file that is opened for a run.
LEMMA OpenedFile ==
  ASSUME Ordered, TypeOK, TypeOK', OpenFileInv, UNCHANGED stream, fpc' # "off",
         nfiles' = nfiles + 1, outfile_fd' = nfiles + 1, firstEvent' = Logged' + 1,
         \A j \in DOMAIN reports' : reports'[j].file <= nfiles
  PROVE  OpenFileInv'
  <1>1. /\ nfiles \in Nat /\ Logged' \in Nat
        /\ \A i \in DOMAIN stream : stream[i].file \in Nat
        /\ \A j \in DOMAIN reports' : reports'[j].file \in Nat
    <2>1. Logged' \in Nat
      <3>1. stream' # <<>> => Len(stream') \in DOMAIN stream' /\ stream'[Len(stream')] \in EntryType
        BY DEF TypeOK
      <3> QED
        BY <3>1 DEF Logged, EntryType
    <2>2. /\ \A i \in DOMAIN stream : stream[i] \in EntryType
          /\ \A j \in DOMAIN reports' : reports'[j] \in ReportType
      BY DEF TypeOK
    <2> QED
      BY <2>1, <2>2 DEF TypeOK, EntryType, ReportType
  <1>2. InFile(nfiles + 1) = {}
    BY NewFile
  <1>3. firstEvent' >= 1 /\ firstEvent' <= Logged' + 1 /\ firstEvent' .. Logged' = {}
    <2>1. \A n \in Nat : n + 1 >= 1 /\ n + 1 <= n + 1 /\ (n + 1) .. n = {}
      OBVIOUS
    <2> QED
      BY <1>1, <2>1
  <1>4. \A i \in DOMAIN stream : stream[i].file # nfiles + 1
    BY <1>2 DEF InFile
  <1>5. Numbers(nfiles)' = {} /\ \A i \in InFile(nfiles)' : FALSE
    BY <1>4 DEF Numbers, InFile
  <1>6. /\ \A i \in DOMAIN stream' : stream'[i].file <= nfiles'
        /\ \A j \in DOMAIN reports' : reports'[j].file <= nfiles' /\ reports'[j].file < nfiles'
    BY <1>1 DEF OpenFileInv
  <1> QED
    BY <1>3, <1>5, <1>6 DEF OpenFileInv

LEMMA FileStep ==
  ASSUME Ordered, TypeOK, TypeOK', FlagInv, FdStable, NumberInv, QueueInv, RunsInv, LastInv,
         OpenFileInv, ReportsMatch, [Next]_vars
  PROVE  OpenFileInv' /\ ReportsMatch'
  <1>0. /\ Smooth /\ Calm /\ ~OpenMayFail /\ TheRun \in Nat /\ nfiles \in Nat /\ Logged \in Nat
        /\ BytesInThisFile \in Nat /\ RolloverLimit \in Nat
    BY LoggedNat, RingAssumption DEF Ordered, Smooth, TypeOK
  <1>1. CASE Begin
    <2>1. /\ UNCHANGED <<stream, reports>> /\ TheRun' = TheRun + 1 /\ fpc' # "off"
          /\ nfiles' = nfiles + 1 /\ outfile_fd' = nfiles + 1 /\ firstEvent' = 1
      BY <1>0, <1>1, BeginShape
    <2>2. Logged' = 0
      <3>1. stream # <<>> => /\ Len(stream) \in DOMAIN stream
                             /\ stream[Len(stream)] \in EntryType
        BY DEF TypeOK
      <3>2. stream # <<>> => stream[Len(stream)].run # TheRun + 1
        BY <1>0, <3>1 DEF RunsInv, EntryType
      <3> QED
        BY <2>1, <3>2 DEF Logged
    <2>3. firstEvent' = Logged' + 1 /\ \A j \in DOMAIN reports' : reports'[j].file <= nfiles
      BY <2>1, <2>2 DEF OpenFileInv
    <2>4. OpenFileInv'
      BY <2>1, <2>3, OpenedFile
    <2> QED
      BY <2>1, <2>4 DEF ReportsMatch, InFile
  <1>2. CASE SwitchBuffer
    BY <1>2, SwitchShape, FileSame
  <1>3. CASE Recycle
    BY <1>0, <1>3, RecycleShape, FileSame
  <1>4. CASE KeepFile
    BY <1>4, FileSame DEF KeepFile, fileVars
  <1>5. CASE Rollover
    <2>1. /\ fpc = "roll" /\ fpc' = "start" /\ RolloverDue /\ UNCHANGED <<stream, TheRun>>
          /\ nfiles' = nfiles + 1 /\ outfile_fd' = nfiles + 1
          /\ reports' = Append(reports, Report)
          /\ firstEvent' = Report.last + 1
      BY <1>0, <1>5 DEF Rollover, OpenOutcome, Report
    <2>2. Logged > 0
      <3>1. BytesInThisFile > 0
        BY <1>0, <2>1 DEF RolloverDue
      <3> QED
        BY <2>1, <3>1 DEF LastInv
    <2>3. /\ ReportsMatch' /\ Report.last = Logged
          /\ \A j \in DOMAIN reports' : reports'[j].file <= nfiles
      BY <2>1, <2>2, NewReport
    <2>4. Logged' = Logged
      BY <2>1 DEF Logged
    <2>5. firstEvent' = Logged' + 1 /\ fpc' # "off"
      BY <2>1, <2>3, <2>4
    <2> QED
      BY <2>1, <2>3, <2>5, OpenedFile
  <1>6. CASE \E t \in Writers : StartWriter(t)
    <2>1. /\ fpc = "start" /\ UNCHANGED <<stream, reports, nfiles, outfile_fd, firstEvent, TheRun>>
      BY <1>6 DEF StartWriter, fileVars
    <2> QED
      BY <2>1, FileSame
  <1>7. CASE DropBuffer
    BY <1>7 DEF DropBuffer, NumberInv
  <1>8. CASE End
    <2>1. /\ fpc = "drain" /\ fpc' = "off" /\ outfile_fd # 0 /\ UNCHANGED <<stream, nfiles>>
          /\ reports' = Append(reports, Report)
      BY <1>8 DEF End, NumberInv
    <2>2. Logged > 0
      <3>1. \A t \in Writers : writer[t].pc \notin PreWrite
        BY <1>8, SlotType DEF End, FlagInv, Idle, PreWrite
      <3>2. Started \in Nat /\ Started >= 1
        BY <2>1 DEF Started, NumberInv, TypeOK
      <3>3. Logged + 1 \notin Logged + 1 .. Started
        BY <2>1, <3>1 DEF QueueInv, Has
      <3> QED
        BY <1>0, <3>2, <3>3
    <2>3. ReportsMatch' /\ \A j \in DOMAIN reports' : reports'[j].file <= nfiles
      BY <2>1, <2>2, NewReport
    <2> QED
      BY <2>1, <2>3 DEF OpenFileInv
  <1>9. ASSUME NEW t \in Writers, WriterStep(t), ~WriteAndRelease(t)
        PROVE  OpenFileInv' /\ ReportsMatch'
    <2>1. UNCHANGED <<stream, reports, nfiles, outfile_fd, firstEvent, TheRun, fpc>>
      BY <1>9, HasWriter
         DEF WriterStep, Compress, WaitPrevious, AcquireFd, Finish, ClearBusy, ClearDirty, fileVars
    <2> QED
      BY <2>1, FileSame
  <1>10. ASSUME NEW t \in Writers, WriteAndRelease(t) PROVE OpenFileInv' /\ ReportsMatch'
    <2>1. /\ fpc # "off" /\ Logged' = Logged + 1 /\ outfile_fd = nfiles
          /\ UNCHANGED <<fpc, TheRun, outfile_fd, nfiles, firstEvent, reports>>
          /\ Entry(t).file = nfiles /\ Entry(t).run = TheRun /\ Entry(t).nr = Logged + 1
      BY <1>10, NextWritten DEF OpenFileInv
    <2>2. /\ DOMAIN stream' = 1 .. Len(stream) + 1 /\ DOMAIN stream = 1 .. Len(stream)
          /\ Len(stream) \in Nat
          /\ \A i \in 1 .. Len(stream) : stream'[i] = stream[i]
          /\ stream'[Len(stream) + 1] = Entry(t)
      <3>1. stream \in Seq(EntryType) /\ Entry(t) \in EntryType /\ stream' = Append(stream, Entry(t))
        BY <1>10, WriteShape DEF TypeOK
      <3> QED
        BY <3>1
    <2>3. \A i \in DOMAIN stream' : i \in DOMAIN stream \/ i = Len(stream) + 1
      BY <2>2
    <2>4. \A i \in DOMAIN stream : i \in DOMAIN stream' /\ stream'[i] = stream[i]
      BY <2>2
    <2>5. Len(stream) + 1 \in DOMAIN stream' /\ Len(stream) + 1 \notin DOMAIN stream
      BY <2>2
    <2>6. /\ stream'[Len(stream) + 1].file = nfiles /\ stream'[Len(stream) + 1].run = TheRun
          /\ stream'[Len(stream) + 1].nr = Logged + 1
      BY <2>1, <2>2
    <2>7. InFile(nfiles)' = InFile(nfiles) \cup {Len(stream) + 1}
      BY <2>1, <2>3, <2>4, <2>5, <2>6 DEF InFile
    <2>8. \A f : f # nfiles => InFile(f)' = InFile(f)
      BY <2>3, <2>4, <2>5, <2>6 DEF InFile
    <2>9. Numbers(nfiles)' = Numbers(nfiles) \cup {Logged + 1}
      <3>1. \A i \in InFile(nfiles) : stream'[i].nr = stream[i].nr
        BY <2>4 DEF InFile
      <3> QED
        BY <2>1, <2>6, <2>7, <3>1 DEF Numbers
    <2>10. Numbers(nfiles)' = firstEvent .. Logged + 1
      <3>1. Numbers(nfiles) = firstEvent .. Logged /\ firstEvent <= Logged + 1 /\ firstEvent \in Nat
        BY <2>1 DEF OpenFileInv, TypeOK
      <3>2. (firstEvent .. Logged) \cup {Logged + 1} = firstEvent .. Logged + 1
        BY <1>0, <3>1
      <3> QED
        BY <2>9, <3>1, <3>2
    <2>11. \A i \in InFile(nfiles)' : stream'[i].run = TheRun
      <3>1. \A i \in InFile(nfiles) : stream[i].run = TheRun /\ stream'[i] = stream[i]
        BY <2>1, <2>4 DEF OpenFileInv, InFile
      <3> QED
        BY <2>6, <2>7, <3>1
    <2>12. \A i \in DOMAIN stream' : stream'[i].file <= nfiles
      BY <1>0, <2>3, <2>4, <2>6 DEF OpenFileInv
    <2>13. firstEvent <= Logged + 1 + 1 /\ firstEvent >= 1
      <3>1. firstEvent >= 1 /\ firstEvent <= Logged + 1 /\ firstEvent \in Nat
        BY <2>1 DEF OpenFileInv, TypeOK
      <3> QED
        BY <1>0, <3>1
    <2>14. OpenFileInv'
      BY <2>1, <2>10, <2>11, <2>12, <2>13 DEF OpenFileInv
    <2>15. \A j \in DOMAIN reports : /\ InFile(reports[j].file)' = InFile(reports[j].file)
                                     /\ reports'[j] = reports[j]
      <3>1. \A j \in DOMAIN reports : reports[j].file # nfiles
        <4>1. \A j \in DOMAIN reports : reports[j] \in ReportType
          BY DEF TypeOK
        <4> QED
          BY <1>0, <2>1, <4>1 DEF OpenFileInv, ReportType
      <3>2. \A j \in DOMAIN reports : reports[j].file = reports'[j].file
        BY <2>1
      <3> QED
        BY <2>1, <2>3, <2>4, <2>5, <2>6, <3>1 DEF InFile
    <2>16. ReportsMatch'
      <3> SUFFICES ASSUME NEW j \in DOMAIN reports
                   PROVE  /\ {stream'[i].nr : i \in InFile(reports[j].file)}
                               = reports[j].first .. reports[j].last
                          /\ \A i, k \in InFile(reports[j].file) : stream'[i].run = stream'[k].run
        BY <2>1, <2>15 DEF ReportsMatch
      <3>1. \A i \in InFile(reports[j].file) : stream'[i] = stream[i]
        BY <2>4 DEF InFile
      <3> QED
        BY <3>1 DEF ReportsMatch
    <2> QED
      BY <2>14, <2>16
  <1>11. CASE UNCHANGED vars
    <2>1. UNCHANGED <<stream, reports, nfiles, outfile_fd, firstEvent, TheRun, fpc>>
      BY <1>11 DEF vars, fileVars
    <2> QED
      BY <2>1, FileSame
  <1> QED
    BY <1>1, <1>2, <1>3, <1>4, <1>5, <1>6, <1>7, <1>8, <1>9, <1>10, <1>11 DEF Next, FillStep, Done

(* With compression a file holds buffers of one run only, and its report
   names exactly what is in it, although the filler writes the report while
   writers are under way and reads the last event number from a buffer that
   it is about to fill again. *)
THEOREM ReportsTrue == ASSUME Ordered PROVE Spec => []ReportsMatch
  <1>1. Init => OpenFileInv /\ ReportsMatch
    BY DEF Init, OpenFileInv, ReportsMatch
  <1>2. TypeOK /\ TypeOK' /\ FlagInv /\ FdStable /\ NumberInv /\ (QueueInv /\ RunsInv) /\ LastInv
          /\ (OpenFileInv /\ ReportsMatch) /\ [Next]_vars => (OpenFileInv /\ ReportsMatch)'
    BY FileStep
  <1>3. Spec => []FlagInv /\ []FdStable /\ []NumberInv
    BY FlagsTrue, FileStaysOpen, NumbersTrue DEF Ordered, Smooth
  <1> QED
    BY <1>1, <1>2, <1>3, QueueTrue, LastTrue, TypeCorrect, PTL DEF Spec

---------------------------------------------------------------------------
(* With compression the ring implements the log of RunLog.                 *)

\* The log that ImplementsLog makes of the stream.
Mapped(e) == [run |-> e.run, nr |-> e.nr, whole |-> e.file # 0 /\ ~e.failed]

MappedLog == [i \in DOMAIN stream |->
                [run |-> stream[i].run, nr |-> stream[i].nr,
                 whole |-> stream[i].file # 0 /\ ~stream[i].failed]]

UnitType == [run : Nat, nr : Nat, whole : BOOLEAN]

LEMMA MappedUnit == \A e \in EntryType : Mapped(e) \in UnitType
  <1> SUFFICES ASSUME NEW e \in EntryType PROVE Mapped(e) \in UnitType
    OBVIOUS
  <1>1. e.run \in Nat /\ e.nr \in Nat
    BY DEF EntryType
  <1>2. PICK w \in BOOLEAN : w = (e.file # 0 /\ ~e.failed)
    OBVIOUS
  <1> QED
    BY <1>1, <1>2 DEF Mapped, UnitType

LEMMA MappedType ==
  ASSUME TypeOK
  PROVE  /\ stream \in Seq(EntryType)
         /\ MappedLog \in Seq(UnitType) /\ Len(MappedLog) = Len(stream)
         /\ DOMAIN stream = 1 .. Len(stream) /\ Len(stream) \in Nat
         /\ \A i \in DOMAIN stream : MappedLog[i] = Mapped(stream[i])
  <1>1. stream \in Seq(EntryType)
    BY DEF TypeOK
  <1>2. DOMAIN stream = 1 .. Len(stream) /\ Len(stream) \in Nat
    BY <1>1
  <1>3. ASSUME NEW i \in DOMAIN stream
        PROVE  Mapped(stream[i]) \in UnitType
    <2>1. stream[i] \in EntryType
      BY <1>1
    <2> QED
      BY <2>1, MappedUnit
  <1>6. MappedLog = [i \in DOMAIN stream |-> Mapped(stream[i])]
    BY DEF MappedLog, Mapped
  <1>4. MappedLog \in [1 .. Len(stream) -> UnitType]
    BY <1>2, <1>3, <1>6
  <1>5. MappedLog \in Seq(UnitType) /\ Len(MappedLog) = Len(stream)
    BY <1>2, <1>4
  <1> QED
    BY <1>1, <1>2, <1>5, <1>6

LEMMA LoggedSame == TypeOK => Log!Logged = Logged
  <1> SUFFICES ASSUME TypeOK PROVE Log!Logged = Logged
    OBVIOUS
  <1> DEFINE log == MappedLog
  <1>1. /\ stream \in Seq(EntryType) /\ DOMAIN stream = 1 .. Len(stream)
        /\ log \in Seq(UnitType) /\ Len(log) = Len(stream) /\ Len(stream) \in Nat
    BY MappedType
  <1>2. log = <<>> <=> stream = <<>>
    BY <1>1
  <1>3. stream # <<>> => /\ log[Len(log)].run = stream[Len(stream)].run
                         /\ log[Len(log)].nr = stream[Len(stream)].nr
    BY <1>1 DEF MappedLog
  <1>4. Log!Logged = IF log = <<>> THEN 0
                     ELSE IF log[Len(log)].run = TheRun THEN log[Len(log)].nr ELSE 0
    BY DEF Log!Logged, MappedLog
  <1> HIDE DEF log
  <1> QED
    BY <1>2, <1>3, <1>4 DEF Logged

LEMMA AppendIs ==
  ASSUME NEW S, NEW s \in Seq(S), NEW x \in S
  PROVE  Append(s, x) = [i \in 1 .. Len(s) + 1 |-> IF i = Len(s) + 1 THEN x ELSE s[i]]
  <1> DEFINE a == Append(s, x)
             n == Len(s)
  <1>1. n \in Nat /\ a \in Seq(S) /\ Len(a) = n + 1
    OBVIOUS
  <1>2. \A i \in 1 .. n + 1 : a[i] = IF i = n + 1 THEN x ELSE s[i]
    BY <1>1
  <1>3. a = [i \in 1 .. Len(a) |-> a[i]]
    <2>1. a \in Seq(S)
      BY <1>1
    <2> HIDE DEF a
    <2>2. a \in [1 .. Len(a) -> S]
      BY <2>1, LenProperties
    <2> QED
      BY <2>2
  <1> HIDE DEF a, n
  <1>4. a = [i \in 1 .. n + 1 |-> IF i = n + 1 THEN x ELSE s[i]]
    BY <1>1, <1>2, <1>3
  <1> QED
    BY <1>4 DEF a, n

LEMMA MappedAppend ==
  ASSUME TypeOK, NEW e \in EntryType, stream' = Append(stream, e)
  PROVE  MappedLog' = Append(MappedLog, Mapped(e))
  <1> DEFINE n == Len(stream)
  <1>1. stream \in Seq(EntryType) /\ n \in Nat /\ Mapped(e) \in UnitType
    BY MappedType, MappedUnit
  <1>2. /\ Len(stream') = n + 1 /\ stream'[n + 1] = e
        /\ \A i \in 1 .. n : stream'[i] = stream[i]
        /\ DOMAIN stream = 1 .. n /\ DOMAIN stream' = 1 .. n + 1
    BY <1>1
  <1>3. MappedLog \in Seq(UnitType) /\ Len(MappedLog) = n
    BY MappedType
  <1>4. \A i \in 1 .. n : MappedLog[i] = Mapped(stream[i])
    BY <1>2, MappedType
  <1>5. MappedLog' = [i \in 1 .. n + 1 |-> Mapped(stream'[i])]
    BY <1>2 DEF MappedLog, Mapped
  <1> DEFINE u == Mapped(e)
  <1>6. Append(MappedLog, u) = [i \in 1 .. n + 1 |-> IF i = n + 1 THEN u ELSE MappedLog[i]]
    <2>1. u \in UnitType
      BY <1>1
    <2> HIDE DEF u
    <2> QED
      BY <1>3, <2>1, AppendIs
  <1>7. ASSUME NEW i \in 1 .. n + 1
        PROVE  Mapped(stream'[i]) = IF i = n + 1 THEN u ELSE MappedLog[i]
    <2>1. CASE i = n + 1
      BY <1>2, <2>1
    <2>2. CASE i # n + 1
      BY <1>1, <1>2, <1>4, <2>2
    <2> QED
      BY <2>1, <2>2
  <1> HIDE DEF u, n
  <1>8. MappedLog' = Append(MappedLog, u)
    BY <1>5, <1>6, <1>7
  <1> QED
    BY <1>8 DEF u

LEMMA StepSimulates ==
  ASSUME Ordered, TypeOK, FlagInv, FdStable, NumberInv, QueueInv, [Next]_vars
  PROVE  [Log!Next]_(Log!vars)
  <1>0. Smooth /\ Calm /\ Buffer_number \in Nat
    BY DEF Ordered, Smooth, TypeOK
  <1>1. ASSUME UNCHANGED <<stream, TheRun>>, Accepted' = Accepted, (fpc' # "off") = (fpc # "off")
        PROVE  UNCHANGED Log!vars
    BY <1>1 DEF Log!vars
  <1>2. CASE Begin
    <2>1. /\ UNCHANGED stream /\ TheRun' = TheRun + 1 /\ fpc = "off" /\ fpc' = "fill"
          /\ Accepted' = 0
      BY <1>0, <1>2, BeginShape DEF Accepted
    <2>2. Log!BeginRun
      BY <2>1 DEF Log!BeginRun
    <2> QED
      BY <2>2 DEF Log!Next
  <1>3. CASE SwitchBuffer
    <2>1. /\ UNCHANGED <<stream, TheRun>> /\ fpc = "fill" /\ fpc' = "free"
          /\ Accepted = Buffer_number - 1 /\ Accepted' = Buffer_number
      BY <1>3, SwitchShape DEF Accepted
    <2>2. Log!Accept
      BY <1>0, <2>1 DEF Log!Accept
    <2> QED
      BY <2>2 DEF Log!Next
  <1>4. CASE Recycle
    <2>1. /\ UNCHANGED <<stream, TheRun>> /\ fpc = "free" /\ fpc' = "roll"
          /\ Accepted = Buffer_number /\ Accepted' = Buffer_number + 1 - 1
      BY <1>0, <1>4, RecycleShape DEF Accepted
    <2> QED
      BY <1>0, <1>1, <2>1
  <1>5. CASE KeepFile \/ Rollover \/ DropBuffer \/ \E t \in Writers : StartWriter(t)
    <2>1. /\ UNCHANGED <<stream, TheRun, Buffer_number>>
          /\ fpc \in {"roll", "start"} /\ fpc' \in {"start", "fill", "drain"}
      BY <1>5 DEF KeepFile, Rollover, DropBuffer, StartWriter, AfterSwitch, ringVars
    <2> QED
      BY <1>1, <2>1 DEF Accepted
  <1>6. CASE End
    <2>1. /\ UNCHANGED <<stream, TheRun>> /\ fpc = "drain" /\ fpc' = "off"
          /\ Accepted = Buffer_number - 1 /\ Accepted' = 0
      BY <1>6 DEF End, Accepted
    <2>2. Logged = Buffer_number - 1
      <3>1. \A t \in Writers : writer[t].pc \notin PreWrite
        BY <1>6, SlotType DEF End, FlagInv, Idle, PreWrite
      <3>2. Started \in Nat /\ Started = Buffer_number - 1 /\ Logged \in Nat /\ Logged <= Started
        BY <2>1, LoggedNat DEF Started, NumberInv, QueueInv, TypeOK
      <3>3. Logged + 1 \notin Logged + 1 .. Started
        BY <2>1, <3>1 DEF QueueInv, Has
      <3> QED
        BY <3>2, <3>3
    <2>3. Log!EndRun
      BY <2>1, <2>2, LoggedSame DEF Log!EndRun
    <2> QED
      BY <2>3 DEF Log!Next
  <1>7. ASSUME NEW t \in Writers, WriterStep(t), ~WriteAndRelease(t) PROVE UNCHANGED Log!vars
    <2>1. UNCHANGED <<stream, fpc, TheRun, Buffer_number>>
      BY <1>7, WriterSame, HasWriter DEF SameRing
    <2> QED
      BY <1>1, <2>1 DEF Accepted
  <1>8. ASSUME NEW t \in Writers, WriteAndRelease(t) PROVE Log!Next
    <2>1. /\ fpc # "off" /\ UNCHANGED <<fpc, TheRun, Buffer_number>>
          /\ Entry(t).run = TheRun /\ Entry(t).nr = Logged + 1
          /\ Entry(t).file = outfile_fd /\ outfile_fd # 0
          /\ Entry(t).failed => MaxFailures > 0
          /\ Logged + 1 \in 1 .. Started
      BY <1>8, NextWritten
    <2>7. PICK whole \in BOOLEAN : whole = ~Entry(t).failed
      OBVIOUS
    <2>2. MappedLog' = Append(MappedLog, [run |-> TheRun, nr |-> Logged + 1, whole |-> whole])
      <3>1. Entry(t) \in EntryType /\ stream' = Append(stream, Entry(t))
        BY <1>8, WriteShape
      <3>2. PICK e \in EntryType : e = Entry(t)
        BY <3>1
      <3>3. MappedLog' = Append(MappedLog, Mapped(e))
        BY <3>1, <3>2, MappedAppend
      <3>4. Mapped(e) = [run |-> TheRun, nr |-> Logged + 1, whole |-> whole]
        BY <2>1, <2>7, <3>2 DEF Mapped
      <3> QED
        BY <3>3, <3>4
    <2>8. ~(MaxFailures > 0) => whole
      BY <2>1, <2>7
    <2>3. Accepted' = Accepted /\ Started <= Accepted /\ Accepted \in Nat
      BY <1>0, <2>1 DEF Accepted, Started, NumberInv, TypeOK, FillPC
    <2>4. Logged \in Nat /\ Started \in Nat
      BY <2>1, LoggedNat, StartedNat
    <2>5. Logged + 1 \in Logged + 1 .. Accepted
      BY <2>1, <2>3, <2>4
    <2>6. Log!LogNext
      BY <2>1, <2>2, <2>3, <2>5, <2>8, LoggedSame DEF Log!LogNext, MappedLog
    <2> QED
      BY <2>6 DEF Log!Next
  <1>9. CASE UNCHANGED vars
    <2>1. UNCHANGED <<stream, fpc, TheRun, Buffer_number>>
      BY <1>9 DEF vars, ringVars
    <2> QED
      BY <1>1, <2>1 DEF Accepted
  <1> QED
    BY <1>1, <1>2, <1>3, <1>4, <1>5, <1>6, <1>7, <1>8, <1>9 DEF Next, FillStep, Done

(* With compression the ring is a log: the buffers of a run reach the file in
   the order in which they were filled, each exactly once, and daq_end finds
   all of them there.  Without it they do not: the writers overtake each
   other. *)
THEOREM RingIsALog == ASSUME Ordered PROVE Spec => ImplementsLog
  <1>1. Init => Log!Init
    BY DEF Init, Log!Init, Accepted
  <1>2. TypeOK /\ FlagInv /\ FdStable /\ NumberInv /\ (QueueInv /\ RunsInv) /\ [Next]_vars
          => [Log!Next]_(Log!vars)
    BY StepSimulates
  <1>3. Spec => []FlagInv /\ []FdStable /\ []NumberInv
    BY FlagsTrue, FileStaysOpen, NumbersTrue DEF Ordered, Smooth
  <1> QED
    BY <1>1, <1>2, <1>3, QueueTrue, TypeCorrect, PTL DEF Spec, ImplementsLog, Log!Spec

===========================================================================
