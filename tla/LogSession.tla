---------------------------- MODULE LogSession ----------------------------
(***************************************************************************)
(* Where the data of a run go, over many runs, settings, refused begins    *)
(* and restarts of rcdaq_server: daq_open, daq_close, daq_set_server, the  *)
(* file rule, the sources of run numbers, and the parts of daq_begin,      *)
(* switch_buffer and daq_end (rcdaq.cc) that open, use and close a file or *)
(* a connection.                                                           *)
(*                                                                         *)
(* The buffers of a run are not told apart here, and writing one is a      *)
(* single step (BufferRing and RemoteLog have what happens within it).     *)
(* An attempt is a daq_begin that gets past its first guards; it gives its *)
(* number to the run, to the file and to the connection made for it.       *)
(***************************************************************************)
EXTENDS Integers, Sequences, FiniteSets

CONSTANTS
  NumberedRules, \* file rules with a %d for the run number ...
  FixedRules,    \* ... and rules without
  GivenNumbers,  \* what daq_begin may be given: 0 is "the next number"
  AppNumbers,    \* what the run number application may answer; -1: nothing
  MaxFd,         \* bound: descriptors 0 .. MaxFd, of which 0 is stdin
  MaxAttempts,   \* bound: attempts
  MaxSequence,   \* bound: rollovers of a run
  MaxRestarts,   \* bound: restarts of rcdaq_server
  MaxUnusual     \* bound: a fixed rule, run control mode and a run number
                 \* application: so many of them at a time

ASSUME SessionAssumption ==
  /\ NumberedRules \cap FixedRules = {}
  /\ GivenNumbers \subseteq Nat
  /\ AppNumbers \subseteq Nat \cup {-1}
  /\ {MaxFd, MaxAttempts, MaxSequence, MaxRestarts, MaxUnusual} \subseteq Nat

VARIABLES
  pc,           \* where daq_begin and daq_end are, see below
  fd,           \* the process's descriptors: [0 .. MaxFd -> Object]
  daq_open_flag, daq_server_flag, persistentErrorCondition,
  file_is_open,
  outfile_fd, TheServerFD, \* descriptors; 0: none
  TheFileRule, RunControlMode, RunnumberfileIsSet, RunnumberAppIsSet,
  TheRun,
  current_filesequence,
  filled,       \* BytesInThisFile > 0
  CurrentFilename,
  DAQ_FILENAME, \* the environment variable
  runnumberfile, \* on disk: the number in it, 0 if it is empty or absent
  created,      \* on disk, here and on the server: set of [where, name, of]
  attempt, restarts, \* counted
  logged,       \* history: [run, of] of the last run started with logging
  sent,         \* history: where the last buffer of the current run went
  clean,        \* history: no begin has failed after opening something
  orderly       \* history: numbers were counted, and kept in the file

configVars == <<TheFileRule, RunControlMode, RunnumberfileIsSet, RunnumberAppIsSet>>
openVars == <<daq_open_flag, daq_server_flag, persistentErrorCondition>>
fileVars == <<fd, file_is_open, outfile_fd, TheServerFD, current_filesequence,
              filled, created>>
nameVars == <<CurrentFilename, DAQ_FILENAME>>
countVars == <<attempt, restarts>>
historyVars == <<logged, sent, clean, orderly>>
vars == <<pc, configVars, openVars, fileVars, nameVars, TheRun, runnumberfile,
          countVars, historyVars>>

(***************************************************************************)
(* pc: "idle" no run; "opened" daq_begin before daq_write_runnumberfile;   *)
(* "emptied" within it, after fopen(.., "w"); "numbered" before the size   *)
(* check; "run"; "ending" daq_end after its last switch_buffer.            *)
(***************************************************************************)
PC == {"idle", "opened", "emptied", "numbered", "run", "ending"}

Rules == NumberedRules \cup FixedRules
NoName == <<"", 0, 0>>

\* sprintf(d, TheFileRule, run, sequence)
Name(rule, run, seq) ==
  IF rule \in FixedRules THEN <<rule, 0, 0>> ELSE <<rule, run, seq>>

Unused == [kind |-> "unused", of |-> 0]
Stdin == [kind |-> "stdin", of |-> 0]
File(a) == [kind |-> "file", of |-> a]
Connection(a) == [kind |-> "connection", of |-> a]
Object == {Unused, Stdin} \cup {File(a) : a \in 0 .. MaxAttempts}
                          \cup {Connection(a) : a \in 0 .. MaxAttempts}

\* open and socket return the lowest descriptor that is not in use.
Free(table) == {d \in 0 .. MaxFd : table[d] = Unused}
Lowest(table) == CHOOSE d \in Free(table) : \A e \in Free(table) : d <= e
Closed(table, d) == [table EXCEPT ![d] = Unused]

Exists(where, name) == \E f \in created : f.where = where /\ f.name = name

Fresh == [d \in 0 .. MaxFd |-> IF d = 0 THEN Stdin ELSE Unused]

Init ==
  /\ pc = "idle"
  /\ fd = Fresh
  /\ daq_open_flag = FALSE /\ daq_server_flag = FALSE
  /\ persistentErrorCondition = FALSE
  /\ file_is_open = FALSE /\ outfile_fd = 0 /\ TheServerFD = 0
  /\ TheFileRule \in NumberedRules
  /\ RunControlMode = FALSE
  /\ RunnumberfileIsSet = FALSE /\ RunnumberAppIsSet = FALSE
  /\ TheRun = 0 /\ current_filesequence = 0 /\ filled = FALSE
  /\ CurrentFilename = NoName
  /\ DAQ_FILENAME = NoName
  /\ runnumberfile = 0 /\ created = {}
  /\ attempt = 0 /\ restarts = 0
  /\ logged = [run |-> 0, of |-> 0] /\ sent = Unused
  /\ clean = TRUE /\ orderly = TRUE

---------------------------------------------------------------------------
(* Commands that set something.  Those with DAQ_RUNNING as their guard     *)
(* say "Run is active" during a run.                                       *)

Idle == pc = "idle"

Usual(rule, mode, app) ==
  Cardinality({i \in 1 .. 3 : <<rule \in FixedRules, mode, app>>[i]}) <= MaxUnusual

DaqOpen ==
  /\ Idle
  /\ daq_open_flag' = TRUE /\ persistentErrorCondition' = FALSE
  /\ UNCHANGED <<pc, configVars, daq_server_flag, fileVars, nameVars, TheRun,
                 runnumberfile, countVars, historyVars>>

DaqClose ==
  /\ Idle
  /\ daq_open_flag' = FALSE /\ persistentErrorCondition' = FALSE
  /\ UNCHANGED <<pc, configVars, daq_server_flag, fileVars, nameVars, TheRun,
                 runnumberfile, countVars, historyVars>>

BadSetServer ==  \* also during a run
  /\ pc \in {"idle", "run"}
  /\ daq_server_flag' \in BOOLEAN
  /\ UNCHANGED <<pc, configVars, daq_open_flag, persistentErrorCondition,
                 fileVars, nameVars, TheRun, runnumberfile, countVars,
                 historyVars>>

\* With a host name, or with "None".  No connection is made or closed.
SetServer ==
  /\ Idle
  /\ daq_server_flag' \in BOOLEAN
  /\ UNCHANGED <<pc, configVars, daq_open_flag, persistentErrorCondition,
                 fileVars, nameVars, TheRun, runnumberfile, countVars,
                 historyVars>>

\* daq_set_filerule, or daq_setruntype with a defined type.
SetFilerule ==
  /\ Idle
  /\ TheFileRule' \in Rules
  /\ Usual(TheFileRule', RunControlMode, RunnumberAppIsSet)
  /\ UNCHANGED <<pc, RunControlMode, RunnumberfileIsSet, RunnumberAppIsSet,
                 openVars, fileVars, nameVars, TheRun, runnumberfile,
                 countVars, historyVars>>

SetRunControlMode ==
  /\ Idle
  /\ RunControlMode' \in BOOLEAN
  /\ Usual(TheFileRule, RunControlMode', RunnumberAppIsSet)
  /\ UNCHANGED <<pc, TheFileRule, RunnumberfileIsSet, RunnumberAppIsSet,
                 openVars, fileVars, nameVars, TheRun, runnumberfile,
                 countVars, historyVars>>

\* Also during a run.  The number is taken over only if there was none yet.
SetRunnumberfile ==
  /\ pc \in {"idle", "run"}
  /\ RunnumberfileIsSet' = TRUE
  /\ TheRun' = IF TheRun = 0 THEN runnumberfile ELSE TheRun
  /\ orderly' = (orderly /\ (TheRun = 0 \/ TheRun >= runnumberfile))
  /\ UNCHANGED <<pc, TheFileRule, RunControlMode, RunnumberAppIsSet, openVars,
                 fileVars, nameVars, runnumberfile, countVars, logged, sent,
                 clean>>

ClearRunnumberfile ==
  /\ pc \in {"idle", "run"}
  /\ RunnumberfileIsSet' = FALSE
  /\ UNCHANGED <<pc, TheFileRule, RunControlMode, RunnumberAppIsSet, openVars,
                 fileVars, nameVars, TheRun, runnumberfile, countVars,
                 historyVars>>

SetRunnumberApp ==
  /\ pc \in {"idle", "run"}
  /\ RunnumberAppIsSet' \in BOOLEAN
  /\ Usual(TheFileRule, RunControlMode, RunnumberAppIsSet')
  /\ UNCHANGED <<pc, TheFileRule, RunControlMode, RunnumberfileIsSet, openVars,
                 fileVars, nameVars, TheRun, runnumberfile, countVars,
                 historyVars>>

Settings ==
  \/ DaqOpen \/ DaqClose \/ SetServer \/ SetFilerule \/ SetRunControlMode
  \/ SetRunnumberfile \/ ClearRunnumberfile \/ SetRunnumberApp

---------------------------------------------------------------------------
(* daq_begin                                                               *)

\* The numbers a begin can get: the given one, the application's answer, or
\* the next one.
NextRun(given) ==
  IF given # 0 THEN {given}
  ELSE IF RunnumberAppIsSet THEN AppNumbers
  ELSE {TheRun + 1}

\* "Run not started": what is open stays open, what was set stays set.
Refused ==
  /\ pc' = "idle"
  /\ UNCHANGED CurrentFilename

Started(where, name) ==
  /\ created' = created \cup {[where |-> where, name |-> name, of |-> attempt']}
  /\ CurrentFilename' = name
  /\ file_is_open' = TRUE
  /\ pc' = "opened"

BadOpenFile(run) ==  \* without O_EXCL
  LET name == Name(TheFileRule, run, 0)
      can == ~file_is_open /\ Free(fd) # {}
  IN  /\ IF can
           THEN /\ fd' = [fd EXCEPT ![Lowest(fd)] = File(attempt')]
                /\ outfile_fd' = Lowest(fd)
                /\ Started("here", name)
           ELSE /\ outfile_fd' = IF file_is_open THEN outfile_fd ELSE 0
                /\ Refused
                /\ UNCHANGED <<fd, file_is_open, created>>
      /\ UNCHANGED <<TheServerFD, persistentErrorCondition, clean>>

\* open_file.  The file must not exist.
OpenFile(run) ==
  LET name == Name(TheFileRule, run, 0)
      can == ~file_is_open /\ ~Exists("here", name) /\ Free(fd) # {}
  IN  /\ IF can
           THEN /\ fd' = [fd EXCEPT ![Lowest(fd)] = File(attempt')]
                /\ outfile_fd' = Lowest(fd)
                /\ Started("here", name)
           ELSE /\ outfile_fd' = IF file_is_open THEN outfile_fd ELSE 0
                /\ Refused
                /\ UNCHANGED <<fd, file_is_open, created>>
      /\ UNCHANGED <<TheServerFD, persistentErrorCondition, clean>>

\* open_file_on_server: connect, then have the server open the file.  A
\* socket whose connect fails is not closed; neither is a connection whose
\* server refuses the name.  Descriptor 0 does not count as a socket, and
\* without another address the next line dereferences a null pointer.
OpenFileOnServer(run) ==
  LET name == Name(TheFileRule, run, 0)
      sock == Lowest(fd)
      connected == [fd EXCEPT ![sock] = Connection(attempt')]
  IN
  /\ UNCHANGED outfile_fd
  /\ IF file_is_open THEN
       /\ Refused
       /\ UNCHANGED <<fd, TheServerFD, persistentErrorCondition, clean,
                      file_is_open, created>>
     ELSE
     \/ /\ TheServerFD' = 0 /\ persistentErrorCondition' = TRUE
        /\ UNCHANGED fd \/ (Free(fd) # {} /\ fd' = connected)
        /\ Refused
        /\ UNCHANGED <<clean, file_is_open, created>>
     \/ /\ Free(fd) # {} /\ sock # 0
        /\ TheServerFD' = sock /\ persistentErrorCondition' = FALSE
        /\ fd' = connected
        /\ \/ /\ ~Exists("there", name)
              /\ Started("there", name)
              /\ UNCHANGED clean
           \/ /\ Refused
              /\ clean' = FALSE
              /\ UNCHANGED <<file_is_open, created>>

\* The run number application gives none.
BeginWithoutNumber ==
  /\ Idle /\ ~RunControlMode /\ ~persistentErrorCondition
  /\ RunnumberAppIsSet /\ -1 \in AppNumbers
  /\ current_filesequence' = 0
  /\ UNCHANGED <<pc, configVars, openVars, fd, file_is_open, outfile_fd,
                 TheServerFD, filled, created, nameVars, TheRun,
                 runnumberfile, countVars, historyVars>>

Begin ==
  /\ Idle /\ attempt < MaxAttempts /\ ~persistentErrorCondition
  /\ attempt' = attempt + 1
  /\ current_filesequence' = 0 /\ filled' = FALSE
  /\ \E given \in GivenNumbers :
       /\ given = 0 => ~RunControlMode
       /\ TheRun' \in NextRun(given) \ {-1}
       /\ orderly' = /\ orderly /\ given = 0 /\ ~RunnumberAppIsSet
                     /\ daq_open_flag => RunnumberfileIsSet
  /\ IF ~daq_open_flag THEN
       /\ pc' = "numbered"
       /\ UNCHANGED <<fd, file_is_open, outfile_fd, TheServerFD, created,
                      persistentErrorCondition, CurrentFilename, clean>>
     ELSE IF daq_server_flag THEN OpenFileOnServer(TheRun') ELSE OpenFile(TheRun')
  /\ UNCHANGED <<configVars, daq_open_flag, daq_server_flag, DAQ_FILENAME,
                 runnumberfile, restarts, logged, sent>>

\* daq_write_runnumberfile: fopen with "w" empties the file.
EmptyRunnumberfile ==
  /\ pc = "opened"
  /\ IF RunnumberfileIsSet /\ ~RunControlMode
       THEN runnumberfile' = 0 /\ pc' = "emptied"
       ELSE pc' = "numbered" /\ UNCHANGED runnumberfile
  /\ UNCHANGED <<configVars, openVars, fileVars, nameVars, TheRun, countVars,
                 historyVars>>

BadWriteRunnumberfile ==  \* writes the number of the run before
  /\ pc = "emptied"
  /\ runnumberfile' = TheRun - 1
  /\ pc' = "numbered"
  /\ UNCHANGED <<configVars, openVars, fileVars, nameVars, TheRun, countVars,
                 historyVars>>

WriteRunnumberfile ==
  /\ pc = "emptied"
  /\ runnumberfile' = TheRun
  /\ pc' = "numbered"
  /\ UNCHANGED <<configVars, openVars, fileVars, nameVars, TheRun, countVars,
                 historyVars>>

BadRunning ==  \* sets the environment for logging to a file only
  /\ pc = "numbered"
  /\ pc' = "run"
  /\ DAQ_FILENAME' = IF daq_open_flag /\ ~daq_server_flag THEN CurrentFilename
                     ELSE DAQ_FILENAME
  /\ logged' = IF daq_open_flag THEN [run |-> TheRun, of |-> attempt] ELSE logged
  /\ UNCHANGED <<configVars, openVars, fileVars, CurrentFilename, TheRun,
                 runnumberfile, countVars, sent, clean, orderly>>

\* "Cannot start run - event sizes larger than buffer": the file or the
\* connection stays open, and file_is_open set.
TooLarge ==
  /\ pc = "numbered"
  /\ pc' = "idle"
  /\ clean' = (clean /\ ~daq_open_flag)
  /\ UNCHANGED <<configVars, openVars, fileVars, nameVars, TheRun,
                 runnumberfile, countVars, logged, sent, orderly>>

Running ==
  /\ pc = "numbered"
  /\ pc' = "run"
  /\ DAQ_FILENAME' = IF daq_open_flag \/ daq_server_flag THEN CurrentFilename
                     ELSE DAQ_FILENAME
  /\ logged' = IF daq_open_flag THEN [run |-> TheRun, of |-> attempt] ELSE logged
  /\ UNCHANGED <<configVars, openVars, fileVars, CurrentFilename, TheRun,
                 runnumberfile, countVars, sent, clean, orderly>>

---------------------------------------------------------------------------
(* switch_buffer and daq_end                                               *)

\* After RolloverLimit gigabytes: close the file and open the next one.  If
\* that fails the run goes on without a file.
RolloverFile ==
  LET closed == Closed(fd, outfile_fd)
      name == Name(TheFileRule, TheRun, current_filesequence')
  IN  IF ~Exists("here", name)
        THEN /\ fd' = [closed EXCEPT ![Lowest(closed)] = File(attempt)]
             /\ outfile_fd' = Lowest(closed)
             /\ created' = created \cup {[where |-> "here", name |-> name, of |-> attempt]}
             /\ CurrentFilename' = name
             /\ file_is_open' = TRUE
        ELSE /\ fd' = closed /\ outfile_fd' = 0 /\ file_is_open' = FALSE
             /\ UNCHANGED <<created, CurrentFilename>>

\* The server may refuse: the answer is not looked at (its files and the
\* order of what is in them are in RemoteLog).
RolloverOnServer ==
  /\ CurrentFilename' = Name(TheFileRule, TheRun, current_filesequence')
  /\ UNCHANGED <<fd, outfile_fd, file_is_open, created>>

Rollover ==
  /\ daq_open_flag /\ filled /\ current_filesequence < MaxSequence
  /\ current_filesequence' = current_filesequence + 1
  /\ IF daq_server_flag THEN RolloverOnServer ELSE RolloverFile

NoRollover ==
  UNCHANGED <<current_filesequence, CurrentFilename, fd, outfile_fd,
              file_is_open, created>>

\* Where switch_buffer puts the full buffer.
Target ==
  IF daq_open_flag /\ outfile_fd' # 0 THEN fd'[outfile_fd']
  ELSE IF daq_server_flag /\ TheServerFD # 0 THEN fd[TheServerFD]
  ELSE Unused

\* A full buffer, or the last one of daq_end.
SwitchBuffer ==
  /\ pc = "run" /\ pc' \in {"run", "ending"}
  /\ Rollover \/ NoRollover
  /\ sent' = Target
  /\ filled' = \/ Target # Unused
               \/ filled /\ current_filesequence' = current_filesequence
  /\ UNCHANGED <<configVars, openVars, TheServerFD, DAQ_FILENAME, TheRun,
                 runnumberfile, countVars, logged, clean, orderly>>

BadCloseLog ==  \* keeps the connection
  IF file_is_open THEN
    /\ IF daq_server_flag
         THEN UNCHANGED <<fd, TheServerFD, outfile_fd>>
         ELSE /\ fd' = Closed(fd, outfile_fd) /\ outfile_fd' = 0
              /\ UNCHANGED TheServerFD
    /\ file_is_open' = FALSE
  ELSE UNCHANGED <<fd, TheServerFD, outfile_fd, file_is_open>>

\* The block "if ( file_is_open )" of daq_end.
CloseLog ==
  IF file_is_open THEN
    /\ IF daq_server_flag
         THEN /\ fd' = Closed(fd, TheServerFD) /\ TheServerFD' = 0
              /\ UNCHANGED outfile_fd
         ELSE /\ fd' = Closed(fd, outfile_fd) /\ outfile_fd' = 0
              /\ UNCHANGED TheServerFD
    /\ file_is_open' = FALSE
  ELSE UNCHANGED <<fd, TheServerFD, outfile_fd, file_is_open>>

End ==
  /\ pc = "ending"
  /\ CloseLog
  /\ DAQ_FILENAME' = NoName
  /\ CurrentFilename' = NoName
  /\ filled' = FALSE /\ sent' = Unused
  /\ pc' = "idle"
  /\ UNCHANGED <<configVars, openVars, current_filesequence, created, TheRun,
                 runnumberfile, countVars, logged, clean, orderly>>

---------------------------------------------------------------------------
(* A crash, a signal, or daq_shutdown, and a new rcdaq_server.  What is on *)
(* disk remains; everything else is as rcdaq_init leaves it.               *)

Restart ==
  /\ restarts < MaxRestarts
  /\ restarts' = restarts + 1
  /\ pc' = "idle" /\ fd' = Fresh
  /\ daq_open_flag' = FALSE /\ daq_server_flag' = FALSE
  /\ persistentErrorCondition' = FALSE
  /\ file_is_open' = FALSE /\ outfile_fd' = 0 /\ TheServerFD' = 0
  /\ TheFileRule' \in NumberedRules
  /\ RunControlMode' = FALSE
  /\ RunnumberfileIsSet' = FALSE /\ RunnumberAppIsSet' = FALSE
  /\ TheRun' = 0 /\ current_filesequence' = 0 /\ filled' = FALSE
  /\ CurrentFilename' = NoName
  /\ DAQ_FILENAME' = NoName
  /\ sent' = Unused /\ clean' = TRUE
  /\ orderly' = (orderly /\ pc # "emptied")
  /\ UNCHANGED <<runnumberfile, created, attempt, logged>>

Next ==
  \/ Settings
  \/ Begin \/ BeginWithoutNumber
  \/ EmptyRunnumberfile \/ WriteRunnumberfile \/ TooLarge \/ Running
  \/ SwitchBuffer \/ End \/ Restart

Spec == Init /\ [][Next]_vars

---------------------------------------------------------------------------
(* Properties.  "clean" is what most of them need: since rcdaq_server was  *)
(* started no begin has failed after it had opened its file or connection. *)

\* Every variable has its type.
TypeOK ==
  /\ pc \in PC /\ fd \in [0 .. MaxFd -> Object]
  /\ daq_open_flag \in BOOLEAN /\ daq_server_flag \in BOOLEAN
  /\ persistentErrorCondition \in BOOLEAN /\ file_is_open \in BOOLEAN
  /\ RunControlMode \in BOOLEAN /\ RunnumberfileIsSet \in BOOLEAN
  /\ RunnumberAppIsSet \in BOOLEAN /\ filled \in BOOLEAN
  /\ clean \in BOOLEAN /\ orderly \in BOOLEAN
  /\ outfile_fd \in 0 .. MaxFd /\ TheServerFD \in 0 .. MaxFd
  /\ TheFileRule \in Rules
  /\ TheRun \in Nat /\ runnumberfile \in Nat /\ current_filesequence \in Nat
  /\ attempt \in 0 .. MaxAttempts /\ restarts \in Nat
  /\ \A f \in created : f.where \in {"here", "there"} /\ f.of \in 1 .. attempt
  /\ logged \in [run : Nat, of : Nat] /\ sent \in Object

\* No file is ever opened for two runs, whatever the numbers, the rules and
\* the restarts: what is on disk stays what it was.
NoFileTwice ==
  \A f, g \in created : f.where = g.where /\ f.name = g.name => f = g

\* The buffers of a run go to the file or the connection that was opened for
\* this run, and to no other; those of a run without logging to none.
OwnDestination == clean /\ sent # Unused => sent.of = attempt

\* A run with logging loses no buffer, unless a rollover found that its next
\* file exists already.
NothingLost ==
  [][clean /\ SwitchBuffer /\ daq_open_flag /\ file_is_open' => sent' # Unused]_vars

\* DAQ_FILENAME, which scripts look at, names a file of the current run if
\* it is logged, and none otherwise.
EnvironmentTells ==
  pc \in {"run", "ending"} =>
    IF daq_open_flag
      THEN \E f \in created : f.of = attempt /\ f.name = DAQ_FILENAME
      ELSE clean => DAQ_FILENAME = NoName

\* Runs with logging get growing numbers, over restarts too, as long as rcdaq
\* counts them itself, the run number file is set in time, and no crash hits
\* the moment in which it is empty.
NumbersGrow == [][orderly /\ logged' # logged => logged'.run > logged.run]_vars

===========================================================================
