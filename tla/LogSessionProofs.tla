------------------------- MODULE LogSessionProofs -------------------------
(***************************************************************************)
(* Theorems about LogSession, for any file rules and sources of run        *)
(* numbers, any number of descriptors, attempts, rollovers and restarts.   *)
(***************************************************************************)
EXTENDS LogSession, WellFoundedInduction, TLAPS

---------------------------------------------------------------------------
(* The inductive invariant, in four parts.                                 *)

Logging == daq_open_flag /\ pc # "idle"

\* As long as no begin has failed half-way, a descriptor that is in use
\* belongs to the current attempt, and to the kind of logging that is set.
DescriptorInv ==
  clean =>
    /\ fd[0] = Stdin
    /\ outfile_fd # 0 => /\ fd[outfile_fd] = File(attempt)
                         /\ file_is_open /\ Logging /\ ~daq_server_flag
    /\ TheServerFD # 0 => /\ fd[TheServerFD] = Connection(attempt)
                          /\ file_is_open /\ Logging /\ daq_server_flag
    /\ file_is_open => outfile_fd # 0 \/ TheServerFD # 0
    /\ Logging /\ daq_server_flag => file_is_open

\* What is sent, goes through one of them; only a run with a file can have
\* filled it.
SentInv ==
  /\ pc \notin {"run", "ending"} => sent = Unused
  /\ clean => /\ sent \in {Unused, File(attempt), Connection(attempt)}
              /\ filled => file_is_open

\* The name that is about to be, or has been, put into the environment is
\* that of a file of this attempt.
Names(name) == \E f \in created : f.of = attempt /\ f.name = name

NameInv ==
  /\ pc \in {"opened", "emptied"} => daq_open_flag
  /\ pc \in {"opened", "emptied", "numbered"} /\ daq_open_flag => Names(CurrentFilename)
  /\ pc \in {"run", "ending"} /\ daq_open_flag => Names(DAQ_FILENAME)
  /\ clean /\ ~Logging => CurrentFilename = NoName /\ DAQ_FILENAME = NoName

\* The number in the file is between that of the last run with logging and
\* the current one.
CountInv ==
  orderly =>
    /\ RunnumberfileIsSet => runnumberfile <= TheRun
    /\ pc # "emptied" => logged.run <= runnumberfile
    /\ pc \in {"opened", "emptied", "numbered"} /\ daq_open_flag =>
         RunnumberfileIsSet /\ ~RunControlMode /\ logged.run < TheRun
    /\ pc = "numbered" /\ daq_open_flag => runnumberfile = TheRun

Inv == DescriptorInv /\ SentInv /\ NameInv /\ CountInv

---------------------------------------------------------------------------
(* Descriptors.                                                            *)

LEMMA LowestLemma ==
  ASSUME NEW table, Free(table) # {}
  PROVE  Lowest(table) \in 0 .. MaxFd /\ table[Lowest(table)] = Unused
  <1>1. IsWellFoundedOn(OpToRel(<, Nat), Nat)
    BY NatLessThanWellFounded, Zenon
  <1>2. Free(table) \subseteq Nat
    BY DEF Free
  <1>3. PICK d \in Free(table) : \A e \in Free(table) : <<e, d>> \notin OpToRel(<, Nat)
    BY <1>1, <1>2, WFMin, Zenon
  <1>4. ASSUME NEW e \in Free(table) PROVE d <= e
    <2>1. d \in Nat /\ e \in Nat
      BY <1>2
    <2>2. ~(e < d)
      BY <1>3, <2>1 DEF OpToRel
    <2> QED
      BY <2>1, <2>2
  <1>5. Lowest(table) \in Free(table)
    BY <1>4 DEF Lowest
  <1> QED
    BY <1>5 DEF Free

LEMMA ObjectLemma ==
  ASSUME NEW a \in 0 .. MaxAttempts
  PROVE  /\ File(a) \in Object /\ Connection(a) \in Object
         /\ Unused \in Object /\ Stdin \in Object
         /\ File(a) \notin {Unused, Stdin} /\ Connection(a) \notin {Unused, Stdin}
         /\ File(a).of = a /\ Connection(a).of = a
  BY DEF Object, File, Connection, Unused, Stdin

\* The descriptor that open or socket returns: not one in use, and it is what
\* it was opened for.
LEMMA OpenLemma ==
  ASSUME NEW table \in [0 .. MaxFd -> Object], Free(table) # {}, NEW o \in Object,
         NEW new, new = [table EXCEPT ![Lowest(table)] = o]
  PROVE  /\ new \in [0 .. MaxFd -> Object]
         /\ Lowest(table) \in 0 .. MaxFd
         /\ new[Lowest(table)] = o
         /\ table[0] = Stdin => Lowest(table) # 0 /\ new[0] = Stdin
  <1>1. Lowest(table) \in 0 .. MaxFd /\ table[Lowest(table)] = Unused
    BY LowestLemma
  <1>2. Unused # Stdin
    BY DEF Unused, Stdin
  <1>3. 0 \in 0 .. MaxFd
    BY SessionAssumption
  <1> QED
    BY <1>1, <1>2, <1>3

LEMMA ClosedLemma ==
  ASSUME NEW table \in [0 .. MaxFd -> Object], NEW d \in 0 .. MaxFd
  PROVE  /\ Closed(table, d) \in [0 .. MaxFd -> Object]
         /\ Free(Closed(table, d)) # {}
         /\ d # 0 => Closed(table, d)[0] = table[0]
  <1>1. Unused \in Object
    BY DEF Object
  <1>2. 0 \in 0 .. MaxFd
    BY SessionAssumption
  <1>3. Closed(table, d) \in [0 .. MaxFd -> Object] /\ Closed(table, d)[d] = Unused
    BY <1>1 DEF Closed
  <1>4. d \in Free(Closed(table, d))
    BY <1>3 DEF Free
  <1> QED
    BY <1>2, <1>3, <1>4 DEF Closed


---------------------------------------------------------------------------
(* Type correctness.                                                       *)

CreatedOK == \A f \in created : f.where \in {"here", "there"} /\ f.of \in 1 .. attempt

FilesOK ==
  /\ fd \in [0 .. MaxFd -> Object] /\ file_is_open \in BOOLEAN
  /\ outfile_fd \in 0 .. MaxFd /\ TheServerFD \in 0 .. MaxFd
  /\ CreatedOK

LEMMA AttemptLemma ==
  ASSUME TypeOK, Begin
  PROVE  /\ attempt' = attempt + 1 /\ attempt \in Nat /\ attempt' \in 0 .. MaxAttempts
         /\ attempt' \in 1 .. attempt' /\ 1 .. attempt \subseteq 1 .. attempt'
  <1>1. attempt \in 0 .. MaxAttempts /\ attempt < MaxAttempts /\ MaxAttempts \in Nat
    BY SessionAssumption DEF TypeOK, Begin
  <1>2. attempt' = attempt + 1
    BY DEF Begin
  <1> QED
    BY <1>1, <1>2

LEMMA NumberLemma == TypeOK /\ Begin => TheRun' \in Nat
  <1> SUFFICES ASSUME TypeOK, Begin PROVE TheRun' \in Nat
    OBVIOUS
  <1>1. PICK given \in GivenNumbers : TheRun' \in NextRun(given) \ {-1}
    BY DEF Begin
  <1>2. NextRun(given) \subseteq Nat \cup {-1}
    <2>1. given \in Nat /\ AppNumbers \subseteq Nat \cup {-1} /\ TheRun + 1 \in Nat
      BY SessionAssumption DEF TypeOK
    <2>2. NextRun(given) \in {{given}, AppNumbers, {TheRun + 1}}
      BY DEF NextRun
    <2> QED
      BY <2>1, <2>2
  <1> QED
    BY <1>1, <1>2

LEMMA StartedType ==
  ASSUME NEW where \in {"here", "there"}, NEW name, Started(where, name),
         TypeOK, Begin
  PROVE  CreatedOK' /\ file_is_open' \in BOOLEAN /\ pc' \in PC
  <1>1. created' = created \cup {[where |-> where, name |-> name, of |-> attempt']}
    BY DEF Started
  <1>2. ASSUME NEW f \in created'
        PROVE  f.where \in {"here", "there"} /\ f.of \in 1 .. attempt'
    <2>1. CASE f \in created
      BY <2>1, AttemptLemma DEF TypeOK
    <2>2. CASE f = [where |-> where, name |-> name, of |-> attempt']
      BY <2>2, AttemptLemma
    <2> QED
      BY <1>1, <1>2, <2>1, <2>2
  <1> QED
    BY <1>2 DEF Started, CreatedOK, PC

LEMMA OpenFileType ==
  ASSUME TypeOK, Begin, NEW run, OpenFile(run)
  PROVE  FilesOK' /\ pc' \in PC /\ persistentErrorCondition' \in BOOLEAN /\ clean' \in BOOLEAN
  <1>1. 0 \in 0 .. MaxFd
    BY SessionAssumption
  <1>2. UNCHANGED <<TheServerFD, persistentErrorCondition, clean>>
    BY DEF OpenFile
  <1>3. CASE /\ Free(fd) # {} /\ fd' = [fd EXCEPT ![Lowest(fd)] = File(attempt')]
             /\ outfile_fd' = Lowest(fd) /\ Started("here", Name(TheFileRule, run, 0))
    <2>1. fd' \in [0 .. MaxFd -> Object] /\ outfile_fd' \in 0 .. MaxFd
      BY <1>3, AttemptLemma, ObjectLemma, OpenLemma DEF TypeOK
    <2> QED
      BY <1>2, <1>3, <2>1, StartedType DEF FilesOK, TypeOK
  <1>4. CASE /\ outfile_fd' = (IF file_is_open THEN outfile_fd ELSE 0)
             /\ Refused /\ UNCHANGED <<fd, file_is_open, created>>
    BY <1>1, <1>2, <1>4, AttemptLemma DEF Refused, FilesOK, CreatedOK, PC, TypeOK
  <1> QED
    BY <1>3, <1>4 DEF OpenFile

LEMMA OpenOnServerType ==
  ASSUME TypeOK, Begin, NEW run, OpenFileOnServer(run)
  PROVE  FilesOK' /\ pc' \in PC /\ persistentErrorCondition' \in BOOLEAN /\ clean' \in BOOLEAN
  <1>1. 0 \in 0 .. MaxFd
    BY SessionAssumption
  <1>2. UNCHANGED outfile_fd
    BY DEF OpenFileOnServer
  <1>3. Free(fd) # {} /\ fd' = [fd EXCEPT ![Lowest(fd)] = Connection(attempt')] =>
          fd' \in [0 .. MaxFd -> Object] /\ Lowest(fd) \in 0 .. MaxFd
    BY AttemptLemma, ObjectLemma, OpenLemma DEF TypeOK
  <1>4. CASE Refused /\ UNCHANGED <<file_is_open, created>>
    <2>1. pc' \in PC /\ CreatedOK' /\ file_is_open' \in BOOLEAN
      BY <1>4, AttemptLemma DEF Refused, CreatedOK, PC, TypeOK
    <2>2. fd' \in [0 .. MaxFd -> Object] /\ TheServerFD' \in 0 .. MaxFd
      BY <1>1, <1>3 DEF OpenFileOnServer, TypeOK
    <2>3. persistentErrorCondition' \in BOOLEAN
      BY DEF OpenFileOnServer, TypeOK
    <2>4. clean' \in BOOLEAN
      BY DEF OpenFileOnServer, TypeOK
    <2> QED
      BY <1>2, <2>1, <2>2, <2>3, <2>4 DEF FilesOK, TypeOK
  <1>5. CASE /\ Free(fd) # {} /\ fd' = [fd EXCEPT ![Lowest(fd)] = Connection(attempt')]
             /\ TheServerFD' = Lowest(fd) /\ persistentErrorCondition' = FALSE
             /\ Started("there", Name(TheFileRule, run, 0)) /\ UNCHANGED clean
    BY <1>2, <1>3, <1>5, StartedType DEF FilesOK, TypeOK
  <1> QED
    BY <1>4, <1>5 DEF OpenFileOnServer

LEMMA BeginType == TypeOK /\ Begin => TypeOK'
  <1> SUFFICES ASSUME TypeOK, Begin PROVE TypeOK'
    OBVIOUS
  <1>1. TheRun' \in Nat /\ attempt' \in 0 .. MaxAttempts
    BY NumberLemma, AttemptLemma
  <1>2. orderly' \in BOOLEAN
    BY DEF Begin, TypeOK
  <1>3. FilesOK' /\ pc' \in PC /\ persistentErrorCondition' \in BOOLEAN /\ clean' \in BOOLEAN
    <2>1. CASE ~daq_open_flag
      BY <2>1, AttemptLemma DEF Begin, FilesOK, CreatedOK, PC, TypeOK
    <2>2. CASE OpenFile(TheRun')
      BY <2>2, OpenFileType
    <2>3. CASE OpenFileOnServer(TheRun')
      BY <2>3, OpenOnServerType
    <2> QED
      BY <2>1, <2>2, <2>3 DEF Begin
  <1> QED
    BY <1>1, <1>2, <1>3 DEF Begin, TypeOK, FilesOK, CreatedOK, configVars

LEMMA SettingsType == TypeOK /\ Settings => TypeOK'
  <1> SUFFICES ASSUME TypeOK, Settings PROVE TypeOK'
    OBVIOUS
  <1> USE DEF TypeOK, configVars, fileVars, nameVars, countVars, historyVars, openVars
  <1>1. CASE DaqOpen \/ DaqClose
    BY <1>1 DEF DaqOpen, DaqClose
  <1>5. CASE SetServer
    BY <1>5 DEF SetServer
  <1>2. CASE SetFilerule \/ SetRunControlMode
    BY <1>2 DEF SetFilerule, SetRunControlMode
  <1>3. CASE SetRunnumberfile
    <2>1. orderly' \in BOOLEAN
      BY <1>3 DEF SetRunnumberfile
    <2> QED
      BY <1>3, <2>1 DEF SetRunnumberfile
  <1>4. CASE ClearRunnumberfile \/ SetRunnumberApp
    BY <1>4 DEF ClearRunnumberfile, SetRunnumberApp
  <1> QED
    BY <1>1, <1>2, <1>3, <1>4, <1>5 DEF Settings

LEMMA RolloverFileType ==
  ASSUME TypeOK, pc = "run", RolloverFile
  PROVE  /\ fd' \in [0 .. MaxFd -> Object] /\ outfile_fd' \in 0 .. MaxFd
         /\ file_is_open' \in BOOLEAN
         /\ \/ UNCHANGED created
            \/ \E name : created' = created \cup {[where |-> "here", name |-> name,
                                                  of |-> attempt]}
  <1>1. /\ Closed(fd, outfile_fd) \in [0 .. MaxFd -> Object]
        /\ Free(Closed(fd, outfile_fd)) # {}
    BY ClosedLemma DEF TypeOK
  <1>2. File(attempt) \in Object
    BY ObjectLemma DEF TypeOK
  <1>3. 0 \in 0 .. MaxFd
    BY SessionAssumption
  <1> QED
    BY <1>1, <1>2, <1>3, OpenLemma DEF RolloverFile


\* During a run there has been an attempt.
Attempted == pc # "idle" => attempt >= 1

LEMMA SwitchType == TypeOK /\ Attempted /\ SwitchBuffer => TypeOK'
  <1> SUFFICES ASSUME TypeOK, Attempted, SwitchBuffer PROVE TypeOK'
    OBVIOUS
  <1>1. /\ pc = "run" /\ pc' \in PC /\ attempt \in 1 .. attempt
        /\ UNCHANGED <<configVars, openVars, TheServerFD, DAQ_FILENAME, TheRun,
                       runnumberfile, countVars, logged, clean, orderly>>
    BY DEF SwitchBuffer, Attempted, TypeOK, PC
  <1>2. /\ fd' \in [0 .. MaxFd -> Object] /\ outfile_fd' \in 0 .. MaxFd
        /\ file_is_open' \in BOOLEAN /\ current_filesequence' \in Nat
        /\ CreatedOK'
    <2>1. CASE NoRollover
      BY <1>1, <2>1 DEF NoRollover, CreatedOK, TypeOK, countVars
    <2>2. CASE Rollover /\ daq_server_flag
      BY <1>1, <2>2 DEF Rollover, RolloverOnServer, CreatedOK, TypeOK, countVars
    <2>3. CASE Rollover /\ ~daq_server_flag
      <3>1. RolloverFile /\ current_filesequence' \in Nat
        BY <2>3 DEF Rollover, TypeOK
      <3>2. \/ UNCHANGED created
            \/ \E name : created' = created \cup {[where |-> "here", name |-> name,
                                                  of |-> attempt]}
        BY <1>1, <3>1, RolloverFileType
      <3>3. CreatedOK'
        BY <1>1, <3>2 DEF CreatedOK, TypeOK, countVars
      <3> QED
        BY <1>1, <3>1, <3>3, RolloverFileType
    <2> QED
      BY <2>1, <2>2, <2>3 DEF SwitchBuffer
  <1>3. sent' \in Object
    <2>1. sent' = Target /\ Unused \in Object /\ 0 \in 0 .. MaxFd
      BY SessionAssumption DEF SwitchBuffer, Object
    <2> QED
      BY <1>2, <2>1 DEF Target, TypeOK
  <1>4. filled' \in BOOLEAN
    BY DEF SwitchBuffer, TypeOK
  <1> QED
    BY <1>1, <1>2, <1>3, <1>4 DEF TypeOK, CreatedOK, configVars, openVars, countVars

LEMMA RestType ==
  ASSUME TypeOK, \/ BeginWithoutNumber \/ EmptyRunnumberfile \/ WriteRunnumberfile
                 \/ TooLarge \/ Running \/ End \/ Restart
  PROVE  TypeOK'
  <1> USE DEF configVars, fileVars, nameVars, countVars, historyVars, openVars
  <1>0. 0 \in 0 .. MaxFd /\ Unused \in Object
    BY SessionAssumption DEF Object
  <1>1. CASE BeginWithoutNumber
    BY <1>1 DEF BeginWithoutNumber, TypeOK
  <1>2. CASE EmptyRunnumberfile
    BY <1>2 DEF EmptyRunnumberfile, TypeOK, PC
  <1>3. CASE WriteRunnumberfile
    BY <1>3 DEF WriteRunnumberfile, TypeOK, PC
  <1>4. CASE TooLarge
    <2>1. clean' \in BOOLEAN
      BY <1>4 DEF TooLarge
    <2> QED
      BY <1>4, <2>1 DEF TooLarge, TypeOK, PC
  <1>5. CASE Running
    BY <1>5 DEF Running, TypeOK, PC
  <1>6. CASE End
    <2>1. /\ fd' \in [0 .. MaxFd -> Object] /\ outfile_fd' \in 0 .. MaxFd
          /\ TheServerFD' \in 0 .. MaxFd /\ file_is_open' \in BOOLEAN
      BY <1>0, <1>6, ClosedLemma DEF End, CloseLog, TypeOK
    <2> QED
      BY <1>0, <1>6, <2>1 DEF End, TypeOK, PC
  <1>7. CASE Restart
    <2>1. Fresh \in [0 .. MaxFd -> Object]
      BY DEF Fresh, Object
    <2>2. orderly' \in BOOLEAN
      BY <1>7 DEF Restart
    <2>3. TheFileRule' \in Rules /\ restarts' \in Nat
      BY <1>7 DEF Restart, Rules, TypeOK
    <2>4. /\ daq_open_flag' \in BOOLEAN /\ daq_server_flag' \in BOOLEAN
          /\ persistentErrorCondition' \in BOOLEAN /\ file_is_open' \in BOOLEAN
          /\ RunControlMode' \in BOOLEAN /\ RunnumberfileIsSet' \in BOOLEAN
          /\ RunnumberAppIsSet' \in BOOLEAN /\ filled' \in BOOLEAN
          /\ clean' \in BOOLEAN
      BY <1>7 DEF Restart
    <2> QED
      BY <1>0, <1>7, <2>1, <2>2, <2>3, <2>4 DEF Restart, TypeOK, PC
  <1> QED
    BY <1>1, <1>2, <1>3, <1>4, <1>5, <1>6, <1>7

LEMMA AttemptedStep == TypeOK /\ Attempted /\ [Next]_vars => Attempted'
  <1> SUFFICES ASSUME TypeOK, Attempted, [Next]_vars, pc' # "idle" PROVE attempt' >= 1
    BY DEF Attempted
  <1>1. CASE Begin
    BY <1>1, AttemptLemma
  <1>2. CASE ~Begin
    <2>1. attempt' = attempt
      BY <1>2 DEF Next, vars, countVars, Settings, DaqOpen, DaqClose, SetServer,
         SetFilerule, SetRunControlMode, SetRunnumberfile, ClearRunnumberfile,
         SetRunnumberApp, BeginWithoutNumber, EmptyRunnumberfile,
         WriteRunnumberfile, TooLarge, Running, SwitchBuffer, End, Restart
    <2>2. pc # "idle"
      BY <1>2 DEF Next, vars, Settings, DaqOpen, DaqClose, SetServer,
         SetFilerule, SetRunControlMode, SetRunnumberfile, ClearRunnumberfile,
         SetRunnumberApp, BeginWithoutNumber, EmptyRunnumberfile,
         WriteRunnumberfile, TooLarge, Running, SwitchBuffer, End, Restart, Idle
    <2> QED
      BY <2>1, <2>2 DEF Attempted
  <1> QED
    BY <1>1, <1>2

LEMMA TypeStep == TypeOK /\ Attempted /\ [Next]_vars => TypeOK'
  <1> SUFFICES ASSUME TypeOK, Attempted, [Next]_vars PROVE TypeOK'
    OBVIOUS
  <1>1. CASE UNCHANGED vars
    BY <1>1 DEF vars, configVars, fileVars, nameVars, countVars, historyVars,
       openVars, TypeOK
  <1> QED
    BY <1>1, SettingsType, BeginType, SwitchType, RestType DEF Next

LEMMA TypeInit == Init => TypeOK /\ Attempted
  <1> SUFFICES ASSUME Init PROVE TypeOK /\ Attempted
    OBVIOUS
  <1>1. Fresh \in [0 .. MaxFd -> Object] /\ Unused \in Object
    BY DEF Fresh, Object
  <1>2. 0 \in 0 .. MaxFd /\ 0 \in 0 .. MaxAttempts
    BY SessionAssumption
  <1>3. /\ daq_open_flag \in BOOLEAN /\ daq_server_flag \in BOOLEAN
        /\ persistentErrorCondition \in BOOLEAN /\ file_is_open \in BOOLEAN
        /\ RunControlMode \in BOOLEAN /\ RunnumberfileIsSet \in BOOLEAN
        /\ RunnumberAppIsSet \in BOOLEAN /\ filled \in BOOLEAN
        /\ clean \in BOOLEAN /\ orderly \in BOOLEAN
    BY DEF Init
  <1> QED
    BY <1>1, <1>2, <1>3 DEF Init, TypeOK, Attempted, PC, Rules

LEMMA TypeAlways == Spec => [](TypeOK /\ Attempted)
  <1> QED
    BY TypeInit, TypeStep, AttemptedStep, PTL DEF Spec

(* Every variable has its type, over every run and restart. *)
THEOREM TypeCorrect == Spec => []TypeOK
  <1> QED
    BY TypeAlways, PTL

---------------------------------------------------------------------------
(* A file is created only under a name that does not exist.                *)

(* No file is ever opened for two runs. *)
THEOREM FilesDiffer == Spec => []NoFileTwice
  <1>1. Init => NoFileTwice
    BY DEF Init, NoFileTwice
  <1>2. NoFileTwice /\ [Next]_vars => NoFileTwice'
    <2> SUFFICES ASSUME NoFileTwice, [Next]_vars PROVE NoFileTwice'
      OBVIOUS
    <2>1. CASE UNCHANGED created
      BY <2>1 DEF NoFileTwice
    <2>2. ASSUME NEW where, NEW name, NEW of, ~Exists(where, name),
                 created' = created \cup {[where |-> where, name |-> name, of |-> of]}
          PROVE  NoFileTwice'
      BY <2>2 DEF NoFileTwice, Exists
    <2>3. CASE Begin
      BY <2>1, <2>2, <2>3 DEF Begin, OpenFile, OpenFileOnServer, Started
    <2>4. CASE SwitchBuffer
      BY <2>1, <2>2, <2>4 DEF SwitchBuffer, Rollover, RolloverFile, RolloverOnServer,
         NoRollover
    <2>5. CASE ~Begin /\ ~SwitchBuffer
      BY <2>1, <2>5 DEF Next, vars, fileVars, Settings, DaqOpen, DaqClose, SetServer,
         SetFilerule, SetRunControlMode, SetRunnumberfile, ClearRunnumberfile,
         SetRunnumberApp, BeginWithoutNumber, EmptyRunnumberfile,
         WriteRunnumberfile, TooLarge, Running, End, Restart
    <2> QED
      BY <2>3, <2>4, <2>5
  <1> QED
    BY <1>1, <1>2, PTL DEF Spec


---------------------------------------------------------------------------
(* Each part of the invariant.  Most actions leave the files alone.        *)

LEMMA SettingsKeep ==
  ASSUME Settings
  PROVE  /\ UNCHANGED <<pc, fileVars, nameVars, countVars, logged, sent, clean>>
         /\ UNCHANGED <<daq_open_flag, daq_server_flag>> \/ pc = "idle"
  BY DEF Settings, DaqOpen, DaqClose, SetServer, SetFilerule, SetRunControlMode,
     SetRunnumberfile, ClearRunnumberfile, SetRunnumberApp, openVars, configVars,
     historyVars, Idle

LEMMA DescriptorBegin == TypeOK /\ Inv /\ Begin => DescriptorInv'
  <1> SUFFICES ASSUME TypeOK, Inv, Begin, clean' PROVE DescriptorInv'
    BY DEF DescriptorInv
  <1>1. /\ pc = "idle" /\ ~Logging
        /\ UNCHANGED <<daq_open_flag, daq_server_flag>>
    BY DEF Begin, Idle, Logging
  <1>2. clean
    BY DEF Begin, OpenFile, OpenFileOnServer
  <1>3. fd[0] = Stdin /\ outfile_fd = 0 /\ TheServerFD = 0 /\ ~file_is_open
    BY <1>1, <1>2 DEF Inv, DescriptorInv, TypeOK
  <1>4. ASSUME NEW o \in Object, Free(fd) # {}, fd' = [fd EXCEPT ![Lowest(fd)] = o]
        PROVE  /\ fd'[Lowest(fd)] = o /\ Lowest(fd) \in 0 .. MaxFd
               /\ Lowest(fd) # 0 /\ fd'[0] = Stdin
    BY <1>3, <1>4, OpenLemma DEF TypeOK
  <1>5. File(attempt') \in Object /\ Connection(attempt') \in Object
    BY AttemptLemma, ObjectLemma
  <1>6. CASE ~daq_open_flag
    BY <1>1, <1>3, <1>6 DEF Begin, DescriptorInv, Logging
  <1>7. CASE daq_open_flag /\ ~daq_server_flag
    <2>1. OpenFile(TheRun') /\ daq_open_flag' /\ ~daq_server_flag'
      BY <1>1, <1>7 DEF Begin
    <2>2. TheServerFD' = 0
      BY <1>3, <2>1 DEF OpenFile
    <2>3. CASE pc' = "idle"
      BY <1>3, <2>1, <2>2, <2>3 DEF OpenFile, Started, DescriptorInv, Logging, Refused
    <2>4. CASE pc' # "idle"
      BY <1>4, <1>5, <2>1, <2>2, <2>4 DEF OpenFile, Started, Refused, DescriptorInv, Logging
    <2> QED
      BY <2>3, <2>4
  <1>8. CASE daq_open_flag /\ daq_server_flag
    <2>1. OpenFileOnServer(TheRun') /\ daq_open_flag' /\ daq_server_flag'
      BY <1>1, <1>8 DEF Begin
    <2>2. outfile_fd' = 0
      BY <1>3, <2>1 DEF OpenFileOnServer
    <2>3. CASE Refused
      <3>1. TheServerFD' = 0 /\ ~file_is_open' /\ pc' = "idle" /\ fd'[0] = Stdin
        BY <1>2, <1>3, <1>4, <1>5, <2>1, <2>3 DEF OpenFileOnServer, Refused, Started
      <3> QED
        BY <2>2, <3>1 DEF DescriptorInv, Logging
    <2>4. CASE ~Refused
      <3>1. /\ Free(fd) # {} /\ TheServerFD' = Lowest(fd)
            /\ fd' = [fd EXCEPT ![Lowest(fd)] = Connection(attempt')]
            /\ Started("there", Name(TheFileRule, TheRun', 0))
        BY <2>1, <2>4 DEF OpenFileOnServer
      <3>2. pc' = "opened" /\ file_is_open'
        BY <3>1 DEF Started
      <3> QED
        BY <1>4, <1>5, <2>1, <2>2, <3>1, <3>2 DEF DescriptorInv, Logging
    <2> QED
      BY <2>3, <2>4
  <1> QED
    BY <1>6, <1>7, <1>8 DEF TypeOK

\* What switch_buffer does to the descriptors: nothing, or a file of the same
\* run takes the place of the one that was full.
LEMMA SwitchLemma ==
  ASSUME TypeOK, Inv, SwitchBuffer, clean
  PROVE  /\ DescriptorInv'
         /\ sent' \in {Unused, File(attempt), Connection(attempt)}
         /\ filled' => file_is_open'
         /\ daq_open_flag /\ file_is_open' => sent' # Unused
  <1>1. /\ pc = "run" /\ pc' # "idle" /\ sent' = Target
        /\ UNCHANGED <<daq_open_flag, daq_server_flag, TheServerFD, clean, attempt>>
        /\ attempt \in 0 .. MaxAttempts
    BY DEF SwitchBuffer, openVars, countVars, TypeOK
  <1>2. File(attempt) # Unused /\ Connection(attempt) # Unused /\ File(attempt) \in Object
    BY <1>1, ObjectLemma
  <1>3. DescriptorInv' /\ (TheServerFD # 0 => fd'[TheServerFD] = fd[TheServerFD])
    <2>1. CASE UNCHANGED <<fd, outfile_fd, file_is_open>>
      BY <1>1, <2>1 DEF Inv, DescriptorInv, Logging
    <2>2. CASE Rollover /\ ~daq_server_flag
      <3>1. filled /\ RolloverFile /\ daq_open_flag
        BY <2>2 DEF Rollover
      <3>2. TheServerFD = 0 /\ outfile_fd # 0 /\ fd[0] = Stdin
        BY <2>2, <3>1 DEF Inv, SentInv, DescriptorInv
      <3>3. /\ Closed(fd, outfile_fd) \in [0 .. MaxFd -> Object]
            /\ Free(Closed(fd, outfile_fd)) # {}
            /\ Closed(fd, outfile_fd)[0] = Stdin
        BY <3>2, ClosedLemma DEF TypeOK
      <3>4. CASE fd' = Closed(fd, outfile_fd) /\ outfile_fd' = 0 /\ file_is_open' = FALSE
        BY <1>1, <2>2, <3>2, <3>3, <3>4 DEF DescriptorInv
      <3>5. CASE /\ fd' = [Closed(fd, outfile_fd) EXCEPT
                             ![Lowest(Closed(fd, outfile_fd))] = File(attempt)]
                 /\ outfile_fd' = Lowest(Closed(fd, outfile_fd)) /\ file_is_open' = TRUE
        <4>1. outfile_fd' # 0 /\ fd'[outfile_fd'] = File(attempt) /\ fd'[0] = Stdin
          <5> DEFINE table == Closed(fd, outfile_fd)
          <5>1. table \in [0 .. MaxFd -> Object] /\ Free(table) # {} /\ table[0] = Stdin
            BY <3>3
          <5>2. fd' = [table EXCEPT ![Lowest(table)] = File(attempt)] /\ outfile_fd' = Lowest(table)
            BY <3>5
          <5> HIDE DEF table
          <5> QED
            BY <1>2, <5>1, <5>2, OpenLemma
        <4> QED
          BY <1>1, <2>2, <3>1, <3>2, <3>5, <4>1 DEF DescriptorInv, Logging
      <3> QED
        BY <3>1, <3>2, <3>4, <3>5 DEF RolloverFile
    <2> QED
      BY <2>1, <2>2 DEF SwitchBuffer, Rollover, RolloverOnServer, NoRollover
  <1>4. CASE file_is_open'
    <2>1. daq_open_flag
      BY <1>1, <1>3, <1>4 DEF DescriptorInv, Logging
    <2>2. CASE outfile_fd' # 0
      <3>1. sent' = File(attempt)
        BY <1>1, <1>3, <2>1, <2>2 DEF DescriptorInv, Target
      <3> QED
        BY <1>2, <1>3, <1>4, <3>1
    <2>3. CASE outfile_fd' = 0
      <3>1. TheServerFD # 0 /\ daq_server_flag /\ fd[TheServerFD] = Connection(attempt)
        BY <1>1, <1>3, <1>4, <2>3 DEF DescriptorInv
      <3>2. sent' = Connection(attempt)
        BY <1>1, <2>3, <3>1 DEF Target
      <3> QED
        BY <1>2, <1>3, <1>4, <3>2
    <2> QED
      BY <2>2, <2>3
  <1>5. CASE ~file_is_open'
    <2>1. outfile_fd' = 0 /\ TheServerFD = 0
      BY <1>1, <1>3, <1>5 DEF DescriptorInv
    <2>2. Target = Unused
      BY <2>1 DEF Target
    <2>3. ~filled'
      <3>1. filled /\ current_filesequence' = current_filesequence => file_is_open'
        <4>1. SUFFICES ASSUME filled, current_filesequence' = current_filesequence
                       PROVE  file_is_open'
          OBVIOUS
        <4>2. ~Rollover
          BY <4>1 DEF Rollover, TypeOK
        <4>3. file_is_open' = file_is_open
          BY <4>2 DEF SwitchBuffer, NoRollover
        <4>4. file_is_open
          BY <4>1 DEF Inv, SentInv
        <4> QED
          BY <4>3, <4>4
      <3> QED
        BY <1>5, <2>2, <3>1 DEF SwitchBuffer
    <2> QED
      BY <1>1, <1>3, <1>5, <2>2, <2>3
  <1> QED
    BY <1>4, <1>5

LEMMA DescriptorStep == TypeOK /\ Inv /\ [Next]_vars => DescriptorInv'
  <1> SUFFICES ASSUME TypeOK, Inv, [Next]_vars, clean' PROVE DescriptorInv'
    BY DEF DescriptorInv
  <1> USE DEF configVars, fileVars, nameVars, countVars, historyVars, openVars
  <1>1. CASE Begin
    BY <1>1, DescriptorBegin
  <1>2. CASE SwitchBuffer
    <2>1. clean
      BY <1>2 DEF SwitchBuffer
    <2> QED
      BY <1>2, <2>1, SwitchLemma
  <1>3. CASE Settings
    <2>1. clean /\ UNCHANGED <<pc, fd, outfile_fd, TheServerFD, file_is_open, attempt, clean>>
      BY <1>3, SettingsKeep
    <2> QED
      BY <1>3, <2>1, SettingsKeep DEF Inv, DescriptorInv, Logging
  <1>4. CASE BeginWithoutNumber \/ EmptyRunnumberfile \/ WriteRunnumberfile \/ Running
    BY <1>4 DEF BeginWithoutNumber, EmptyRunnumberfile, WriteRunnumberfile, Running,
       Idle, Inv, DescriptorInv, Logging
  <1>5. CASE TooLarge
    <2>1. clean /\ ~daq_open_flag
      BY <1>5 DEF TooLarge
    <2> QED
      BY <1>5, <2>1 DEF TooLarge, Inv, DescriptorInv, Logging
  <1>6. CASE End
    <2>1. clean /\ pc' = "idle" /\ UNCHANGED <<daq_open_flag, daq_server_flag>>
      BY <1>6 DEF End
    <2>2. CASE ~file_is_open
      BY <1>6, <2>1, <2>2 DEF End, CloseLog, Inv, DescriptorInv, Logging
    <2>3. CASE file_is_open /\ daq_server_flag
      <3>1. TheServerFD # 0 /\ outfile_fd = 0
        BY <2>1, <2>3 DEF Inv, DescriptorInv
      <3>2. /\ fd' = Closed(fd, TheServerFD) /\ TheServerFD' = 0 /\ outfile_fd' = 0
            /\ ~file_is_open'
        BY <1>6, <2>3, <3>1 DEF End, CloseLog
      <3>3. fd'[0] = Stdin
        BY <2>1, <3>1, <3>2, ClosedLemma DEF Inv, DescriptorInv, TypeOK
      <3> QED
        BY <2>1, <3>2, <3>3 DEF DescriptorInv, Logging
    <2>4. CASE file_is_open /\ ~daq_server_flag
      <3>1. TheServerFD = 0 /\ outfile_fd # 0
        BY <2>1, <2>4 DEF Inv, DescriptorInv
      <3>2. /\ fd' = Closed(fd, outfile_fd) /\ TheServerFD' = 0 /\ outfile_fd' = 0
            /\ ~file_is_open'
        BY <1>6, <2>4, <3>1 DEF End, CloseLog
      <3>3. fd'[0] = Stdin
        BY <2>1, <3>1, <3>2, ClosedLemma DEF Inv, DescriptorInv, TypeOK
      <3> QED
        BY <2>1, <3>2, <3>3 DEF DescriptorInv, Logging
    <2> QED
      BY <2>2, <2>3, <2>4
  <1>7. CASE Restart
    <2>1. Fresh[0] = Stdin
      BY SessionAssumption DEF Fresh
    <2> QED
      BY <1>7, <2>1 DEF Restart, DescriptorInv, Logging
  <1>8. CASE UNCHANGED vars
    BY <1>8 DEF vars, Inv, DescriptorInv, Logging
  <1> QED
    BY <1>1, <1>2, <1>3, <1>4, <1>5, <1>6, <1>7, <1>8 DEF Next

LEMMA SentStep == TypeOK /\ Inv /\ [Next]_vars => SentInv'
  <1> SUFFICES ASSUME TypeOK, Inv, [Next]_vars PROVE SentInv'
    OBVIOUS
  <1> USE DEF configVars, fileVars, nameVars, countVars, historyVars, openVars
  <1>1. CASE Begin
    <2>1. sent' = Unused /\ ~filled'
      BY <1>1 DEF Begin, Idle, Inv, SentInv
    <2> QED
      BY <2>1 DEF SentInv
  <1>2. CASE SwitchBuffer
    <2>1. pc' \in {"run", "ending"} /\ UNCHANGED <<clean, attempt>>
      BY <1>2 DEF SwitchBuffer
    <2> QED
      BY <1>2, <2>1, SwitchLemma DEF SentInv
  <1>3. CASE Settings
    BY <1>3, SettingsKeep DEF Inv, SentInv
  <1>4. CASE BeginWithoutNumber \/ EmptyRunnumberfile \/ WriteRunnumberfile \/ Running
    BY <1>4 DEF BeginWithoutNumber, EmptyRunnumberfile, WriteRunnumberfile, Running,
       Idle, Inv, SentInv
  <1>7. CASE TooLarge
    <2>1. /\ pc = "numbered" /\ UNCHANGED <<sent, filled, file_is_open, attempt>>
          /\ clean' => clean
      BY <1>7 DEF TooLarge
    <2> QED
      BY <2>1 DEF Inv, SentInv
  <1>5. CASE End \/ Restart
    BY <1>5 DEF End, Restart, SentInv
  <1>6. CASE UNCHANGED vars
    BY <1>6 DEF vars, Inv, SentInv
  <1> QED
    BY <1>1, <1>2, <1>3, <1>4, <1>5, <1>6, <1>7 DEF Next


LEMMA NameBegin == TypeOK /\ Inv /\ Begin => NameInv'
  <1> SUFFICES ASSUME TypeOK, Inv, Begin PROVE NameInv'
    OBVIOUS
  <1>1. pc = "idle" /\ ~Logging /\ UNCHANGED <<daq_open_flag, DAQ_FILENAME>>
    BY DEF Begin, Idle, Logging
  <1>2. clean' => CurrentFilename = NoName /\ DAQ_FILENAME' = NoName
    <2>1. clean' => clean
      BY DEF Begin, OpenFile, OpenFileOnServer
    <2> QED
      BY <1>1, <2>1 DEF Inv, NameInv
  <1>3. CASE ~daq_open_flag
    <2>1. pc' = "numbered" /\ UNCHANGED CurrentFilename
      BY <1>3 DEF Begin
    <2> QED
      BY <1>1, <1>2, <1>3, <2>1 DEF NameInv
  <1>4. CASE daq_open_flag /\ Refused
    BY <1>1, <1>2, <1>4 DEF Refused, NameInv
  <1>5. CASE daq_open_flag /\ ~Refused
    <2>1. PICK where \in {"here", "there"}, name \in {Name(TheFileRule, TheRun', 0)} :
            Started(where, name)
      BY <1>5 DEF Begin, OpenFile, OpenFileOnServer
    <2>2. Names(CurrentFilename)'
      <3>1. [where |-> where, name |-> name, of |-> attempt'] \in created'
            /\ CurrentFilename' = name
        BY <2>1 DEF Started
      <3> QED
        BY <3>1 DEF Names
    <2>3. pc' = "opened"
      BY <2>1 DEF Started
    <2> QED
      BY <1>1, <1>5, <2>2, <2>3 DEF NameInv, Logging
  <1> QED
    BY <1>3, <1>4, <1>5

LEMMA NameStep == TypeOK /\ Inv /\ [Next]_vars => NameInv'
  <1> SUFFICES ASSUME TypeOK, Inv, [Next]_vars PROVE NameInv'
    OBVIOUS
  <1> USE DEF configVars, fileVars, nameVars, countVars, historyVars, openVars
  <1>1. CASE Begin
    BY <1>1, NameBegin
  <1>2. CASE SwitchBuffer
    <2>1. /\ pc = "run" /\ pc' \in {"run", "ending"}
          /\ UNCHANGED <<daq_open_flag, DAQ_FILENAME, clean, attempt>>
          /\ created \subseteq created'
      BY <1>2 DEF SwitchBuffer, NoRollover, Rollover, RolloverFile, RolloverOnServer
    <2>2. daq_open_flag => Names(DAQ_FILENAME)'
      BY <2>1 DEF Inv, NameInv, Names
    <2>3. ~daq_open_flag => UNCHANGED CurrentFilename
      BY <1>2 DEF SwitchBuffer, NoRollover, Rollover
    <2> QED
      BY <2>1, <2>2, <2>3 DEF Inv, NameInv, Logging
  <1>3. CASE Settings
    BY <1>3, SettingsKeep DEF Inv, NameInv, Names, Logging
  <1>4. CASE EmptyRunnumberfile \/ WriteRunnumberfile
    BY <1>4 DEF EmptyRunnumberfile, WriteRunnumberfile, Inv, NameInv, Names, Logging
  <1>5. CASE BeginWithoutNumber
    BY <1>5 DEF BeginWithoutNumber, Idle, Inv, NameInv, Names, Logging
  <1>6. CASE TooLarge
    <2>1. /\ pc' = "idle" /\ UNCHANGED <<daq_open_flag, CurrentFilename, DAQ_FILENAME>>
          /\ clean' => clean /\ ~daq_open_flag
      BY <1>6 DEF TooLarge
    <2> QED
      BY <2>1 DEF Inv, NameInv, Logging
  <1>7. CASE Running
    <2>1. /\ pc = "numbered" /\ pc' = "run"
          /\ UNCHANGED <<daq_open_flag, CurrentFilename, clean, created, attempt>>
          /\ daq_open_flag => DAQ_FILENAME' = CurrentFilename
          /\ DAQ_FILENAME' \in {CurrentFilename, DAQ_FILENAME}
      BY <1>7 DEF Running
    <2>2. daq_open_flag => Names(DAQ_FILENAME)'
      BY <2>1 DEF Inv, NameInv, Names
    <2>3. clean /\ ~daq_open_flag => DAQ_FILENAME' = NoName /\ CurrentFilename' = NoName
      BY <2>1 DEF Inv, NameInv, Logging
    <2> QED
      BY <2>1, <2>2, <2>3 DEF NameInv, Logging
  <1>8. CASE End \/ Restart
    BY <1>8 DEF End, Restart, NameInv
  <1>9. CASE UNCHANGED vars
    BY <1>9 DEF vars, Inv, NameInv, Names, Logging
  <1> QED
    BY <1>1, <1>2, <1>3, <1>4, <1>5, <1>6, <1>7, <1>8, <1>9 DEF Next

LEMMA CountStep == TypeOK /\ Inv /\ [Next]_vars => CountInv'
  <1> SUFFICES ASSUME TypeOK, Inv, [Next]_vars, orderly' PROVE CountInv'
    BY DEF CountInv
  <1>0. TheRun \in Nat /\ runnumberfile \in Nat /\ logged.run \in Nat
    BY DEF TypeOK
  <1> USE DEF configVars, fileVars, nameVars, countVars, historyVars, openVars
  <1>1. CASE Begin
    <2>1. /\ pc = "idle" /\ orderly /\ TheRun' = TheRun + 1
          /\ daq_open_flag => RunnumberfileIsSet /\ ~RunControlMode
          /\ UNCHANGED <<daq_open_flag, RunnumberfileIsSet, RunControlMode,
                         runnumberfile, logged>>
      BY <1>1 DEF Begin, NextRun, Idle
    <2>2. pc' \in {"idle", "opened", "numbered"} /\ (pc' = "numbered" => ~daq_open_flag)
      BY <1>1 DEF Begin, OpenFile, OpenFileOnServer, Started, Refused
    <2>3. logged.run <= runnumberfile /\ (RunnumberfileIsSet => runnumberfile <= TheRun)
      BY <2>1 DEF Inv, CountInv
    <2> QED
      BY <1>0, <2>1, <2>2, <2>3 DEF CountInv
  <1>2. CASE SetRunnumberfile
    <2>1. /\ pc \in {"idle", "run"} /\ orderly /\ pc' = pc
          /\ TheRun = 0 \/ TheRun >= runnumberfile
          /\ TheRun' = IF TheRun = 0 THEN runnumberfile ELSE TheRun
          /\ UNCHANGED <<runnumberfile, logged>>
      BY <1>2 DEF SetRunnumberfile
    <2> QED
      BY <1>0, <2>1 DEF Inv, CountInv
  <1>3. CASE Settings /\ ~SetRunnumberfile
    <2>1. /\ pc \in {"idle", "run"} /\ orderly
          /\ UNCHANGED <<pc, runnumberfile, logged, TheRun>>
          /\ UNCHANGED RunnumberfileIsSet \/ ~RunnumberfileIsSet'
      <3>1. CASE ClearRunnumberfile
        BY <3>1 DEF ClearRunnumberfile
      <3>2. CASE SetServer
        BY <3>2 DEF SetServer, Idle
      <3>4. CASE SetRunControlMode
        BY <3>4 DEF SetRunControlMode, Idle
      <3>3. CASE DaqOpen \/ DaqClose \/ SetFilerule \/ SetRunnumberApp
        BY <3>3 DEF DaqOpen, DaqClose, SetFilerule, SetRunnumberApp, Idle
      <3> QED
        BY <1>3, <3>1, <3>2, <3>3, <3>4 DEF Settings
    <2> QED
      BY <2>1 DEF Inv, CountInv
  <1>4. CASE EmptyRunnumberfile
    <2>1. /\ pc = "opened" /\ orderly /\ daq_open_flag
          /\ UNCHANGED <<daq_open_flag, RunnumberfileIsSet, RunControlMode, logged, TheRun>>
      BY <1>4 DEF EmptyRunnumberfile, Inv, NameInv
    <2>2. RunnumberfileIsSet /\ ~RunControlMode /\ logged.run < TheRun
      BY <2>1 DEF Inv, CountInv
    <2>3. runnumberfile' = 0 /\ pc' = "emptied"
      BY <1>4, <2>2 DEF EmptyRunnumberfile
    <2> QED
      BY <1>0, <2>1, <2>2, <2>3 DEF CountInv
  <1>5. CASE WriteRunnumberfile
    BY <1>0, <1>5 DEF WriteRunnumberfile, Inv, CountInv, NameInv
  <1>6. CASE Running
    BY <1>0, <1>6 DEF Running, Inv, CountInv
  <1>7. CASE BeginWithoutNumber \/ TooLarge \/ SwitchBuffer \/ End
    BY <1>7 DEF BeginWithoutNumber, TooLarge, SwitchBuffer, End, Idle, Inv, CountInv
  <1>8. CASE Restart
    <2>1. orderly /\ pc # "emptied"
      BY <1>8 DEF Restart
    <2> QED
      BY <1>8, <2>1 DEF Restart, Inv, CountInv
  <1>9. CASE UNCHANGED vars
    BY <1>9 DEF vars, Inv, CountInv
  <1> QED
    BY <1>1, <1>2, <1>3, <1>4, <1>5, <1>6, <1>7, <1>8, <1>9 DEF Next

---------------------------------------------------------------------------
(* The theorems.                                                           *)

LEMMA InvAlways == Spec => []Inv
  <1>1. Init => Inv
    <2>1. Init => DescriptorInv /\ SentInv
      BY SessionAssumption DEF Init, DescriptorInv, SentInv, Fresh, Logging
    <2>2. Init => NameInv /\ CountInv
      BY DEF Init, NameInv, CountInv
    <2> QED
      BY <2>1, <2>2 DEF Inv
  <1>2. TypeOK /\ Inv /\ [Next]_vars => Inv'
    BY DescriptorStep, SentStep, NameStep, CountStep DEF Inv
  <1> QED
    BY <1>1, <1>2, TypeCorrect, PTL DEF Spec

(* The buffers of a run go to the file or the connection that was opened for
   this run, and to no other, unless a begin has failed half-way. *)
THEOREM OwnFile == Spec => []OwnDestination
  <1>1. TypeOK /\ Inv => OwnDestination
    BY DEF TypeOK, Inv, SentInv, OwnDestination, File, Connection
  <1> QED
    BY <1>1, TypeCorrect, InvAlways, PTL

(* DAQ_FILENAME names a file of the run that goes on if it is logged, and no
   file otherwise. *)
THEOREM FilenameTells == Spec => []EnvironmentTells
  <1>1. Inv => EnvironmentTells
    BY DEF Inv, NameInv, Names, Logging, EnvironmentTells
  <1> QED
    BY <1>1, InvAlways, PTL

(* A run with logging sends every buffer to its file or server. *)
THEOREM EveryBufferSent == Spec => NothingLost
  <1>1. TypeOK /\ Inv /\ [Next]_vars =>
          [clean /\ SwitchBuffer /\ daq_open_flag /\ file_is_open' => sent' # Unused]_vars
    BY SwitchLemma
  <1> QED
    BY <1>1, TypeCorrect, InvAlways, PTL DEF Spec, NothingLost

(* Runs with logging get growing numbers, over restarts too. *)
THEOREM NumbersOrdered == Spec => NumbersGrow
  <1>1. TypeOK /\ Inv /\ [Next]_vars =>
          [orderly /\ logged' # logged => logged'.run > logged.run]_vars
    <2> SUFFICES ASSUME TypeOK, Inv, Next, orderly, logged' # logged
                 PROVE  logged'.run > logged.run
      OBVIOUS
    <2>1. Running /\ daq_open_flag /\ logged' = [run |-> TheRun, of |-> attempt]
      BY DEF Next, Settings, DaqOpen, DaqClose, SetServer, SetFilerule,
         SetRunControlMode, SetRunnumberfile, ClearRunnumberfile, SetRunnumberApp,
         Begin, BeginWithoutNumber, EmptyRunnumberfile, WriteRunnumberfile, TooLarge,
         Running, SwitchBuffer, End, Restart, historyVars
    <2>2. logged.run < TheRun
      BY <2>1 DEF Running, Inv, CountInv
    <2> QED
      BY <2>1, <2>2 DEF TypeOK
  <1> QED
    BY <1>1, TypeCorrect, InvAlways, PTL DEF Spec, NumbersGrow


===========================================================================
