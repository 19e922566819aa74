------------------------------ MODULE Settings ------------------------------
(***************************************************************************)
(* Commands on their way from rcdaq_client through r_action of             *)
(* rcdaq_server.cc to the settings of rcdaq.cc, and the ring of buffers    *)
(* (daqBuffer.cc) that many of them change or rebuild.  The read list and  *)
(* its run come from Readlist.                                             *)
(*                                                                         *)
(* A command is a record: its name, argc (the number of its arguments) and *)
(* the first two of them, a and b, as numbers: get_value makes a number of *)
(* anything.  Names, rules and hosts are numbers here, too.                *)
(***************************************************************************)
EXTENDS Readlist, TLC

CONSTANTS
  Usages,   \* names of kinds of behaviour, with ...
  Commands, \* ... the commands that are given in each of them
  Requests, \* ... and what create_device is asked for
  Cores     \* what hardware_concurrency may be

Command == [name : STRING, argc : 0 .. 3, a : Int, b : Int]

ASSUME SettingsAssumption ==
  /\ \A u \in Usages : Commands[u] \subseteq Command /\ Requests[u] \subseteq Request
  /\ Cores \subseteq Nat \ {0, 1}

VARIABLES
  usage,              \* the kind of this behaviour
  processor_count,
  daqBufferVector,    \* the ring: sequence of buffers
  nr_of_write_threads, currentBufferSize, compression_level,
  md5_enabled, md5_allow_turnoff,
  TheFileRule, TheRunType, RunTypes, \* rules and types; 0: none
  uservalues,
  stored,             \* what the other commands have stored, by command
  ended,              \* an exception has ended the server
  asked,              \* history: what each setting was last asked to be
  result              \* the client's last exit: its status and, if that is not
                      \* 0, the command

ringVars == <<daqBufferVector, nr_of_write_threads>>
levelVars == <<compression_level, md5_enabled, md5_allow_turnoff>>
typeVars == <<TheFileRule, TheRunType, RunTypes>>
listVars == <<DeviceList, TriggerH, made, DAQ_RUNNING, Eventsize, event, unlinked>>
settings == <<ringVars, currentBufferSize, levelVars, typeVars, uservalues, stored>>
effective == <<settings, current_data_format, DeviceList, TriggerH>>
vars == <<listVars, current_data_format, settings, usage, processor_count, ended,
          asked, result>>

---------------------------------------------------------------------------
(* rcdaq_client                                                            *)

\* How many arguments command_execute wants for the commands about rules and
\* names, ...
NamingArguments ==
  [daq_setfilerule |-> {1}, daq_setrunnumberfile |-> {1}, daq_setrunnumberApp |-> {1},
   daq_set_runtype |-> {1}, daq_define_runtype |-> {2}, daq_setname |-> {1}]

\* ... about writing, ...
WritingArguments ==
  [daq_set_server |-> 1 .. 3, daq_set_compression |-> 1 .. 3, daq_set_nr_threads |-> 1 .. 3,
   daq_set_md5enable |-> 1 .. 3, daq_allow_md5turnoff |-> 1 .. 3]

\* ... about limits and sizes, ...
LimitArguments ==
  [daq_set_maxevents |-> 1 .. 3, daq_set_maxvolume |-> 1 .. 3,
   daq_set_rolloverlimit |-> 1 .. 3, daq_set_maxbuffersize |-> 1 .. 3,
   daq_define_buffersize |-> 1 .. 3, daq_set_adaptivebuffering |-> 1 .. 3]

\* ... about modes and other programs, ...
ModeArguments ==
  [daq_set_eventformat |-> 1 .. 3, daq_set_runcontrolmode |-> 1 .. 3,
   daq_set_mqtt_host |-> 1 .. 3, elog |-> {3}]

\* ... and about the user's values.  The others take any.
UserArguments == [daq_set_uservalue |-> 2 .. 3, daq_get_uservalue |-> 1 .. 3]

Arguments == NamingArguments @@ WritingArguments @@ LimitArguments @@ ModeArguments
             @@ UserArguments

\* command_execute sends the command; otherwise it returns -1 at once.
Accepts(c) == c.name \in DOMAIN Arguments => c.argc \in Arguments[c.name]

---------------------------------------------------------------------------
(* The ring of buffers                                                     *)

\* A product with a unit, in an int of 32 bits, which hold `range' units: so
\* many of 256 * 1024 words, or of kilobytes.
Wrapped(n, range) == ((n + range \div 2) % range) - range \div 2
Megabytes == 16384
Kilobytes == 4194304

AbsoluteMaxSize == 2 * 64 * 1024 * 1024 \* words
MaxMegabytes == 8191
Words(mb) == Wrapped(mb, Megabytes) * 256 * 1024
Extra == 10 * 8192

NewBuffer(length) ==
  [max_length |-> length, max_size |-> length, format |-> FALSE,
   compression |-> 0, md5 |-> TRUE, wrkmem |-> FALSE, outputarray |-> 0]

Level(flag) == IF flag < 0 THEN 0 ELSE IF flag > 4 THEN 4 ELSE flag

\* daqBuffer::setCompression: for the LZO levels memory is allocated once, for
\* the others, but not for the flag 0, each time.
Compressing(buffer, flag) ==
  LET set == [buffer EXCEPT !.compression = Level(flag)]
      output == [set EXCEPT !.outputarray = buffer.max_length + Extra]
  IN  IF flag = 0 \/ (Level(flag) \in 1 .. 3 /\ buffer.wrkmem) THEN set
      ELSE IF Level(flag) \in 1 .. 3 THEN [output EXCEPT !.wrkmem = TRUE]
      ELSE output

\* The most kilobytes that can be rounded up to blocks in an int of 32 bits,
\* and what becomes of more.
MaxKilobytes == 2097144
Overflown == -262143 * 2048

\* daqBuffer::setMaxSize, from kilobytes; a negative size changes nothing, and
\* the largest ones become less than 0 as they are rounded up to blocks.
Sized(buffer, kb) ==
  LET k == Wrapped(kb, Kilobytes)
      size == IF k > MaxKilobytes THEN Overflown ELSE ((k * 1024 + 8191) \div 8192) * 2048
  IN  IF k < 0 THEN buffer
      ELSE [buffer EXCEPT !.max_size =
              IF k = 0 \/ size > buffer.max_length THEN buffer.max_length ELSE size]

\* The comparison with the number of cores is unsigned: less than 0 is many.
Threads(n) ==
  IF n < 0 \/ n > processor_count - 1 THEN processor_count - 1
  ELSE IF n < 2 THEN 2 ELSE n

BadRing(n, length) ==  \* forgets the compression
  [i \in 1 .. Threads(n) |->
     [NewBuffer(length) EXCEPT !.format = current_data_format # 0, !.md5 = md5_enabled]]

\* daq_set_number_of_write_threads builds all buffers anew.
Ring(n, length) ==
  [i \in 1 .. Threads(n) |->
     Compressing([NewBuffer(length) EXCEPT !.format = current_data_format # 0,
                                           !.md5 = md5_enabled], compression_level)]

\* A maximal size that was set is gone with the buffers.
Rebuild(n, length) ==
  /\ daqBufferVector' = Ring(n, length)
  /\ nr_of_write_threads' = Threads(n)

---------------------------------------------------------------------------

\* Other settings: each is what its command has last stored.
Stored == {"daq_set_maxevents", "daq_set_maxvolume", "daq_set_adaptivebuffering",
           "daq_set_rolloverlimit", "daq_set_runcontrolmode", "daq_setname",
           "daq_setrunnumberApp", "daq_set_server", "daq_set_mqtt_host", "elog"}
Start == [c \in Stored |-> IF c = "daq_set_adaptivebuffering" THEN 15 ELSE 0]

Done == [name |-> "", status |-> 0]
Unasked == {}
Topics == Stored \cup {"compression", "threads", "size", "maxsize", "format",
                       "md5", "rule", "uservalue"}

Init ==
  /\ InitReadlist
  /\ usage \in Usages /\ processor_count \in Cores
  /\ currentBufferSize = Words(64) /\ compression_level = 0
  /\ md5_enabled = TRUE /\ md5_allow_turnoff = FALSE
  /\ daqBufferVector = Ring(2, currentBufferSize)
  /\ nr_of_write_threads = Threads(2)
  /\ TheFileRule = 1 /\ TheRunType = 0 /\ RunTypes = <<0, 0>>
  /\ uservalues = [i \in 0 .. 7 |-> 0]
  /\ stored = Start
  /\ ended = FALSE /\ asked = [t \in Topics |-> Unasked]
  /\ result = Done

---------------------------------------------------------------------------
(* The commands, as r_action dispatches them.  Each of the following is    *)
(* about what it changes and what status it answers with.                  *)

Answer(c, status) ==
  result' = IF status = 0 THEN Done ELSE [name |-> c.name, status |-> status]

Ask(topic, value) == asked' = [asked EXCEPT ![topic] = {value}]

\* "Run is active", or arguments that the client does not send.
Refused(c) ==
  /\ Answer(c, -1)
  /\ UNCHANGED <<settings, current_data_format, asked>>

SetCompression(c) ==
  IF DAQ_RUNNING THEN Refused(c) ELSE
  /\ compression_level' = c.a
  /\ daqBufferVector' = [i \in DOMAIN daqBufferVector |-> Compressing(daqBufferVector[i], c.a)]
  /\ Ask("compression", c.a) /\ Answer(c, 0)
  /\ UNCHANGED <<nr_of_write_threads, currentBufferSize, md5_enabled, md5_allow_turnoff,
                 typeVars, uservalues, stored, current_data_format>>

SetNrThreads(c) ==
  IF DAQ_RUNNING THEN Refused(c) ELSE
  /\ Rebuild(c.a, currentBufferSize)
  /\ asked' = [asked EXCEPT !["threads"] = {c.a}, !["maxsize"] = Unasked]
  /\ Answer(c, 0)
  /\ UNCHANGED <<currentBufferSize, levelVars, typeVars, uservalues, stored,
                 current_data_format>>

\* There is no ring of a size less than 0 (EndServer).  One of one buffer, on
\* a machine with two cores, becomes one of two.
DefineBufferSize(c) ==
  IF DAQ_RUNNING THEN Refused(c) ELSE
  /\ Words(c.a) >= 0
  /\ currentBufferSize' = IF Words(c.a) > AbsoluteMaxSize THEN AbsoluteMaxSize ELSE Words(c.a)
  /\ Rebuild(Len(daqBufferVector), currentBufferSize')
  /\ asked' = [asked EXCEPT !["size"] = {c.a}, !["maxsize"] = Unasked]
  /\ Answer(c, IF Words(c.a) > AbsoluteMaxSize THEN 1 ELSE 0)
  /\ UNCHANGED <<levelVars, typeVars, uservalues, stored, current_data_format>>

SetMaxBufferSize(c) ==
  IF DAQ_RUNNING THEN Refused(c) ELSE
  /\ daqBufferVector' = [i \in DOMAIN daqBufferVector |-> Sized(daqBufferVector[i], c.a)]
  /\ IF Wrapped(c.a, Kilobytes) < 0 THEN UNCHANGED asked ELSE Ask("maxsize", c.a)
  /\ Answer(c, 0)
  /\ UNCHANGED <<nr_of_write_threads, currentBufferSize, levelVars, typeVars,
                 uservalues, stored, current_data_format>>

BadSetEventFormat(c) ==  \* sets the format before it looks at the read list
  IF DAQ_RUNNING THEN Refused(c) ELSE
  /\ current_data_format' = c.a
  /\ IF DeviceList # <<>>
       THEN Answer(c, -1) /\ UNCHANGED <<daqBufferVector, asked>>
       ELSE /\ daqBufferVector' = [i \in DOMAIN daqBufferVector |->
                 [daqBufferVector[i] EXCEPT !.format = c.a # 0]]
            /\ Ask("format", c.a) /\ Answer(c, 0)
  /\ UNCHANGED <<nr_of_write_threads, currentBufferSize, levelVars, typeVars,
                 uservalues, stored>>

SetEventFormat(c) ==
  IF DAQ_RUNNING \/ DeviceList # <<>> THEN Refused(c) ELSE
  /\ current_data_format' = c.a
  /\ daqBufferVector' = [i \in DOMAIN daqBufferVector |->
                           [daqBufferVector[i] EXCEPT !.format = c.a # 0]]
  /\ Ask("format", c.a) /\ Answer(c, 0)
  /\ UNCHANGED <<nr_of_write_threads, currentBufferSize, levelVars, typeVars,
                 uservalues, stored>>

\* Without permission the status is 0 all the same.
SetMD5Enable(c) ==
  IF DAQ_RUNNING THEN Refused(c) ELSE
  /\ Answer(c, 0)
  /\ IF md5_allow_turnoff
       THEN /\ md5_enabled' = (c.a # 0)
            /\ daqBufferVector' = [i \in DOMAIN daqBufferVector |->
                                     [daqBufferVector[i] EXCEPT !.md5 = c.a # 0]]
            /\ Ask("md5", c.a)
       ELSE UNCHANGED <<md5_enabled, daqBufferVector, asked>>
  /\ UNCHANGED <<nr_of_write_threads, currentBufferSize, compression_level,
                 md5_allow_turnoff, typeVars, uservalues, stored, current_data_format>>

SetMD5AllowTurnoff(c) ==
  /\ md5_allow_turnoff' = (c.a # 0) /\ Answer(c, 0)
  /\ UNCHANGED <<ringVars, currentBufferSize, compression_level, md5_enabled, typeVars,
                 uservalues, stored, current_data_format, asked>>

SetFilerule(c) ==
  IF DAQ_RUNNING THEN Refused(c) ELSE
  /\ TheFileRule' = c.a
  /\ Ask("rule", c.a) /\ Answer(c, 0)
  /\ UNCHANGED <<ringVars, currentBufferSize, levelVars, TheRunType, RunTypes,
                 uservalues, stored, current_data_format>>

SetRuntype(c) ==
  IF DAQ_RUNNING THEN Refused(c) ELSE
  IF RunTypes[c.a] = 0 THEN Answer(c, 1) /\ UNCHANGED <<settings, current_data_format, asked>> ELSE
  /\ TheFileRule' = RunTypes[c.a] /\ TheRunType' = c.a
  /\ Ask("rule", RunTypes[c.a]) /\ Answer(c, 0)
  /\ UNCHANGED <<ringVars, currentBufferSize, levelVars, RunTypes, uservalues,
                 stored, current_data_format>>

\* A rule that is in use stays in use.
DefineRuntype(c) ==
  /\ RunTypes' = [RunTypes EXCEPT ![c.a] = c.b] /\ Answer(c, 0)
  /\ UNCHANGED <<ringVars, currentBufferSize, levelVars, TheFileRule, TheRunType,
                 uservalues, stored, current_data_format, asked>>

SetUservalue(c) ==
  IF c.a \notin 0 .. 7 THEN Refused(c) ELSE
  /\ uservalues' = [uservalues EXCEPT ![c.a] = c.b]
  /\ Ask("uservalue", <<c.a, c.b>>) /\ Answer(c, 0)
  /\ UNCHANGED <<ringVars, currentBufferSize, levelVars, typeVars, stored,
                 current_data_format>>

\* Of the commands in Stored these look whether a run is active.
Guarded == {"daq_set_rolloverlimit", "daq_set_runcontrolmode", "daq_set_server"}

Meaning(name, value) ==
  IF name = "daq_set_runcontrolmode" THEN (IF value # 0 THEN 1 ELSE 0) ELSE value

\* daq_set_mqtt_host connects at once; if it cannot, the old host is gone, too.
Store(c) ==
  IF DAQ_RUNNING /\ c.name \in Guarded THEN Refused(c) ELSE
  /\ \/ /\ stored' = [stored EXCEPT ![c.name] = Meaning(c.name, c.a)]
        /\ Ask(c.name, c.a) /\ Answer(c, 0)
     \/ /\ c.name = "daq_set_mqtt_host" /\ c.a # 0
        /\ stored' = [stored EXCEPT ![c.name] = 0]
        /\ asked' = [asked EXCEPT ![c.name] = Unasked] /\ Answer(c, 1)
  /\ UNCHANGED <<ringVars, currentBufferSize, levelVars, typeVars, uservalues,
                 current_data_format>>

Clear(c) ==
  IF DAQ_RUNNING THEN Refused(c) /\ UNCHANGED listVars ELSE
  ClearReadlist /\ Answer(c, 0) /\ UNCHANGED <<settings, asked>>

\* Commands that only report.  daq_get_runtype looks for a type with the rule
\* in use, which need not be the one that was set; a last file there is only
\* after a run with logging.
Queries == {"daq_get_runtype", "daq_get_mqtt_host", "daq_get_uservalue",
            "daq_get_lastfilename", "daq_list_runtypes", "daq_getname",
            "daq_list_readlist", "daq_status", "daq_get_last_event_number",
            "daq_get_runcontrolmode", "daq_show_bufferstatus"}

QueryStatus(c) ==
  CASE c.name = "daq_get_runtype" ->
         {IF \E t \in DOMAIN RunTypes : RunTypes[t] = TheFileRule THEN 0 ELSE 1}
    [] c.name = "daq_get_mqtt_host" -> {IF stored["daq_set_mqtt_host"] = 0 THEN 1 ELSE 0}
    [] c.name = "daq_get_uservalue" -> {IF c.a \in 0 .. 7 THEN 0 ELSE -1}
    [] c.name = "daq_get_lastfilename" -> {0, -1}
    [] OTHER -> {0}

Query(c) ==
  /\ \E status \in QueryStatus(c) : Answer(c, status)
  /\ UNCHANGED <<settings, current_data_format, asked>>

\* r_action, in the order of its cases: rules and names, ...
NamingCommand(c) ==
  \/ c.name = "daq_setfilerule" /\ SetFilerule(c)
  \/ c.name = "daq_set_runtype" /\ SetRuntype(c)
  \/ c.name = "daq_define_runtype" /\ DefineRuntype(c)

\* ... writing, ...
WritingCommand(c) ==
  \/ c.name = "daq_set_compression" /\ SetCompression(c)
  \/ c.name = "daq_set_nr_threads" /\ SetNrThreads(c)
  \/ c.name = "daq_set_md5enable" /\ SetMD5Enable(c)
  \/ c.name = "daq_allow_md5turnoff" /\ SetMD5AllowTurnoff(c)

\* ... limits and sizes, ...
LimitCommand(c) ==
  \/ c.name = "daq_set_maxbuffersize" /\ SetMaxBufferSize(c)
  \/ c.name = "daq_define_buffersize" /\ DefineBufferSize(c)

\* ... and what is left.
ModeCommand(c) ==
  \/ c.name = "daq_set_eventformat" /\ SetEventFormat(c)
  \/ c.name = "daq_set_uservalue" /\ SetUservalue(c)

Setting(c) ==
  \/ NamingCommand(c) \/ WritingCommand(c) \/ LimitCommand(c) \/ ModeCommand(c)
  \/ c.name \in Stored /\ Store(c)
  \/ c.name \in Queries /\ Query(c)

\* rcdaq_client with anything but create_device
Execute ==
  \E c \in Commands[usage] :
    IF ~Accepts(c) THEN Refused(c) /\ UNCHANGED listVars
    ELSE \/ Setting(c) /\ UNCHANGED listVars
         \/ c.name = "daq_clear_readlist" /\ Clear(c)

\* rcdaq_client create_device
Create ==
  /\ made < MaxDevices
  /\ \E r \in Requests[usage] :
       CreateDevice(r) /\ Answer([name |-> "create_device"], CreateStatus(r))
  /\ UNCHANGED <<settings, asked>>

---------------------------------------------------------------------------
(* The run                                                                 *)

\* What the largest event needs, if the first buffer is smaller than that.
Needed == {4 * Declared(e) + 4 * 32 : e \in EventType}
TooSmall == {n \in Needed : n > 4 * daqBufferVector[1].max_size}

Resized(buffer, bytes) ==
  LET size == ((bytes + 8191) \div 8192) * 2048 IN
  [buffer EXCEPT !.max_size =
     IF size > buffer.max_length THEN buffer.max_length ELSE size]

\* daq_begin: its size check sees and enlarges the first buffer only, also if
\* it refuses the run because that is not enough.
Begin ==
  /\ IF TooSmall = {} THEN BeginRun(FALSE) /\ UNCHANGED daqBufferVector
     ELSE \E n \in TooSmall :
            /\ \A m \in TooSmall : m <= n
            /\ BeginRun(n > 4 * daqBufferVector[1].max_length)
            /\ daqBufferVector' = [daqBufferVector EXCEPT ![1] = Resized(@, n)]
  /\ Answer([name |-> "daq_begin"], IF DAQ_RUNNING' THEN 0 ELSE -1)
  /\ UNCHANGED <<nr_of_write_threads, currentBufferSize, levelVars, typeVars,
                 uservalues, stored, asked>>

Run ==
  /\ EndRun \/ NextEvent \/ AddSubevent \/ EventDone
  /\ result' = Done
  /\ UNCHANGED <<settings, asked>>

\* What daq_status says of the ring: it looks at the first buffer.  As its
\* memory, too, it gives the maximal size: that is what getMemSize returns.
Json ==
  [threads |-> nr_of_write_threads, size |-> daqBufferVector[1].max_size,
   compression |-> daqBufferVector[1].compression, md5 |-> daqBufferVector[1].md5]

\* The long form has the format of the events, too.
Long ==
  [threads |-> Json.threads, size |-> Json.size, compression |-> Json.compression,
   md5 |-> Json.md5, format |-> current_data_format # 0]

---------------------------------------------------------------------------

\* Memory of less than 0 words: the exception of new ends the server, and the
\* client, left without an answer, crashes.
EndServer ==
  /\ ~DAQ_RUNNING /\ ended' = TRUE
  /\ \E c \in Commands[usage] :
       /\ Accepts(c) /\ c.name = "daq_define_buffersize" /\ Words(c.a) < 0
       /\ Answer(c, 139)
  /\ UNCHANGED <<listVars, current_data_format, settings, asked>>

\* There is no server to connect to.
Unreachable ==
  /\ \E c \in Commands[usage] : Answer(c, 1)
  /\ UNCHANGED <<listVars, current_data_format, settings, ended, asked>>

Next ==
  /\ \/ ~ended /\ (Execute \/ Create \/ Begin \/ Run) /\ UNCHANGED ended
     \/ ~ended /\ EndServer
     \/ ended /\ Unreachable
  /\ UNCHANGED <<usage, processor_count>>

Spec == Init /\ [][Next]_vars

---------------------------------------------------------------------------
(* Properties.                                                             *)

\* Kilobytes in words, rounded up to blocks of eight kilobytes; 0 stands for
\* all of the memory, and there is no more than that.
Limited(memory, kb) ==
  LET size == ((kb + 7) \div 8) * 2048 IN
  IF kb = 0 \/ size > memory THEN memory ELSE size

\* What daq_set_maxbuffersize was last asked for is the size of all buffers,
\* but for the first, which daq_begin may have made larger.  Larger numbers of
\* kilobytes than MaxKilobytes overflow: they are taken for something else.
SizeInEffect(i) ==
  \A kb \in asked["maxsize"] \cap 0 .. MaxKilobytes :
    LET size == Limited(daqBufferVector[i].max_length, kb) IN
    daqBufferVector[i].max_size = size \/ (i = 1 /\ daqBufferVector[i].max_size > size)

\* A buffer that compresses has what that takes: its output array holds all
\* of its memory and the allowance for data that grow.
CanCompress(buffer) ==
  /\ buffer.compression # 0 => buffer.outputarray = buffer.max_length + Extra
  /\ buffer.compression \in 1 .. 3 => buffer.wrkmem

\* One buffer of the ring is as the operator has asked, up to MaxMegabytes
\* (more overflow), and as daq_status reports: it looks at one
\* buffer but stands for all, none of which takes more than the size reported.
BufferInEffect(i) ==
  LET buffer == daqBufferVector[i] IN
  /\ buffer.max_size <= Json.size
  /\ buffer.compression = Json.compression
  /\ buffer.md5 = Json.md5 /\ buffer.format = Long.format
  /\ \A flag \in asked["compression"] : buffer.compression = Level(flag)
  /\ \A flag \in asked["md5"] : buffer.md5 = (flag # 0)
  /\ \A flag \in asked["format"] : buffer.format = (flag # 0)
  /\ \A mb \in asked["size"] \cap 0 .. MaxMegabytes :
       buffer.max_length = 256 * 1024 * (IF mb > 512 THEN 512 ELSE mb)
  /\ SizeInEffect(i) /\ CanCompress(buffer)

\* What the operator was told is set is in effect, in every buffer of the
\* ring and in whatever order the commands came, also those that build the
\* ring anew; the ring has the number of buffers it should, and at least two
\* if there are three cores or more.  (Not so after it was built anew: the
\* maximal buffer size.  Nor a size that overflows: the client is told that
\* 16385 MB are set, and 1 MB is.)
InEffect ==
  /\ Len(daqBufferVector) = Json.threads
  /\ processor_count >= 3 =>
       /\ Json.threads \in 2 .. processor_count - 1
       /\ \A n \in asked["threads"] \cap 2 .. processor_count - 1 : Json.threads = n
  /\ \A i \in DOMAIN daqBufferVector : BufferInEffect(i)
  /\ \A rule \in asked["rule"] : TheFileRule = rule
  /\ \A u \in asked["uservalue"] : uservalues[u[1]] = u[2]
  /\ \A name \in Stored : \A v \in asked[name] : stored[name] = Meaning(name, v)

\* If the client exits with an error status nothing has changed: scripts may
\* go on from where they were.  Exceptions are the two commands that say what
\* they did instead, and a daq_begin that fails its size check.
RefusedChangesNothing ==
  [][\/ result'.status = 0
     \/ result'.name \in {"daq_define_buffersize", "daq_set_mqtt_host", "daq_begin"}
     \/ UNCHANGED effective]_vars

===========================================================================
