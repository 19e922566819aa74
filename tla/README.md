# A TLA+ model of rcdaq

rcdaq is a data acquisition server. It reads events out of devices, puts them
into a ring of buffers, and writes the buffers to local files or sends them to
a remote server, `sfs`, while clients start and stop runs and look at the data.
This directory holds TLA+ modules for it, TLC configurations that check them on
small instances, and TLAPS proofs of the safety properties for all instances.
Each definition names, in `PROJECT.json` ("map"), the lines of
the source it was translated from.

## 1. The system

### Components, their state and what makes them correct

| Component | Source | State | Operations | Correct if |
|---|---|---|---|---|
| Buffer ring and writer threads | `rcdaq.cc` (`switch_buffer`, `daq_begin`, `daq_end`), `daqBuffer.cc` (`writeout`, `Wait_for_free`, `Wait_for_Completion`) | ring indices, per buffer number, run, `_busy`, `_dirty`; `outfile_fd`, `BytesInThisFile`, mutex `FdManagementSem` | fill, switch, recycle, compress, wait, write, roll over, drain, close | every buffer reaches the file of its run once, in order, before the file is closed; reports name what is in a file |
| Run control | `rcdaq.cc` (`daq_begin`, `daq_end`, `EventLoop`, the immediate forms), `rcdaq_server.cc`, `rcdaq_mg_server.cc` | `DAQ_RUNNING`, `DAQ_BEGININPROGRESS`, `DAQ_ENDREQUESTED`, `TriggerControl`, `ThreadEvt`, device list and event sizes | begin, end, immediate begin and end, automatic end, create a device, web requests | one thread fills at a time; begin-run first, end-run last; a request ends the run it is about; the server answers |
| Logging session | `rcdaq.cc` (`daq_open`, `daq_close`, `daq_set_server`, `open_file`, run number file) | flags, descriptors, names, the number file, files on disk | one command per setting, begin, rollover, end, restart | a run is logged where it should be and nowhere else; no file is written twice; numbers of logged runs grow over restarts |
| Remote logging | client: `rcdaq.cc`, `daqBuffer::sendout`; server: `sfs.cc` | client: ring, `_dirty`, `persistentErrorCondition`; server: two buffers and their roles, `M_write`, `M_done`, `output_fd` | connect, file name, begin run, data, rollover, end run, close | a run that was ended is on disk; a crash costs one acknowledged buffer at most |
| Monitoring feed | `rcdaq.cc` (`sendMonitorData`, `monitorRequestwatcher_thread`) | `SendSem`, `SendProtectSem`, `fd_queue`, `transportBuffer` | accept, serve, hand over | a client gets the latest full buffer, never one that is being filled; readout goes on |
| Event and buffer layout | `daqBuffer.cc`, `daqONCSEvent.cc`, `daqPRDFEvent.cc`, `set_eventsizes`, `setMaxSize` | `left`, `current_index`, `Length`, `max_size`, `Eventsize` | size settings, begin, next event, add subevents, switch | nothing is written past a buffer; every event fits |
| Devices, plugins, trigger handlers | `rcdaq_server.cc` (`r_create_device`), `daq_device*.cc`, plugins | `DeviceList`, `TriggerH`, files on disk | create, clear, `put_data`, `max_length` | deliver no more than they declare; no handler outlives its device; files are deleted only on request |
| Settings and the client | `rcdaq_client.cc`, `rcdaq_server.cc`, `rcdaq.cc`, `daqBuffer.cc` | the ring's size, format, compression and checksum flags; rules, run types, limits, user values | one command each; commands that build the ring anew | what was set is in effect in every buffer; a refused command changes nothing |
| Web server: pages | `rcdaq_mg_server.cc`, `daq_webcontrol` | `last_...`, request flags, `end_web_thread` | compare, note, send, load, stop and start | pages come to show the state |
| Web server: connections | `rcdaq_mg_server.cc`, `mongoose.cc`, `control.html` | per connection two buffers, flags, the file that is served | accept, read, write, handle, broadcast, close | answers are whole and in order, commands are carried out once, no request hangs |
| Electronic logbook, MQTT, status, MD5, LZO, GUIs | `eloghandler.cc`, `MQTTConnection.cc`, `md5.cc`, scripts | none of interest | output | not concurrent with anything above |

### How they interact

- The *filling thread* is whoever runs `readout` or `switch_buffer`: the thread
  of `daq_begin` (begin-run event), the event loop (data events) and the thread
  of `daq_end` (end-run event). Nothing but run control's flags and
  `pthread_join` makes these one thread at a time. `RunControl` checks that;
  `BufferRing`, `RemoteLog`, `MonitorFeed`, `EventBuffer` and `Readlist` each
  have a single filling thread and rest on it.
- The filling thread starts a *writer thread* per full buffer. They share
  `_busy`, `_dirty` and, under `FdManagementSem`, the output file.
- For remote logging there are no writer threads: `switch_buffer` sends the
  buffer and waits for the answer. The `sfs` child process has a receiving and
  a writing thread.
- `switch_buffer` releases `SendSem` to the *monitoring thread* and takes
  `SendProtectSem` back before the next switch.
- Commands come in one at a time through the *RPC server*, whose thread waits
  for run control's flags, and, past it, from pages through the *web thread*,
  which reads run control's variables without a lock. The RPC server joins the
  web thread to start another one.
- The web thread runs mongoose's poll loop: handlers of one connection after the
  other, then updates to all of them.

### What is hard

Threads that share plain fields without a lock; waits that give up after 20 s;
the writers' order; a file closed or replaced while others write to it; mutexes
locked by one thread and unlocked by another; acknowledgements ahead of the
disk; a server or connection that goes away; files that cannot be opened, and
what a begin that fails half-way leaves behind; threads joined twice or not at
all; end requests from an operator, an event limit and a web page at once; sizes
at the border of a buffer; settings that have to survive a new ring; requests
that arrive in pieces while updates are sent. The complete list with source
lines is in `PROJECT.json` ("hazards").

## 2. The modules

| Module | Models |
|---|---|
| `RunLog` | The abstract specification: units of a run are accepted, then logged in order, each once; a run ends when all are logged. The environment may declare faults: while the log is *lossy* units may be left out, while it is *faulty* what is logged for one may be spoiled; none is doubled or out of order even then. |
| `BufferRing` | The ring, the writer threads and the local file. Implements `RunLog`. |
| `RunControl` | The threads that begin, fill and end runs, with each access to a shared flag a step of its own. |
| `WebUpdates` | EXTENDS `RunControl`: the web thread's comparing, noting and sending of what it reads from run control, `daq_webcontrol`, and the commands whose effects pages show. |
| `WebConnections` | Connections of the web server: mongoose's poll loop and handlers, with rcdaq's `ev_handler` and `broadcast`. |
| `LogSession` | Which file or connection a run gets, over several runs, settings, failures and restarts. |
| `SfsServer` | The `sfs` child process: receiver, writer, the two buffers and mutexes. |
| `RemoteLog` | EXTENDS `SfsServer`: the client's side of a logged run, connected to the server by a request and a reply. Implements `RunLog`. |
| `MonitorFeed` | The filling thread's side and the monitoring thread's side of the two mutexes. |
| `EventBuffer` | Sizes: what `nextEvent` lets in, what devices deliver, what the memory holds. |
| `Readlist` | Devices: how each is made, declares and delivers its words, in both event formats; trigger handlers. |
| `Settings` | EXTENDS `Readlist`: the client's commands, the settings they change, and the ring that some of them build anew. |
| `BufferRingProofs`, `EventBufferProofs`, `LogSessionProofs`, `MonitorFeedProofs`, `RemoteLogProofs`, `SettingsProofs`, `WebConnectionsProofs` | Theorems about the module of that name; `RemoteLogProofs` covers `SfsServer` and `SettingsProofs` covers `Readlist`. |
| `RunControlProofs` | Theorems about `RunControl` in the behaviours of `WebUpdates`. |
| `MC...` | Constants for TLC. |

### Correspondence

State. Variables have the source's names where there is one. A thread's program
point is `pc`, `fpc` (filling thread), `writer[t].pc`, `wpc`, `spc` or `mpc`; the
comment beside it lists what its values stand for. Variables whose comment says
"history" are kept for the properties only and guard nothing.

Steps. An action is what a thread does between two points where another thread
can see or change shared state: a store to a flag, a lock taken, a wait that
ends. In `BufferRing`, `WriteAndRelease` is one step, as all of it happens under
`FdManagementSem`; `SwitchBuffer`, `Recycle`, `KeepFile`/`Rollover`,
`StartWriter`/`DropBuffer` are the parts of `switch_buffer` between its waits.
In `RunControl` the parts of `daq_begin` and `daq_end` are split at every flag,
in `WebUpdates` `trigger_updates` at every read of one. In `LogSession` a
command is one step, as only one thread takes part; `daq_begin` is split where a
crash or a failure makes a difference: after the file was opened, while the run
number file is empty, and before the size check. In `WebConnections` the server
is one thread; a step is its handling of one connection, and browsers move in
between.

Data. A buffer is its number and run; its length counts 1. Events matter in
`RunControl` (their type) and in `EventBuffer` and `Readlist` (their size) only.
A file name in `LogSession` is its rule, run and sequence number, with 0 for what
the rule does not mention. What is sent to a browser is a sequence of items: a
header, a piece of a file, a reply, a frame. `Orderly` says which messages follow
each other on a connection: a page opens its websocket on a connection of its own
(`control.html:120`), and only a connection that was kept alive is used again.

Composition. `WebUpdates` runs inside `RunControl`'s behaviours and `RemoteLog`
inside `SfsServer`'s. `LogSession` takes the writing of a buffer as one step,
which `BufferRing` and `RemoteLog` justify (`CloseComplete`, `EndedAcked`).
`EventBuffer` takes any word counts within a margin from its devices, and
`Readlist` (`EventWithin`) says what the devices of the repository need of it.

Constants that stand for the build or the surroundings: `MergedStores` in
`BufferRing` says whether the compiler joins `_busy = 0; _dirty = 0`
(`daqBuffer.cc:420-423`) so that nobody sees one without the other: `g++ -O2`
emits one store for the two neighbouring fields, an unoptimised build does not.
`PatientWaits` says that no 20 s guard expires. `OpenMayFail`, `ServerMayFail`
and `DiskMayFail` let files, the server, its connection and its disk fail;
`MaxFailures` bounds the `write()`s of `BufferRing` that fail (`writen`,
`rcdaq.cc:728`), and `MayBreak` says which buffers may have found no memory for
compression (`_broken`). `BeginMayFail` lets `daq_begin` of `RunControl` be
refused for reasons that are not modelled there, or fail on its way. `Usages` in
`RunControl` and `Settings` are kinds of behaviour, each with the commands that
are given in it; TLC checks them as separate sets of behaviours in one run.

A buffer written to a descriptor that was closed meanwhile goes nowhere (file
0) or into the file that has the number now; both outcomes are allowed. Where
`LogSession` opens a descriptor it gets the lowest free one, as the system does.

Operators named `Bad...` are copies of the definition that follows with a
mistake in it. No specification uses them. Each property is violated when one of
them takes the place of the definition (`PROJECT.json`, "mutants").

## 3. The runs

### Passing

| Run | Bounds | Shows |
|---|---|---|
| `ring_compressed` | 3 buffers, 2 writers, 2 runs, 6 buffers a run, rollover after 2, one `write()` may fail | `TypeOK`, `CloseComplete`, `FdStable`, `NoFillWhileWriting`, `ReportsMatch`, `RolloverBound` and the refinement `ImplementsLog` |
| `ring_stall` | 2 buffers, 2 writers, 1 run of up to 4 buffers, guards expire, opens and a `write()` fail, a buffer may be broken, two stores | `FdMutex`, `EndCompletes` |
| `commands` | 3 event loops, 2 runs, 1 event, 1 device, 2 ports, 2 names; four usages | `Bracketed`, `OneFiller`, `EndsRightRun`, `SizesCurrent`, `PageFollows`, `RpcAnswers` |
| `remote_log` | 2 buffers, 2 runs of up to 3 buffers, no rollover or after 3, everything may fail, transfers break off | `RunStored`, `AtMostOneUnstored`, `EndedAcked`, the refinement `ImplementsLog`, `Answered` |
| `session_files` | 3 attempts, 1 rollover each, 1 restart, 2 descriptors, 2 rules | `NoFileTwice`, `OwnDestination`, `EnvironmentTells`, `NothingLost`, `NumbersGrow` |
| `feed_run` | 2 buffers, 2 runs of up to 4 buffers, up to 3 clients waiting, any number of requests | `TakeTurns`, `SentIsLatest`, `SwitchCompletes` |
| `layout_margin` | 3 buffers of 3 blocks, events from nothing to more than a buffer, 6 words in excess | `WithinMemory`, `WithinSize`, `BlocksInMemory`, `EventFits` |
| `settings` | 2 or 4 cores, 3 devices, nine groups of commands, sizes up to and past 32 bits, files from 5 to 4097 words | `EventWithin`, `TriggerOwned`, `FilesKept`, `InEffect`, `RefusedChangesNothing` |
| `web_connections` | 2 connections, up to 3 messages each, files of 2 pieces, room for 2, 1 update, browsers that leave or reset | `AnswersIntact`, `CarriedOut`, `Served` |

Why the bounds are enough. Buffers: the ring wraps around (3 to 6 buffers in a
ring of 2 or 3), so a buffer is recycled while others are under way, at any
distance. Writers: at most `NumBuffers - 1` threads live at once when waits are
patient, as the filler waits for the next slot; in `ring_stall` the pool bounds
how many overtaken threads pile up. Runs: two, so that the leftovers of one meet
the next; three event loops, so that a loop that overstays could meet a run
after the next. The usages of `commands` are an operator at a terminal with an
event limit, a script with the immediate forms and no limit, and operators with
a browser. Requests of the monitoring: any number, and up to three
of them at a time. Sizes: block
and header sizes are the code's, and read lists are chosen to fill a buffer
exactly, to exceed one buffer and to exceed all. Attempts: three, so that a
begin can fail between two that succeed, each with a different setting, with the
restart before, between or within them; of a fixed rule, run control mode and a
run number application one is used at a time (`MaxUnusual`). `settings` tries
every order of the commands of a group; a group has those that can meet in one
variable. Connections: two, as the server handles one after the other and shares
the updates among them; messages arrive in halves, so that one, a part, or
several are read at a time, and room for two items makes a file wait for it.

Deadlock is checked except in `remote_log`: after a failed send `daq_end`
polls dirty flags for ever, which is what the code does. The actions `Done` and
`Gone` mark the end of a bounded number of runs, or `daq_end` waiting for a
broken buffer, and the end of the web thread; `Dead` in
`EventBuffer` is the process after `addSubevent` has followed a null pointer.

### Violations: where the code and what it says differ

| Run | Property | What happens |
|---|---|---|
| `ring_order_bug` | `BeginRunFirst` | Without compression writers do not wait for the previous buffer (the call is commented out at `daqBuffer.cc:321`), so with three buffers the second can be written first. The documentation guarantees that the begin-run event comes first. With two buffers the ring itself forces the order. |
| `rc_web_bug` | `Bracketed` | A web page's `daq_end` runs without first stopping and joining the event loop, as `daq_end_thread` does; a data event follows the end-run event. |
| `feed_begin_bug` | `EventStaysOpen` | `daq_begin` points `transportBuffer` at the buffer it fills next while the monitoring thread may be serving a client; that thread ends the buffer and deletes the event that is being read out. |

### Fairness

- `BufferRing`: a writer thread is scheduled until it ends; the filling thread
  goes on once it is inside `switch_buffer` or `daq_end`. Not assumed: that
  data come, or that anybody begins or ends a run.
- `WebUpdates`: every thread but the clients runs. `wait_for_trigger` may return
  0 for ever.
- `RemoteLog`: both threads of the server and the client inside a call run. A
  lost connection is noticed (`readn` returns).
- `MonitorFeed`: `switch_buffer` and the monitoring thread run. This includes
  that a monitoring client sends its control word or hangs up, which the code
  does not enforce: it has no timeout (`rcdaq.cc:990`). Nor does anything bound
  the clients: while `sendMonitorData` serves the queue the watcher may add to it
  (`rcdaq.cc:937`). `SwitchCompletes` therefore says that a switch ends unless
  again and again a client comes while it waits (`Refilled`).
- `WebConnections`: the web thread runs; its `select` has a timeout. Nothing is
  assumed of browsers.

Weak fairness is enough where a mutex is waited for, because each is handed
over between two parties that cannot take it again in between; writers compete
for `FdManagementSem`, but each takes it once in its life.

### What does not hold, and is therefore not claimed

Logging
- With `_busy` and `_dirty` cleared by two separate stores, a buffer recycled in
  between loses its dirty flag, and `daq_end` may close the file before it is
  written.
- With the guards expiring, neither order nor content of a file is certain.
- A `write()` to the local file that fails loses its buffer, or leaves a part of
  it in the file: `writen` prints a message and returns 0, `writeout` clears the
  flags as if all was well (`daqBuffer.cc:335`, `390`, `394`), the file's size
  stays behind, the report names the buffer, and `daq_end` ends the run. The
  properties of `BufferRing` leave out that buffer and no other: in `RunLog` it
  is spoiled, not missing.
- A buffer without memory for compression is `_broken`: its writer returns at once
  (`daqBuffer.cc:302`) and leaves it busy and dirty. A run that has used one never
  ends (`EndCompletes` excepts it, the theorems under `Calm` do without it).
- With a rollover limit the `sfs` server closes a file it still writes
  (`sfs.cc:450`): the write fails and the buffer counts as stored. The
  properties of `RemoteLog` hold "unless a write failed".
- When a transfer to `sfs` breaks off, the server still switches and writes the
  buffer, in which the rest of an older unit follows a part of the new one
  (`sfs.cc:532-560`). The last entry on disk can be such a one; `rcdaq` has no
  acknowledgement for it and never closes the run.
- Bytes sent to a server are counted twice, so a remote file rolls over at half
  of the limit.
- A begin that fails after it has opened its file or connection leaves it open:
  the next ones fail, and after `daq_close` a run without logging sends its
  buffers to the server that refused the begin. `LogSession`'s variable `clean`
  leaves these behaviours out of three properties, not out of the model.
- A crash between `fopen(.., "w")` and the writing of the run number file, or a
  number file set after runs were logged, lets numbers start again (`orderly`).

Run control
- With automatic ends, `daq_end` clears `DAQ_ENDREQUESTED` although
  `daq_end_thread` is still under way, so that a stale end request can end the
  next run (`EndsRightRun` in a usage with a limit and `end_immediate`).
- `daq_end_thread` clears `DAQ_ENDREQUESTED` a second time after `daq_end` has
  done so (`rcdaq.cc:837`). When it is late, the flag it clears is that of the
  next request to end, and with two such threads under way `OneFiller` fails: a
  begin is let in while the second one still fills. `commands` has one end
  thread, and the theorems assume one (`Apart`).
- `create_device` does not wait for an immediate begin in progress, and can add a
  device after the buffers were sized. `SizesCurrent` is about begins that the
  RPC server waits for.

Sizes and settings
- The first buffer only is enlarged by `daq_begin`; an event then fits into no
  other, and `readout` ignores the status (hypothesis of `EventFits`).
- `daq_setmaxbuffersize` is forgotten by commands that build the ring anew. With
  two cores the ring gets one buffer.
- Sizes are multiplied in an `int` (`rcdaq.cc:578`, `595`). `daq_define_buffersize`
  with 8192 to 16383 MB asks for less than no memory, passes the upper limit and
  ends the server with an exception of `new`; with 16385 MB it reports success and
  sets 1 MB, and with 16384 MB none. `daq_setmaxbuffersize` with 2097145 to
  2097151 kB sets a maximal size
  below 0. `InEffect` is about sizes up to `MaxMegabytes` and `MaxKilobytes`.
- `getMemSize` is said to return "the immutable largest memory size in words"
  (`daqBuffer.h:73`), and `daq_status` prints it as the buffer size. It returns
  `max_size`, so that the status follows `daq_setmaxbuffersize` (`Json`).
- A device_command with a length is a file device (exception in `FilesKept`). A
  file that outgrew its device takes what other devices were promised. In the
  ONCS format seven devices that pad exceed the margin of six words.

Web
- `broadcast` sends frames to every connection: one without a websocket gets
  them in the middle of an answer, and one that is about to become a websocket
  never gets its handshake (`crossed`). The page tries again after 2.5 s.
- A `daq_end` that is refused is answered over a websocket with a text that is
  no frame (`broken`).
- When a connection is reset (`mongoose.cc:3435`), messages still on their way are
  lost; `CarriedOut` excepts them.
- `trigger_updates` reads a flag to compare it, to note it and to send it. A flag
  sent with another value than the one noted, which then changes back, leaves the
  page wrong; so can a page's first update, which takes a server for an open file.
  `PageFollows` excepts a flag as long as what was last sent of it differs from
  what was noted (`misled`). Of `ServerFlag` pages are told, but show nothing.

Monitoring
- Clients that ask without a pause keep `sendMonitorData` from emptying its queue
  (`rcdaq.cc:976-1017`), and readout waits in `switch_buffer` for all that time.
- The web thread clears the flag that tells it to stop as its first statement;
  a `daq_webcontrol` at once after another waits for ever (`restarted_early`).
  The old listening socket is not closed, so that a port cannot be used again.

## 4. The theorems

Checked by TLAPS for all values of the constants that satisfy the named
assumptions of the modules.

`BufferRingProofs`

| Theorem | States | Assuming |
|---|---|---|
| `TypeCorrect` | `Spec => []TypeOK` | |
| `MutualExclusion` | `Spec => []FdMutex` | |
| `NoOverwrite` | `Spec => []NoFillWhileWriting` | `Calm` |
| `FileStaysOpen` | `Spec => []FdStable` | `Calm` |
| `FilesBounded` | `Spec => []RolloverBound` | `Calm` |
| `ClosesComplete` | `Spec => []CloseComplete` | `Smooth` |
| `BeginsFirst` | `Spec => []BeginRunFirst` | `Ordered` |
| `ReportsTrue` | `Spec => []ReportsMatch` | `Ordered` |
| `RingIsALog` | `Spec => ImplementsLog` | `Ordered` |

`Calm` is `PatientWaits /\ MergedStores /\ MayBreak = {}`: no guard of 20 s
expires, the two stores at the end of `writeout` are one, and no buffer is
broken. `Smooth` is `Calm /\ ~OpenMayFail`, and `Ordered` is `Smooth /\
Compressed`. Each is needed: section 3 lists what happens without, and
`ring_order_bug` shows `BeginRunFirst` violated without compression.

`FdMutex` follows from `HolderWrites`: a writer that writes is the one that owns
`FdManagementSem`. `NoFillWhileWriting` is not inductive: that a writer's slot is
not the one being filled depends on the flag `busy`, by which `Wait_for_free`
judges. The invariant `FlagInv` adds that a buffer with a live writer is busy,
that no two writers have the same buffer, that a busy buffer is dirty and belongs
to a run that is not over, and that the buffer at the head of the ring is not
busy unless the filler still waits for it. `FdStable` follows: to close the file,
`daq_end` needs every buffer clean, and the rollover needs the mutex that the
writer holds. For completeness, `NumberInv` says that the ring holds the last
buffers of the run in order, and `WrittenInv` that each number handed over is
written or has a writer. `SizeInv` counts the buffers under way against the
rollover limit. With compression `QueueInv` says that the writers form a queue,
of which the first only may take the mutex, and `OpenFileInv` what is in the open
file. With these every step of the ring is a step of `RunLog` or changes nothing
that `RunLog` sees.

`RemoteLogProofs`

| Theorem | States |
|---|---|
| `TypeCorrect` | `Spec => []TypeOK` |
| `OneUnstored` | `Spec => []AtMostOneUnstored` |
| `AllAcked` | `Spec => []EndedAcked` |
| `RunOnDisk` | `Spec => []RunStored` |
| `RemoteLogIsALog` | `Spec => ImplementsLog` |

No assumption beyond those on the constants: the server, its disk and the
connection may fail, and transfers break off. `RemoteLogIsALog` allows units to
be left out or spoiled only once the connection has gone or a write has failed.
`LockInv` is the heart: of the two mutexes each is locked by one thread and
unlocked by the other, so that the writer either has nothing to do, was just
given a buffer, or writes. `DialogueInv` relates request and reply to where the
client is, `AckInv` says that what was answered is acknowledged unless a send
failed, `StoreInv` that what is acknowledged is on the disk or is the one in
writing, and `OrderInv` how far the stream has got; `CutInv`
that what a server without its connection still has to write comes after what is
on disk, though it need not be whole.

`LogSessionProofs`

| Theorem | States |
|---|---|
| `TypeCorrect` | `Spec => []TypeOK` |
| `FilesDiffer` | `Spec => []NoFileTwice` |
| `OwnFile` | `Spec => []OwnDestination` |
| `FilenameTells` | `Spec => []EnvironmentTells` |
| `EveryBufferSent` | `Spec => NothingLost` |
| `NumbersOrdered` | `Spec => NumbersGrow` |

For any number of runs, rules, descriptors and restarts. `DescriptorInv` says
that `outfile_fd` and `TheServerFD` are the one file and the one connection of
this attempt, that `file_is_open` tells whether there is one, and that descriptor
0 is never among them. `NameInv` follows the file's name through the steps of a
begin, and `CountInv` orders the last number logged, the one in the number file
and the one being given. `clean` and `orderly` stand in the properties, as in the
runs.

`MonitorFeedProofs`

| Theorem | States |
|---|---|
| `TypeCorrect` | `Spec => []TypeOK` |
| `TurnsTaken` | `Spec => []TakeTurns` |
| `LatestSent` | `Spec => []SentIsLatest` |
| `LaterEventsOpen` | `Spec => []LaterEventsStay` |

`TokenInv` says which of the two threads holds which mutex; `RingInv` and
`SendingInv` what `transportBuffer` points at. `LaterEventsStay` is
`EventStaysOpen`, which `feed_begin_bug` shows to be violated, from the second
buffer of a run on: the defect is confined to the begin of a run.

`RunControlProofs`

| Theorem | States | Assuming |
|---|---|---|
| `TypeCorrect` | `PageSpec => []TypeOK` | |
| `FillsAlone` | `PageSpec => []OneFiller` | `Apart` |
| `RunsInOrder` | `PageSpec => []Bracketed` | `Apart` |
| `RightRun` | `PageSpec => []EndsRightRun` | `Apart` |

`Apart`: no usage has both an event limit and `end_immediate`, and at most one
`daq_end_thread` is under way. Section 3 says what happens without it. In
`PageSpec` pages do not end runs; `rc_web_bug` is about that. Any number of
event loops, runs, events and devices. `PlaceInv` says where each thread can be,
`TurnInv` that the flags keep the RPC thread, `daq_begin_thread` and
`daq_end_thread` out of each other's way, `LoopInv` that a loop that still runs
is the one that the next begin or end joins, `TargetInv` that an end in progress
is for this run, and `EventInv` what the last event of the stream is at each
place.

`EventBufferProofs`

| Theorem | States | Assuming |
|---|---|---|
| `StaysInMemory` | `Spec => []WithinMemory` | `Margin` |
| `StaysInSize` | `Spec => []WithinSize` | `Margin` |
| `PaddingInMemory` | `Spec => []BlocksInMemory` | `Margin` |
| `RoomFound` | `Spec => []EventFits` | |

`Margin` is the ONCS format (`FrameLength = 0`) and devices that exceed their
declared length by 6 words at most in an event. The invariant `IInv` relates
`left` to `current_index` and `Length`, bounds every `max_size` by the memory and
makes it a whole number of blocks, and says how much of the buffer an event that
`nextEvent` has let in may still take. What the code keeps free, four words
counted twice (`EOBLENGTH` in `prepare_next` and again in `nextEvent`), minus
the two words of the end-of-buffer marker, is where the margin of 6 words comes
from. As sizes are whole blocks, rounding up the length stays in the memory.

`SettingsProofs`

| Theorem | States |
|---|---|
| `HandlerOwned` | `Spec => []TriggerOwned` |
| `OthersKept` | `Spec => []FilesKept` |
| `StaysWithin` | `Spec => []EventWithin` |
| `FailureChangesNothing` | `Spec => RefusedChangesNothing` |
| `SettingsInEffect` | `Spec => []InEffect` |

For any list of devices and any order of commands. `ReadoutInv` compares what the
devices read so far have delivered with what they declared, as sums over the
list. `RingInv` says that all buffers are made for the settings in use, and
`AskedInv` and `StoredInv` that these are the ones asked for last, for sizes that
do not overflow.

`WebConnectionsProofs`

| Theorem | States |
|---|---|
| `TypeCorrect` | `Spec => []TypeOK` |
| `MessagesCarriedOut` | `Spec => []CarriedOut` |
| `AnswersWhole` | `Spec => []AnswersIntact` |

For any number of connections, any `Orderly` scripts, and files, buffers and
updates of any size. What is true of one connection is `Fine`: the halves of
messages in the server's memory and on the way number on from the messages
handled (`Counted`); a browser has one request under way (`OneRequest`); what is
sent answers what was handled, and the file in transfer is that of the last
message (`FileOfLast`, `PiecesBefore`); a connection about to be closed has
nothing left to do (`NothingLeft`); and what was received, what waits to be sent
and what the file still has are together the answers (`Intact`). `ListInv` says
that the open connections are in the list once, and `PollInv` that whole messages
stay in memory only within a poll, and only if the connection is about to be
closed.

The provers take no induction over data. Where a proof needs one - sums over the
read list, the answers to all messages, the frames that `mg_websocket_handler`
delivers one after the other - it assumes the least number for which the claim
fails (`WFMin`) and refutes it; the functions are recursive functions, not
RECURSIVE operators.

Model-checked only: liveness (`EndCompletes`, `RpcAnswers`, `PageFollows`,
`Answered`, `SwitchCompletes`, `Served`), as the prover has no rules for
fairness, and `SizesCurrent`, which as a theorem would be about a sequence of
commands of one thread only. `NoFillWhileWriting`, `FdStable` and the others
under `Calm` say nothing of the other builds; there only `FdMutex` and `TypeOK`
hold.

## 5. Plan

Done: all the modules of section 2, nine passing runs and three violations, and
theorems for every safety property, action property and refinement that the
passing runs check, but for `SizesCurrent`. The set of runs is kept small; a new
one replaces one whose question it answers better.

Next, in this order:

1. `RunControl`: a version of `FillsAlone` for usages with an event limit and
   `end_immediate`, which says how much is lost there, instead of `Apart`.
2. `EventBuffer`: the PRDF format, whose frame of 8 words exceeds `Margin`: the
   margin that holds for it.
3. `BufferRing`: what holds of files without compression, where writers may
   overtake each other by less than the ring (a weaker abstract log).
4. `WebUpdates`: the safety half of `PageFollows`, that what a page shows was
   true when it was read.

## 6. What is not modelled

- The algorithms of MD5, LZO and the random numbers, which compute over data
  that the modules do not have, and the text of reports, e-log entries, MQTT
  messages and status output, which only read state.
- `daq_shutdown` and signal handlers, which end the process. What is freed two
  seconds too early (`rcdaq.cc:855-870`) has no counterpart in the modules, nor have
  pointers into a ring that was built anew (`rcdaq.cc:2496`).
- The rest of mongoose: TLS, UDP, CGI, SSI, WebDAV, DNS, MQTT, CoAP, uploads and
  directory listings, which no request of rcdaq's pages reaches.
  `WebConnections` has everything between `select` and
  `ev_handler` for a plain TCP connection. Requests that are larger than what
  is read at a time are the halves of a message there; header fields, MIME types
  and the names of files are not modelled.
- Loading a plugin's library, the user's start script, hardware, of which
  `EventBuffer` and `RunControl` allow any outcome.
- `rcdaq_frontend.cc`, a separate test program, and the scripts and user
  interfaces, which call the client.

Thread creation always succeeds in the modules, and the memory is sequentially
consistent except for the two stores named above. An `sfs` process that has lost
its connection has exited by the time `rcdaq` closes its side.

## 7. Running

    tlc -config ring_compressed.cfg MCBufferRing.tla
    tlc -config ring_stall.cfg MCBufferRing.tla
    tlc -config commands.cfg MCWebUpdates.tla
    tlc -config remote_log.cfg MCRemoteLog.tla
    tlc -config session_files.cfg MCLogSession.tla
    tlc -config feed_run.cfg MCMonitorFeed.tla
    tlc -config layout_margin.cfg MCEventBuffer.tla
    tlc -config settings.cfg MCSettings.tla
    tlc -config web_connections.cfg MCWebConnections.tla
    tlapm BufferRingProofs.tla
    tlapm EventBufferProofs.tla
    tlapm LogSessionProofs.tla
    tlapm MonitorFeedProofs.tla
    tlapm RemoteLogProofs.tla
    tlapm RunControlProofs.tla
    tlapm SettingsProofs.tla
    tlapm WebConnectionsProofs.tla

Every run needs less than three minutes.
