------------------------------ MODULE Readlist ------------------------------
(***************************************************************************)
(* The read list and what its devices do with an event: r_create_device of *)
(* rcdaq_server.cc and the two plugins, the devices themselves, trigger    *)
(* handlers, set_eventsizes and readout of rcdaq.cc, and addSubevent of    *)
(* the two event formats.  Lengths are in 32-bit words; what the words are *)
(* is not modelled, nor is who owns the buffer (EventBuffer has that).     *)
(***************************************************************************)
EXTENDS Integers, Sequences

CONSTANTS
  EventType, \* event types in use: below MAXEVENTID
  FileWords, \* how many words, or numbers, a file may hold when it is read
  MaxDevices \* bound: devices made

(***************************************************************************)
(* A request: the name of the device, its event type, the number of its    *)
(* parameters, name included, and of those the length (in words; in        *)
(* kilobytes for a file) and the trigger flag.  A parameter counts only if *)
(* there are enough of them.                                               *)
(***************************************************************************)
Request == [device : STRING, type : EventType, npar : 1 .. 14, size : Nat,
            trigger : BOOLEAN]

ASSUME ReadlistAssumption ==
  /\ EventType \subseteq 0 .. 31
  /\ FileWords \subseteq Nat /\ MaxDevices \in Nat

VARIABLES
  DeviceList, \* sequence of devices
  TriggerH,   \* the handler registered: [of: its device's number, type]
  made,       \* how many devices were made: gives them their numbers
  DAQ_RUNNING,
  current_data_format, \* 0: ONCS, else PRDF
  Eventsize,
  event,      \* the event that is read out, or NoEvent
  unlinked    \* history: names of the requests whose devices deleted files

EVTHEADERLENGTH == 8
SEVTHEADERLENGTH == 4
PacketHeader == 6
FrameLength == 8
PRDF == current_data_format # 0

NoHandler == [of |-> 0, type |-> 0]
NoEvent == [type |-> -1, pos |-> 0, left |-> 0, current |-> 0, extent |-> 0,
            outgrew |-> FALSE]

InitReadlist ==
  /\ DeviceList = <<>> /\ TriggerH = NoHandler /\ made = 0
  /\ DAQ_RUNNING = FALSE /\ current_data_format = 0
  /\ Eventsize = [e \in EventType |-> 0]
  /\ event = NoEvent /\ unlinked = {}

---------------------------------------------------------------------------
(* create_device                                                           *)

\* The number of parameters each device can be made with.
Parameters(device) ==
  CASE device = "device_random" -> 3 .. 7
    [] device = "device_deadtime" -> 3 .. 6
    [] device \in {"device_file", "device_file_delete", "device_filenumbers",
                   "device_filenumbers_delete", "device_command",
                   "device_pluginexample"} -> 4 .. 14
    [] OTHER -> 3 .. 14

Known == {"device_random", "device_deadtime", "device_file",
          "device_file_delete", "device_filenumbers",
          "device_filenumbers_delete", "device_command", "device_rtclock",
          "device_gauss", "device_pluginexample"}

\* Kilobytes as words, but no less than the default.
FileSize(kb, default) == IF 256 * (kb + 3) < default THEN default ELSE 256 * (kb + 3)

\* With the flag and the length the wrong way round.
BadFileDevice(r) ==
  [kind |-> "file", deletes |-> r.npar >= 5,
   words |-> IF r.npar >= 5 THEN FileSize(r.size, 4096) ELSE 4096]

FileDevice(r) ==
  [kind |-> "file", deletes |-> r.device = "device_file_delete",
   words |-> IF r.npar >= 5 THEN FileSize(r.size, 4096) ELSE 4096]

NumbersDevice(r) ==
  [kind |-> "filenumbers", deletes |-> r.device = "device_filenumbers_delete",
   words |-> IF r.npar >= 5 THEN FileSize(r.size, 256) ELSE 256]

\* A device_command with a fifth parameter becomes a device_file that takes
\* the parameter for its delete flag.
CommandDevice(r) ==
  IF r.npar >= 5 THEN [kind |-> "file", deletes |-> r.size # 0, words |-> 4096]
  ELSE [kind |-> "command", deletes |-> FALSE, words |-> 0]

RandomDevice(r) ==
  [kind |-> "random", deletes |-> FALSE, words |-> IF r.npar >= 4 THEN r.size ELSE 32]

DeadtimeDevice(r) ==
  [kind |-> "deadtime", deletes |-> FALSE, words |-> IF r.npar >= 5 THEN r.size ELSE 0]

ClockDevice == [kind |-> "rtclock", deletes |-> FALSE, words |-> 10]

\* The two devices of the plugins.
GaussDevice == [kind |-> "gauss", deletes |-> FALSE, words |-> 4]
PluginDevice(r) == [kind |-> "pluginexample", deletes |-> FALSE, words |-> r.size]

\* [kind, deletes, words] of the device a request makes
Made(r) ==
  CASE r.device \in {"device_file", "device_file_delete"} -> FileDevice(r)
    [] r.device \in {"device_filenumbers", "device_filenumbers_delete"} -> NumbersDevice(r)
    [] r.device = "device_command" -> CommandDevice(r)
    [] r.device = "device_random" -> RandomDevice(r)
    [] r.device = "device_deadtime" -> DeadtimeDevice(r)
    [] r.device = "device_rtclock" -> ClockDevice
    [] r.device = "device_gauss" -> GaussDevice
    [] OTHER -> PluginDevice(r)

\* The constructor makes a trigger handler.
Triggers(r) ==
  r.trigger /\ \/ r.device = "device_random" /\ r.npar = 7
               \/ r.device = "device_deadtime" /\ r.npar = 6
               \/ r.device = "device_gauss" /\ r.npar >= 4
               \/ r.device = "device_pluginexample" /\ r.npar >= 5

\* The device in the list: with its number and its handler's, 0 for none.
Device(r, number) ==
  [kind |-> Made(r).kind, deletes |-> Made(r).deletes, words |-> Made(r).words,
   name |-> r.device, type |-> r.type, number |-> number,
   th |-> IF Triggers(r) THEN number ELSE 0]

\* pluginexample's handler is always one for data events.
HandlerType(r) == IF r.device = "device_pluginexample" THEN 1 ELSE r.type

\* registerTriggerHandler refuses a second one, which no device notices.
AddDevice(r) ==
  /\ made' = made + 1
  /\ DeviceList' = Append(DeviceList, Device(r, made'))
  /\ TriggerH' = IF Triggers(r) /\ TriggerH = NoHandler
                   THEN [of |-> made', type |-> HandlerType(r)] ELSE TriggerH

\* The status r_create_device replies with: a device nobody knows is no error.
CreateStatus(r) ==
  IF DAQ_RUNNING \/ r.npar < 3 THEN -1
  ELSE IF r.device \in Known /\ r.npar \notin Parameters(r.device) THEN -1
  ELSE 0

CreateDevice(r) ==
  /\ IF CreateStatus(r) = 0 /\ r.device \in Known
       THEN AddDevice(r)
       ELSE UNCHANGED <<DeviceList, TriggerH, made>>
  /\ UNCHANGED <<DAQ_RUNNING, current_data_format, Eventsize, event, unlinked>>

BadDestroy(list, handler) ==  \* only of the handler's own device's kind
  IF \E i \in DOMAIN list : list[i].kind = "gauss" THEN NoHandler ELSE handler

\* The destructors: gauss and pluginexample clear the handler in any case,
\* random and deadtime if they have made one, theirs or not.
Destroy(list, handler) ==
  IF \E i \in DOMAIN list :
       \/ list[i].kind \in {"gauss", "pluginexample"}
       \/ list[i].kind \in {"random", "deadtime"} /\ list[i].th # 0
    THEN NoHandler ELSE handler

\* daq_clear_readlist, while no run is active
ClearReadlist ==
  /\ DeviceList' = <<>>
  /\ TriggerH' = Destroy(DeviceList, TriggerH)
  /\ UNCHANGED <<made, DAQ_RUNNING, current_data_format, Eventsize, event, unlinked>>

---------------------------------------------------------------------------
(* What devices declare and what they deliver.                             *)

BadMaxLength(d, e) == IF d.type # e THEN 0 ELSE d.words

\* max_length
MaxLength(d, e) ==
  IF d.type # e \/ d.kind = "command" THEN 0
  ELSE CASE d.kind = "deadtime" -> IF d.words = 0 THEN 0 ELSE d.words + SEVTHEADERLENGTH + 2
         [] d.kind \in {"file", "filenumbers"} -> d.words + SEVTHEADERLENGTH + 1
         [] OTHER -> d.words + SEVTHEADERLENGTH

Even(n) == n + (n % 2)

\* device_file: what a read of w words of a file into `left' words returns.
\* A negative length makes read fail, and its -1 is padded to two words.
ReadFile(w, left, header) ==
  LET room == left - header - 2
      n == IF w + header + 1 >= left THEN room ELSE w
  IN  header + (IF n < 0 THEN 2 ELSE Even(IF n < w THEN n ELSE w))

\* device_filenumbers: stops reading when the space is used up.
ReadNumbers(w, left, header) ==
  LET room == IF left - header - 1 > 1 THEN left - header - 1 ELSE 1
  IN  IF w < room THEN w ELSE room

PutFile(w, left) == ReadFile(w, left, IF PRDF THEN PacketHeader ELSE SEVTHEADERLENGTH)

PutNumbers(w, left) ==
  IF PRDF THEN PacketHeader + ReadNumbers(w, left, PacketHeader)
  ELSE SEVTHEADERLENGTH + Even(ReadNumbers(w, left, SEVTHEADERLENGTH))

PutRandom(d) == (IF PRDF THEN PacketHeader ELSE SEVTHEADERLENGTH) + Even(d.words)
PutDeadtime(d) == IF d.words = 0 THEN 0 ELSE PutRandom(d)
PutClock == IF PRDF THEN PacketHeader + 9 ELSE SEVTHEADERLENGTH + 10

\* These two know the ONCS format only.
PutGauss(d) == SEVTHEADERLENGTH + d.words
PutPlugin(d) == SEVTHEADERLENGTH + Even(d.words)

\* put_data, w words being in the file
PutData(d, w, left) ==
  CASE d.kind = "command" -> 0
    [] d.kind = "file" -> PutFile(w, left)
    [] d.kind = "filenumbers" -> PutNumbers(w, left)
    [] d.kind = "random" -> PutRandom(d)
    [] d.kind = "deadtime" -> PutDeadtime(d)
    [] d.kind = "rtclock" -> PutClock
    [] d.kind = "gauss" -> PutGauss(d)
    [] OTHER -> PutPlugin(d)

IsFile(d) == d.kind \in {"file", "filenumbers"}

\* What a device may deliver: a missing file gives nothing.
Deliveries(d, left) ==
  IF event.type # d.type THEN {[len |-> 0, words |-> 0, read |-> FALSE]}
  ELSE IF IsFile(d)
    THEN {[len |-> 0, words |-> 0, read |-> FALSE]}
         \cup {[len |-> PutData(d, w, left), words |-> w, read |-> TRUE] : w \in FileWords}
  ELSE {[len |-> PutData(d, 0, left), words |-> 0, read |-> FALSE]}

---------------------------------------------------------------------------
(* A run                                                                   *)

\* The sum of a sequence of lengths, which set_eventsizes forms as it goes
\* through the read list.
Sums(lengths) ==
  LET sum[i \in 0 .. Len(lengths)] == IF i = 0 THEN 0 ELSE sum[i - 1] + lengths[i]
  IN  sum

Total(lengths) == Sums(lengths)[Len(lengths)]

\* set_eventsizes
Declared(e) ==
  EVTHEADERLENGTH + Total([i \in 1 .. Len(DeviceList) |-> MaxLength(DeviceList[i], e)])

\* daq_begin as far as the read list is concerned; refused if the size check
\* finds an event too large.
BeginRun(refused) ==
  /\ ~DAQ_RUNNING /\ DAQ_RUNNING' = ~refused
  /\ Eventsize' = [e \in EventType |-> Declared(e)]
  /\ UNCHANGED <<DeviceList, TriggerH, made, current_data_format, event, unlinked>>

EndRun ==
  /\ DAQ_RUNNING /\ event = NoEvent /\ DAQ_RUNNING' = FALSE
  /\ UNCHANGED <<DeviceList, TriggerH, made, current_data_format, Eventsize,
                 event, unlinked>>

\* The events of a run: begin and end of it, and those of the trigger; with
\* no handler the event loop makes data events itself.
Occurring == {9, 12, IF TriggerH = NoHandler THEN 1 ELSE TriggerH.type}

\* readout: nextEvent ...
NextEvent ==
  /\ DAQ_RUNNING /\ event = NoEvent
  /\ \E e \in Occurring \cap EventType :
       LET frame == IF PRDF THEN FrameLength ELSE 0 IN
       event' = [type |-> e, pos |-> 1, left |-> Eventsize[e] - EVTHEADERLENGTH - frame,
                 current |-> frame, extent |-> frame, outgrew |-> FALSE]
  /\ UNCHANGED <<DeviceList, TriggerH, made, DAQ_RUNNING, current_data_format,
                 Eventsize, unlinked>>

\* ... and addSubevent for each device: what comes when there was no space
\* left already is written, but does not count.
AddSubevent ==
  /\ event.pos \in DOMAIN DeviceList
  /\ LET d == DeviceList[event.pos] IN
     \E put \in Deliveries(d, event.left) :
       LET end == event.current + put.len IN
       /\ event' = [event EXCEPT
            !.pos = @ + 1,
            !.left = IF event.left < 0 THEN @ ELSE @ - put.len,
            !.current = IF event.left < 0 THEN @ ELSE end,
            !.extent = IF end > @ THEN end ELSE @,
            !.outgrew = @ \/ put.words > d.words]
       /\ unlinked' = IF d.deletes /\ put.read THEN unlinked \cup {d.name} ELSE unlinked
  /\ UNCHANGED <<DeviceList, TriggerH, made, DAQ_RUNNING, current_data_format, Eventsize>>

EventDone ==
  /\ event.pos > Len(DeviceList)
  /\ event' = NoEvent
  /\ UNCHANGED <<DeviceList, TriggerH, made, DAQ_RUNNING, current_data_format,
                 Eventsize, unlinked>>

---------------------------------------------------------------------------
(* Properties.                                                             *)

\* What a device may deliver beyond its declaration: padding to an even
\* number of words (device_random, pluginexample), and in the PRDF format the
\* longer header.
Beyond(d) ==
  IF d.type # event.type THEN 0
  ELSE IF PRDF THEN 3
  ELSE IF d.kind \in {"random", "pluginexample"} THEN d.words % 2 ELSE 0

\* All the devices of an event together write no more than the read list has
\* declared, and so no more than nextEvent has found room for, apart from
\* padding, the frame and packet headers, as long as no file has outgrown
\* the length its device was created with.
EventWithin ==
  event # NoEvent /\ ~event.outgrew =>
    EVTHEADERLENGTH + event.extent
      <= Eventsize[event.type] + (IF PRDF THEN FrameLength ELSE 0)
         + Total([i \in 1 .. Len(DeviceList) |-> Beyond(DeviceList[i])])

\* The trigger handler in use belongs to a device of the read list: it is
\* deleted with its device, and the event loop would call it after that.
TriggerOwned ==
  TriggerH # NoHandler =>
    \E i \in DOMAIN DeviceList : DeviceList[i].th = TriggerH.of

\* Reading out deletes no file but those of devices that were made to, among
\* which is, because of its wrong parameters, a device_command with a length.
FilesKept ==
  unlinked \subseteq {"device_file_delete", "device_filenumbers_delete", "device_command"}

===========================================================================
