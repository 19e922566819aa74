--------------------------- MODULE EventBuffer ---------------------------
(***************************************************************************)
(* How events are put into a buffer: prepare_next, nextEvent, addSubevent, *)
(* addEoB and setMaxSize of daqBuffer.cc, the events of daqONCSEvent.cc    *)
(* and daqPRDFEvent.cc, and in rcdaq.cc set_eventsizes, readout and the    *)
(* size check of daq_begin.  Only sizes are modelled, in 32-bit words      *)
(* unless said otherwise; setMaxSize takes bytes.                          *)
(*                                                                         *)
(* A read list is what set_eventsizes sees of it: for each event type the  *)
(* sum of its devices' max_length.  What the devices really deliver with   *)
(* put_data may be anything up to that sum, plus Excess: nobody holds a    *)
(* device to what it has declared (daq_device_random, for one, declares    *)
(* one word less than it delivers if its number of words is odd).          *)
(***************************************************************************)
EXTENDS Integers

CONSTANTS
  NumBuffers,   \* daqBufferVector.size()
  max_length,   \* size of the memory of a buffer
  FrameLength,  \* 8 in the PRDF format, 0 in the ONCS format
  Excess,       \* what the devices of an event may exceed their sum by
  Readlists,    \* read lists: functions from EventType to declared words
  Deliver(_),   \* what devices that declare d words in all may deliver
  SizeSettings  \* arguments of daq_setmaxbuffersize, in bytes

EventType == {"begin", "data", "end"}
BUFFERHEADERLENGTH == 4
EOBLENGTH == 4
EVTHEADERLENGTH == 8
Block == 8192         \* bytes

ASSUME LayoutAssumption ==
  /\ NumBuffers \in Nat /\ NumBuffers >= 2
  /\ max_length \in Nat \ {0} /\ max_length % (Block \div 4) = 0  \* whole MB
  /\ FrameLength \in {0, 8} /\ Excess \in Nat
  /\ Readlists \subseteq [EventType -> Nat]
  /\ \A r \in Readlists, e \in EventType : Deliver(r[e]) \subseteq 0 .. r[e] + Excess
  /\ SizeSettings \subseteq Nat

VARIABLES
  readlist,      \* DeviceList, as a function from EventType
  Eventsize,     \* what set_eventsizes computed, with the event header
  max_size,      \* [Slot -> words]
  fill,          \* the fill buffer, to which the next variables belong
  left, current_index,
  Length,        \* in bytes
  current_event, \* there is one
  current_etype, \* type of the last event, "none" before the first
  fpc            \* "off", "run", "sub" (after nextEvent), "end", "dead"

bufferVars == <<fill, left, current_index, Length, current_event>>
vars == <<readlist, Eventsize, max_size, bufferVars, current_etype, fpc>>

Slot == 0 .. NumBuffers - 1
Succ(s) == IF s = NumBuffers - 1 THEN 0 ELSE s + 1

Init ==
  /\ readlist \in Readlists
  /\ Eventsize = [e \in EventType |-> 0]
  /\ max_size = [s \in Slot |-> max_length]
  /\ fill = 0
  /\ left = max_length - BUFFERHEADERLENGTH - EOBLENGTH
  /\ current_index = 0 /\ Length = 4 * BUFFERHEADERLENGTH
  /\ current_event = FALSE /\ current_etype = "none"
  /\ fpc = "off"

---------------------------------------------------------------------------
(* Commands outside a run.                                                 *)

\* The size in words, rounded up to blocks.
Rounded(bytes) == ((bytes + Block - 1) \div Block) * (Block \div 4)

BadNewSize(bytes) == IF bytes = 0 THEN max_length ELSE Rounded(bytes)

\* setMaxSize: 0 means all the memory there is; more than that is cut.
NewSize(bytes) ==
  IF bytes = 0 \/ Rounded(bytes) > max_length THEN max_length ELSE Rounded(bytes)

\* setMaxSize returns an error
TooLarge(bytes) == Rounded(bytes) > max_length

SetMaxBufferSize ==
  /\ fpc = "off"
  /\ \E n \in SizeSettings : max_size' = [s \in Slot |-> NewSize(n)]
  /\ UNCHANGED <<readlist, Eventsize, bufferVars, current_etype, fpc>>

\* r_create_device, daq_clear_readlist
ChangeReadlist ==
  /\ fpc = "off"
  /\ readlist' \in Readlists
  /\ UNCHANGED <<Eventsize, max_size, bufferVars, current_etype, fpc>>

---------------------------------------------------------------------------

\* prepare_next for slot s
Prepared(s, size) ==
  /\ fill' = s
  /\ left' = size[s] - BUFFERHEADERLENGTH - EOBLENGTH
  /\ current_index' = 0 /\ Length' = 4 * BUFFERHEADERLENGTH

\* set_eventsizes
Sizes == [e \in EventType |-> EVTHEADERLENGTH + readlist[e]]

BadNeeded(e) == 4 * Sizes[e]  \* without the headers of the buffer

\* The size check of daq_begin, in bytes: what an event may need.
Needed(e) == 4 * Sizes[e] + 4 * 32
Wanted == {Needed(e) : e \in {d \in EventType : Needed(d) > 4 * max_size[0]}}

\* daq_begin.  fillBuffer and transportBuffer are both the first buffer: it
\* is the only one that is checked and enlarged.
Begin ==
  /\ fpc = "off"
  /\ Eventsize' = Sizes
  /\ IF Wanted = {}
       THEN UNCHANGED max_size
       ELSE \E w \in Wanted : /\ \A v \in Wanted : v <= w
                              /\ max_size' = [max_size EXCEPT ![0] = NewSize(w)]
  /\ IF \E w \in Wanted : TooLarge(w)
       THEN UNCHANGED <<bufferVars, current_etype, fpc>>   \* "Cannot start run"
       ELSE /\ Prepared(0, max_size')
            /\ current_event' = FALSE /\ current_etype' = "none"
            /\ fpc' = "run"
  /\ UNCHANGED readlist

\* The event types readout may be called with next.
NextTypes == IF current_etype = "none" THEN {"begin"} ELSE {"data", "end"}

BadFits(e, l) == Eventsize[e] <= l + EOBLENGTH

\* nextEvent refuses an event that is longer than this.
Fits(e, l) == Eventsize[e] <= l - EOBLENGTH

\* The first half of readout: nextEvent, and, if the event does not fit, the
\* switch to the next buffer and nextEvent once more, whose status is not
\* looked at.
NextEvent ==
  /\ fpc = "run"
  /\ \E e \in NextTypes :
       LET next == Succ(fill)
           fresh == max_size[next] - BUFFERHEADERLENGTH - EOBLENGTH
       IN
       /\ current_etype' = e
       /\ \/ /\ Fits(e, left)
             /\ current_event' = TRUE
             /\ left' = left - (EVTHEADERLENGTH + FrameLength)
             /\ current_index' = current_index + EVTHEADERLENGTH + FrameLength
             /\ Length' = Length + 4 * (EVTHEADERLENGTH + FrameLength)
             /\ UNCHANGED fill
          \/ /\ ~Fits(e, left) /\ Fits(e, fresh)
             /\ current_event' = TRUE
             /\ fill' = next
             /\ left' = fresh - (EVTHEADERLENGTH + FrameLength)
             /\ current_index' = EVTHEADERLENGTH + FrameLength
             /\ Length' = 4 * (BUFFERHEADERLENGTH + EVTHEADERLENGTH + FrameLength)
          \/ /\ ~Fits(e, left) /\ ~Fits(e, fresh)
             /\ current_event' = FALSE
             /\ Prepared(next, max_size)
  /\ fpc' = "sub"
  /\ UNCHANGED <<readlist, Eventsize, max_size>>

\* The second half: addSubevent for every device.  Without current_event
\* there is nothing to add to, and the process ends.
AddSubevents ==
  /\ fpc = "sub"
  /\ IF current_event
       THEN /\ fpc' = IF current_etype = "end" THEN "end" ELSE "run"
            /\ \E len \in Deliver(readlist[current_etype]) :
                 /\ left' = left - len
                 /\ current_index' = current_index + len
                 /\ Length' = Length + 4 * len
       ELSE fpc' = "dead" /\ UNCHANGED <<left, current_index, Length>>
  /\ UNCHANGED <<readlist, Eventsize, max_size, fill, current_event, current_etype>>

\* switch_buffer after an event: because the buffer is old (adaptive
\* buffering), or in daq_end, after the end-run event.
SwitchBuffer ==
  /\ fpc \in {"run", "end"} /\ current_event
  /\ Prepared(Succ(fill), max_size)
  /\ current_event' = FALSE
  /\ fpc' = IF fpc = "end" THEN "off" ELSE "run"
  /\ UNCHANGED <<readlist, Eventsize, max_size, current_etype>>

Dead == fpc = "dead" /\ UNCHANGED vars

Next ==
  SetMaxBufferSize \/ ChangeReadlist \/ Begin \/ NextEvent \/ AddSubevents
  \/ SwitchBuffer \/ Dead

Spec == Init /\ [][Next]_vars

---------------------------------------------------------------------------
(* Properties.                                                             *)

\* Every variable has its type.
TypeOK ==
  /\ readlist \in [EventType -> Nat] /\ Eventsize \in [EventType -> Nat]
  /\ max_size \in [Slot -> Nat]
  /\ fill \in Slot
  /\ left \in Int /\ current_index \in Nat /\ Length \in Nat
  /\ current_event \in BOOLEAN
  /\ current_etype \in EventType \cup {"none"}
  /\ fpc \in {"off", "run", "sub", "end", "dead"}

\* With the end-of-buffer marker, which addEoB can add at any time, nothing
\* is ever written past the end of a buffer's memory.
EoBWords == 2
WithinMemory == BUFFERHEADERLENGTH + current_index + EoBWords <= max_length

\* The same for the size that daq_setmaxbuffersize has set.
WithinSize ==
  fpc \in {"run", "sub", "end"} =>
    BUFFERHEADERLENGTH + current_index + EoBWords <= max_size[fill]

\* What is written to disk, Length bytes rounded up to blocks, is memory of
\* the buffer too.
BlocksInMemory ==
  ((Length + 4 * EoBWords + Block - 1) \div Block) * Block <= 4 * max_length

\* After daq_begin's size check readout always finds room for an event, if
\* not in the current buffer then in the next, as long as daq_begin has not
\* made the first buffer, the only one it looks at, larger than the others.
EventFits ==
  fpc = "sub" /\ (\A s \in Slot : max_size[s] >= max_size[0]) => current_event

===========================================================================
