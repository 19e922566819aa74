------------------------ MODULE EventBufferProofs ------------------------
(***************************************************************************)
(* Proofs about EventBuffer: no event, and no end-of-buffer marker, is     *)
(* written past the end of a buffer, whatever the read lists and the       *)
(* buffer sizes, as long as the devices exceed what they have declared by  *)
(* no more than the slack that nextEvent leaves.                           *)
(***************************************************************************)
EXTENDS EventBuffer, TLAPS

\* nextEvent asks for EOBLENGTH words more than the event needs, and 2 of the
\* EOBLENGTH words that prepare_next sets aside are not used for the marker:
\* 6 words in all.  The frame of a PRDF event, which nobody counts, takes 8.
Margin == FrameLength = 0 /\ Excess <= 6

\* The sizes of the buffers: at least one block, at most the memory.
SizesInv == \A s \in Slot : max_size[s] \in 2048 .. max_length

\* In a run, left and current_index add up to the size of the fill buffer.
SumInv ==
  fpc \in {"run", "sub", "end"} =>
    left = max_size[fill] - BUFFERHEADERLENGTH - EOBLENGTH - current_index

\* Between nextEvent and addSubevent the declared words of the event fit,
\* with EOBLENGTH words to spare.
RoomInv ==
  /\ fpc \in {"run", "sub", "end"} =>
       Eventsize = [e \in EventType |-> EVTHEADERLENGTH + readlist[e]]
  /\ fpc \in {"run", "end"} => left >= -2
  /\ fpc = "sub" => current_etype \in EventType
  /\ fpc = "sub" /\ current_event =>
       left >= readlist[current_etype] + EOBLENGTH
  /\ fpc = "sub" /\ ~current_event => left >= -2

\* The read list is one of those considered, so that Deliver is bounded.
ReadlistInv == readlist \in Readlists

\* Length is kept apart from current_index, but is always its image.
LengthInv == Length = 4 * (BUFFERHEADERLENGTH + current_index)

IInv == TypeOK /\ LengthInv /\ ReadlistInv /\ SizesInv /\ SumInv /\ RoomInv /\ WithinMemory

\* The rounding of setMaxSize.
LEMMA RoundedSize ==
  ASSUME NEW n \in Nat
  PROVE  Rounded(n) \in Nat /\ (n > 0 => Rounded(n) >= 2048)
<1> DEFINE q == (n + 8191) \div 8192
<1>1. q \in Nat /\ (n > 0 => q >= 1)
  BY SMT
<1>2. Rounded(n) = q * 2048
  BY SMT DEF Rounded, Block
<1> HIDE DEF q
<1>3. QED
  BY <1>1, <1>2, SMT

\* A buffer's memory is at least one block.
LEMMA MemorySize == max_length \in Nat /\ max_length >= 2048
BY LayoutAssumption, SMT DEF Block

\* Whatever is asked for, setMaxSize leaves a size within the memory.
LEMMA NewSizeInRange ==
  ASSUME NEW n \in Nat
  PROVE  NewSize(n) \in 2048 .. max_length
BY RoundedSize, MemorySize, SMT DEF NewSize

\* What is in a buffer that has l words left, with the header and the
\* end-of-buffer marker.
LEMMA Fill ==
  ASSUME NEW l \in Int, NEW i \in Int, NEW size \in Int, NEW memory \in Int,
         l = size - 8 - i, l >= -2, size <= memory
  PROVE  4 + i + 2 <= memory
BY SMT

\* More words, more bytes.
LEMMA Grow ==
  ASSUME NEW i \in Int, NEW n \in Int
  PROVE  /\ 4 * (4 + i) + 4 * n = 4 * (4 + (i + n))
         /\ n = 8 => i + 8 + 0 = i + n
BY SMT

\* What Init establishes.
LEMMA InitInv == Init => IInv
<1> SUFFICES ASSUME Init PROVE IInv
  OBVIOUS
<1>1. TypeOK
  <2>1. readlist \in [EventType -> Nat] /\ Eventsize \in [EventType -> Nat]
    BY LayoutAssumption DEF Init
  <2>2. max_size \in [Slot -> Nat] /\ fill \in Slot
    BY LayoutAssumption, MemorySize, SMT DEF Init, Slot
  <2>3. left \in Int /\ current_index \in Nat /\ Length \in Nat
    BY MemorySize, SMT DEF Init, BUFFERHEADERLENGTH, EOBLENGTH
  <2>4. current_event \in BOOLEAN
    BY DEF Init
  <2>5. current_etype \in EventType \cup {"none"} /\ fpc \in {"off", "run", "sub", "end", "dead"}
    BY DEF Init
  <2>6. QED
    BY <2>1, <2>2, <2>3, <2>4, <2>5 DEF TypeOK
<1>2. SizesInv
  BY MemorySize, SMT DEF Init, SizesInv
<1>3. SumInv /\ RoomInv
  BY DEF Init, SumInv, RoomInv
<1>4. WithinMemory
  BY MemorySize, SMT DEF Init, WithinMemory, BUFFERHEADERLENGTH, EoBWords
<1>5. LengthInv
  BY SMT DEF Init, LengthInv, BUFFERHEADERLENGTH
<1>6. QED
  BY <1>1, <1>2, <1>3, <1>4, <1>5 DEF IInv, Init, ReadlistInv

---------------------------------------------------------------------------
(* The actions, one lemma each.                                            *)

LEMMA SetMaxBufferSizeInv == IInv /\ SetMaxBufferSize => IInv'
<1> SUFFICES ASSUME IInv, SetMaxBufferSize PROVE IInv'
  OBVIOUS
<1> PICK n \in SizeSettings : max_size' = [s \in Slot |-> NewSize(n)]
  BY DEF SetMaxBufferSize
<1>1. NewSize(n) \in 2048 .. max_length
  BY NewSizeInRange, LayoutAssumption
<1>2. SizesInv'
  BY <1>1 DEF SizesInv
<1>3. TypeOK'
  BY <1>1, MemorySize, SMT DEF IInv, TypeOK, SetMaxBufferSize, bufferVars
<1>4. QED
  BY <1>2, <1>3 DEF IInv, SetMaxBufferSize, bufferVars, SumInv, RoomInv, WithinMemory, ReadlistInv, LengthInv

LEMMA ChangeReadlistInv == IInv /\ ChangeReadlist => IInv'
BY LayoutAssumption DEF IInv, ChangeReadlist, bufferVars, TypeOK, SizesInv,
   SumInv, RoomInv, WithinMemory, ReadlistInv, LengthInv

LEMMA BeginInv == IInv /\ Begin => IInv'
<1> SUFFICES ASSUME IInv, Begin PROVE IInv'
  OBVIOUS
<1>1. 0 \in Slot /\ Sizes \in [EventType -> Nat]
  BY LayoutAssumption, SMT DEF Slot, IInv, TypeOK, Sizes, EVTHEADERLENGTH
<1>2. Wanted \subseteq Nat
  BY <1>1, SMT DEF Wanted, Needed
<1>3. SizesInv' /\ max_size' \in [Slot -> Nat]
  <2>1. CASE Wanted = {}
    BY <2>1 DEF Begin, IInv, SizesInv, TypeOK
  <2>2. CASE Wanted # {}
    <3>1. PICK w \in Wanted : max_size' = [max_size EXCEPT ![0] = NewSize(w)]
      BY <2>2 DEF Begin
    <3>2. NewSize(w) \in 2048 .. max_length
      BY <1>2, NewSizeInRange
    <3>3. NewSize(w) \in Nat
      BY <3>2, MemorySize, SMT
    <3>4. max_size' \in [Slot -> Nat]
      BY <3>1, <3>3 DEF IInv, TypeOK
    <3>5. ASSUME NEW s \in Slot PROVE max_size'[s] \in 2048 .. max_length
      BY <3>1, <3>2 DEF IInv, SizesInv, TypeOK
    <3>6. QED
      BY <3>4, <3>5 DEF SizesInv
  <2>3. QED
    BY <2>1, <2>2
<1>4. max_size'[0] \in 2048 .. max_length
  BY <1>1, <1>3 DEF SizesInv
<1>5. Eventsize' = Sizes /\ readlist' = readlist
  BY DEF Begin
<1>6. CASE UNCHANGED <<bufferVars, current_etype, fpc>>
  BY <1>1, <1>3, <1>5, <1>6 DEF IInv, TypeOK, Begin, bufferVars, SumInv,
     RoomInv, WithinMemory, ReadlistInv, LengthInv
<1>7. CASE /\ Prepared(0, max_size')
           /\ current_event' = FALSE /\ current_etype' = "none"
           /\ fpc' = "run"
  <2>1. fill' = 0 /\ left' = max_size'[0] - 8 /\ current_index' = 0 /\ Length' = 16
    <3>1. /\ fill' = 0 /\ left' = max_size'[0] - BUFFERHEADERLENGTH - EOBLENGTH
          /\ current_index' = 0 /\ Length' = 4 * BUFFERHEADERLENGTH
      BY <1>7 DEF Prepared
    <3>2. QED
      BY <1>4, <3>1, MemorySize, SMT DEF BUFFERHEADERLENGTH, EOBLENGTH
  <2>2. TypeOK'
    <3>1. left' \in Int /\ current_index' \in Nat /\ Length' \in Nat
      BY <1>4, <2>1, MemorySize, SMT
    <3>2. QED
      BY <1>1, <1>3, <1>5, <1>7, <2>1, <3>1 DEF IInv, TypeOK
  <2>3. SumInv' /\ left' >= -2
    BY <1>4, <2>1, MemorySize, SMT DEF SumInv, BUFFERHEADERLENGTH, EOBLENGTH
  <2>4. RoomInv'
    BY <1>5, <1>7, <2>3 DEF RoomInv, Sizes
  <2>5. WithinMemory'
    BY <2>1, MemorySize, SMT DEF WithinMemory, BUFFERHEADERLENGTH, EoBWords
  <2>6. LengthInv'
    BY <2>1, SMT DEF LengthInv, BUFFERHEADERLENGTH
  <2>7. QED
    BY <1>3, <1>5, <2>2, <2>3, <2>4, <2>5, <2>6 DEF IInv, ReadlistInv
<1>8. QED
  BY <1>6, <1>7 DEF Begin

\* The three cases of NextEvent: the event fits, it fits into the next
\* buffer, or it fits into neither.
LEMMA NextEventInv == IInv /\ Margin /\ NextEvent => IInv'
<1> SUFFICES ASSUME IInv, Margin, NextEvent PROVE IInv'
  OBVIOUS
<1> DEFINE next == Succ(fill)
           fresh == max_size[next] - BUFFERHEADERLENGTH - EOBLENGTH
           taken == EVTHEADERLENGTH + FrameLength
<1>1. /\ fpc = "run" /\ fpc' = "sub"
      /\ readlist' = readlist /\ Eventsize' = Eventsize /\ max_size' = max_size
  BY DEF NextEvent
<1>2. next \in Slot /\ fill \in Slot
  BY LayoutAssumption, SMT DEF IInv, TypeOK, Succ, Slot
<1>3. /\ max_size[next] \in Int /\ max_size[next] >= 2048
      /\ max_size[next] <= max_length
      /\ max_size[fill] \in Int /\ max_size[fill] <= max_length
  BY <1>2, MemorySize, SMT DEF IInv, SizesInv
<1>4. PICK e \in NextTypes :
        /\ current_etype' = e
        /\ \/ /\ Fits(e, left)
              /\ current_event' = TRUE
              /\ left' = left - taken
              /\ current_index' = current_index + EVTHEADERLENGTH + FrameLength
              /\ Length' = Length + 4 * taken
              /\ UNCHANGED fill
           \/ /\ ~Fits(e, left) /\ Fits(e, fresh)
              /\ current_event' = TRUE
              /\ fill' = next
              /\ left' = fresh - taken
              /\ current_index' = taken
              /\ Length' = 4 * (BUFFERHEADERLENGTH + EVTHEADERLENGTH + FrameLength)
           \/ /\ ~Fits(e, left) /\ ~Fits(e, fresh)
              /\ current_event' = FALSE
              /\ Prepared(next, max_size)
  BY Zenon DEF NextEvent
<1>5. e \in EventType /\ readlist[e] \in Nat
  BY DEF NextTypes, EventType, IInv, TypeOK
<1>6. Eventsize[e] = 8 + readlist[e]
  BY <1>1, <1>5 DEF IInv, RoomInv, EVTHEADERLENGTH
<1>7. /\ left \in Int /\ current_index \in Nat /\ Length \in Nat
      /\ left = max_size[fill] - 8 - current_index
  BY <1>1, <1>3, SMT DEF IInv, TypeOK, SumInv, BUFFERHEADERLENGTH, EOBLENGTH
<1>8. FrameLength = 0 /\ taken = 8 /\ fresh = max_size[next] - 8
  BY <1>3, SMT DEF Margin, EVTHEADERLENGTH, BUFFERHEADERLENGTH, EOBLENGTH
<1> HIDE DEF next, fresh, taken
<1>9. /\ fill' \in Slot /\ left' \in Int /\ current_index' \in Nat /\ Length' \in Nat
      /\ left' = max_size[fill'] - 8 - current_index'
      /\ max_size[fill'] \in Int /\ max_size[fill'] <= max_length
      /\ \/ current_event' = TRUE /\ left' >= readlist[e] + 4
         \/ current_event' = FALSE /\ left' >= 0
  <2>1. CASE Fits(e, left) /\ UNCHANGED fill /\ current_event' = TRUE
             /\ left' = left - taken
             /\ current_index' = current_index + EVTHEADERLENGTH + FrameLength
             /\ Length' = Length + 4 * taken
    <3>1. left >= readlist[e] + 12
      BY <2>1, <1>5, <1>6, <1>7, SMT DEF Fits, EOBLENGTH
    <3>2. fill' = fill
      BY <2>1
    <3>3. QED
      BY <2>1, <3>1, <3>2, <1>2, <1>3, <1>5, <1>7, <1>8, SMT DEF EVTHEADERLENGTH
  <2>2. CASE Fits(e, fresh) /\ fill' = next /\ current_event' = TRUE
             /\ left' = fresh - taken /\ current_index' = taken
             /\ Length' = 4 * (BUFFERHEADERLENGTH + EVTHEADERLENGTH + FrameLength)
    <3>1. fresh >= readlist[e] + 12
      BY <2>2, <1>3, <1>5, <1>6, <1>8, SMT DEF Fits, EOBLENGTH
    <3>2. Length' \in Nat
      BY <2>2, <1>8, SMT DEF BUFFERHEADERLENGTH, EVTHEADERLENGTH
    <3>3. QED
      BY <2>2, <3>1, <3>2, <1>2, <1>3, <1>5, <1>8, SMT
  <2>3. CASE current_event' = FALSE /\ Prepared(next, max_size)
    BY <2>3, <1>2, <1>3, SMT DEF Prepared, BUFFERHEADERLENGTH, EOBLENGTH
  <2>4. QED
    BY <1>4, <2>1, <2>2, <2>3
<1>10. TypeOK'
  BY <1>1, <1>4, <1>5, <1>9 DEF IInv, TypeOK
<1>11. SizesInv' /\ SumInv'
  BY <1>1, <1>9 DEF IInv, SizesInv, SumInv, BUFFERHEADERLENGTH, EOBLENGTH
<1>12. RoomInv'
  <2>1. current_event' => left' >= readlist[e] + EOBLENGTH
    BY <1>9 DEF EOBLENGTH
  <2>2. ~current_event' => left' >= -2
    BY <1>9, SMT
  <2>3. Eventsize' = [d \in EventType |-> EVTHEADERLENGTH + readlist'[d]]
    BY <1>1 DEF IInv, RoomInv
  <2>4. QED
    BY <1>1, <1>4, <1>5, <2>1, <2>2, <2>3 DEF RoomInv
<1>13. WithinMemory'
  <2>1. left' >= -2 /\ max_length \in Int /\ current_index' \in Int
    BY <1>5, <1>9, MemorySize, SMT
  <2>2. 4 + current_index' + 2 <= max_length
    BY <1>9, <2>1, Fill
  <2>3. QED
    BY <2>2 DEF WithinMemory, BUFFERHEADERLENGTH, EoBWords
<1>14. LengthInv'
  <2>1. Length = 4 * (4 + current_index)
    BY DEF IInv, LengthInv, BUFFERHEADERLENGTH
  <2>2. CASE Length' = Length + 4 * taken
             /\ current_index' = current_index + EVTHEADERLENGTH + FrameLength
    BY <2>1, <2>2, <1>7, <1>8, Grow DEF LengthInv, BUFFERHEADERLENGTH, EVTHEADERLENGTH
  <2>3. CASE current_index' = taken
             /\ Length' = 4 * (BUFFERHEADERLENGTH + EVTHEADERLENGTH + FrameLength)
    BY <2>3, <1>8, SMT DEF LengthInv, BUFFERHEADERLENGTH, EVTHEADERLENGTH
  <2>4. CASE Prepared(next, max_size)
    BY <2>4, SMT DEF LengthInv, Prepared, BUFFERHEADERLENGTH
  <2>5. QED
    BY <1>4, <2>2, <2>3, <2>4
<1>15. QED
  BY <1>1, <1>10, <1>11, <1>12, <1>13, <1>14 DEF IInv, ReadlistInv

\* The devices' words: here the margin is needed.
LEMMA AddSubeventsInv == IInv /\ Margin /\ AddSubevents => IInv'
<1> SUFFICES ASSUME IInv, Margin, AddSubevents PROVE IInv'
  OBVIOUS
<1>1. /\ fpc = "sub" /\ readlist' = readlist /\ Eventsize' = Eventsize
      /\ max_size' = max_size /\ fill' = fill /\ current_event' = current_event
      /\ current_etype' = current_etype
  BY DEF AddSubevents
<1>2. CASE ~current_event
  BY <1>1, <1>2 DEF AddSubevents, IInv, TypeOK, SizesInv, SumInv, RoomInv,
     WithinMemory, ReadlistInv, LengthInv
<1>3. CASE current_event
  <2>1. /\ current_etype \in EventType /\ readlist[current_etype] \in Nat
        /\ left >= readlist[current_etype] + 4
    BY <1>1, <1>3 DEF IInv, RoomInv, TypeOK, EOBLENGTH
  <2>2. PICK len \in Deliver(readlist[current_etype]) :
          /\ left' = left - len
          /\ current_index' = current_index + len
          /\ Length' = Length + 4 * len
    BY <1>3 DEF AddSubevents
  <2>3. fpc' \in {"run", "end"}
    BY <1>3 DEF AddSubevents
  <2>4. len \in 0 .. readlist[current_etype] + Excess
    <3>1. readlist \in Readlists
      BY DEF IInv, ReadlistInv
    <3>2. QED
      BY <2>1, <2>2, <3>1, LayoutAssumption
  <2>5. /\ left \in Int /\ current_index \in Nat /\ Length \in Nat
        /\ fill \in Slot /\ max_size[fill] \in Nat /\ max_size[fill] <= max_length
        /\ left = max_size[fill] - 8 - current_index
    BY <1>1, MemorySize, SMT DEF IInv, TypeOK, SizesInv, SumInv, BUFFERHEADERLENGTH, EOBLENGTH
  <2>6. /\ left' \in Int /\ current_index' \in Nat /\ Length' \in Nat
        /\ left' >= -2 /\ left' = max_size[fill] - 8 - current_index'
    BY <2>1, <2>2, <2>4, <2>5, LayoutAssumption, SMT DEF Margin
  <2>7. TypeOK'
    BY <1>1, <2>3, <2>6 DEF IInv, TypeOK
  <2>8. SizesInv' /\ SumInv' /\ RoomInv' /\ ReadlistInv'
    <3>1. SizesInv' /\ ReadlistInv'
      BY <1>1 DEF IInv, SizesInv, ReadlistInv
    <3>2. SumInv'
      <4>1. left' = max_size[fill] - BUFFERHEADERLENGTH - EOBLENGTH - current_index'
        BY <2>5, <2>6, SMT DEF BUFFERHEADERLENGTH, EOBLENGTH
      <4>2. QED
        BY <1>1, <4>1 DEF SumInv
    <3>3. Eventsize' = [d \in EventType |-> EVTHEADERLENGTH + readlist'[d]]
      BY <1>1 DEF IInv, RoomInv
    <3>4. RoomInv'
      BY <2>3, <2>6, <3>3 DEF RoomInv
    <3>5. QED
      BY <3>1, <3>2, <3>4
  <2>9. WithinMemory'
    <3>1. max_size[fill] \in Int /\ max_length \in Int /\ current_index' \in Int
      BY <2>5, <2>6, MemorySize, SMT
    <3>2. 4 + current_index' + 2 <= max_length
      BY <2>5, <2>6, <3>1, Fill
    <3>3. QED
      BY <3>2 DEF WithinMemory, BUFFERHEADERLENGTH, EoBWords
  <2>10. LengthInv'
    <3>1. Length = 4 * (4 + current_index) /\ len \in Int
      BY <2>1, <2>4, LayoutAssumption, SMT DEF IInv, LengthInv, BUFFERHEADERLENGTH
    <3>2. QED
      BY <3>1, <2>2, <2>5, Grow DEF LengthInv, BUFFERHEADERLENGTH
  <2>11. QED
    BY <2>7, <2>8, <2>9, <2>10 DEF IInv
<1>4. QED
  BY <1>2, <1>3

LEMMA SwitchBufferInv == IInv /\ SwitchBuffer => IInv'
<1> SUFFICES ASSUME IInv, SwitchBuffer PROVE IInv'
  OBVIOUS
<1> DEFINE next == Succ(fill)
<1>1. /\ readlist' = readlist /\ Eventsize' = Eventsize /\ max_size' = max_size
      /\ current_etype' = current_etype /\ fpc \in {"run", "end"}
      /\ fpc' \in {"off", "run"}
  BY DEF SwitchBuffer
<1>2. next \in Slot
  BY LayoutAssumption, SMT DEF IInv, TypeOK, Succ, Slot
<1>3. /\ max_size[next] \in Int /\ max_size[next] >= 2048
  BY <1>2, MemorySize, SMT DEF IInv, SizesInv
<1>4. /\ fill' = next /\ current_index' = 0 /\ Length' = 16
      /\ left' = max_size[next] - BUFFERHEADERLENGTH - EOBLENGTH
  BY DEF SwitchBuffer, Prepared, BUFFERHEADERLENGTH
<1> HIDE DEF next
<1>5. left' \in Int /\ left' >= -2
  BY <1>3, <1>4, SMT DEF BUFFERHEADERLENGTH, EOBLENGTH
<1>6. TypeOK'
  BY <1>1, <1>2, <1>4, <1>5 DEF IInv, TypeOK, SwitchBuffer
<1>7. SizesInv' /\ ReadlistInv'
  BY <1>1 DEF IInv, SizesInv, ReadlistInv
<1>8. SumInv'
  BY <1>1, <1>3, <1>4, SMT DEF SumInv, BUFFERHEADERLENGTH, EOBLENGTH
<1>9. RoomInv'
  BY <1>1, <1>5 DEF IInv, RoomInv
<1>10. WithinMemory' /\ LengthInv'
  BY <1>4, MemorySize, SMT DEF WithinMemory, LengthInv, BUFFERHEADERLENGTH, EoBWords
<1>11. QED
  BY <1>6, <1>7, <1>8, <1>9, <1>10 DEF IInv

---------------------------------------------------------------------------

LEMMA NextInv == IInv /\ Margin /\ [Next]_vars => IInv'
<1> SUFFICES ASSUME IInv, Margin, [Next]_vars PROVE IInv'
  OBVIOUS
<1>1. CASE SetMaxBufferSize
  BY <1>1, SetMaxBufferSizeInv
<1>2. CASE ChangeReadlist
  BY <1>2, ChangeReadlistInv
<1>3. CASE Begin
  BY <1>3, BeginInv
<1>4. CASE NextEvent
  BY <1>4, NextEventInv
<1>5. CASE AddSubevents
  BY <1>5, AddSubeventsInv
<1>6. CASE SwitchBuffer
  BY <1>6, SwitchBufferInv
<1>7. CASE UNCHANGED vars
  BY <1>7 DEF vars, bufferVars, IInv, TypeOK, SizesInv, SumInv, RoomInv,
     WithinMemory, ReadlistInv, LengthInv
<1>8. QED
  BY <1>1, <1>2, <1>3, <1>4, <1>5, <1>6, <1>7 DEF Next, Dead

LEMMA InvAlways == ASSUME Margin PROVE Spec => []IInv
<1>1. IInv /\ [Next]_vars => IInv'
  BY NextInv
<1>2. QED
  BY InitInv, <1>1, PTL DEF Spec

\* daqBuffer's words stay within the memory that its constructor allocates,
\* for every readout list and every setting of the buffer size.
THEOREM StaysInMemory == ASSUME Margin PROVE Spec => []WithinMemory
<1>1. IInv => WithinMemory
  BY DEF IInv
<1>2. QED
  BY InvAlways, <1>1, PTL

\* In a run they stay within the size set with daq_setmaxbuffersize, too.
THEOREM StaysInSize == ASSUME Margin PROVE Spec => []WithinSize
<1>1. IInv => WithinSize
  <2> SUFFICES ASSUME IInv, fpc \in {"run", "sub", "end"}
               PROVE  BUFFERHEADERLENGTH + current_index + EoBWords <= max_size[fill]
    BY DEF WithinSize
  <2>1. left >= -2
    <3>1. CASE fpc = "sub" /\ current_event
      BY <3>1, SMT DEF IInv, RoomInv, TypeOK, EOBLENGTH
    <3>2. CASE ~(fpc = "sub" /\ current_event)
      BY <3>2 DEF IInv, RoomInv
    <3>3. QED
      BY <3>1, <3>2
  <2>2. /\ left = max_size[fill] - 8 - current_index
        /\ left \in Int /\ current_index \in Int /\ max_size[fill] \in Int
    BY SMT DEF IInv, SumInv, TypeOK, BUFFERHEADERLENGTH, EOBLENGTH
  <2>3. QED
    BY <2>1, <2>2, SMT DEF BUFFERHEADERLENGTH, EoBWords
<1>2. QED
  BY InvAlways, <1>1, PTL

\* writeout sends whole blocks to the disk: the padding of the last block is
\* memory of the buffer, because that is a number of whole blocks.
THEOREM PaddingInMemory == ASSUME Margin PROVE Spec => []BlocksInMemory
<1>1. IInv => BlocksInMemory
  <2> SUFFICES ASSUME IInv PROVE BlocksInMemory
    OBVIOUS
  <2> DEFINE blocks == max_length \div 2048
             bytes == Length + 8
  <2>1. max_length = 2048 * blocks /\ blocks \in Nat
    BY LayoutAssumption, SMT DEF Block
  <2>2. bytes \in Nat /\ bytes <= 4 * max_length
    BY MemorySize, SMT DEF IInv, TypeOK, LengthInv, WithinMemory, BUFFERHEADERLENGTH, EoBWords
  <2> HIDE DEF blocks, bytes
  <2>3. (bytes + 8191) \div 8192 <= blocks /\ (bytes + 8191) \div 8192 \in Nat
    BY <2>1, <2>2, SMT
  <2>4. ((bytes + 8191) \div 8192) * 8192 <= 4 * max_length
    BY <2>1, <2>3, SMT
  <2>5. Length + 4 * EoBWords + Block - 1 = bytes + 8191
    BY SMT DEF Block, EoBWords, bytes, IInv, TypeOK
  <2>6. QED
    BY <2>4, <2>5 DEF BlocksInMemory, Block
<1>2. QED
  BY InvAlways, <1>1, PTL

---------------------------------------------------------------------------
(* Room for an event.  What the devices deliver plays no part.             *)

\* While a run goes on every event fits the first buffer as the size check of
\* daq_begin left it.
CheckedInv ==
  /\ readlist \in Readlists /\ fill \in Slot
  /\ max_size \in [Slot -> Nat]
  /\ fpc \in {"run", "sub", "end"} =>
       \A e \in EventType : Eventsize[e] \in Nat /\ Eventsize[e] + 32 <= max_size[0]

\* setMaxSize gives at least what is asked for, unless it is too much.
LEMMA Enlarged ==
  ASSUME NEW w \in Nat, ~TooLarge(w)
  PROVE  4 * NewSize(w) >= w /\ NewSize(w) \in Nat
<1> DEFINE q == (w + 8191) \div 8192
<1>1. q \in Nat /\ q * 8192 >= w
  BY SMT
<1>2. Rounded(w) = q * 2048
  BY SMT DEF Rounded, Block
<1> HIDE DEF q
<1>3. Rounded(w) \in Nat /\ 4 * Rounded(w) >= w
  BY <1>1, <1>2, SMT
<1>4. CASE w = 0
  BY <1>4, MemorySize, SMT DEF NewSize
<1>5. CASE w # 0
  BY <1>3, <1>5, SMT DEF NewSize, TooLarge
<1>6. QED
  BY <1>4, <1>5

LEMMA SlotFacts == 0 \in Slot /\ \A s \in Slot : Succ(s) \in Slot
BY LayoutAssumption, SMT DEF Slot, Succ

\* What the size check of daq_begin establishes.
LEMMA BeginChecks == CheckedInv /\ Begin => CheckedInv'
<1> SUFFICES ASSUME CheckedInv, Begin PROVE CheckedInv'
  OBVIOUS
<1>1. readlist \in [EventType -> Nat] /\ max_size[0] \in Nat
  BY LayoutAssumption, SlotFacts DEF CheckedInv
<1>2. \A e \in EventType : Sizes[e] \in Nat /\ Needed(e) = 4 * Sizes[e] + 128 /\ Needed(e) \in Nat
  BY <1>1, SMT DEF Sizes, Needed, EVTHEADERLENGTH
<1>3. Eventsize' = Sizes /\ readlist' = readlist
  BY DEF Begin
<1>4. CASE Wanted = {}
  <2>1. UNCHANGED max_size
    BY <1>4 DEF Begin
  <2>2. ASSUME NEW e \in EventType PROVE Sizes[e] + 32 <= max_size[0]
    <3>1. ~(Needed(e) > 4 * max_size[0])
      BY <1>4 DEF Wanted
    <3>2. QED
      BY <1>1, <1>2, <3>1, SMT
  <2>3. fill' \in Slot
    BY SlotFacts DEF Begin, CheckedInv, Prepared, bufferVars
  <2>4. QED
    BY <1>2, <1>3, <2>1, <2>2, <2>3 DEF CheckedInv
<1>5. CASE Wanted # {}
  <2>1. PICK w \in Wanted : /\ \A v \in Wanted : v <= w
                            /\ max_size' = [max_size EXCEPT ![0] = NewSize(w)]
    BY <1>5 DEF Begin
  <2>2. w \in Nat /\ w > 4 * max_size[0]
    BY <1>2 DEF Wanted
  <2>3. NewSize(w) \in Nat
    BY <2>2, NewSizeInRange, MemorySize, SMT
  <2>4. max_size' \in [Slot -> Nat] /\ max_size'[0] = NewSize(w)
    BY <2>1, <2>3, SlotFacts DEF CheckedInv
  <2>5. CASE \E v \in Wanted : TooLarge(v)
    <3>1. UNCHANGED <<fill, fpc>>
      BY <2>5 DEF Begin, bufferVars
    <3>2. fpc = "off"
      BY DEF Begin
    <3>3. QED
      BY <1>3, <2>4, <3>1, <3>2 DEF CheckedInv
  <2>6. CASE ~\E v \in Wanted : TooLarge(v)
    <3>1. fill' = 0 /\ 4 * NewSize(w) >= w
      BY <2>2, <2>6, Enlarged DEF Begin, Prepared
    <3>2. ASSUME NEW e \in EventType PROVE Sizes[e] + 32 <= NewSize(w)
      <4>1. Needed(e) <= w
        <5>1. CASE Needed(e) > 4 * max_size[0]
          <6>1. Needed(e) \in Wanted
            BY <5>1 DEF Wanted
          <6>2. QED
            BY <6>1, <2>1
        <5>2. CASE ~(Needed(e) > 4 * max_size[0])
          BY <1>1, <1>2, <2>2, <5>2, SMT
        <5>3. QED
          BY <5>1, <5>2
      <4>2. QED
        BY <1>2, <2>2, <2>3, <3>1, <4>1, SMT
    <3>3. QED
      BY <1>2, <1>3, <2>4, <3>1, <3>2, SlotFacts DEF CheckedInv
  <2>7. QED
    BY <2>5, <2>6
<1>6. QED
  BY <1>4, <1>5

LEMMA OthersCheck == CheckedInv /\ [Next]_vars => CheckedInv'
<1> SUFFICES ASSUME CheckedInv, [Next]_vars PROVE CheckedInv'
  OBVIOUS
<1>1. CASE SetMaxBufferSize
  <2>1. \A n \in SizeSettings : NewSize(n) \in Nat
    BY LayoutAssumption, NewSizeInRange, MemorySize, SMT
  <2>2. /\ max_size' \in [Slot -> Nat] /\ fpc = "off" /\ fpc' = "off"
        /\ readlist' = readlist /\ fill' = fill
    BY <1>1, <2>1 DEF SetMaxBufferSize, bufferVars
  <2>3. QED
    BY <2>2 DEF CheckedInv
<1>2. CASE ChangeReadlist
  BY <1>2 DEF ChangeReadlist, CheckedInv, bufferVars
<1>3. CASE Begin
  BY <1>3, BeginChecks
<1>4. CASE NextEvent
  <2>1. UNCHANGED <<readlist, Eventsize, max_size>> /\ fpc = "run" /\ fpc' = "sub"
    BY <1>4 DEF NextEvent
  <2>2. fill' \in Slot
    BY <1>4, SlotFacts DEF NextEvent, Prepared, CheckedInv
  <2>3. QED
    BY <2>1, <2>2 DEF CheckedInv
<1>5. CASE AddSubevents
  <2>1. UNCHANGED <<readlist, Eventsize, max_size, fill>> /\ fpc = "sub"
    BY <1>5 DEF AddSubevents
  <2>2. QED
    BY <2>1 DEF CheckedInv
<1>6. CASE SwitchBuffer
  <2>1. UNCHANGED <<readlist, Eventsize, max_size>> /\ fpc \in {"run", "end"}
    BY <1>6 DEF SwitchBuffer
  <2>2. fill' \in Slot
    BY <1>6, SlotFacts DEF SwitchBuffer, Prepared, CheckedInv
  <2>3. QED
    BY <2>1, <2>2 DEF CheckedInv
<1>7. CASE Dead \/ UNCHANGED vars
  BY <1>7 DEF Dead, vars, bufferVars, CheckedInv
<1>8. QED
  BY <1>1, <1>2, <1>3, <1>4, <1>5, <1>6, <1>7 DEF Next

\* An event that fits the first buffer fits one that is as large.
LEMMA FoundRoom == CheckedInv /\ EventFits /\ [Next]_vars => EventFits'
<1> SUFFICES ASSUME CheckedInv, EventFits, [Next]_vars, fpc' = "sub",
                    \A s \in Slot : max_size'[s] >= max_size'[0]
             PROVE  current_event'
  BY DEF EventFits
<1>1. CASE NextEvent
  <2>1. PICK e \in NextTypes :
          LET next == Succ(fill)
              fresh == max_size[next] - BUFFERHEADERLENGTH - EOBLENGTH
          IN  current_event' = TRUE \/ ~Fits(e, fresh)
    BY <1>1 DEF NextEvent
  <2>2. e \in EventType
    BY DEF NextTypes, EventType
  <2>3. /\ max_size' = max_size /\ fpc = "run" /\ Succ(fill) \in Slot
        /\ max_size[Succ(fill)] \in Nat /\ max_size[0] \in Nat
    BY <1>1, SlotFacts DEF NextEvent, CheckedInv
  <2>4. Eventsize[e] \in Nat /\ Eventsize[e] + 32 <= max_size[0]
    BY <2>2, <2>3 DEF CheckedInv
  <2>5. max_size[Succ(fill)] >= max_size[0]
    BY <2>3
  <2>6. Fits(e, max_size[Succ(fill)] - BUFFERHEADERLENGTH - EOBLENGTH)
    BY <2>3, <2>4, <2>5, SMT DEF Fits, BUFFERHEADERLENGTH, EOBLENGTH
  <2>7. QED
    BY <2>1, <2>6
<1>2. CASE SetMaxBufferSize \/ ChangeReadlist \/ Begin \/ AddSubevents \/ SwitchBuffer
  BY <1>2 DEF SetMaxBufferSize, ChangeReadlist, Begin, AddSubevents, SwitchBuffer, bufferVars
<1>3. CASE Dead \/ UNCHANGED vars
  BY <1>3 DEF Dead, vars, bufferVars, EventFits
<1>4. QED
  BY <1>1, <1>2, <1>3 DEF Next

\* Unless daq_begin has enlarged the first buffer beyond the others, readout
\* always finds room for an event, whatever the devices delivered before.
THEOREM RoomFound == Spec => []EventFits
<1>1. Init => CheckedInv /\ EventFits
  BY SlotFacts, MemorySize DEF Init, CheckedInv, EventFits
<1>2. CheckedInv /\ EventFits /\ [Next]_vars => CheckedInv' /\ EventFits'
  BY OthersCheck, FoundRoom
<1>3. QED
  BY <1>1, <1>2, PTL DEF Spec

===========================================================================
