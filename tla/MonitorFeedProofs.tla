------------------------- MODULE MonitorFeedProofs -------------------------
(***************************************************************************)
(* Theorems about MonitorFeed, for every number of buffers and any number  *)
(* of runs and of monitoring clients.                                      *)
(***************************************************************************)
EXTENDS MonitorFeed, TLAPS

LEMMA RingLemma ==
  ASSUME NEW s \in Slot
  PROVE  Succ(s) \in Slot /\ Succ(s) # s
  BY FeedAssumption DEF Slot, Succ

LEMMA ZeroSlot == 0 \in Slot
  BY FeedAssumption DEF Slot

---------------------------------------------------------------------------
(* Type correctness.                                                       *)

LEMMA TypeStep == TypeOK /\ [Next]_vars => TypeOK'
  <1> SUFFICES ASSUME TypeOK, [Next]_vars PROVE TypeOK'
    OBVIOUS
  <1>1. CASE Filler
    <2> USE ZeroSlot DEF TypeOK, FillPC, lockVars, monVars
    <2>1. CASE BeginReset
      BY <2>1 DEF BeginReset
    <2>6. CASE SwitchBuffer
      BY <2>6 DEF SwitchBuffer
    <2>7. CASE AddSubevents
      BY <2>7 DEF AddSubevents
    <2>8. CASE SwitchRelease
      BY <2>8 DEF SwitchRelease
    <2>2. CASE BeginPrepare
      BY <2>2 DEF BeginPrepare, Prepared
    <2>3. CASE NextEvent
      BY <2>3 DEF NextEvent
    <2>4. CASE SwitchLock
      BY <2>4, RingLemma DEF SwitchLock, Ended
    <2>5. CASE SwitchRecycle
      BY <2>5 DEF SwitchRecycle, Prepared
    <2> QED
      BY <1>1, <2>1, <2>2, <2>3, <2>4, <2>5, <2>6, <2>7, <2>8
         DEF Filler, Switch
  <1>2. CASE Request
    BY <1>2 DEF Request, TypeOK, fillVars, lockVars
  <1>3. CASE Monitor
    <2> USE DEF TypeOK, MonitorPC, fillVars, lockVars
    <2>1. CASE MonitorWait \/ MonitorSend
      BY <2>1 DEF MonitorWait, MonitorSend
    <2>2. CASE MonitorCheck
      <3>1. CASE fd_queue > 0
        BY <2>2, <3>1 DEF MonitorCheck
      <3>2. CASE ~(fd_queue > 0)
        BY <2>2, <3>2 DEF MonitorCheck
      <3> QED
        BY <3>1, <3>2
    <2>3. CASE MonitorWord
      <3>1. Ended(buffer[transport]) \in [run : Nat, nr : Nat, has_end : BOOLEAN,
                                         current_event : BOOLEAN]
        BY DEF Ended
      <3> QED
        BY <2>3, <3>1 DEF MonitorWord
    <2> QED
      BY <1>3, <2>1, <2>2, <2>3 DEF Monitor
  <1>4. CASE UNCHANGED vars
    BY <1>4 DEF TypeOK, vars, fillVars, lockVars, monVars
  <1> QED
    BY <1>1, <1>2, <1>3, <1>4 DEF Next, Done

(* Every variable of the filling thread and of the two monitoring threads has
   its type. *)
THEOREM TypeCorrect == Spec => []TypeOK
  <1>1. Init => TypeOK
    <2>1. ASSUME Init
          PROVE  buffer \in [Slot -> [run : Nat, nr : Nat, has_end : BOOLEAN,
                                      current_event : BOOLEAN]]
      BY <2>1 DEF Init
    <2>2. Init => ending \in BOOLEAN /\ SendSem \in BOOLEAN /\ SendProtectSem \in BOOLEAN
      BY DEF Init, Semaphores
    <2>3. Init => fpc \in FillPC /\ mpc \in MonitorPC
      BY DEF Init, FillPC, MonitorPC
    <2>4. Init => TheRun \in Nat /\ Buffer_number \in Nat /\ fd_queue \in Nat
           /\ fill \in Slot /\ transport \in Slot /\ sending \in Slot
      BY ZeroSlot DEF Init
    <2> QED
      BY <2>1, <2>2, <2>3, <2>4 DEF TypeOK
  <1> QED
    BY <1>1, TypeStep, PTL DEF Spec

---------------------------------------------------------------------------
(* Taking turns.  SendSem and SendProtectSem are used like a token that is *)
(* with the filling thread, on its way to sendMonitorData (SendSem free),  *)
(* with sendMonitorData, or on its way back (SendProtectSem free).         *)

Switching == fpc \in {"recycle", "release"}

TokenInv ==
  /\ Switching => SendProtectSem /\ SendSem /\ ~Serving
  /\ ~SendSem => SendProtectSem /\ ~Serving
  /\ Serving => SendProtectSem /\ SendSem

LEMMA TokenStep == TypeOK /\ TokenInv /\ [Next]_vars => TokenInv'
  <1> SUFFICES ASSUME TypeOK, TokenInv, [Next]_vars PROVE TokenInv'
    OBVIOUS
  <1> USE DEF TokenInv, Switching, Serving
  <1>1. CASE Filler
    BY <1>1 DEF Filler, BeginReset, BeginPrepare, NextEvent, AddSubevents,
         SwitchBuffer, Switch, SwitchLock, SwitchRecycle, SwitchRelease,
         TypeOK, lockVars, monVars
  <1>2. CASE Request
    BY <1>2 DEF Request, fillVars, lockVars
  <1>3. CASE Monitor
    BY <1>3 DEF Monitor, MonitorWait, MonitorCheck, MonitorWord, MonitorSend,
         TypeOK, fillVars, lockVars
  <1>4. CASE UNCHANGED vars
    BY <1>4 DEF vars, fillVars, lockVars, monVars
  <1> QED
    BY <1>1, <1>2, <1>3, <1>4 DEF Next, Done

LEMMA TokenAlways == Spec => []TokenInv
  <1>1. Init => TokenInv
    BY DEF Init, Semaphores, TokenInv, Switching, Serving
  <1> QED
    BY <1>1, TokenStep, TypeCorrect, PTL DEF Spec

(* switch_buffer never moves the buffers while sendMonitorData serves its
   clients, and the other way round. *)
THEOREM TurnsTaken == Spec => []TakeTurns
  <1>1. TokenInv => TakeTurns
    BY DEF TokenInv, TakeTurns, Switching
  <1> QED
    BY <1>1, TokenAlways, PTL

---------------------------------------------------------------------------
(* What is sent.                                                           *)

Current(s, nr) == buffer[s].run = TheRun /\ buffer[s].nr = nr

\* After the first switch of a run the ring is as switch_buffer leaves it.
RingInv ==
  /\ fpc \in {"fill", "event", "lock", "release"} => Current(fill, Buffer_number)
  /\ fpc = "recycle" => Current(transport, Buffer_number) /\ fill = Succ(transport)
  /\ fpc = "begin" => Buffer_number = 1
  /\ fpc \in {"fill", "event", "lock", "release"} /\ Buffer_number >= 2 =>
       Current(transport, Buffer_number - 1) /\ fill = Succ(transport)

\* What was transportBuffer when sendData was called still is.
SendingInv == mpc = "send" /\ Buffer_number >= 2 /\ fpc # "off" => sending = transport

LatestInv == RingInv /\ SendingInv

LEMMA LatestFill ==
  TypeOK /\ TokenInv /\ LatestInv /\ Filler => LatestInv'
  <1> SUFFICES ASSUME TypeOK, TokenInv, LatestInv, Filler PROVE LatestInv'
    OBVIOUS
  <1> USE RingLemma DEF LatestInv, RingInv, SendingInv, Current, TypeOK
  <1>1. CASE BeginReset
    BY <1>1, ZeroSlot DEF BeginReset, monVars, lockVars
  <1>2. CASE BeginPrepare
    BY <1>2 DEF BeginPrepare, monVars, Prepared
  <1>3. CASE NextEvent \/ AddSubevents \/ SwitchBuffer
    BY <1>3 DEF NextEvent, AddSubevents, SwitchBuffer, monVars
  <1>4. CASE SwitchLock
    BY <1>4 DEF SwitchLock, monVars, Ended, TokenInv, Serving
  <1>5. CASE SwitchRecycle
    BY <1>5 DEF SwitchRecycle, monVars, Prepared, TokenInv, Switching, Serving
  <1>6. CASE SwitchRelease
    BY <1>6 DEF SwitchRelease, monVars
  <1> QED
    BY <1>1, <1>2, <1>3, <1>4, <1>5, <1>6 DEF Filler, Switch

LEMMA LatestStep ==
  TypeOK /\ TokenInv /\ LatestInv /\ [Next]_vars => LatestInv'
  <1> SUFFICES ASSUME TypeOK, TokenInv, LatestInv, [Next]_vars PROVE LatestInv'
    OBVIOUS
  <1> USE DEF LatestInv, RingInv, SendingInv, Current, TypeOK
  <1>1. CASE Filler
    BY <1>1, LatestFill
  <1>2. CASE Monitor
    <2>1. CASE MonitorWord
      <3>1. /\ UNCHANGED <<fillVars>>
            /\ \A s \in Slot : buffer'[s].run = buffer[s].run /\ buffer'[s].nr = buffer[s].nr
            /\ mpc' = "send" => sending' = transport
        <4>1. \A s \in Slot : /\ Ended(buffer[s]).run = buffer[s].run
                              /\ Ended(buffer[s]).nr = buffer[s].nr
          BY DEF Ended
        <4> QED
          BY <2>1, <4>1 DEF MonitorWord
      <3> QED
        BY <3>1 DEF fillVars
    <2> QED
      BY <1>2, <2>1 DEF Monitor, MonitorWait, MonitorCheck, MonitorSend, fillVars
  <1>3. CASE Request \/ UNCHANGED vars
    BY <1>3 DEF Request, vars, fillVars, lockVars, monVars
  <1> QED
    BY <1>1, <1>2, <1>3 DEF Next, Done

LEMMA LatestAlways == Spec => []LatestInv
  <1>1. Init => LatestInv
    BY DEF Init, LatestInv, RingInv, SendingInv
  <1> QED
    BY <1>1, LatestStep, TypeCorrect, TokenAlways, PTL DEF Spec

(* A monitoring client gets the latest full buffer of the run that is going
   on, and never the one being filled, once the run has switched buffers. *)
THEOREM LatestSent == Spec => []SentIsLatest
  <1>1. TypeOK /\ TokenInv /\ LatestInv => SentIsLatest
    BY RingLemma DEF TypeOK, FillPC, TokenInv, Switching, Serving, LatestInv,
       RingInv, SendingInv, Current, SentIsLatest
  <1> QED
    BY <1>1, TypeCorrect, TokenAlways, LatestAlways, PTL

---------------------------------------------------------------------------
(* Two threads may end a buffer, but only that of a run's first events is   *)
(* fill buffer and transport buffer at once.                                *)

LaterEventsStay == Buffer_number >= 2 => EventStaysOpen

LEMMA LaterStep ==
  TypeOK /\ LatestInv /\ LaterEventsStay /\ [Next]_vars => LaterEventsStay'
  <1> SUFFICES ASSUME TypeOK, LatestInv, LaterEventsStay, [Next]_vars,
                      Buffer_number' >= 2, fpc' = "event"
               PROVE  buffer'[fill'].current_event
    BY DEF LaterEventsStay, EventStaysOpen
  <1>1. CASE NextEvent
    BY <1>1 DEF NextEvent, TypeOK
  <1>2. CASE MonitorWord
    <2>1. fill = Succ(transport) /\ buffer[fill].current_event
      BY <1>2 DEF MonitorWord, fillVars, LatestInv, RingInv, LaterEventsStay,
                  EventStaysOpen
    <2>2. fill # transport
      BY <2>1, RingLemma DEF TypeOK
    <2> QED
      BY <1>2, <2>1, <2>2 DEF MonitorWord, fillVars, TypeOK
  <1>3. CASE \/ Request \/ MonitorWait \/ MonitorCheck \/ MonitorSend \/ UNCHANGED vars
    BY <1>3 DEF Request, MonitorWait, MonitorCheck, MonitorSend, vars, fillVars,
                LaterEventsStay, EventStaysOpen
  <1>4. CASE Filler /\ ~NextEvent
    BY <1>4 DEF Filler, BeginReset, BeginPrepare, AddSubevents, SwitchBuffer,
                Switch, SwitchLock, SwitchRecycle, SwitchRelease
  <1> QED
    BY <1>1, <1>2, <1>3, <1>4 DEF Next, Monitor, Done

(* From the second buffer of a run on no monitoring client ends the buffer in
   which an event is being put together: EventStaysOpen, which the run
   feed_begin_bug refutes, fails in the first buffer only. *)
THEOREM LaterEventsOpen == Spec => []LaterEventsStay
  <1>1. Init => LaterEventsStay
    BY DEF Init, LaterEventsStay
  <1> QED
    BY <1>1, LaterStep, TypeCorrect, LatestAlways, PTL DEF Spec

===========================================================================
