--------------------------- MODULE SettingsProofs ---------------------------
(***************************************************************************)
(* Theorems about Settings and the read list it uses: for any commands and *)
(* devices, any number of cores and any lengths of files.                  *)
(***************************************************************************)
EXTENDS Settings, WellFoundedInduction, TLAPS

---------------------------------------------------------------------------
(* Sums.  Sums(lengths) is recursive, a CHOOSE to the provers: that there  *)
(* is such a function, and what follows from its equation for all indices, *)
(* is proved by looking at the least index for which it would be wrong.    *)

\* A set of natural numbers that is not empty has a least element.
LEMMA Least ==
  ASSUME NEW T \in SUBSET Nat, T # {}
  PROVE  \E m \in T : \A k \in T : ~(k < m)
<1> DEFINE R == {pair \in Nat \X Nat : pair[1] < pair[2]}
<1>1. IsWellFoundedOn(R, Nat)
  BY NatLessThanWellFounded DEF OpToRel
<1>2. PICK m \in T : \A k \in T : ~(<<k, m>> \in R)
  <2> HIDE DEF R
  <2> QED
    BY <1>1, WFMin
<1> QED
  BY <1>2

\* There is a function that satisfies the equation of Sums, so that Sums does.
LEMMA SumsEquation ==
  ASSUME NEW lengths \in Seq(Int)
  PROVE  Sums(lengths) = [i \in 0 .. Len(lengths) |->
                            IF i = 0 THEN 0 ELSE Sums(lengths)[i - 1] + lengths[i]]
<1> DEFINE IsSum(s, m) == s = [i \in 0 .. m |-> IF i = 0 THEN 0 ELSE s[i - 1] + lengths[i]]
           Bad == {m \in 0 .. Len(lengths) : \A s : ~IsSum(s, m)}
<1>1. Len(lengths) \in Nat
  OBVIOUS
<1>2. ASSUME NEW m \in 0 .. Len(lengths), m # 0, NEW s, IsSum(s, m - 1)
      PROVE  \E t : IsSum(t, m)
  <2> DEFINE t == [i \in 0 .. m |-> IF i = m THEN s[m - 1] + lengths[m] ELSE s[i]]
  <2>0. m \in Nat \ {0}
    BY <1>1, <1>2
  <2>1. m - 1 \in 0 .. (m - 1) /\ m - 1 # m /\ m - 1 \in 0 .. m
    BY <2>0
  <2>2. t[m - 1] = s[m - 1]
    BY <2>1
  <2>3. ASSUME NEW i \in 0 .. m
        PROVE  t[i] = IF i = 0 THEN 0 ELSE t[i - 1] + lengths[i]
    <3>1. CASE i = m
      BY <3>1, <2>2, <1>2
    <3>2. CASE i # m
      <4>1. i \in 0 .. (m - 1) /\ (i # 0 => i - 1 \in 0 .. m /\ i - 1 # m)
        BY <3>2, <1>1
      <4>2. s[i] = IF i = 0 THEN 0 ELSE s[i - 1] + lengths[i]
        BY <4>1, <1>2
      <4>3. t[i] = s[i] /\ (i # 0 => t[i - 1] = s[i - 1])
        BY <3>2, <4>1
      <4> QED
        BY <4>2, <4>3
    <3> QED
      BY <3>1, <3>2
  <2>4. t = [i \in 0 .. m |-> t[i]]
    OBVIOUS
  <2> HIDE DEF t
  <2>5. IsSum(t, m)
    BY <2>3, <2>4
  <2> QED
    BY <2>5
<1>3. \E s : IsSum(s, 0)
  <2>1. IsSum([i \in 0 .. 0 |-> 0], 0)
    OBVIOUS
  <2> QED
    BY <2>1
<1>4. Bad = {}
  <2> SUFFICES ASSUME Bad # {} PROVE FALSE
    OBVIOUS
  <2> HIDE DEF IsSum
  <2>1. Bad \in SUBSET Nat
    BY <1>1
  <2>2. PICK m \in Bad : \A k \in Bad : ~(k < m)
    <3> HIDE DEF Bad
    <3> QED
      BY <2>1, Least
  <2>3. m \in 0 .. Len(lengths) /\ m # 0
    BY <2>2, <1>3
  <2>4. m - 1 \in 0 .. Len(lengths) /\ m - 1 < m
    BY <2>3, <1>1
  <2>5. PICK s : IsSum(s, m - 1)
    BY <2>2, <2>4
  <2> QED
    BY <2>2, <2>3, <2>5, <1>2
<1>5. \E s : IsSum(s, Len(lengths))
  <2> HIDE DEF IsSum
  <2> QED
    BY <1>1, <1>4
<1>6. Sums(lengths) = CHOOSE s : IsSum(s, Len(lengths))
  BY DEF Sums
<1>7. IsSum(Sums(lengths), Len(lengths))
  <2> HIDE DEF IsSum
  <2> QED
    BY <1>5, <1>6
<1> QED
  BY <1>7

\* What the sums are: integers, each the one before and one length more.
LEMMA Summed ==
  ASSUME NEW lengths \in Seq(Int)
  PROVE  /\ Sums(lengths)[0] = 0
         /\ \A i \in 1 .. Len(lengths) : Sums(lengths)[i] = Sums(lengths)[i - 1] + lengths[i]
         /\ \A i \in 0 .. Len(lengths) : Sums(lengths)[i] \in Int
<1> DEFINE s == Sums(lengths)
           Bad == {i \in 0 .. Len(lengths) : s[i] \notin Int}
<1>0. Len(lengths) \in Nat
  OBVIOUS
<1>1. s = [i \in 0 .. Len(lengths) |-> IF i = 0 THEN 0 ELSE s[i - 1] + lengths[i]]
  BY SumsEquation
<1> HIDE DEF s
<1>2. s[0] = 0
  BY <1>0, <1>1
<1>3. ASSUME NEW i \in 1 .. Len(lengths) PROVE s[i] = s[i - 1] + lengths[i]
  <2>1. i \in 0 .. Len(lengths) /\ i # 0
    BY <1>0
  <2> QED
    BY <1>1, <2>1
<1>4. Bad = {}
  <2> SUFFICES ASSUME Bad # {} PROVE FALSE
    OBVIOUS
  <2>1. Bad \in SUBSET Nat
    BY <1>0
  <2>2. PICK m \in Bad : \A k \in Bad : ~(k < m)
    <3> HIDE DEF Bad
    <3> QED
      BY <2>1, Least
  <2>3. m \in 1 .. Len(lengths) /\ lengths[m] \in Int
    BY <1>0, <1>2, <2>2
  <2>4. m - 1 \in 0 .. Len(lengths) /\ m - 1 < m
    BY <2>3, <1>0
  <2>5. s[m - 1] \in Int
    BY <2>2, <2>4
  <2> QED
    BY <2>2, <2>3, <2>5, <1>3
<1> QED
  BY <1>2, <1>3, <1>4 DEF s

\* Sums of lengths that are not negative do not decrease.
LEMMA SumsGrow ==
  ASSUME NEW lengths \in Seq(Nat), NEW i \in 0 .. Len(lengths),
         NEW j \in 0 .. Len(lengths), i <= j
  PROVE  Sums(lengths)[i] <= Sums(lengths)[j]
<1> DEFINE s == Sums(lengths)
           Bad == {k \in i .. Len(lengths) : ~(s[i] <= s[k])}
<1>0. Len(lengths) \in Nat /\ lengths \in Seq(Int)
  OBVIOUS
<1>1. /\ \A k \in 1 .. Len(lengths) : s[k] = s[k - 1] + lengths[k]
      /\ \A k \in 0 .. Len(lengths) : s[k] \in Int
  BY <1>0, Summed
<1> HIDE DEF s
<1>2. Bad = {}
  <2> SUFFICES ASSUME Bad # {} PROVE FALSE
    OBVIOUS
  <2>1. Bad \in SUBSET Nat
    BY <1>0
  <2>2. PICK m \in Bad : \A k \in Bad : ~(k < m)
    <3> HIDE DEF Bad
    <3> QED
      BY <2>1, Least
  <2>3. m # i /\ m \in i .. Len(lengths)
    BY <1>0, <1>1, <2>2
  <2>4. m \in 1 .. Len(lengths) /\ m - 1 \in i .. Len(lengths) /\ m - 1 < m
        /\ m - 1 \in 0 .. Len(lengths)
    BY <2>3, <1>0
  <2>5. s[i] <= s[m - 1]
    BY <2>2, <2>4
  <2>6. s[m] = s[m - 1] + lengths[m] /\ lengths[m] \in Nat
    BY <2>4, <1>1
  <2>7. s[i] \in Int /\ s[m] \in Int /\ s[m - 1] \in Int
    BY <1>0, <1>1, <2>3, <2>4
  <2>8. \A a, b, c \in Int, n \in Nat : a <= b /\ c = b + n => a <= c
    OBVIOUS
  <2>9. s[i] <= s[m]
    BY <2>5, <2>6, <2>7, <2>8
  <2> QED
    BY <2>2, <2>9
<1> QED
  BY <1>0, <1>2 DEF s

---------------------------------------------------------------------------
(* What a step does to the read list.                                      *)

\* A command leaves the read list and the run alone, and the format, too, if
\* a run is active; or it clears or extends the list; or it is about the run.
ListStep ==
  \/ UNCHANGED listVars /\ (DAQ_RUNNING => UNCHANGED current_data_format)
  \/ ClearReadlist /\ ~DAQ_RUNNING
  \/ \E r \in Requests[usage] : CreateDevice(r)
  \/ \E refused \in BOOLEAN : BeginRun(refused)
  \/ EndRun \/ NextEvent \/ AddSubevent \/ EventDone

\* The commands that set something say nothing of the read list; only one of
\* them sets the format.
LEMMA SettingFormat ==
  ASSUME NEW c, Setting(c)
  PROVE  DAQ_RUNNING => UNCHANGED current_data_format
<1> SUFFICES ASSUME DAQ_RUNNING PROVE UNCHANGED current_data_format
  OBVIOUS
<1>1. CASE NamingCommand(c)
  BY <1>1 DEF NamingCommand, SetFilerule, SetRuntype, DefineRuntype, Refused
<1>2. CASE WritingCommand(c)
  BY <1>2 DEF WritingCommand, SetCompression, SetNrThreads, SetMD5Enable,
              SetMD5AllowTurnoff, Refused
<1>3. CASE LimitCommand(c)
  BY <1>3 DEF LimitCommand, SetMaxBufferSize, DefineBufferSize, Refused
<1>4. CASE ModeCommand(c)
  BY <1>4 DEF ModeCommand, SetEventFormat, SetUservalue, Refused
<1>5. CASE Store(c)
  BY <1>5 DEF Store, Refused
<1>6. CASE Query(c)
  BY <1>6 DEF Query
<1> QED
  BY <1>1, <1>2, <1>3, <1>4, <1>5, <1>6 DEF Setting

LEMMA ListSteps ==
  ASSUME [Next]_vars
  PROVE  ListStep
<1>1. CASE Execute
  <2>1. PICK c \in Commands[usage] :
          IF ~Accepts(c) THEN Refused(c) /\ UNCHANGED listVars
          ELSE \/ Setting(c) /\ UNCHANGED listVars
               \/ c.name = "daq_clear_readlist" /\ Clear(c)
    BY <1>1 DEF Execute
  <2>2. CASE Refused(c) /\ UNCHANGED listVars
    BY <2>2 DEF Refused, ListStep
  <2>3. CASE Setting(c) /\ UNCHANGED listVars
    BY <2>3, SettingFormat DEF ListStep
  <2>4. CASE Clear(c)
    BY <2>4 DEF Clear, Refused, ListStep
  <2> QED
    BY <2>1, <2>2, <2>3, <2>4
<1>2. CASE Create
  BY <1>2 DEF Create, ListStep
<1>3. CASE Begin
  <2>1. BeginRun(TRUE) \/ BeginRun(FALSE)
    <3>1. CASE TooSmall = {}
      BY <1>3, <3>1 DEF Begin
    <3>2. CASE TooSmall # {}
      <4>1. PICK n \in TooSmall : BeginRun(n > 4 * daqBufferVector[1].max_length)
        BY <1>3, <3>2 DEF Begin
      <4> QED
        BY <4>1 DEF BeginRun
    <3> QED
      BY <3>1, <3>2
  <2> QED
    BY <2>1 DEF ListStep
<1>4. CASE Run
  BY <1>4 DEF Run, ListStep
<1>5. CASE UNCHANGED vars
  BY <1>5 DEF vars, ListStep
<1>6. CASE EndServer \/ Unreachable
  BY <1>6 DEF EndServer, Unreachable, ListStep
<1> QED
  BY <1>1, <1>2, <1>3, <1>4, <1>5, <1>6 DEF Next

---------------------------------------------------------------------------
(* The read list, its trigger handler, and the files that are deleted      *)

Kinds == {"file", "filenumbers", "command", "random", "deadtime", "rtclock",
          "gauss", "pluginexample"}
Deleting == {"device_file_delete", "device_filenumbers_delete", "device_command"}

Devices ==
  {d \in [kind : Kinds, deletes : BOOLEAN, words : Nat, name : STRING,
          type : EventType, number : Nat, th : Nat] :
     /\ d.kind \in {"file", "filenumbers"} => d.words >= 256
     /\ d.kind = "rtclock" => d.words = 10
     /\ d.deletes => d.name \in Deleting
     /\ d.th # 0 => d.kind \in {"gauss", "pluginexample", "random", "deadtime"}}

\* The handler in use is one that a device of the list has made, and whose
\* destructor clears it.
HandlerInv ==
  TriggerH # NoHandler =>
    \E i \in DOMAIN DeviceList : DeviceList[i].th = TriggerH.of /\ DeviceList[i].th # 0

ListInv ==
  /\ usage \in Usages
  /\ DeviceList \in Seq(Devices) /\ made \in Nat
  /\ HandlerInv
  /\ unlinked \subseteq Deleting

\* What r_create_device makes is a device as it should be.
LEMMA DeviceMade ==
  ASSUME NEW r \in Request, r.device \in Known, NEW number \in Nat
  PROVE  Device(r, number) \in Devices
<1> DEFINE m == Made(r)
<1>1. /\ r.device \in STRING /\ r.type \in EventType /\ r.size \in Nat /\ r.npar \in Int
      /\ FileSize(r.size, 4096) \in Nat /\ FileSize(r.size, 4096) >= 4096
      /\ FileSize(r.size, 256) \in Nat /\ FileSize(r.size, 256) >= 256
  <2>1. r.device \in STRING /\ r.type \in EventType /\ r.size \in Nat /\ r.npar \in Int
    BY DEF Request
  <2>2. FileSize(r.size, 4096) \in Nat /\ FileSize(r.size, 4096) >= 4096
    BY <2>1 DEF FileSize
  <2>3. FileSize(r.size, 256) \in Nat /\ FileSize(r.size, 256) >= 256
    BY <2>1 DEF FileSize
  <2> QED
    BY <2>1, <2>2, <2>3
<1>2. /\ m.kind \in Kinds /\ m.deletes \in BOOLEAN /\ m.words \in Nat
      /\ m.kind \in {"file", "filenumbers"} => m.words >= 256
      /\ m.kind = "rtclock" => m.words = 10
      /\ m.deletes => r.device \in Deleting
      /\ Triggers(r) => m.kind \in {"gauss", "pluginexample", "random", "deadtime"}
  <2>1. CASE r.device \in {"device_file", "device_file_delete"}
    <3>1. m = FileDevice(r)
      BY <2>1 DEF Made
    <3> HIDE DEF m
    <3>2. m.kind = "file" /\ m.words \in Nat /\ m.words >= 256
      BY <1>1, <3>1 DEF FileDevice
    <3>3. m.deletes = (r.device = "device_file_delete")
      BY <3>1 DEF FileDevice
    <3>4. ~Triggers(r)
      BY <2>1 DEF Triggers
    <3> QED
      BY <2>1, <3>2, <3>3, <3>4 DEF Kinds, Deleting
  <2>2. CASE r.device \in {"device_filenumbers", "device_filenumbers_delete"}
    <3>1. m = NumbersDevice(r)
      BY <2>2 DEF Made
    <3> HIDE DEF m
    <3>2. m.kind = "filenumbers" /\ m.words \in Nat /\ m.words >= 256
      BY <1>1, <3>1 DEF NumbersDevice
    <3>3. m.deletes = (r.device = "device_filenumbers_delete")
      BY <3>1 DEF NumbersDevice
    <3>4. ~Triggers(r)
      BY <2>2 DEF Triggers
    <3> QED
      BY <2>2, <3>2, <3>3, <3>4 DEF Kinds, Deleting
  <2>3. CASE r.device = "device_command"
    <3>1. m = CommandDevice(r)
      BY <2>3 DEF Made
    <3> HIDE DEF m
    <3>2. m.deletes \in BOOLEAN
      <4>1. CASE r.npar >= 5
        <5>1. m.deletes = (r.size # 0)
          BY <3>1, <4>1 DEF CommandDevice
        <5> QED
          BY <5>1
      <4>2. CASE ~(r.npar >= 5)
        BY <3>1, <4>2 DEF CommandDevice
      <4> QED
        BY <4>1, <4>2
    <3>3. \/ m.kind = "file" /\ m.words = 4096
          \/ m.kind = "command" /\ m.words = 0
      <4>1. CASE r.npar >= 5
        BY <3>1, <4>1 DEF CommandDevice
      <4>2. CASE ~(r.npar >= 5)
        BY <3>1, <4>2 DEF CommandDevice
      <4> QED
        BY <4>1, <4>2
    <3>4. ~Triggers(r)
      BY <2>3 DEF Triggers
    <3> QED
      BY <2>3, <3>2, <3>3, <3>4 DEF Kinds, Deleting
  <2>4. CASE r.device = "device_random"
    <3>1. m = RandomDevice(r)
      BY <2>4 DEF Made
    <3> HIDE DEF m
    <3> QED
      BY <1>1, <2>4, <3>1 DEF RandomDevice, Kinds, Deleting, Triggers
  <2>5. CASE r.device = "device_deadtime"
    <3>1. m = DeadtimeDevice(r)
      BY <2>5 DEF Made
    <3> HIDE DEF m
    <3> QED
      BY <1>1, <2>5, <3>1 DEF DeadtimeDevice, Kinds, Deleting, Triggers
  <2>6. CASE r.device = "device_rtclock"
    <3>1. m = ClockDevice
      BY <2>6 DEF Made
    <3> HIDE DEF m
    <3> QED
      BY <1>1, <2>6, <3>1 DEF ClockDevice, Kinds, Deleting, Triggers
  <2>7. CASE r.device = "device_gauss"
    <3>1. m = GaussDevice
      BY <2>7 DEF Made
    <3> HIDE DEF m
    <3> QED
      BY <1>1, <2>7, <3>1 DEF GaussDevice, Kinds, Deleting, Triggers
  <2>8. CASE r.device = "device_pluginexample"
    <3>1. m = PluginDevice(r)
      BY <2>8 DEF Made
    <3> HIDE DEF m
    <3> QED
      BY <1>1, <2>8, <3>1 DEF PluginDevice, Kinds, Deleting, Triggers
  <2> QED
    BY <2>1, <2>2, <2>3, <2>4, <2>5, <2>6, <2>7, <2>8 DEF Known
<1> HIDE DEF m
<1>3. Device(r, number) =
        [kind |-> m.kind, deletes |-> m.deletes, words |-> m.words, name |-> r.device,
         type |-> r.type, number |-> number, th |-> IF Triggers(r) THEN number ELSE 0]
  BY DEF Device, m
<1> QED
  BY <1>1, <1>2, <1>3 DEF Devices

LEMMA ListInit ==
  ASSUME Init
  PROVE  ListInv
BY DEF Init, InitReadlist, ListInv, HandlerInv

\* create_device
LEMMA CreateList ==
  ASSUME ListInv, NEW r \in Request, CreateDevice(r)
  PROVE  DeviceList' \in Seq(Devices) /\ made' \in Nat /\ HandlerInv' /\ unlinked' = unlinked
<1>1. CASE UNCHANGED <<DeviceList, TriggerH, made>>
  BY <1>1 DEF CreateDevice, ListInv, HandlerInv
<1>2. CASE AddDevice(r) /\ r.device \in Known
  <2>1. made' = made + 1 /\ made' \in Nat /\ made' # 0
    BY <1>2 DEF AddDevice, ListInv
  <2> DEFINE d == Device(r, made')
  <2>2. d \in Devices /\ DeviceList' = Append(DeviceList, d)
    BY <1>2, <2>1, DeviceMade DEF AddDevice
  <2>3. d.th = IF Triggers(r) THEN made' ELSE 0
    BY DEF Device
  <2>4. TriggerH' = IF Triggers(r) /\ TriggerH = NoHandler
                      THEN [of |-> made', type |-> HandlerType(r)] ELSE TriggerH
    BY <1>2 DEF AddDevice
  <2> HIDE DEF d
  <2>5. /\ DeviceList' \in Seq(Devices) /\ Len(DeviceList') = Len(DeviceList) + 1
        /\ DeviceList'[Len(DeviceList')] = d
        /\ \A i \in DOMAIN DeviceList : i \in DOMAIN DeviceList' /\ DeviceList'[i] = DeviceList[i]
    BY <2>2 DEF ListInv
  <2>6. Len(DeviceList') \in DOMAIN DeviceList'
    BY <2>5 DEF ListInv
  <2>7. HandlerInv'
    <3>1. CASE TriggerH' = TriggerH
      BY <3>1, <2>5 DEF HandlerInv, ListInv
    <3>2. CASE Triggers(r) /\ TriggerH' = [of |-> made', type |-> HandlerType(r)]
      <4>1. TriggerH'.of = made' /\ d.th = made'
        BY <3>2, <2>3
      <4> QED
        BY <4>1, <2>1, <2>5, <2>6 DEF HandlerInv
    <3> QED
      BY <2>4, <3>1, <3>2
  <2> QED
    BY <1>2, <2>1, <2>5, <2>7 DEF CreateDevice
<1> QED
  BY <1>1, <1>2 DEF CreateDevice

\* daq_clear_readlist: what is deleted takes the handler with it.
LEMMA ClearList ==
  ASSUME ListInv, ClearReadlist
  PROVE  DeviceList' = <<>> /\ TriggerH' = NoHandler /\ made' = made /\ unlinked' = unlinked
<1>1. CASE TriggerH = NoHandler
  BY <1>1 DEF ClearReadlist, Destroy
<1>2. CASE TriggerH # NoHandler
  <2>1. PICK i \in DOMAIN DeviceList : DeviceList[i].th # 0
    BY <1>2 DEF ListInv, HandlerInv
  <2>2. DeviceList[i] \in Devices
    BY DEF ListInv
  <2> QED
    BY <2>1, <2>2 DEF ClearReadlist, Destroy, Devices
<1> QED
  BY <1>1, <1>2

\* addSubevent: only files of devices that were made to are deleted.
LEMMA SubeventList ==
  ASSUME ListInv, AddSubevent
  PROVE  unlinked' \subseteq Deleting
<1>1. DeviceList[event.pos] \in Devices
  BY DEF AddSubevent, ListInv
<1>2. \/ unlinked' = unlinked
      \/ DeviceList[event.pos].deletes /\ unlinked' = unlinked \cup {DeviceList[event.pos].name}
  BY DEF AddSubevent
<1> QED
  BY <1>1, <1>2 DEF ListInv, Devices

LEMMA ListNext ==
  ASSUME ListInv, [Next]_vars
  PROVE  ListInv'
<1>1. usage' \in Usages
  BY DEF Next, vars, ListInv
<1>2. ListStep
  BY ListSteps
<1>3. Requests[usage] \subseteq Request
  BY SettingsAssumption DEF ListInv
<1>4. CASE UNCHANGED <<DeviceList, TriggerH, made, unlinked>>
  BY <1>1, <1>4 DEF ListInv, HandlerInv
<1>5. CASE ClearReadlist
  <2>1. DeviceList' = <<>> /\ TriggerH' = NoHandler /\ made' = made /\ unlinked' = unlinked
    BY <1>5, ClearList
  <2>2. HandlerInv'
    BY <2>1 DEF HandlerInv
  <2> QED
    BY <1>1, <2>1, <2>2 DEF ListInv
<1>6. CASE \E r \in Requests[usage] : CreateDevice(r)
  <2>1. DeviceList' \in Seq(Devices) /\ made' \in Nat /\ HandlerInv' /\ unlinked' = unlinked
    BY <1>3, <1>6, CreateList
  <2> QED
    BY <1>1, <2>1 DEF ListInv
<1>7. CASE AddSubevent
  <2>1. unlinked' \subseteq Deleting
    BY <1>7, SubeventList
  <2>2. UNCHANGED <<DeviceList, TriggerH, made>>
    BY <1>7 DEF AddSubevent
  <2> QED
    BY <1>1, <2>1, <2>2 DEF ListInv, HandlerInv
<1> QED
  BY <1>2, <1>4, <1>5, <1>6, <1>7 DEF ListStep, listVars, BeginRun, EndRun, NextEvent, EventDone

\* The read list is as described in every state.
LEMMA ListCorrect == Spec => []ListInv
<1>1. Init => ListInv
  BY ListInit
<1>2. ListInv /\ [Next]_vars => ListInv'
  BY ListNext
<1> QED
  BY <1>1, <1>2, PTL DEF Spec

\* TriggerOwned: the trigger handler in use belongs to a device of the read
\* list.  A device that made the handler in use is of a kind whose destructor
\* clears it, so that deleting the devices leaves none behind.
THEOREM HandlerOwned == Spec => []TriggerOwned
<1>1. ListInv => TriggerOwned
  BY DEF ListInv, HandlerInv, TriggerOwned
<1> QED
  BY <1>1, ListCorrect, PTL

\* FilesKept: reading out deletes no file but those of devices made to.
THEOREM OthersKept == Spec => []FilesKept
<1>1. ListInv => FilesKept
  BY DEF ListInv, FilesKept, Deleting
<1> QED
  BY <1>1, ListCorrect, PTL

---------------------------------------------------------------------------
(* What the devices deliver, against what they have declared               *)

LEMMA Evened ==
  ASSUME NEW n \in Nat
  PROVE  Even(n) \in Nat /\ Even(n) <= n + 1 /\ Even(n) = n + (n % 2)
<1>1. n % 2 \in 0 .. 1
  OBVIOUS
<1> QED
  BY <1>1 DEF Even

\* A device reads no more of a file than there is in it.
LEMMA FileRead ==
  ASSUME NEW w \in Nat, NEW left \in Int, NEW header \in Nat
  PROVE  /\ ReadFile(w, left, header) \in Nat
         /\ ReadFile(w, left, header) <= header + w + 1 \/ ReadFile(w, left, header) = header + 2
         /\ ReadNumbers(w, left, header) \in Nat /\ ReadNumbers(w, left, header) <= w
<1> DEFINE room == left - header - 2
           n == IF w + header + 1 >= left THEN room ELSE w
           some == IF n < w THEN n ELSE w
<1>1. room \in Int /\ n \in Int /\ some \in Int /\ some <= w /\ (~(n < 0) => some \in Nat)
  OBVIOUS
<1>2. ReadFile(w, left, header) = header + (IF n < 0 THEN 2 ELSE Even(some))
  BY DEF ReadFile
<1> HIDE DEF n, some
<1>3. ~(n < 0) => Even(some) \in Nat /\ Even(some) <= some + 1
  BY <1>1, Evened
<1>4. /\ ReadFile(w, left, header) \in Nat
      /\ ReadFile(w, left, header) <= header + w + 1 \/ ReadFile(w, left, header) = header + 2
  <2>1. CASE n < 0
    BY <2>1, <1>2
  <2>2. CASE ~(n < 0)
    BY <2>2, <1>1, <1>2, <1>3
  <2> QED
    BY <2>1, <2>2
<1>5. ReadNumbers(w, left, header) \in Nat /\ ReadNumbers(w, left, header) <= w
  BY DEF ReadNumbers
<1> QED
  BY <1>4, <1>5

\* What a device declares, and what it may deliver beyond that, is a length.
LEMMA Declarations ==
  ASSUME NEW d \in Devices, NEW e
  PROVE  MaxLength(d, e) \in Nat /\ Beyond(d) \in Nat
<1>1. d.words \in Nat /\ d.words % 2 \in Nat
  BY DEF Devices
<1> QED
  BY <1>1 DEF MaxLength, Beyond, SEVTHEADERLENGTH

\* A device of the event's type delivers at most what it has declared, and what
\* goes beyond, if its file holds no more words than it was made for.
LEMMA PutBound ==
  ASSUME NEW d \in Devices, d.type = event.type, NEW w \in Nat, NEW left \in Int
  PROVE  /\ PutData(d, w, left) \in Nat
         /\ ~(w > d.words) => PutData(d, w, left) <= MaxLength(d, event.type) + Beyond(d)
<1> DEFINE words == d.words
           header == IF PRDF THEN 6 ELSE 4
           put == PutData(d, w, left)
<1>1. words \in Nat /\ header \in Nat /\ d.kind \in Kinds
  BY DEF Devices
<1>2. Even(words) \in Nat /\ Even(words) <= words + 1 /\ Even(words) = words + (words % 2)
  BY <1>1, Evened
<1>3. CASE d.kind = "command"
  BY <1>3 DEF PutData, MaxLength, Beyond, Devices
<1>4. CASE d.kind = "file"
  <2>1. put = ReadFile(w, left, header)
    BY <1>4 DEF PutData, PutFile, PacketHeader, SEVTHEADERLENGTH
  <2>2. /\ ReadFile(w, left, header) \in Nat
        /\ ReadFile(w, left, header) <= header + w + 1 \/ ReadFile(w, left, header) = header + 2
    BY <1>1, FileRead
  <2>3. words >= 256
    BY <1>4 DEF Devices
  <2>4. MaxLength(d, event.type) = words + 5
    BY <1>1, <1>4 DEF MaxLength, SEVTHEADERLENGTH
  <2>5. Beyond(d) = IF PRDF THEN 3 ELSE 0
    BY <1>4 DEF Beyond
  <2> HIDE DEF put, words
  <2> QED
    BY <1>1, <2>1, <2>2, <2>3, <2>4, <2>5 DEF put, words
<1>5. CASE d.kind = "filenumbers"
  <2> DEFINE some == ReadNumbers(w, left, header)
  <2>1. some \in Nat /\ some <= w
    BY <1>1, FileRead
  <2>2. put = IF PRDF THEN 6 + some ELSE 4 + Even(some)
    BY <1>5 DEF PutData, PutNumbers, PacketHeader, SEVTHEADERLENGTH
  <2>3. Even(some) \in Nat /\ Even(some) <= some + 1
    BY <2>1, Evened
  <2>4. MaxLength(d, event.type) = words + 5
    BY <1>1, <1>5 DEF MaxLength, SEVTHEADERLENGTH
  <2>5. Beyond(d) = IF PRDF THEN 3 ELSE 0
    BY <1>5 DEF Beyond
  <2> HIDE DEF put, words, some
  <2> QED
    BY <1>1, <2>1, <2>2, <2>3, <2>4, <2>5 DEF put, words
<1>6. CASE d.kind = "random"
  <2>1. put = header + Even(words)
    BY <1>6 DEF PutData, PutRandom, PacketHeader, SEVTHEADERLENGTH
  <2>2. MaxLength(d, event.type) = words + 4
    BY <1>1, <1>6 DEF MaxLength, SEVTHEADERLENGTH
  <2>3. Beyond(d) = IF PRDF THEN 3 ELSE words % 2
    BY <1>6 DEF Beyond
  <2> HIDE DEF put, words
  <2> QED
    BY <1>1, <1>2, <2>1, <2>2, <2>3 DEF put, words
<1>7. CASE d.kind = "deadtime"
  <2>1. put = IF words = 0 THEN 0 ELSE header + Even(words)
    BY <1>7 DEF PutData, PutDeadtime, PutRandom, PacketHeader, SEVTHEADERLENGTH
  <2>2. MaxLength(d, event.type) = IF words = 0 THEN 0 ELSE words + 6
    BY <1>1, <1>7 DEF MaxLength, SEVTHEADERLENGTH
  <2>3. Beyond(d) = IF PRDF THEN 3 ELSE 0
    BY <1>7 DEF Beyond
  <2> HIDE DEF put, words
  <2> QED
    BY <1>1, <1>2, <2>1, <2>2, <2>3 DEF put, words
<1>8. CASE d.kind = "rtclock"
  <2>1. put = IF PRDF THEN 15 ELSE 14
    BY <1>8 DEF PutData, PutClock, PacketHeader, SEVTHEADERLENGTH
  <2>2. MaxLength(d, event.type) = 14
    BY <1>8 DEF MaxLength, SEVTHEADERLENGTH, Devices
  <2>3. Beyond(d) = IF PRDF THEN 3 ELSE 0
    BY <1>8 DEF Beyond
  <2> QED
    BY <2>1, <2>2, <2>3
<1>9. CASE d.kind = "gauss"
  <2>1. put = 4 + words
    BY <1>9 DEF PutData, PutGauss, SEVTHEADERLENGTH
  <2>2. MaxLength(d, event.type) = words + 4
    BY <1>1, <1>9 DEF MaxLength, SEVTHEADERLENGTH
  <2>3. Beyond(d) = IF PRDF THEN 3 ELSE 0
    BY <1>9 DEF Beyond
  <2> HIDE DEF put, words
  <2> QED
    BY <1>1, <2>1, <2>2, <2>3 DEF put, words
<1>10. CASE d.kind = "pluginexample"
  <2>1. put = 4 + Even(words)
    BY <1>10 DEF PutData, PutPlugin, SEVTHEADERLENGTH
  <2>2. MaxLength(d, event.type) = words + 4
    BY <1>1, <1>10 DEF MaxLength, SEVTHEADERLENGTH
  <2>3. Beyond(d) = IF PRDF THEN 3 ELSE words % 2
    BY <1>10 DEF Beyond
  <2> HIDE DEF put, words
  <2> QED
    BY <1>1, <1>2, <2>1, <2>2, <2>3 DEF put, words
<1> QED
  BY <1>1, <1>3, <1>4, <1>5, <1>6, <1>7, <1>8, <1>9, <1>10 DEF Kinds

\* The same of anything a device may deliver.
LEMMA DeliveryBound ==
  ASSUME NEW d \in Devices, NEW left \in Int, NEW put \in Deliveries(d, left)
  PROVE  /\ put.len \in Nat
         /\ ~(put.words > d.words) => put.len <= MaxLength(d, event.type) + Beyond(d)
<1>1. MaxLength(d, event.type) \in Nat /\ Beyond(d) \in Nat /\ d.words \in Nat
  BY Declarations DEF Devices
<1>2. CASE put = [len |-> 0, words |-> 0, read |-> FALSE]
  BY <1>1, <1>2
<1>3. ASSUME d.type = event.type, IsFile(d), NEW w \in FileWords,
             put = [len |-> PutData(d, w, left), words |-> w, read |-> TRUE]
      PROVE  /\ put.len \in Nat
             /\ ~(put.words > d.words) => put.len <= MaxLength(d, event.type) + Beyond(d)
  <2>1. w \in Nat
    BY ReadlistAssumption
  <2> QED
    BY <1>3, <2>1, PutBound
<1>4. ASSUME d.type = event.type, put = [len |-> PutData(d, 0, left), words |-> 0, read |-> FALSE]
      PROVE  /\ put.len \in Nat
             /\ ~(put.words > d.words) => put.len <= MaxLength(d, event.type) + Beyond(d)
  BY <1>1, <1>4, PutBound
<1>5. CASE event.type # d.type
  BY <1>2, <1>5 DEF Deliveries
<1>6. CASE event.type = d.type /\ IsFile(d)
  BY <1>2, <1>3, <1>6 DEF Deliveries
<1>7. CASE event.type = d.type /\ ~IsFile(d)
  BY <1>4, <1>7 DEF Deliveries
<1> QED
  BY <1>5, <1>6, <1>7

---------------------------------------------------------------------------
(* Readout: what the devices of an event have written so far               *)

Lengths(e) == [i \in 1 .. Len(DeviceList) |-> MaxLength(DeviceList[i], e)]
Allowances == [i \in 1 .. Len(DeviceList) |-> Beyond(DeviceList[i])]

\* What the first n devices may have written to the event.
Limit(n) ==
  (IF PRDF THEN FrameLength ELSE 0) + Sums(Lengths(event.type))[n] + Sums(Allowances)[n]

Events == [type : EventType, pos : Nat, left : Int, current : Int, extent : Int,
           outgrew : BOOLEAN]

\* While a run is active Eventsize is what the read list declares.
SizesInv ==
  /\ DAQ_RUNNING \in BOOLEAN
  /\ DAQ_RUNNING => \A e \in EventType : Eventsize[e] = Declared(e)

\* Each event is read out within a run, and what was written stays within the
\* limit for the devices that have been read.
ReadoutInv ==
  event # NoEvent =>
    /\ DAQ_RUNNING
    /\ event \in Events /\ event.pos \in 1 .. Len(DeviceList) + 1
    /\ ~event.outgrew => event.current <= Limit(event.pos - 1)
                         /\ event.extent <= Limit(event.pos - 1)

LEMMA LengthsType ==
  ASSUME ListInv, NEW e
  PROVE  /\ Lengths(e) \in Seq(Nat) /\ Len(Lengths(e)) = Len(DeviceList)
         /\ Allowances \in Seq(Nat) /\ Len(Allowances) = Len(DeviceList)
         /\ \A i \in 1 .. Len(DeviceList) :
              /\ Lengths(e)[i] = MaxLength(DeviceList[i], e)
              /\ Allowances[i] = Beyond(DeviceList[i])
<1>1. ASSUME NEW i \in 1 .. Len(DeviceList)
      PROVE  MaxLength(DeviceList[i], e) \in Nat /\ Beyond(DeviceList[i]) \in Nat
  <2>1. DeviceList[i] \in Devices
    BY DEF ListInv
  <2> QED
    BY <2>1, Declarations
<1>2. Len(DeviceList) \in Nat
  BY DEF ListInv
<1> QED
  BY <1>1, <1>2 DEF Lengths, Allowances

\* The limit is a number, grows by what the next device may deliver, and is
\* at most what all devices may deliver together.
LEMMA Limits ==
  ASSUME ListInv
  PROVE  /\ \A n \in 0 .. Len(DeviceList) :
              Limit(n) \in Int /\ Limit(n) <= Limit(Len(DeviceList))
         /\ \A n \in 1 .. Len(DeviceList) :
              Limit(n) = Limit(n - 1) + MaxLength(DeviceList[n], event.type)
                         + Beyond(DeviceList[n])
         /\ Limit(0) = IF PRDF THEN 8 ELSE 0
<1> DEFINE L == Lengths(event.type)
           A == Allowances
           N == Len(DeviceList)
<1>1. /\ L \in Seq(Nat) /\ Len(L) = N /\ A \in Seq(Nat) /\ Len(A) = N
      /\ \A i \in 1 .. N : /\ L[i] = MaxLength(DeviceList[i], event.type)
                           /\ A[i] = Beyond(DeviceList[i])
  BY LengthsType
<1>2. N \in Nat
  BY DEF ListInv
<1> HIDE DEF L, A, N
<1>3. L \in Seq(Int) /\ A \in Seq(Int)
  BY <1>1
<1>4. /\ Sums(L)[0] = 0 /\ Sums(A)[0] = 0
      /\ \A i \in 1 .. N : /\ Sums(L)[i] = Sums(L)[i - 1] + L[i]
                           /\ Sums(A)[i] = Sums(A)[i - 1] + A[i]
      /\ \A i \in 0 .. N : Sums(L)[i] \in Int /\ Sums(A)[i] \in Int
  BY <1>1, <1>3, Summed
<1>5. \A n \in 0 .. N : Sums(L)[n] <= Sums(L)[N] /\ Sums(A)[n] <= Sums(A)[N]
  <2> TAKE n \in 0 .. N
  <2>1. N \in 0 .. N /\ n <= N
    BY <1>2
  <2> QED
    BY <2>1, <1>1, SumsGrow
<1>6. \A n : Limit(n) = (IF PRDF THEN 8 ELSE 0) + Sums(L)[n] + Sums(A)[n]
  BY DEF Limit, L, A, FrameLength
<1>7. ASSUME NEW n \in 0 .. N
      PROVE  Limit(n) \in Int /\ Limit(n) <= Limit(N)
  <2>1. N \in 0 .. N
    BY <1>2
  <2>2. Sums(L)[n] \in Int /\ Sums(A)[n] \in Int /\ Sums(L)[N] \in Int /\ Sums(A)[N] \in Int
    BY <1>4, <2>1
  <2> QED
    BY <2>2, <1>5, <1>6
<1>8. ASSUME NEW n \in 1 .. N
      PROVE  Limit(n) = Limit(n - 1) + L[n] + A[n]
  <2>1. n - 1 \in 0 .. N
    BY <1>2
  <2>2. Sums(L)[n - 1] \in Int /\ Sums(A)[n - 1] \in Int
    BY <1>4, <2>1
  <2>3. Sums(L)[n] = Sums(L)[n - 1] + L[n] /\ Sums(A)[n] = Sums(A)[n - 1] + A[n]
    BY <1>4
  <2>4. L[n] \in Int /\ A[n] \in Int
    BY <1>1, <1>2
  <2> QED
    BY <2>2, <2>3, <2>4, <1>6
<1>9. Limit(0) = IF PRDF THEN 8 ELSE 0
  BY <1>4, <1>6
<1> QED
  BY <1>1, <1>7, <1>8, <1>9 DEF N

\* The limits are those of the read list and the format, which stay as they
\* are during an event.
LEMMA LimitsStay ==
  ASSUME UNCHANGED <<DeviceList, current_data_format>>, event'.type = event.type, NEW n
  PROVE  Limit(n)' = Limit(n)
<1>1. Lengths(event.type)' = Lengths(event.type)
  BY DEF Lengths
<1>2. \A d : Beyond(d)' = Beyond(d)
  BY DEF Beyond, PRDF
<1>3. Allowances' = Allowances
  BY <1>2 DEF Allowances
<1> QED
  BY <1>1, <1>3 DEF Limit, PRDF

LEMMA DeclaredIs ==
  ASSUME ListInv, NEW e
  PROVE  /\ Declared(e) = EVTHEADERLENGTH + Sums(Lengths(e))[Len(DeviceList)]
         /\ Declared(e) \in Int
<1>1. /\ Lengths(e) \in Seq(Int) /\ Len(Lengths(e)) = Len(DeviceList)
      /\ Len(DeviceList) \in 0 .. Len(DeviceList)
  BY LengthsType DEF ListInv
<1>2. Declared(e) = EVTHEADERLENGTH + Sums(Lengths(e))[Len(DeviceList)]
  BY <1>1 DEF Declared, Total, Lengths
<1>3. Sums(Lengths(e))[Len(DeviceList)] \in Int
  BY <1>1, Summed
<1> QED
  BY <1>2, <1>3 DEF EVTHEADERLENGTH

LEMMA ReadoutInit ==
  ASSUME Init
  PROVE  SizesInv /\ ReadoutInv
BY DEF Init, InitReadlist, SizesInv, ReadoutInv

\* What does not touch the list, the format and the event keeps the invariant.
LEMMA ReadoutStays ==
  ASSUME ReadoutInv, UNCHANGED <<DeviceList, DAQ_RUNNING, current_data_format, event>>
  PROVE  ReadoutInv'
<1>1. \A n : Limit(n)' = Limit(n)
  BY LimitsStay
<1> QED
  BY <1>1 DEF ReadoutInv

\* Between runs there is no event, so that the list and the format may change.
LEMMA ReadoutIdle ==
  ASSUME ReadoutInv, ~DAQ_RUNNING, event' = event
  PROVE  ReadoutInv'
BY DEF ReadoutInv

LEMMA SizesNext ==
  ASSUME ListInv, SizesInv, [Next]_vars
  PROVE  SizesInv'
<1>1. ListStep
  BY ListSteps
<1>2. CASE UNCHANGED <<DeviceList, DAQ_RUNNING, Eventsize>>
  <2>1. \A e : Declared(e)' = Declared(e)
    BY <1>2 DEF Declared
  <2> QED
    BY <1>2, <2>1 DEF SizesInv
<1>3. CASE UNCHANGED DAQ_RUNNING /\ ~DAQ_RUNNING
  BY <1>3 DEF SizesInv
<1>4. ASSUME NEW refused \in BOOLEAN, BeginRun(refused)
      PROVE  SizesInv'
  <2>1. \A e : Declared(e)' = Declared(e)
    BY <1>4 DEF Declared, BeginRun
  <2>2. DAQ_RUNNING' \in BOOLEAN /\ Eventsize' = [e \in EventType |-> Declared(e)]
    BY <1>4 DEF BeginRun
  <2> QED
    BY <2>1, <2>2 DEF SizesInv
<1>5. CASE EndRun
  BY <1>5 DEF EndRun, SizesInv
<1>6. CASE \E r \in Requests[usage] : CreateDevice(r)
  <2>1. PICK r \in Requests[usage] : CreateDevice(r)
    BY <1>6
  <2>2. CASE CreateStatus(r) = 0
    BY <1>3, <2>1, <2>2 DEF CreateDevice, CreateStatus
  <2>3. CASE CreateStatus(r) # 0
    BY <1>2, <2>1, <2>3 DEF CreateDevice
  <2> QED
    BY <2>2, <2>3
<1> QED
  BY <1>1, <1>2, <1>3, <1>4, <1>5, <1>6
     DEF ListStep, listVars, ClearReadlist, NextEvent, AddSubevent, EventDone

\* An event starts with nothing but the frame's header in it.
LEMMA NextEventReadout ==
  ASSUME ListInv, ListInv', SizesInv, NextEvent
  PROVE  ReadoutInv'
<1> DEFINE frame == IF PRDF THEN FrameLength ELSE 0
<1>1. PICK e \in EventType :
        event' = [type |-> e, pos |-> 1, left |-> Eventsize[e] - EVTHEADERLENGTH - frame,
                  current |-> frame, extent |-> frame, outgrew |-> FALSE]
  BY DEF NextEvent
<1>2. Eventsize[e] \in Int /\ Eventsize[e] - EVTHEADERLENGTH - frame \in Int
  <2>1. Eventsize[e] = Declared(e)
    BY DEF NextEvent, SizesInv
  <2> QED
    BY <2>1, DeclaredIs DEF EVTHEADERLENGTH, FrameLength
<1>4. Limit(0)' = IF PRDF' THEN 8 ELSE 0
  <2>1. (ListInv => Limit(0) = IF PRDF THEN 8 ELSE 0)'
    BY Limits, PTL
  <2> QED
    BY <2>1
<1>5. PRDF' = PRDF /\ DAQ_RUNNING' /\ DeviceList' = DeviceList /\ Len(DeviceList) \in Nat
  BY DEF NextEvent, PRDF, ListInv
<1>6. event' \in Events /\ event'.pos = 1 /\ event'.current = frame /\ event'.extent = frame
  BY <1>1, <1>2 DEF Events, FrameLength
<1>7. event'.pos \in 1 .. Len(DeviceList') + 1 /\ event'.pos - 1 = 0
  BY <1>5, <1>6
<1>8. frame = Limit(0)' /\ frame <= frame
  BY <1>4, <1>5 DEF FrameLength
<1> QED
  BY <1>5, <1>6, <1>7, <1>8 DEF ReadoutInv

\* A subevent is added: as much as the device may deliver, or nothing that
\* counts.
LEMMA SubeventReadout ==
  ASSUME ListInv, ReadoutInv, AddSubevent
  PROVE  ReadoutInv'
<1> DEFINE p == event.pos
           d == DeviceList[p]
<1>1. event # NoEvent /\ p \in 1 .. Len(DeviceList) /\ Len(DeviceList) \in Nat
  <2>1. p \in 1 .. Len(DeviceList) /\ Len(DeviceList) \in Nat
    BY DEF AddSubevent, ListInv
  <2> QED
    BY <2>1 DEF NoEvent
<1>2. /\ DAQ_RUNNING /\ event \in Events
      /\ ~event.outgrew => event.current <= Limit(p - 1) /\ event.extent <= Limit(p - 1)
  BY <1>1 DEF ReadoutInv
<1>3. d \in Devices
  BY <1>1 DEF ListInv
<1>4. PICK put \in Deliveries(d, event.left) :
        event' = [event EXCEPT
            !.pos = @ + 1,
            !.left = IF event.left < 0 THEN @ ELSE @ - put.len,
            !.current = IF event.left < 0 THEN @ ELSE event.current + put.len,
            !.extent = IF event.current + put.len > @ THEN event.current + put.len ELSE @,
            !.outgrew = @ \/ put.words > d.words]
  BY DEF AddSubevent
<1>5. /\ put.len \in Nat
      /\ ~(put.words > d.words) => put.len <= MaxLength(d, event.type) + Beyond(d)
  BY <1>2, <1>3, DeliveryBound DEF Events
<1>6. /\ UNCHANGED <<DeviceList, current_data_format, DAQ_RUNNING>>
      /\ event'.type = event.type
  BY <1>2, <1>4 DEF AddSubevent, Events
<1>7. \A n : Limit(n)' = Limit(n)
  BY <1>6, LimitsStay
<1>8. /\ event'.pos = p + 1
      /\ event'.left = IF event.left < 0 THEN event.left ELSE event.left - put.len
      /\ event'.current = IF event.left < 0 THEN event.current ELSE event.current + put.len
      /\ event'.extent = IF event.current + put.len > event.extent
                           THEN event.current + put.len ELSE event.extent
      /\ event'.outgrew = (event.outgrew \/ put.words > d.words)
  BY <1>2, <1>4 DEF Events
<1>9. event' \in Events
  <2>1. /\ event.left \in Int /\ event.current \in Int /\ event.extent \in Int
        /\ event.pos \in Nat
    BY <1>2 DEF Events
  <2>2. DOMAIN event' = DOMAIN event /\ event' = [x \in DOMAIN event |-> event'[x]]
    BY <1>4
  <2>3. /\ event'.pos \in Nat /\ event'.left \in Int /\ event'.current \in Int
        /\ event'.extent \in Int
    BY <1>5, <1>8, <2>1
  <2>4. event'.outgrew \in BOOLEAN
    BY <1>8
  <2>5. event'.type \in EventType
    BY <1>2, <1>6 DEF Events
  <2>6. event' = [type |-> event'.type, pos |-> event'.pos, left |-> event'.left,
                  current |-> event'.current, extent |-> event'.extent,
                  outgrew |-> event'.outgrew]
    BY <1>2, <1>4 DEF Events
  <2> HIDE DEF p, d
  <2> QED
    BY <2>3, <2>4, <2>5, <2>6 DEF Events
<1>10. ASSUME ~event'.outgrew
       PROVE  event'.current <= Limit(p) /\ event'.extent <= Limit(p)
  <2>1. ~event.outgrew /\ ~(put.words > d.words)
    BY <1>8, <1>10
  <2>2. /\ event.current \in Int /\ event.extent \in Int
        /\ Limit(p - 1) \in Int /\ Limit(p) \in Int
    <3>1. p \in 0 .. Len(DeviceList) /\ p - 1 \in 0 .. Len(DeviceList)
      BY <1>1
    <3> QED
      BY <1>2, <3>1, Limits DEF Events
  <2>3. /\ MaxLength(d, event.type) \in Nat /\ Beyond(d) \in Nat
        /\ Limit(p) = Limit(p - 1) + MaxLength(d, event.type) + Beyond(d)
    BY <1>1, <1>3, Limits, Declarations
  <2>4. /\ event.current <= Limit(p - 1) /\ event.extent <= Limit(p - 1)
        /\ put.len <= MaxLength(d, event.type) + Beyond(d)
    BY <1>2, <1>5, <2>1
  <2>5. \A c, x, l, m \in Int, n, max, more \in Nat :
          /\ c <= l /\ x <= l /\ n <= max + more /\ m = l + max + more
          => c <= m /\ x <= m /\ c + n <= m
    OBVIOUS
  <2>6. event.current <= Limit(p) /\ event.extent <= Limit(p)
        /\ event.current + put.len <= Limit(p)
    BY <1>5, <2>2, <2>3, <2>4, <2>5
  <2> QED
    BY <1>8, <2>6
<1>11. event'.pos \in 1 .. Len(DeviceList') + 1 /\ event'.pos - 1 = p
  BY <1>1, <1>6, <1>8
<1> HIDE DEF p, d
<1> QED
  BY <1>2, <1>6, <1>9, <1>10, <1>11, <1>7 DEF ReadoutInv

LEMMA ReadoutNext ==
  ASSUME ListInv, ListInv', SizesInv, ReadoutInv, [Next]_vars
  PROVE  ReadoutInv'
<1>1. ListStep
  BY ListSteps
<1>2. CASE UNCHANGED listVars /\ (DAQ_RUNNING => UNCHANGED current_data_format)
  <2>1. CASE DAQ_RUNNING
    BY <1>2, <2>1, ReadoutStays DEF listVars
  <2>2. CASE ~DAQ_RUNNING
    BY <1>2, <2>2, ReadoutIdle DEF listVars
  <2> QED
    BY <2>1, <2>2
<1>3. CASE ClearReadlist /\ ~DAQ_RUNNING
  BY <1>3, ReadoutIdle DEF ClearReadlist
<1>4. CASE \E r \in Requests[usage] : CreateDevice(r)
  <2>1. PICK r \in Requests[usage] : CreateDevice(r)
    BY <1>4
  <2>2. CASE CreateStatus(r) = 0
    BY <2>1, <2>2, ReadoutIdle DEF CreateDevice, CreateStatus
  <2>3. CASE CreateStatus(r) # 0
    BY <2>1, <2>3, ReadoutStays DEF CreateDevice
  <2> QED
    BY <2>2, <2>3
<1>5. CASE \E refused \in BOOLEAN : BeginRun(refused)
  BY <1>5, ReadoutIdle DEF BeginRun
<1>6. CASE EndRun
  BY <1>6 DEF EndRun, ReadoutInv
<1>7. CASE NextEvent
  BY <1>7, NextEventReadout
<1>8. CASE AddSubevent
  BY <1>8, SubeventReadout
<1>9. CASE EventDone
  BY <1>9 DEF EventDone, ReadoutInv
<1> QED
  BY <1>1, <1>2, <1>3, <1>4, <1>5, <1>6, <1>7, <1>8, <1>9 DEF ListStep

LEMMA ReadoutCorrect == Spec => [](ListInv /\ SizesInv /\ ReadoutInv)
<1>1. Init => SizesInv /\ ReadoutInv
  BY ReadoutInit
<1>2. ListInv /\ ListInv' /\ SizesInv /\ ReadoutInv /\ [Next]_vars => SizesInv' /\ ReadoutInv'
  BY SizesNext, ReadoutNext
<1> QED
  BY <1>1, <1>2, ListCorrect, PTL DEF Spec

\* EventWithin: however long the read list, all devices of an event together
\* write no more than set_eventsizes has declared for it, padding and headers
\* apart, unless a file has outgrown its device.
THEOREM StaysWithin == Spec => []EventWithin
<1>1. ListInv /\ SizesInv /\ ReadoutInv => EventWithin
  <2> SUFFICES ASSUME ListInv, SizesInv, ReadoutInv, event # NoEvent, ~event.outgrew
               PROVE  EVTHEADERLENGTH + event.extent
                        <= Eventsize[event.type] + (IF PRDF THEN FrameLength ELSE 0)
                           + Sums(Allowances)[Len(Allowances)]
    BY DEF EventWithin, Total, Allowances
  <2> DEFINE N == Len(DeviceList)
             declared == Sums(Lengths(event.type))[N]
             beyond == Sums(Allowances)[N]
  <2>1. /\ event \in Events /\ event.pos \in 1 .. N + 1 /\ DAQ_RUNNING
        /\ event.extent <= Limit(event.pos - 1) /\ N \in Nat
    BY DEF ReadoutInv, ListInv
  <2>2. /\ event.pos - 1 \in 0 .. N /\ N \in 0 .. N /\ event.extent \in Int
        /\ event.type \in EventType
    BY <2>1 DEF Events
  <2>3. Limit(event.pos - 1) \in Int /\ Limit(N) \in Int /\ Limit(event.pos - 1) <= Limit(N)
    BY <2>2, Limits
  <2>4. /\ Allowances \in Seq(Int) /\ Len(Allowances) = N
        /\ Lengths(event.type) \in Seq(Int) /\ Len(Lengths(event.type)) = N
    BY LengthsType
  <2>5. declared \in Int /\ beyond \in Int
    BY <2>2, <2>4, Summed
  <2>6. Limit(N) = (IF PRDF THEN FrameLength ELSE 0) + declared + beyond
    BY DEF Limit
  <2>7. Eventsize[event.type] = EVTHEADERLENGTH + declared
    BY <2>1, <2>2, DeclaredIs DEF SizesInv
  <2> HIDE DEF N, declared, beyond
  <2>8. event.extent <= (IF PRDF THEN FrameLength ELSE 0) + declared + beyond
    BY <2>1, <2>2, <2>3, <2>6
  <2>9. \A x, a, b, f \in Int : x <= f + a + b => 8 + x <= 8 + a + f + b
    OBVIOUS
  <2>10. (IF PRDF THEN FrameLength ELSE 0) \in Int /\ EVTHEADERLENGTH = 8
    BY DEF FrameLength, EVTHEADERLENGTH
  <2>11. EVTHEADERLENGTH + event.extent
           <= EVTHEADERLENGTH + declared + (IF PRDF THEN FrameLength ELSE 0) + beyond
    BY <2>2, <2>5, <2>8, <2>9, <2>10
  <2> QED
    BY <2>4, <2>7, <2>11 DEF beyond, N
<1> QED
  BY <1>1, ReadoutCorrect, PTL

---------------------------------------------------------------------------
(* What the client is told                                                 *)

Excepted == {"daq_define_buffersize", "daq_set_mqtt_host", "daq_begin"}

\* The client was told of success, or of one of the exceptions, or of a failure
\* which has left the settings as they were.
Told == result'.status = 0 \/ result'.name \in Excepted \/ UNCHANGED <<settings, current_data_format>>

LEMMA AnswerStatus ==
  ASSUME NEW c, NEW status, Answer(c, status)
  PROVE  /\ status = 0 => result'.status = 0
         /\ status # 0 => result'.name = c.name
BY DEF Answer, Done

LEMMA SettingTold ==
  ASSUME NEW c, Setting(c)
  PROVE  Told
<1>1. CASE Refused(c)
  BY <1>1 DEF Refused, Told
<1>2. CASE Answer(c, 0)
  BY <1>2, AnswerStatus DEF Told
<1>3. CASE NamingCommand(c)
  BY <1>1, <1>2, <1>3 DEF NamingCommand, SetFilerule, SetRuntype, DefineRuntype, Told
<1>4. CASE WritingCommand(c)
  BY <1>1, <1>2, <1>4 DEF WritingCommand, SetCompression, SetNrThreads, SetMD5Enable,
                          SetMD5AllowTurnoff
<1>5. CASE LimitCommand(c)
  <2>1. CASE SetMaxBufferSize(c)
    BY <1>1, <1>2, <2>1 DEF SetMaxBufferSize
  <2>2. CASE DefineBufferSize(c) /\ c.name = "daq_define_buffersize" /\ ~DAQ_RUNNING
    <3>1. Answer(c, 0) \/ Answer(c, 1)
      BY <2>2 DEF DefineBufferSize
    <3> QED
      BY <1>2, <2>2, <3>1, AnswerStatus DEF Told, Excepted
  <2>3. CASE DefineBufferSize(c) /\ DAQ_RUNNING
    BY <1>1, <2>3 DEF DefineBufferSize
  <2> QED
    BY <1>5, <2>1, <2>2, <2>3 DEF LimitCommand
<1>6. CASE ModeCommand(c)
  BY <1>1, <1>2, <1>6 DEF ModeCommand, SetEventFormat, SetUservalue
<1>7. CASE Store(c)
  <2>1. Refused(c) \/ Answer(c, 0) \/ (c.name = "daq_set_mqtt_host" /\ Answer(c, 1))
    BY <1>7 DEF Store
  <2> QED
    BY <1>1, <1>2, <2>1, AnswerStatus DEF Told, Excepted
<1>8. CASE Query(c)
  BY <1>8 DEF Query, Told
<1> QED
  BY <1>3, <1>4, <1>5, <1>6, <1>7, <1>8 DEF Setting

\* RefusedChangesNothing: whatever the commands, if the client exits with an
\* error status, nothing that matters to the run has changed, but for the
\* commands that say what they did instead and for daq_begin.
THEOREM FailureChangesNothing == Spec => RefusedChangesNothing
<1>1. ASSUME [Next]_vars
      PROVE  [\/ result'.status = 0 \/ result'.name \in Excepted \/ UNCHANGED effective]_vars
  <2>1. CASE Execute
    <3>1. PICK c \in Commands[usage] :
            IF ~Accepts(c) THEN Refused(c) /\ UNCHANGED listVars
            ELSE \/ Setting(c) /\ UNCHANGED listVars
                 \/ c.name = "daq_clear_readlist" /\ Clear(c)
      BY <2>1 DEF Execute
    <3>2. CASE Refused(c) /\ UNCHANGED listVars
      BY <3>2 DEF Refused, effective, listVars
    <3>3. CASE Setting(c) /\ UNCHANGED listVars
      BY <3>3, SettingTold DEF Told, effective, listVars
    <3>4. CASE Clear(c) /\ ~DAQ_RUNNING
      BY <3>4, AnswerStatus DEF Clear
    <3> QED
      BY <3>1, <3>2, <3>3, <3>4 DEF Clear
  <2>2. CASE Create
    <3>1. PICK r \in Requests[usage] :
            CreateDevice(r) /\ Answer([name |-> "create_device"], CreateStatus(r))
      BY <2>2 DEF Create
    <3>2. CASE CreateStatus(r) = 0
      BY <3>1, <3>2, AnswerStatus
    <3>3. CASE CreateStatus(r) # 0
      BY <2>2, <3>1, <3>3 DEF Create, CreateDevice, effective
    <3> QED
      BY <3>2, <3>3
  <2>3. CASE Begin
    <3>1. PICK status : Answer([name |-> "daq_begin"], status)
      BY <2>3 DEF Begin
    <3> QED
      BY <3>1, AnswerStatus DEF Excepted
  <2>4. CASE Run
    BY <2>4 DEF Run, Done
  <2>5. CASE UNCHANGED vars
    BY <2>5
  <2>6. CASE EndServer \/ Unreachable
    BY <2>6 DEF EndServer, Unreachable, effective, listVars
  <2> QED
    BY <1>1, <2>1, <2>2, <2>3, <2>4, <2>5, <2>6 DEF Next
<1> QED
  BY <1>1, PTL DEF Spec, RefusedChangesNothing, Excepted

---------------------------------------------------------------------------
(* The ring of buffers                                                     *)

Buffers == [max_length : Int, max_size : Int, format : BOOLEAN, compression : Int,
            md5 : BOOLEAN, wrkmem : BOOLEAN, outputarray : Int]

\* A buffer of the given memory, made for these settings; once it has the
\* memory that the LZO levels take, its output array is there, too.
Good(b, length, flag, md5, prdf) ==
  /\ b \in Buffers /\ b.max_length = length /\ b.max_size <= length
  /\ b.compression = Level(flag) /\ b.md5 = md5 /\ b.format = prdf
  /\ CanCompress(b)
  /\ b.wrkmem => b.outputarray = length + Extra

LEMMA LevelType ==
  ASSUME NEW flag \in Int
  PROVE  Level(flag) \in 0 .. 4 /\ (flag = 0 => Level(flag) = 0)
BY DEF Level

LEMMA CompressingShape ==
  ASSUME NEW b \in Buffers, NEW flag \in Int
  PROVE  LET c == Compressing(b, flag) IN
         /\ c \in Buffers /\ c.max_length = b.max_length /\ c.max_size = b.max_size
         /\ c.md5 = b.md5 /\ c.format = b.format /\ c.compression = Level(flag)
         /\ \/ /\ flag = 0 \/ (Level(flag) \in 1 .. 3 /\ b.wrkmem)
               /\ c.wrkmem = b.wrkmem /\ c.outputarray = b.outputarray
            \/ /\ Level(flag) \in 1 .. 3 /\ c.wrkmem = TRUE
               /\ c.outputarray = b.max_length + Extra
            \/ /\ Level(flag) \notin 1 .. 3 /\ c.wrkmem = b.wrkmem
               /\ c.outputarray = b.max_length + Extra
<1> DEFINE set == [b EXCEPT !.compression = Level(flag)]
           output == [set EXCEPT !.outputarray = b.max_length + Extra]
           both == [output EXCEPT !.wrkmem = TRUE]
<1>1. Level(flag) \in Int /\ b.max_length + Extra \in Int
  BY LevelType DEF Buffers, Extra
<1>2. /\ set \in Buffers /\ set.max_length = b.max_length /\ set.max_size = b.max_size
      /\ set.md5 = b.md5 /\ set.format = b.format /\ set.compression = Level(flag)
      /\ set.wrkmem = b.wrkmem /\ set.outputarray = b.outputarray
  BY <1>1 DEF Buffers
<1> HIDE DEF set
<1>3. /\ output \in Buffers /\ output.max_length = b.max_length /\ output.max_size = b.max_size
      /\ output.md5 = b.md5 /\ output.format = b.format /\ output.compression = Level(flag)
      /\ output.wrkmem = b.wrkmem /\ output.outputarray = b.max_length + Extra
  BY <1>1, <1>2 DEF Buffers
<1> HIDE DEF output
<1>4. /\ both \in Buffers /\ both.max_length = b.max_length /\ both.max_size = b.max_size
      /\ both.md5 = b.md5 /\ both.format = b.format /\ both.compression = Level(flag)
      /\ both.wrkmem = TRUE /\ both.outputarray = b.max_length + Extra
  BY <1>3 DEF Buffers
<1> HIDE DEF both
<1>5. Compressing(b, flag) =
        IF flag = 0 \/ (Level(flag) \in 1 .. 3 /\ b.wrkmem) THEN set
        ELSE IF Level(flag) \in 1 .. 3 THEN both ELSE output
  BY DEF Compressing, set, output, both
<1> QED
  BY <1>2, <1>3, <1>4, <1>5

\* daqBuffer::setCompression leaves a buffer that can compress as asked.
LEMMA CompressingGood ==
  ASSUME NEW b, NEW length \in Int, NEW old, NEW flag \in Int, NEW md5, NEW prdf,
         Good(b, length, old, md5, prdf)
  PROVE  Good(Compressing(b, flag), length, flag, md5, prdf)
<1> DEFINE c == Compressing(b, flag)
<1>1. /\ c \in Buffers /\ c.max_length = b.max_length /\ c.max_size = b.max_size
      /\ c.md5 = b.md5 /\ c.format = b.format /\ c.compression = Level(flag)
      /\ \/ /\ flag = 0 \/ (Level(flag) \in 1 .. 3 /\ b.wrkmem)
            /\ c.wrkmem = b.wrkmem /\ c.outputarray = b.outputarray
         \/ /\ Level(flag) \in 1 .. 3 /\ c.wrkmem = TRUE
            /\ c.outputarray = b.max_length + Extra
         \/ /\ Level(flag) \notin 1 .. 3 /\ c.wrkmem = b.wrkmem
            /\ c.outputarray = b.max_length + Extra
  BY CompressingShape DEF Good
<1> HIDE DEF c
<1>2. Level(flag) \in 0 .. 4 /\ (flag = 0 => Level(flag) = 0)
  BY LevelType
<1>3. CanCompress(c) /\ (c.wrkmem => c.outputarray = length + Extra)
  BY <1>1, <1>2 DEF Good, CanCompress
<1> QED
  BY <1>1, <1>3 DEF Good, c

\* The buffers of a ring built anew.
LEMMA NewGood ==
  ASSUME NEW length \in Int, NEW flag \in Int, NEW md5 \in BOOLEAN, NEW prdf \in BOOLEAN
  PROVE  Good(Compressing([NewBuffer(length) EXCEPT !.format = prdf, !.md5 = md5], flag),
              length, flag, md5, prdf)
<1> DEFINE b == [NewBuffer(length) EXCEPT !.format = prdf, !.md5 = md5]
<1>1. NewBuffer(length) \in Buffers
  BY DEF NewBuffer, Buffers
<1>2. /\ b \in Buffers /\ b.max_length = length /\ b.max_size = length /\ b.format = prdf
      /\ b.compression = 0 /\ b.md5 = md5 /\ b.wrkmem = FALSE
  BY <1>1 DEF NewBuffer, Buffers
<1> HIDE DEF b
<1>3. Good(b, length, 0, md5, prdf)
  BY <1>2 DEF Good, Buffers, Level, CanCompress
<1> QED
  BY <1>3, CompressingGood DEF b

\* What fits into an int stays what it is.
LEMMA Unwrapped ==
  ASSUME NEW n \in Int
  PROVE  /\ Wrapped(n, Megabytes) \in Int /\ Wrapped(n, Kilobytes) \in Int
         /\ n \in 0 .. MaxMegabytes => Wrapped(n, Megabytes) = n
         /\ n \in 0 .. MaxKilobytes => Wrapped(n, Kilobytes) = n
<1>1. Wrapped(n, Megabytes) = ((n + 8192) % 16384) - 8192
  BY SMT DEF Wrapped, Megabytes
<1>2. Wrapped(n, Kilobytes) = ((n + 2097152) % 4194304) - 2097152
  BY SMT DEF Wrapped, Kilobytes
<1>3. Wrapped(n, Megabytes) \in Int /\ Wrapped(n, Kilobytes) \in Int
  BY <1>1, <1>2, SMT
<1>4. ASSUME 0 <= n, n <= MaxMegabytes
      PROVE  Wrapped(n, Megabytes) = n
  BY <1>1, <1>4, SMT DEF MaxMegabytes
<1>5. ASSUME 0 <= n, n <= MaxKilobytes
      PROVE  Wrapped(n, Kilobytes) = n
  BY <1>2, <1>5, SMT DEF MaxKilobytes
<1>6. MaxKilobytes \in Int /\ MaxMegabytes \in Int
  BY SMT DEF MaxKilobytes, MaxMegabytes
<1>7. /\ n \in 0 .. MaxKilobytes => 0 <= n /\ n <= MaxKilobytes
      /\ n \in 0 .. MaxMegabytes => 0 <= n /\ n <= MaxMegabytes
  BY <1>6, SMT
<1> QED
  BY <1>3, <1>4, <1>5, <1>7

\* The size in words that daqBuffer::setMaxSize makes of kilobytes.
Rounded(kb) ==
  LET k == Wrapped(kb, Kilobytes) IN
  IF k > MaxKilobytes THEN Overflown ELSE ((k * 1024 + 8191) \div 8192) * 2048

LEMMA RoundedIs ==
  ASSUME NEW kb \in Int
  PROVE  /\ Rounded(kb) \in Int
         /\ kb \in 0 .. MaxKilobytes => Rounded(kb) = ((kb + 7) \div 8) * 2048
<1>1. Wrapped(kb, Kilobytes) \in Int /\ (kb \in 0 .. MaxKilobytes => Wrapped(kb, Kilobytes) = kb)
  BY Unwrapped
<1>2. MaxKilobytes \in Int /\ Overflown \in Int
  BY SMT DEF MaxKilobytes, Overflown
<1>3. Rounded(kb) \in Int
  BY <1>1, <1>2 DEF Rounded
<1>4. ASSUME kb \in 0 .. MaxKilobytes
      PROVE  Rounded(kb) = ((kb + 7) \div 8) * 2048
  <2>1. 0 <= kb /\ ~(kb > MaxKilobytes)
    BY <1>2, <1>4
  <2>2. Rounded(kb) = ((kb * 1024 + 8191) \div 8192) * 2048
    BY <1>1, <1>4, <2>1 DEF Rounded
  <2>3. (kb * 1024 + 8191) \div 8192 = (kb + 7) \div 8
    BY <2>1
  <2> QED
    BY <2>2, <2>3
<1> QED
  BY <1>3, <1>4

\* daqBuffer::setMaxSize changes the maximal size only: to what was asked for,
\* if that fits into an int, and in all buffers in the same way.
LEMMA SizedGood ==
  ASSUME NEW b, NEW length \in Int, NEW flag, NEW md5, NEW prdf, NEW kb \in Int,
         Good(b, length, flag, md5, prdf)
  PROVE  /\ Good(Sized(b, kb), length, flag, md5, prdf)
         /\ kb \in 0 .. MaxKilobytes => Sized(b, kb).max_size = Limited(length, kb)
         /\ IF Wrapped(kb, Kilobytes) < 0 THEN Sized(b, kb) = b
            ELSE Sized(b, kb).max_size =
                   IF Wrapped(kb, Kilobytes) = 0 \/ Rounded(kb) > length THEN length ELSE Rounded(kb)
<1> DEFINE k == Wrapped(kb, Kilobytes)
           size == Rounded(kb)
           s == IF k = 0 \/ size > b.max_length THEN b.max_length ELSE size
<1>1. size \in Int /\ k \in Int /\ (kb \in 0 .. MaxKilobytes => k = kb /\ size = ((kb + 7) \div 8) * 2048)
  BY RoundedIs, Unwrapped
<1>2. Sized(b, kb) = IF k < 0 THEN b ELSE [b EXCEPT !.max_size = s]
  BY DEF Sized, Rounded
<1> HIDE DEF size, k
<1>3. b.max_length = length /\ s \in Int /\ s <= length
  BY <1>1 DEF Good
<1>4. kb \in 0 .. MaxKilobytes => s = Limited(length, kb) /\ ~(k < 0)
  BY <1>1, <1>3 DEF Limited
<1>5. CASE k < 0
  BY <1>2, <1>4, <1>5 DEF k, size
<1>6. CASE ~(k < 0)
  <2>1. s = IF k = 0 \/ size > length THEN length ELSE size
    BY <1>3
  <2> HIDE DEF s
  <2> DEFINE c == [b EXCEPT !.max_size = s]
  <2>2. Sized(b, kb) = c
    BY <1>2, <1>6
  <2>3. /\ c \in Buffers /\ c.max_length = length /\ c.max_size = s /\ c.format = b.format
        /\ c.compression = b.compression /\ c.md5 = b.md5 /\ c.wrkmem = b.wrkmem
        /\ c.outputarray = b.outputarray
    BY <1>3 DEF Good, Buffers
  <2> HIDE DEF c
  <2>4. Good(c, length, flag, md5, prdf)
    BY <1>3, <2>3 DEF Good, CanCompress
  <2> QED
    BY <1>4, <1>6, <2>1, <2>2, <2>3, <2>4 DEF k, size
<1> QED
  BY <1>5, <1>6

\* The size check of daq_begin makes a buffer larger, never smaller.
LEMMA ResizedGood ==
  ASSUME NEW b, NEW length \in Int, NEW flag, NEW md5, NEW prdf, NEW n \in Int,
         Good(b, length, flag, md5, prdf), n > 4 * b.max_size
  PROVE  /\ Good(Resized(b, n), length, flag, md5, prdf)
         /\ Resized(b, n).max_size >= b.max_size
<1> DEFINE size == ((n + 8191) \div 8192) * 2048
           s == IF size > b.max_length THEN b.max_length ELSE size
           c == [b EXCEPT !.max_size = s]
<1>1. b.max_size \in Int /\ b.max_length = length /\ b.max_size <= length
  BY DEF Good, Buffers
<1>2. size \in Int /\ size >= b.max_size
  BY <1>1
<1> HIDE DEF size
<1>3. s \in Int /\ s <= length /\ s >= b.max_size
  BY <1>1, <1>2
<1>4. Resized(b, n) = c
  BY DEF Resized, size
<1> HIDE DEF s
<1>5. /\ c \in Buffers /\ c.max_length = length /\ c.max_size = s /\ c.format = b.format
      /\ c.compression = b.compression /\ c.md5 = b.md5 /\ c.wrkmem = b.wrkmem
      /\ c.outputarray = b.outputarray
  BY <1>3 DEF Good, Buffers
<1> HIDE DEF c
<1>6. Good(c, length, flag, md5, prdf)
  BY <1>3, <1>5 DEF Good, CanCompress
<1> QED
  BY <1>3, <1>4, <1>5, <1>6

LEMMA ThreadsType ==
  ASSUME NEW n \in Int, processor_count \in Cores
  PROVE  /\ processor_count \in Nat \ {0, 1} /\ Threads(n) \in Nat \ {0}
         /\ processor_count >= 3 =>
              /\ Threads(n) \in 2 .. processor_count - 1
              /\ n \in 2 .. processor_count - 1 => Threads(n) = n
<1>1. processor_count \in Nat \ {0, 1}
  BY SettingsAssumption
<1> QED
  BY <1>1 DEF Threads

\* What daq_set_maxbuffersize was asked for, of the i-th buffer.
SizeAsked(b, i, kb) ==
  kb \in 0 .. MaxKilobytes =>
    \/ b.max_size = Limited(b.max_length, kb)
    \/ i = 1 /\ b.max_size > Limited(b.max_length, kb)

\* The ring has the buffers it should have, each made for the settings.
RingInv ==
  /\ processor_count \in Cores
  /\ currentBufferSize \in Int /\ compression_level \in Int /\ md5_enabled \in BOOLEAN
  /\ daqBufferVector \in Seq(Buffers) /\ Len(daqBufferVector) = nr_of_write_threads
  /\ Len(daqBufferVector) >= 1
  /\ processor_count >= 3 => Len(daqBufferVector) \in 2 .. processor_count - 1
  /\ \A i \in DOMAIN daqBufferVector :
       /\ Good(daqBufferVector[i], currentBufferSize, compression_level, md5_enabled, PRDF)
       /\ daqBufferVector[i].max_size <= daqBufferVector[1].max_size

\* The memory of a buffer, of sizes that do not overflow.
SizeFor(mb) ==
  mb \in 0 .. MaxMegabytes => currentBufferSize = 256 * 1024 * (IF mb > 512 THEN 512 ELSE mb)

\* The settings are those that were asked for.
AskedInv ==
  /\ asked = [t \in Topics |-> asked[t]]
  /\ \A flag \in asked["compression"] : compression_level = flag
  /\ \A flag \in asked["md5"] : md5_enabled = (flag # 0)
  /\ \A flag \in asked["format"] : current_data_format = flag
  /\ \A mb \in asked["size"] : SizeFor(mb)
  /\ \A kb \in asked["maxsize"], i \in DOMAIN daqBufferVector :
       kb \in Int /\ SizeAsked(daqBufferVector[i], i, kb)
  /\ processor_count >= 3 =>
       \A n \in asked["threads"] \cap 2 .. processor_count - 1 : nr_of_write_threads = n

LEMMA SizeForStays ==
  ASSUME AskedInv, currentBufferSize' = currentBufferSize
  PROVE  \A mb \in asked["size"] : SizeFor(mb)'
<1>1. \A mb \in asked["size"] : SizeFor(mb)
  BY DEF AskedInv
<1> QED
  BY <1>1 DEF SizeFor

LEMMA AskShape ==
  ASSUME NEW topic \in Topics, NEW value, Ask(topic, value), asked = [t \in Topics |-> asked[t]]
  PROVE  /\ asked' = [t \in Topics |-> asked'[t]]
         /\ asked'[topic] = {value} /\ \A t \in Topics \ {topic} : asked'[t] = asked[t]
BY DEF Ask

LEMMA TopicsAre ==
  {"compression", "md5", "format", "size", "maxsize", "threads", "rule", "uservalue"} \subseteq Topics
BY DEF Topics

\* daq_set_compression
LEMMA CompressionRing ==
  ASSUME RingInv, AskedInv, processor_count' = processor_count,
         NEW c \in Command, SetCompression(c), ~DAQ_RUNNING
  PROVE  RingInv' /\ AskedInv'
<1>1. c.a \in Int
  BY DEF Command
<1>2. /\ UNCHANGED <<nr_of_write_threads, currentBufferSize, md5_enabled, current_data_format>>
      /\ compression_level' = c.a /\ Ask("compression", c.a)
      /\ daqBufferVector' = [i \in DOMAIN daqBufferVector |-> Compressing(daqBufferVector[i], c.a)]
  BY DEF SetCompression
<1>3. PRDF' = PRDF
  BY <1>2 DEF PRDF
<1>4. ASSUME NEW i \in DOMAIN daqBufferVector
      PROVE  Good(Compressing(daqBufferVector[i], c.a), currentBufferSize, c.a, md5_enabled, PRDF)
  BY <1>1, CompressingGood DEF RingInv
<1>5. /\ daqBufferVector' \in Seq(Buffers) /\ Len(daqBufferVector') = Len(daqBufferVector)
      /\ DOMAIN daqBufferVector' = DOMAIN daqBufferVector
      /\ \A i \in DOMAIN daqBufferVector :
           /\ daqBufferVector'[i] = Compressing(daqBufferVector[i], c.a)
           /\ daqBufferVector'[i] \in Buffers /\ daqBufferVector[i] \in Buffers
  <2> DEFINE F(i) == Compressing(daqBufferVector[i], c.a)
  <2>1. daqBufferVector \in Seq(Buffers)
    BY DEF RingInv
  <2>2. \A i \in DOMAIN daqBufferVector : F(i) \in Buffers
    BY <1>4 DEF Good
  <2>3. daqBufferVector' = [i \in DOMAIN daqBufferVector |-> F(i)]
    BY <1>2
  <2> HIDE DEF F
  <2>4. /\ daqBufferVector' \in Seq(Buffers) /\ Len(daqBufferVector') = Len(daqBufferVector)
        /\ DOMAIN daqBufferVector' = DOMAIN daqBufferVector
    BY <2>1, <2>2, <2>3
  <2>5. \A i \in DOMAIN daqBufferVector :
          /\ daqBufferVector'[i] = F(i) /\ daqBufferVector'[i] \in Buffers
          /\ daqBufferVector[i] \in Buffers
    BY <2>1, <2>2, <2>3
  <2> QED
    BY <2>4, <2>5 DEF F
<1>6. ASSUME NEW i \in DOMAIN daqBufferVector
      PROVE  /\ daqBufferVector'[i].max_length = daqBufferVector[i].max_length
             /\ daqBufferVector'[i].max_size = daqBufferVector[i].max_size
  <2> DEFINE b == daqBufferVector[i]
  <2>1. b \in Buffers /\ daqBufferVector'[i] = Compressing(b, c.a)
    BY <1>5
  <2> HIDE DEF b
  <2>2. /\ Compressing(b, c.a).max_length = b.max_length
        /\ Compressing(b, c.a).max_size = b.max_size
    BY <1>1, <2>1, CompressingShape
  <2> QED
    BY <2>1, <2>2 DEF b
<1>7. RingInv'
  <2>1. 1 \in DOMAIN daqBufferVector
    BY DEF RingInv
  <2>2. \A i \in DOMAIN daqBufferVector :
          daqBufferVector'[i].max_size <= daqBufferVector'[1].max_size
    BY <1>6, <2>1 DEF RingInv
  <2> QED
    BY <1>1, <1>2, <1>3, <1>4, <1>5, <2>2 DEF RingInv
<1>8. /\ asked' = [t \in Topics |-> asked'[t]] /\ asked'["compression"] = {c.a}
      /\ \A t \in Topics \ {"compression"} : asked'[t] = asked[t]
  BY <1>2, AskShape, TopicsAre DEF AskedInv
<1>9. ASSUME NEW kb \in asked["maxsize"], NEW i \in DOMAIN daqBufferVector
      PROVE  kb \in Int /\ SizeAsked(daqBufferVector'[i], i, kb)
  BY <1>6 DEF AskedInv, SizeAsked
<1>10. \A mb \in asked["size"] : SizeFor(mb)'
  BY <1>2, SizeForStays
<1> QED
  BY <1>2, <1>5, <1>7, <1>8, <1>9, <1>10, TopicsAre DEF AskedInv

\* The ring is built anew: with the settings as they are.
LEMMA RingAnew ==
  ASSUME RingInv, NEW n \in Int, NEW length \in Int, Rebuild(n, length),
         currentBufferSize' = length,
         UNCHANGED <<processor_count, compression_level, md5_enabled, current_data_format>>
  PROVE  RingInv' /\ nr_of_write_threads' = Threads(n)
<1>1. /\ Threads(n) \in Nat \ {0}
      /\ processor_count >= 3 => Threads(n) \in 2 .. processor_count - 1
  BY ThreadsType DEF RingInv
<1> DEFINE New == Compressing([NewBuffer(length) EXCEPT !.format = current_data_format # 0,
                                                        !.md5 = md5_enabled], compression_level)
<1>2. daqBufferVector' = [i \in 1 .. Threads(n) |-> New] /\ nr_of_write_threads' = Threads(n)
  BY DEF Rebuild, Ring
<1>3. Good(New, length, compression_level, md5_enabled, PRDF)
  <2>1. PRDF \in BOOLEAN /\ PRDF = (current_data_format # 0)
    BY DEF PRDF
  <2> QED
    BY <2>1, NewGood DEF RingInv
<1> HIDE DEF New
<1>4. PRDF' = PRDF
  BY DEF PRDF
<1>5. New \in Buffers
  BY <1>3 DEF Good
<1>6. /\ daqBufferVector' \in Seq(Buffers) /\ Len(daqBufferVector') = Threads(n)
      /\ \A i \in DOMAIN daqBufferVector' : daqBufferVector'[i] = New
  BY <1>1, <1>2, <1>5
<1>7. New.max_size \in Int
  BY <1>5 DEF Buffers
<1>8. \A i \in DOMAIN daqBufferVector' : daqBufferVector'[i].max_size <= daqBufferVector'[1].max_size
  BY <1>1, <1>6, <1>7
<1> QED
  BY <1>1, <1>2, <1>3, <1>4, <1>6, <1>8 DEF RingInv

\* daq_set_nr_threads
LEMMA ThreadsRing ==
  ASSUME RingInv, AskedInv, processor_count' = processor_count,
         NEW c \in Command, SetNrThreads(c), ~DAQ_RUNNING
  PROVE  RingInv' /\ AskedInv'
<1>1. c.a \in Int
  BY DEF Command
<1>2. /\ UNCHANGED <<currentBufferSize, compression_level, md5_enabled, current_data_format>>
      /\ Rebuild(c.a, currentBufferSize)
      /\ asked' = [asked EXCEPT !["threads"] = {c.a}, !["maxsize"] = Unasked]
  BY DEF SetNrThreads, levelVars
<1>3. RingInv' /\ nr_of_write_threads' = Threads(c.a)
  BY <1>1, <1>2, RingAnew DEF RingInv
<1>4. /\ asked' = [t \in Topics |-> asked'[t]]
      /\ asked'["threads"] = {c.a} /\ asked'["maxsize"] = {}
      /\ \A t \in Topics \ {"threads", "maxsize"} : asked'[t] = asked[t]
  BY <1>2, TopicsAre DEF AskedInv, Unasked
<1>5. processor_count >= 3 /\ c.a \in 2 .. processor_count - 1 => Threads(c.a) = c.a
  BY <1>1, ThreadsType DEF RingInv
<1>6. \A mb \in asked["size"] : SizeFor(mb)'
  BY <1>2, SizeForStays
<1> QED
  BY <1>2, <1>3, <1>4, <1>5, <1>6, TopicsAre DEF AskedInv

\* daq_define_buffersize
LEMMA SizeRing ==
  ASSUME RingInv, AskedInv, processor_count' = processor_count,
         NEW c \in Command, DefineBufferSize(c), ~DAQ_RUNNING
  PROVE  RingInv' /\ AskedInv'
<1>1. c.a \in Int
  BY DEF Command
<1> DEFINE length == IF Words(c.a) > AbsoluteMaxSize THEN AbsoluteMaxSize ELSE Words(c.a)
           N == Len(daqBufferVector)
<1>2. /\ length \in Int
      /\ c.a \in 0 .. MaxMegabytes => length = 256 * 1024 * (IF c.a > 512 THEN 512 ELSE c.a)
  <2>1. Wrapped(c.a, Megabytes) \in Int /\ (c.a \in 0 .. MaxMegabytes => Wrapped(c.a, Megabytes) = c.a)
    BY <1>1, Unwrapped
  <2> QED
    BY <1>1, <2>1 DEF Words, AbsoluteMaxSize
<1>3. /\ UNCHANGED <<compression_level, md5_enabled, current_data_format>>
      /\ currentBufferSize' = length /\ Rebuild(N, currentBufferSize')
      /\ asked' = [asked EXCEPT !["size"] = {c.a}, !["maxsize"] = Unasked]
  BY DEF DefineBufferSize, levelVars
<1>4. N \in Nat /\ N = nr_of_write_threads
      /\ (processor_count >= 3 => N \in 2 .. processor_count - 1)
  BY DEF RingInv
<1> HIDE DEF length, N
<1>5. RingInv' /\ nr_of_write_threads' = Threads(N)
  BY <1>2, <1>3, <1>4, RingAnew
<1>6. processor_count >= 3 => nr_of_write_threads' = nr_of_write_threads
  BY <1>4, <1>5, ThreadsType DEF RingInv
<1>7. /\ asked' = [t \in Topics |-> asked'[t]]
      /\ asked'["size"] = {c.a} /\ asked'["maxsize"] = {}
      /\ \A t \in Topics \ {"size", "maxsize"} : asked'[t] = asked[t]
  BY <1>3, TopicsAre DEF AskedInv, Unasked
<1>8. \A mb \in asked'["size"] : SizeFor(mb)'
  <2>1. SizeFor(c.a)'
    BY <1>2, <1>3 DEF SizeFor
  <2> QED
    BY <1>7, <2>1
<1> QED
  BY <1>2, <1>3, <1>5, <1>6, <1>7, <1>8, TopicsAre DEF AskedInv

\* daq_set_maxbuffersize
LEMMA MaxSizeRing ==
  ASSUME RingInv, AskedInv, processor_count' = processor_count,
         NEW c \in Command, SetMaxBufferSize(c), ~DAQ_RUNNING
  PROVE  RingInv' /\ AskedInv'
<1> DEFINE k == Wrapped(c.a, Kilobytes)
           size == IF k = 0 \/ Rounded(c.a) > currentBufferSize THEN currentBufferSize
                   ELSE Rounded(c.a)
<1>1. c.a \in Int
  BY DEF Command
<1>2. /\ UNCHANGED <<nr_of_write_threads, currentBufferSize, compression_level, md5_enabled,
                     current_data_format>>
      /\ daqBufferVector' = [i \in DOMAIN daqBufferVector |-> Sized(daqBufferVector[i], c.a)]
      /\ IF k < 0 THEN UNCHANGED asked ELSE Ask("maxsize", c.a)
  BY DEF SetMaxBufferSize, levelVars
<1> HIDE DEF k
<1>3. PRDF' = PRDF
  BY <1>2 DEF PRDF
<1>4. ASSUME NEW i \in DOMAIN daqBufferVector
      PROVE  /\ Good(Sized(daqBufferVector[i], c.a), currentBufferSize, compression_level,
                     md5_enabled, PRDF)
             /\ SizeAsked(Sized(daqBufferVector[i], c.a), i, c.a)
             /\ IF k < 0 THEN Sized(daqBufferVector[i], c.a) = daqBufferVector[i]
                ELSE Sized(daqBufferVector[i], c.a).max_size = size
  <2> DEFINE b == daqBufferVector[i]
             d == Sized(b, c.a)
  <2>1. /\ Good(b, currentBufferSize, compression_level, md5_enabled, PRDF)
        /\ currentBufferSize \in Int
    BY DEF RingInv
  <2> HIDE DEF b
  <2>2. /\ Good(d, currentBufferSize, compression_level, md5_enabled, PRDF)
        /\ c.a \in 0 .. MaxKilobytes => d.max_size = Limited(currentBufferSize, c.a)
        /\ IF k < 0 THEN d = b ELSE d.max_size = size
    BY <1>1, <2>1, SizedGood DEF k
  <2> HIDE DEF d
  <2>3. SizeAsked(d, i, c.a)
    BY <2>2 DEF SizeAsked, Good
  <2> QED
    BY <2>2, <2>3 DEF b, d
<1> HIDE DEF size
<1>5. /\ daqBufferVector' \in Seq(Buffers) /\ Len(daqBufferVector') = Len(daqBufferVector)
      /\ DOMAIN daqBufferVector' = DOMAIN daqBufferVector /\ 1 \in DOMAIN daqBufferVector
      /\ \A i \in DOMAIN daqBufferVector :
           /\ daqBufferVector'[i] = Sized(daqBufferVector[i], c.a)
           /\ daqBufferVector'[i] \in Buffers
  BY <1>2, <1>4 DEF Good, RingInv
<1>6. \A i \in DOMAIN daqBufferVector :
        daqBufferVector'[i].max_size <= daqBufferVector'[1].max_size
  <2>1. CASE k < 0
    BY <1>4, <1>5, <2>1 DEF RingInv
  <2>2. CASE ~(k < 0)
    <3>1. \A i \in DOMAIN daqBufferVector :
            daqBufferVector'[i].max_size = size /\ daqBufferVector'[i].max_size \in Int
      BY <1>4, <1>5, <2>2 DEF Buffers
    <3>2. size \in Int
      BY <1>5, <3>1
    <3> QED
      BY <1>5, <3>1, <3>2
  <2> QED
    BY <2>1, <2>2
<1>7. RingInv'
  BY <1>2, <1>3, <1>4, <1>5, <1>6 DEF RingInv
<1>8. \A mb \in asked["size"] : SizeFor(mb)'
  BY <1>2, SizeForStays
<1>9. CASE k < 0
  <2>1. asked' = asked /\ \A i \in DOMAIN daqBufferVector : daqBufferVector'[i] = daqBufferVector[i]
    BY <1>2, <1>4, <1>5, <1>9
  <2>2. \A kb \in asked["maxsize"], i \in DOMAIN daqBufferVector' :
          kb \in Int /\ SizeAsked(daqBufferVector'[i], i, kb)
    BY <1>5, <2>1 DEF AskedInv
  <2> QED
    BY <1>2, <1>7, <1>8, <2>1, <2>2 DEF AskedInv
<1>10. CASE ~(k < 0)
  <2>1. /\ asked' = [t \in Topics |-> asked'[t]] /\ asked'["maxsize"] = {c.a}
        /\ \A t \in Topics \ {"maxsize"} : asked'[t] = asked[t]
    BY <1>2, <1>10, AskShape, TopicsAre DEF AskedInv
  <2>2. \A i \in DOMAIN daqBufferVector' : SizeAsked(daqBufferVector'[i], i, c.a)
    BY <1>4, <1>5
  <2> QED
    BY <1>1, <1>2, <1>7, <1>8, <2>1, <2>2, TopicsAre DEF AskedInv
<1> QED
  BY <1>7, <1>9, <1>10

\* The format of a buffer is set, ...
LEMMA FormatShape ==
  ASSUME NEW b, NEW length, NEW flag, NEW md5, NEW prdf, NEW new \in BOOLEAN,
         Good(b, length, flag, md5, prdf)
  PROVE  /\ Good([b EXCEPT !.format = new], length, flag, md5, new)
         /\ [b EXCEPT !.format = new].max_length = b.max_length
         /\ [b EXCEPT !.format = new].max_size = b.max_size
<1> DEFINE c == [b EXCEPT !.format = new]
<1>1. /\ c \in Buffers /\ c.max_length = b.max_length /\ c.max_size = b.max_size
      /\ c.compression = b.compression /\ c.md5 = b.md5 /\ c.format = new
      /\ c.wrkmem = b.wrkmem /\ c.outputarray = b.outputarray
  BY DEF Good, Buffers
<1> HIDE DEF c
<1>2. Good(c, length, flag, md5, new)
  BY <1>1 DEF Good, CanCompress
<1> QED
  BY <1>1, <1>2 DEF c

\* ... or its checksum.
LEMMA ChecksumShape ==
  ASSUME NEW b, NEW length, NEW flag, NEW md5, NEW prdf, NEW new \in BOOLEAN,
         Good(b, length, flag, md5, prdf)
  PROVE  /\ Good([b EXCEPT !.md5 = new], length, flag, new, prdf)
         /\ [b EXCEPT !.md5 = new].max_length = b.max_length
         /\ [b EXCEPT !.md5 = new].max_size = b.max_size
<1> DEFINE c == [b EXCEPT !.md5 = new]
<1>1. /\ c \in Buffers /\ c.max_length = b.max_length /\ c.max_size = b.max_size
      /\ c.compression = b.compression /\ c.md5 = new /\ c.format = b.format
      /\ c.wrkmem = b.wrkmem /\ c.outputarray = b.outputarray
  BY DEF Good, Buffers
<1> HIDE DEF c
<1>2. Good(c, length, flag, new, prdf)
  BY <1>1 DEF Good, CanCompress
<1> QED
  BY <1>1, <1>2 DEF c

\* daq_set_eventformat
LEMMA FormatRing ==
  ASSUME RingInv, AskedInv, processor_count' = processor_count,
         NEW c \in Command, SetEventFormat(c), ~(DAQ_RUNNING \/ DeviceList # <<>>)
  PROVE  RingInv' /\ AskedInv'
<1> DEFINE new == c.a # 0
<1>1. /\ UNCHANGED <<nr_of_write_threads, currentBufferSize, compression_level, md5_enabled>>
      /\ daqBufferVector' = [i \in DOMAIN daqBufferVector |->
                               [daqBufferVector[i] EXCEPT !.format = new]]
      /\ current_data_format' = c.a /\ Ask("format", c.a)
  BY DEF SetEventFormat, levelVars
<1>2. PRDF' = new /\ new \in BOOLEAN
  BY <1>1 DEF PRDF
<1> HIDE DEF new
<1>3. ASSUME NEW i \in DOMAIN daqBufferVector
      PROVE  /\ Good(daqBufferVector'[i], currentBufferSize, compression_level, md5_enabled, new)
             /\ daqBufferVector'[i].max_length = daqBufferVector[i].max_length
             /\ daqBufferVector'[i].max_size = daqBufferVector[i].max_size
             /\ daqBufferVector[i] \in Buffers
  <2> DEFINE b == daqBufferVector[i]
  <2>1. /\ Good(b, currentBufferSize, compression_level, md5_enabled, PRDF)
        /\ daqBufferVector'[i] = [b EXCEPT !.format = new]
    BY <1>1 DEF RingInv
  <2> HIDE DEF b
  <2>2. /\ Good([b EXCEPT !.format = new], currentBufferSize, compression_level, md5_enabled, new)
        /\ [b EXCEPT !.format = new].max_length = b.max_length
        /\ [b EXCEPT !.format = new].max_size = b.max_size
    BY <1>2, <2>1, FormatShape
  <2>3. b \in Buffers
    BY <2>1 DEF Good
  <2> QED
    BY <2>1, <2>2, <2>3 DEF b
<1>4. /\ daqBufferVector' \in Seq(Buffers) /\ Len(daqBufferVector') = Len(daqBufferVector)
      /\ DOMAIN daqBufferVector' = DOMAIN daqBufferVector
      /\ \A i \in DOMAIN daqBufferVector :
           /\ Good(daqBufferVector'[i], currentBufferSize, compression_level, md5_enabled, new)
           /\ daqBufferVector'[i].max_length = daqBufferVector[i].max_length
           /\ daqBufferVector'[i].max_size = daqBufferVector[i].max_size
           /\ daqBufferVector'[i] \in Buffers /\ daqBufferVector[i] \in Buffers
           /\ daqBufferVector'[i].max_size <= daqBufferVector'[1].max_size
  <2>1. /\ DOMAIN daqBufferVector = 1 .. Len(daqBufferVector) /\ Len(daqBufferVector) \in Nat
        /\ DOMAIN daqBufferVector' = DOMAIN daqBufferVector
    BY <1>1 DEF RingInv
  <2>2. \A i \in DOMAIN daqBufferVector : daqBufferVector'[i] \in Buffers
    BY <1>3 DEF Good
  <2>3. daqBufferVector' = [i \in 1 .. Len(daqBufferVector) |-> daqBufferVector'[i]]
    BY <1>1, <2>1
  <2>4. daqBufferVector' \in Seq(Buffers) /\ Len(daqBufferVector') = Len(daqBufferVector)
    BY <2>1, <2>2, <2>3
  <2>5. 1 \in DOMAIN daqBufferVector
    BY <2>1 DEF RingInv
  <2>6. \A i \in DOMAIN daqBufferVector :
          daqBufferVector'[i].max_size <= daqBufferVector'[1].max_size
    BY <1>3, <2>5 DEF RingInv
  <2> QED
    BY <1>3, <2>1, <2>2, <2>4, <2>6
<1>5. RingInv'
  BY <1>1, <1>2, <1>4 DEF RingInv
<1>6. /\ asked' = [t \in Topics |-> asked'[t]] /\ asked'["format"] = {c.a}
      /\ \A t \in Topics \ {"format"} : asked'[t] = asked[t]
  BY <1>1, AskShape, TopicsAre DEF AskedInv
<1>7. \A kb \in asked["maxsize"], i \in DOMAIN daqBufferVector :
        kb \in Int /\ SizeAsked(daqBufferVector'[i], i, kb)
  BY <1>4 DEF AskedInv, SizeAsked
<1>8. \A mb \in asked["size"] : SizeFor(mb)'
  BY <1>1, SizeForStays
<1> QED
  BY <1>1, <1>4, <1>5, <1>6, <1>7, <1>8, TopicsAre DEF AskedInv

\* daq_set_md5enable, if that is allowed
LEMMA ChecksumRing ==
  ASSUME RingInv, AskedInv, processor_count' = processor_count,
         NEW c \in Command, SetMD5Enable(c), ~DAQ_RUNNING, md5_allow_turnoff
  PROVE  RingInv' /\ AskedInv'
<1> DEFINE new == c.a # 0
<1>1. /\ UNCHANGED <<nr_of_write_threads, currentBufferSize, compression_level,
                     current_data_format>>
      /\ daqBufferVector' = [i \in DOMAIN daqBufferVector |->
                               [daqBufferVector[i] EXCEPT !.md5 = new]]
      /\ md5_enabled' = new /\ Ask("md5", c.a)
  BY DEF SetMD5Enable
<1>2. PRDF' = PRDF /\ new \in BOOLEAN /\ new = (c.a # 0)
  BY <1>1 DEF PRDF
<1> HIDE DEF new
<1>3. ASSUME NEW i \in DOMAIN daqBufferVector
      PROVE  /\ Good(daqBufferVector'[i], currentBufferSize, compression_level, new, PRDF)
             /\ daqBufferVector'[i].max_length = daqBufferVector[i].max_length
             /\ daqBufferVector'[i].max_size = daqBufferVector[i].max_size
             /\ daqBufferVector[i] \in Buffers
  <2> DEFINE b == daqBufferVector[i]
  <2>1. /\ Good(b, currentBufferSize, compression_level, md5_enabled, PRDF)
        /\ daqBufferVector'[i] = [b EXCEPT !.md5 = new]
    BY <1>1 DEF RingInv
  <2> HIDE DEF b
  <2>2. /\ Good([b EXCEPT !.md5 = new], currentBufferSize, compression_level, new, PRDF)
        /\ [b EXCEPT !.md5 = new].max_length = b.max_length
        /\ [b EXCEPT !.md5 = new].max_size = b.max_size
    BY <1>2, <2>1, ChecksumShape
  <2>3. b \in Buffers
    BY <2>1 DEF Good
  <2> QED
    BY <2>1, <2>2, <2>3 DEF b
<1>4. /\ daqBufferVector' \in Seq(Buffers) /\ Len(daqBufferVector') = Len(daqBufferVector)
      /\ DOMAIN daqBufferVector' = DOMAIN daqBufferVector
      /\ \A i \in DOMAIN daqBufferVector :
           /\ Good(daqBufferVector'[i], currentBufferSize, compression_level, new, PRDF)
           /\ daqBufferVector'[i].max_length = daqBufferVector[i].max_length
           /\ daqBufferVector'[i].max_size = daqBufferVector[i].max_size
           /\ daqBufferVector'[i] \in Buffers /\ daqBufferVector[i] \in Buffers
           /\ daqBufferVector'[i].max_size <= daqBufferVector'[1].max_size
  <2>1. /\ DOMAIN daqBufferVector = 1 .. Len(daqBufferVector) /\ Len(daqBufferVector) \in Nat
        /\ DOMAIN daqBufferVector' = DOMAIN daqBufferVector
    BY <1>1 DEF RingInv
  <2>2. \A i \in DOMAIN daqBufferVector : daqBufferVector'[i] \in Buffers
    BY <1>3 DEF Good
  <2>3. daqBufferVector' = [i \in 1 .. Len(daqBufferVector) |-> daqBufferVector'[i]]
    BY <1>1, <2>1
  <2>4. daqBufferVector' \in Seq(Buffers) /\ Len(daqBufferVector') = Len(daqBufferVector)
    BY <2>1, <2>2, <2>3
  <2>5. 1 \in DOMAIN daqBufferVector
    BY <2>1 DEF RingInv
  <2>6. \A i \in DOMAIN daqBufferVector :
          daqBufferVector'[i].max_size <= daqBufferVector'[1].max_size
    BY <1>3, <2>5 DEF RingInv
  <2> QED
    BY <1>3, <2>1, <2>2, <2>4, <2>6
<1>5. RingInv'
  BY <1>1, <1>2, <1>4 DEF RingInv
<1>6. /\ asked' = [t \in Topics |-> asked'[t]] /\ asked'["md5"] = {c.a}
      /\ \A t \in Topics \ {"md5"} : asked'[t] = asked[t]
  BY <1>1, AskShape, TopicsAre DEF AskedInv
<1>7. \A kb \in asked["maxsize"], i \in DOMAIN daqBufferVector :
        kb \in Int /\ SizeAsked(daqBufferVector'[i], i, kb)
  BY <1>4 DEF AskedInv, SizeAsked
<1>8. \A flag \in asked'["md5"] : md5_enabled' = (flag # 0)
  BY <1>1, <1>2, <1>6
<1>9. \A mb \in asked["size"] : SizeFor(mb)'
  BY <1>1, SizeForStays
<1> QED
  BY <1>1, <1>4, <1>5, <1>6, <1>7, <1>8, <1>9, TopicsAre DEF AskedInv

---------------------------------------------------------------------------
(* All settings, step by step                                              *)

\* The settings that are stored as they come are those that were asked for.
StoredInv ==
  /\ stored = [name \in Stored |-> stored[name]]
  /\ uservalues = [i \in 0 .. 7 |-> uservalues[i]]
  /\ \A rule \in asked["rule"] : TheFileRule = rule
  /\ \A u \in asked["uservalue"] : uservalues[u[1]] = u[2]
  /\ \A name \in Stored : \A v \in asked[name] : stored[name] = Meaning(name, v)

EffectInv == RingInv /\ AskedInv /\ StoredInv

RingTopics == {"compression", "md5", "format", "size", "maxsize", "threads"}
StoredTopics == Stored \cup {"rule", "uservalue"}

\* A step that is not about the ring, or not about what is stored.
RingIdle ==
  /\ UNCHANGED <<daqBufferVector, nr_of_write_threads, currentBufferSize, compression_level,
                 md5_enabled, current_data_format, processor_count>>
  /\ asked' = [t \in Topics |-> asked'[t]]
  /\ \A t \in RingTopics : asked'[t] = asked[t]

StoredIdle ==
  /\ UNCHANGED <<stored, uservalues, TheFileRule>>
  /\ \A t \in StoredTopics : asked'[t] = asked[t]

LEMMA Topical ==
  /\ RingTopics \subseteq Topics /\ StoredTopics \subseteq Topics
  /\ RingTopics \cap StoredTopics = {} /\ Stored \subseteq StoredTopics
BY DEF RingTopics, StoredTopics, Topics, Stored

LEMMA RingStays ==
  ASSUME RingInv, AskedInv, RingIdle
  PROVE  RingInv' /\ AskedInv'
<1>1. PRDF' = PRDF
  BY DEF PRDF, RingIdle
<1>2. RingInv'
  BY <1>1 DEF RingIdle, RingInv
<1>3. /\ asked'["compression"] = asked["compression"] /\ asked'["md5"] = asked["md5"]
      /\ asked'["format"] = asked["format"] /\ asked'["size"] = asked["size"]
      /\ asked'["maxsize"] = asked["maxsize"] /\ asked'["threads"] = asked["threads"]
  BY DEF RingIdle, RingTopics
<1>4. AskedInv'
  <2>1. \A mb \in asked["size"] : SizeFor(mb)'
    BY SizeForStays DEF RingIdle
  <2> QED
    BY <1>3, <2>1 DEF RingIdle, AskedInv
<1> QED
  BY <1>2, <1>4

LEMMA StoredStays ==
  ASSUME StoredInv, StoredIdle
  PROVE  StoredInv'
<1>1. /\ asked'["rule"] = asked["rule"] /\ asked'["uservalue"] = asked["uservalue"]
      /\ \A name \in Stored : asked'[name] = asked[name]
  BY DEF StoredIdle, StoredTopics
<1> QED
  BY <1>1 DEF StoredIdle, StoredInv

\* What a command asks for changes one topic of asked.
LEMMA AskedTopics ==
  ASSUME AskedInv, NEW topic \in Topics, NEW value, Ask(topic, value)
  PROVE  /\ asked' = [t \in Topics |-> asked'[t]]
         /\ asked'[topic] = {value} /\ \A t \in Topics \ {topic} : asked'[t] = asked[t]
         /\ topic \notin RingTopics => \A t \in RingTopics : asked'[t] = asked[t]
         /\ topic \notin StoredTopics => \A t \in StoredTopics : asked'[t] = asked[t]
<1>1. /\ asked' = [t \in Topics |-> asked'[t]]
      /\ asked'[topic] = {value} /\ \A t \in Topics \ {topic} : asked'[t] = asked[t]
  BY AskShape DEF AskedInv
<1> QED
  BY <1>1, Topical

\* A setting that is stored as it comes.
LEMMA RuleStored ==
  ASSUME EffectInv, NEW rule, Ask("rule", rule), TheFileRule' = rule,
         UNCHANGED <<stored, uservalues>>
  PROVE  StoredInv' /\ asked' = [t \in Topics |-> asked'[t]]
         /\ \A t \in RingTopics : asked'[t] = asked[t]
<1>1. "rule" \in Topics /\ "rule" \notin RingTopics /\ "rule" \notin Stored
  BY DEF Topics, RingTopics, Stored
<1>2. /\ asked' = [t \in Topics |-> asked'[t]]
      /\ asked'["rule"] = {rule} /\ \A t \in Topics \ {"rule"} : asked'[t] = asked[t]
      /\ \A t \in RingTopics : asked'[t] = asked[t]
  BY <1>1, AskedTopics DEF EffectInv
<1>3. asked'["uservalue"] = asked["uservalue"] /\ \A name \in Stored : asked'[name] = asked[name]
  BY <1>1, <1>2, Topical, TopicsAre DEF StoredTopics
<1> QED
  BY <1>2, <1>3 DEF EffectInv, StoredInv

LEMMA ValueStored ==
  ASSUME EffectInv, NEW i \in 0 .. 7, NEW value, Ask("uservalue", <<i, value>>),
         uservalues' = [uservalues EXCEPT ![i] = value], UNCHANGED <<stored, TheFileRule>>
  PROVE  StoredInv' /\ asked' = [t \in Topics |-> asked'[t]]
         /\ \A t \in RingTopics : asked'[t] = asked[t]
<1>1. "uservalue" \in Topics /\ "uservalue" \notin RingTopics /\ "uservalue" \notin Stored
  BY DEF Topics, RingTopics, Stored
<1>2. /\ asked' = [t \in Topics |-> asked'[t]]
      /\ asked'["uservalue"] = {<<i, value>>}
      /\ \A t \in Topics \ {"uservalue"} : asked'[t] = asked[t]
      /\ \A t \in RingTopics : asked'[t] = asked[t]
  BY <1>1, AskedTopics DEF EffectInv
<1>3. asked'["rule"] = asked["rule"] /\ \A name \in Stored : asked'[name] = asked[name]
  BY <1>1, <1>2, Topical, TopicsAre DEF StoredTopics
<1>4. uservalues' = [j \in 0 .. 7 |-> uservalues'[j]] /\ uservalues'[i] = value
  BY DEF EffectInv, StoredInv
<1> QED
  BY <1>2, <1>3, <1>4 DEF EffectInv, StoredInv

LEMMA NameStored ==
  ASSUME EffectInv, NEW name \in Stored, NEW value, NEW wanted,
         stored' = [stored EXCEPT ![name] = value], UNCHANGED <<uservalues, TheFileRule>>,
         asked' = [asked EXCEPT ![name] = wanted],
         \A v \in wanted : value = Meaning(name, v)
  PROVE  StoredInv' /\ asked' = [t \in Topics |-> asked'[t]]
         /\ \A t \in RingTopics : asked'[t] = asked[t]
<1>1. name \in Topics /\ name \notin RingTopics /\ name # "rule" /\ name # "uservalue"
  BY DEF Topics, RingTopics, Stored
<1>2. asked = [t \in Topics |-> asked[t]]
  BY DEF EffectInv, AskedInv
<1>3. /\ asked' = [t \in Topics |-> asked'[t]]
      /\ asked'[name] = wanted /\ \A t \in Topics \ {name} : asked'[t] = asked[t]
  BY <1>1, <1>2
<1>4. /\ asked'["rule"] = asked["rule"] /\ asked'["uservalue"] = asked["uservalue"]
      /\ \A other \in Stored \ {name} : asked'[other] = asked[other]
      /\ \A t \in RingTopics : asked'[t] = asked[t]
  BY <1>1, <1>3, Topical, TopicsAre DEF StoredTopics
<1>5. /\ stored' = [other \in Stored |-> stored'[other]] /\ stored'[name] = value
      /\ \A other \in Stored \ {name} : stored'[other] = stored[other]
  BY DEF EffectInv, StoredInv
<1> QED
  BY <1>3, <1>4, <1>5 DEF EffectInv, StoredInv

LEMMA NothingDone ==
  ASSUME EffectInv, UNCHANGED <<processor_count, settings, current_data_format, asked>>
  PROVE  EffectInv'
<1>1. RingIdle
  BY DEF EffectInv, AskedInv, RingIdle, settings, ringVars, levelVars
<1>2. StoredIdle
  BY DEF StoredIdle, settings, typeVars
<1> QED
  BY <1>1, <1>2, RingStays, StoredStays DEF EffectInv

\* The commands about rules and names
LEMMA NamingEffect ==
  ASSUME EffectInv, processor_count' = processor_count,
         NEW c \in Command, NamingCommand(c)
  PROVE  EffectInv'
<1>1. CASE Refused(c)
  BY <1>1, NothingDone DEF Refused
<1>2. ASSUME NEW rule, Ask("rule", rule), TheFileRule' = rule,
             UNCHANGED <<stored, uservalues, ringVars, currentBufferSize, levelVars,
                         current_data_format>>
      PROVE  EffectInv'
  <2>1. StoredInv' /\ asked' = [t \in Topics |-> asked'[t]]
        /\ \A t \in RingTopics : asked'[t] = asked[t]
    BY <1>2, RuleStored
  <2>2. RingIdle
    BY <1>2, <2>1 DEF RingIdle, ringVars, levelVars
  <2> QED
    BY <2>1, <2>2, RingStays DEF EffectInv
<1>3. CASE SetFilerule(c) /\ ~DAQ_RUNNING
  BY <1>2, <1>3 DEF SetFilerule
<1>4. CASE SetRuntype(c) /\ ~DAQ_RUNNING
  <2>1. CASE RunTypes[c.a] = 0
    BY <1>4, <2>1, NothingDone DEF SetRuntype
  <2>2. CASE RunTypes[c.a] # 0
    BY <1>2, <1>4, <2>2 DEF SetRuntype
  <2> QED
    BY <2>1, <2>2
<1>5. CASE DefineRuntype(c)
  <2>1. RingIdle /\ StoredIdle
    BY <1>5 DEF DefineRuntype, RingIdle, StoredIdle, EffectInv, AskedInv, ringVars, levelVars
  <2> QED
    BY <2>1, RingStays, StoredStays DEF EffectInv
<1> QED
  BY <1>1, <1>3, <1>4, <1>5 DEF NamingCommand, SetFilerule, SetRuntype

\* The commands about writing
LEMMA WritingEffect ==
  ASSUME EffectInv, processor_count' = processor_count,
         NEW c \in Command, WritingCommand(c)
  PROVE  EffectInv'
<1>1. CASE Refused(c)
  BY <1>1, NothingDone DEF Refused
<1>2. ASSUME NEW topic \in RingTopics, NEW value, Ask(topic, value),
             UNCHANGED <<stored, uservalues, typeVars>>
      PROVE  StoredIdle
  <2>1. topic \in Topics /\ topic \notin StoredTopics
    BY Topical
  <2> QED
    BY <1>2, <2>1, AskedTopics DEF EffectInv, StoredIdle, typeVars
<1>3. {"compression", "md5"} \subseteq RingTopics
  BY DEF RingTopics
<1>4. CASE SetCompression(c) /\ ~DAQ_RUNNING
  <2>1. StoredIdle
    BY <1>2, <1>3, <1>4 DEF SetCompression
  <2> QED
    BY <1>4, <2>1, CompressionRing, StoredStays DEF EffectInv
<1>5. CASE SetNrThreads(c) /\ ~DAQ_RUNNING
  <2>1. asked' = [asked EXCEPT !["threads"] = {c.a}, !["maxsize"] = Unasked]
        /\ UNCHANGED <<stored, uservalues, TheFileRule>>
    BY <1>5 DEF SetNrThreads, typeVars
  <2>2. \A t \in StoredTopics : asked'[t] = asked[t]
    BY <2>1, Topical DEF EffectInv, AskedInv, RingTopics
  <2>3. StoredIdle
    BY <2>1, <2>2 DEF StoredIdle
  <2> QED
    BY <1>5, <2>3, ThreadsRing, StoredStays DEF EffectInv
<1>6. CASE SetMD5Enable(c) /\ ~DAQ_RUNNING /\ md5_allow_turnoff
  <2>1. StoredIdle
    BY <1>2, <1>3, <1>6 DEF SetMD5Enable
  <2> QED
    BY <1>6, <2>1, ChecksumRing, StoredStays DEF EffectInv
<1>7. CASE SetMD5AllowTurnoff(c) \/ (SetMD5Enable(c) /\ ~DAQ_RUNNING /\ ~md5_allow_turnoff)
  <2>1. RingIdle /\ StoredIdle
    BY <1>7 DEF SetMD5AllowTurnoff, SetMD5Enable, RingIdle, StoredIdle, EffectInv, AskedInv,
                ringVars, typeVars
  <2> QED
    BY <2>1, RingStays, StoredStays DEF EffectInv
<1> QED
  BY <1>1, <1>4, <1>5, <1>6, <1>7
     DEF WritingCommand, SetCompression, SetNrThreads, SetMD5Enable

\* The commands about sizes
LEMMA LimitEffect ==
  ASSUME EffectInv, processor_count' = processor_count,
         NEW c \in Command, LimitCommand(c)
  PROVE  EffectInv'
<1>1. CASE Refused(c)
  BY <1>1, NothingDone DEF Refused
<1>2. CASE SetMaxBufferSize(c) /\ ~DAQ_RUNNING
  <2>1. "maxsize" \in Topics /\ "maxsize" \notin StoredTopics
    BY Topical DEF RingTopics
  <2>2. StoredIdle
    <3>1. CASE asked' = asked
      BY <1>2, <3>1 DEF SetMaxBufferSize, StoredIdle, typeVars
    <3>2. CASE Ask("maxsize", c.a)
      BY <1>2, <2>1, <3>2, AskedTopics DEF SetMaxBufferSize, StoredIdle, typeVars, EffectInv
    <3> QED
      BY <1>2, <3>1, <3>2 DEF SetMaxBufferSize
  <2> QED
    BY <1>2, <2>2, MaxSizeRing, StoredStays DEF EffectInv
<1>3. CASE DefineBufferSize(c) /\ ~DAQ_RUNNING
  <2>1. asked' = [asked EXCEPT !["size"] = {c.a}, !["maxsize"] = Unasked]
        /\ UNCHANGED <<stored, uservalues, TheFileRule>>
    BY <1>3 DEF DefineBufferSize, typeVars
  <2>2. \A t \in StoredTopics : asked'[t] = asked[t]
    BY <2>1, Topical DEF EffectInv, AskedInv, RingTopics
  <2>3. StoredIdle
    BY <2>1, <2>2 DEF StoredIdle
  <2> QED
    BY <1>3, <2>3, SizeRing, StoredStays DEF EffectInv
<1> QED
  BY <1>1, <1>2, <1>3 DEF LimitCommand, SetMaxBufferSize, DefineBufferSize

\* The format and the user's values
LEMMA ModeEffect ==
  ASSUME EffectInv, processor_count' = processor_count,
         NEW c \in Command, ModeCommand(c)
  PROVE  EffectInv'
<1>1. CASE Refused(c)
  BY <1>1, NothingDone DEF Refused
<1>2. CASE SetEventFormat(c) /\ ~(DAQ_RUNNING \/ DeviceList # <<>>)
  <2>1. "format" \in Topics /\ "format" \notin StoredTopics
    BY Topical DEF RingTopics
  <2>2. StoredIdle
    BY <1>2, <2>1, AskedTopics DEF SetEventFormat, StoredIdle, typeVars, EffectInv
  <2> QED
    BY <1>2, <2>2, FormatRing, StoredStays DEF EffectInv
<1>3. CASE SetUservalue(c) /\ c.a \in 0 .. 7
  <2>1. StoredInv' /\ asked' = [t \in Topics |-> asked'[t]]
        /\ \A t \in RingTopics : asked'[t] = asked[t]
    BY <1>3, ValueStored DEF SetUservalue, typeVars
  <2>2. RingIdle
    BY <1>3, <2>1 DEF SetUservalue, RingIdle, ringVars, levelVars
  <2> QED
    BY <2>1, <2>2, RingStays DEF EffectInv
<1> QED
  BY <1>1, <1>2, <1>3 DEF ModeCommand, SetEventFormat, SetUservalue

\* The commands that store what they are given
LEMMA StoreEffect ==
  ASSUME EffectInv, processor_count' = processor_count,
         NEW c \in Command, c.name \in Stored, Store(c)
  PROVE  EffectInv'
<1>1. CASE Refused(c)
  BY <1>1, NothingDone DEF Refused
<1> DEFINE Kept(value, wanted) ==
             /\ stored' = [stored EXCEPT ![c.name] = value]
             /\ asked' = [asked EXCEPT ![c.name] = wanted]
             /\ \A v \in wanted : value = Meaning(c.name, v)
<1>2. ASSUME NEW value, NEW wanted, Kept(value, wanted),
             UNCHANGED <<ringVars, currentBufferSize, levelVars, typeVars, uservalues,
                         current_data_format>>
      PROVE  EffectInv'
  <2>1. StoredInv' /\ asked' = [t \in Topics |-> asked'[t]]
        /\ \A t \in RingTopics : asked'[t] = asked[t]
    BY <1>2, NameStored DEF typeVars
  <2>2. RingIdle
    BY <1>2, <2>1 DEF RingIdle, ringVars, levelVars
  <2> QED
    BY <2>1, <2>2, RingStays DEF EffectInv
<1>3. ~Refused(c) => Kept(Meaning(c.name, c.a), {c.a}) \/ Kept(0, Unasked)
  BY DEF Store, Ask, Unasked
<1>4. ~Refused(c) => UNCHANGED <<ringVars, currentBufferSize, levelVars, typeVars, uservalues,
                                 current_data_format>>
  BY DEF Store
<1> HIDE DEF Kept
<1> QED
  BY <1>1, <1>2, <1>3, <1>4

\* daq_begin may enlarge the first buffer, which keeps what it was made for.
LEMMA BeginEffect ==
  ASSUME ListInv, EffectInv, processor_count' = processor_count, Begin
  PROVE  EffectInv'
<1>1. UNCHANGED <<nr_of_write_threads, currentBufferSize, levelVars, typeVars, uservalues,
                  stored, asked, current_data_format>>
  BY DEF Begin, BeginRun
<1>2. StoredInv'
  <2>1. StoredIdle
    BY <1>1 DEF StoredIdle, typeVars
  <2> QED
    BY <2>1, StoredStays DEF EffectInv
<1>3. CASE UNCHANGED daqBufferVector
  <2>1. RingIdle
    BY <1>1, <1>3 DEF RingIdle, levelVars, EffectInv, AskedInv
  <2> QED
    BY <1>2, <2>1, RingStays DEF EffectInv
<1>4. CASE ~UNCHANGED daqBufferVector
  <2> DEFINE b == daqBufferVector[1]
  <2>1. PICK n \in TooSmall : daqBufferVector' = [daqBufferVector EXCEPT ![1] = Resized(@, n)]
    BY <1>4 DEF Begin
  <2>2. n \in Int /\ n > 4 * b.max_size
    <3>1. PICK e \in EventType : n = 4 * Declared(e) + 4 * 32
      BY <2>1 DEF TooSmall, Needed
    <3>2. n \in Int
      BY <3>1, DeclaredIs
    <3> QED
      BY <2>1, <3>2 DEF TooSmall
  <2>3. /\ 1 \in DOMAIN daqBufferVector /\ currentBufferSize \in Int
        /\ Good(b, currentBufferSize, compression_level, md5_enabled, PRDF)
    BY DEF EffectInv, RingInv
  <2> DEFINE c == Resized(b, n)
  <2> HIDE DEF b
  <2>4. /\ Good(c, currentBufferSize, compression_level, md5_enabled, PRDF)
        /\ c.max_size >= b.max_size
    BY <2>2, <2>3, ResizedGood
  <2>5. c \in Buffers /\ b \in Buffers /\ c.max_length = b.max_length
    BY <2>3, <2>4 DEF Good
  <2> HIDE DEF c
  <2>6. daqBufferVector' = [daqBufferVector EXCEPT ![1] = c]
    BY <2>1 DEF b, c
  <2>7. /\ daqBufferVector' \in Seq(Buffers) /\ Len(daqBufferVector') = Len(daqBufferVector)
        /\ DOMAIN daqBufferVector' = DOMAIN daqBufferVector /\ daqBufferVector'[1] = c
        /\ \A i \in DOMAIN daqBufferVector \ {1} : daqBufferVector'[i] = daqBufferVector[i]
    BY <2>3, <2>5, <2>6 DEF EffectInv, RingInv
  <2>8. PRDF' = PRDF
    BY <1>1 DEF PRDF
  <2>9. RingInv'
    <3>1. /\ b = daqBufferVector[1] /\ b.max_size \in Int /\ c.max_size \in Int
          /\ \A i \in DOMAIN daqBufferVector : daqBufferVector[i].max_size \in Int
      <4>1. \A i \in DOMAIN daqBufferVector : daqBufferVector[i] \in Buffers
        BY DEF EffectInv, RingInv, Good
      <4> QED
        BY <2>5, <4>1 DEF Buffers, b
    <3>2. \A i \in DOMAIN daqBufferVector' :
            daqBufferVector'[i].max_size <= daqBufferVector'[1].max_size
      BY <2>4, <2>7, <3>1 DEF EffectInv, RingInv
    <3> QED
      BY <1>1, <2>4, <2>7, <2>8, <3>2 DEF EffectInv, RingInv, levelVars
  <2>10. ASSUME NEW kb \in asked["maxsize"]
         PROVE  SizeAsked(c, 1, kb)
    <3>1. SizeAsked(b, 1, kb) /\ kb \in Int
      BY <2>3 DEF EffectInv, AskedInv, b
    <3>2. /\ Limited(b.max_length, kb) \in Int /\ Limited(c.max_length, kb) = Limited(b.max_length, kb)
          /\ b.max_size \in Int /\ c.max_size \in Int
      BY <2>5, <3>1 DEF Limited, Buffers
    <3> QED
      BY <2>4, <3>1, <3>2 DEF SizeAsked
  <2>11. \A kb \in asked["maxsize"], i \in DOMAIN daqBufferVector' :
           kb \in Int /\ SizeAsked(daqBufferVector'[i], i, kb)
    BY <2>7, <2>10 DEF EffectInv, AskedInv
  <2>12. AskedInv'
    <3>1. \A mb \in asked["size"] : SizeFor(mb)'
      BY <1>1, SizeForStays DEF EffectInv
    <3> QED
      BY <1>1, <2>11, <3>1 DEF EffectInv, AskedInv, levelVars
  <2> QED
    BY <1>2, <2>9, <2>12 DEF EffectInv
<1> QED
  BY <1>3, <1>4

LEMMA EffectInit ==
  ASSUME Init
  PROVE  EffectInv
<1>1. /\ processor_count \in Cores /\ currentBufferSize \in Int /\ compression_level \in Int
      /\ md5_enabled \in BOOLEAN /\ nr_of_write_threads = Threads(2)
      /\ daqBufferVector = Ring(2, currentBufferSize)
  BY DEF Init, Words
<1>2. /\ Threads(2) \in Nat \ {0}
      /\ processor_count >= 3 => Threads(2) \in 2 .. processor_count - 1
  BY <1>1, ThreadsType
<1> DEFINE New == Compressing([NewBuffer(currentBufferSize) EXCEPT
                       !.format = current_data_format # 0, !.md5 = md5_enabled], compression_level)
<1>3. daqBufferVector = [i \in 1 .. Threads(2) |-> New]
  BY <1>1 DEF Ring
<1>4. Good(New, currentBufferSize, compression_level, md5_enabled, PRDF)
  <2>1. PRDF \in BOOLEAN /\ PRDF = (current_data_format # 0)
    BY DEF PRDF
  <2> QED
    BY <1>1, <2>1, NewGood
<1> HIDE DEF New
<1>5. RingInv
  <2>1. New \in Buffers
    BY <1>4 DEF Good
  <2>2. /\ daqBufferVector \in Seq(Buffers) /\ Len(daqBufferVector) = Threads(2)
        /\ \A i \in DOMAIN daqBufferVector : daqBufferVector[i] = New
    BY <1>2, <1>3, <2>1
  <2>3. New.max_size \in Int
    BY <2>1 DEF Buffers
  <2>4. \A i \in DOMAIN daqBufferVector : daqBufferVector[i].max_size <= daqBufferVector[1].max_size
    BY <1>2, <2>2, <2>3
  <2> QED
    BY <1>1, <1>2, <1>4, <2>2, <2>4 DEF RingInv
<1>6. \A t \in Topics : asked[t] = {}
  BY DEF Init, Unasked
<1>7. AskedInv
  BY <1>6, TopicsAre DEF Init, AskedInv
<1>8. StoredInv
  <2>1. asked["rule"] = {} /\ asked["uservalue"] = {} /\ \A name \in Stored : asked[name] = {}
    BY <1>6, TopicsAre DEF Topics
  <2> QED
    BY <2>1 DEF Init, StoredInv, Start
<1> QED
  BY <1>5, <1>7, <1>8 DEF EffectInv

LEMMA EffectNext ==
  ASSUME ListInv, EffectInv, [Next]_vars
  PROVE  EffectInv'
<1>1. processor_count' = processor_count
  BY DEF Next, vars
<1>2. CASE Execute
  <2>1. PICK c \in Commands[usage] :
          IF ~Accepts(c) THEN Refused(c) /\ UNCHANGED listVars
          ELSE \/ Setting(c) /\ UNCHANGED listVars
               \/ c.name = "daq_clear_readlist" /\ Clear(c)
    BY <1>2 DEF Execute
  <2>2. c \in Command
    BY <2>1, SettingsAssumption DEF ListInv
  <2>3. CASE Refused(c)
    BY <1>1, <2>3, NothingDone DEF Refused
  <2>4. CASE Setting(c)
    <3>1. CASE Query(c)
      BY <1>1, <3>1, NothingDone DEF Query
    <3> QED
      BY <1>1, <2>2, <2>4, <3>1, NamingEffect, WritingEffect, LimitEffect, ModeEffect, StoreEffect
         DEF Setting
  <2>5. CASE Clear(c) /\ ~DAQ_RUNNING
    BY <1>1, <2>5, NothingDone DEF Clear, ClearReadlist
  <2> QED
    BY <2>1, <2>3, <2>4, <2>5 DEF Clear
<1>3. CASE Create
  <2>1. PICK r \in Requests[usage] : CreateDevice(r)
    BY <1>3 DEF Create
  <2> QED
    BY <1>1, <1>3, <2>1, NothingDone DEF Create, CreateDevice
<1>4. CASE Begin
  BY <1>1, <1>4, BeginEffect
<1>5. CASE Run
  <2>1. current_data_format' = current_data_format
    BY <1>5 DEF Run, EndRun, NextEvent, AddSubevent, EventDone
  <2> QED
    BY <1>1, <1>5, <2>1, NothingDone DEF Run
<1>6. CASE UNCHANGED vars
  BY <1>1, <1>6, NothingDone DEF vars
<1>7. CASE EndServer \/ Unreachable
  BY <1>1, <1>7, NothingDone DEF EndServer, Unreachable
<1> QED
  BY <1>2, <1>3, <1>4, <1>5, <1>6, <1>7 DEF Next

LEMMA EffectCorrect == Spec => []EffectInv
<1>1. Init => EffectInv
  BY EffectInit
<1>2. ListInv /\ EffectInv /\ [Next]_vars => EffectInv'
  BY EffectNext
<1> QED
  BY <1>1, <1>2, ListCorrect, PTL DEF Spec

\* InEffect: what the operator was told is set is in effect, in every buffer of
\* the ring, in whatever order the commands came; for any number of cores, any
\* values of the settings, and any number of times the ring is built anew.
THEOREM SettingsInEffect == Spec => []InEffect
<1>1. EffectInv => InEffect
  <2> SUFFICES ASSUME EffectInv PROVE InEffect
    OBVIOUS
  <2>1. 1 \in DOMAIN daqBufferVector
    BY DEF EffectInv, RingInv
  <2>2. /\ Json.threads = nr_of_write_threads /\ Json.size = daqBufferVector[1].max_size
        /\ Json.compression = daqBufferVector[1].compression
        /\ Json.md5 = daqBufferVector[1].md5
    BY DEF Json
  <2>3. Long.format = (current_data_format # 0)
    BY DEF Long
  <2>4. ASSUME NEW i \in DOMAIN daqBufferVector
        PROVE  BufferInEffect(i)
    <3> DEFINE b == daqBufferVector[i]
               first == daqBufferVector[1]
    <3>1. /\ Good(b, currentBufferSize, compression_level, md5_enabled, PRDF)
          /\ Good(first, currentBufferSize, compression_level, md5_enabled, PRDF)
      BY <2>1 DEF EffectInv, RingInv
    <3>2. /\ b.max_size <= Json.size /\ b.compression = Json.compression
          /\ b.md5 = Json.md5 /\ b.format = Long.format
      BY <2>2, <2>3, <3>1 DEF Good, PRDF, EffectInv, RingInv
    <3>3. /\ \A flag \in asked["compression"] : b.compression = Level(flag)
          /\ \A flag \in asked["md5"] : b.md5 = (flag # 0)
          /\ \A flag \in asked["format"] : b.format = (flag # 0)
          /\ \A mb \in asked["size"] \cap 0 .. MaxMegabytes :
               b.max_length = 256 * 1024 * (IF mb > 512 THEN 512 ELSE mb)
      <4>1. \A mb \in asked["size"] : SizeFor(mb)
        BY DEF EffectInv, AskedInv
      <4>2. \A mb \in asked["size"] \cap 0 .. MaxMegabytes :
              b.max_length = 256 * 1024 * (IF mb > 512 THEN 512 ELSE mb)
        BY <3>1, <4>1 DEF Good, SizeFor
      <4>3. /\ \A flag \in asked["compression"] : b.compression = Level(flag)
            /\ \A flag \in asked["md5"] : b.md5 = (flag # 0)
            /\ \A flag \in asked["format"] : b.format = (flag # 0)
        BY <3>1 DEF Good, PRDF, EffectInv, AskedInv
      <4> QED
        BY <4>2, <4>3
    <3>4. SizeInEffect(i)
      BY DEF EffectInv, AskedInv, SizeInEffect, SizeAsked
    <3>5. CanCompress(b)
      BY <3>1 DEF Good
    <3> QED
      BY <3>2, <3>3, <3>4, <3>5 DEF BufferInEffect
  <2>5. /\ Len(daqBufferVector) = Json.threads
        /\ processor_count >= 3 =>
             /\ Json.threads \in 2 .. processor_count - 1
             /\ \A n \in asked["threads"] \cap 2 .. processor_count - 1 : Json.threads = n
    BY <2>2 DEF EffectInv, RingInv, AskedInv
  <2> QED
    BY <2>4, <2>5 DEF InEffect, EffectInv, StoredInv
<1> QED
  BY <1>1, EffectCorrect, PTL

===========================================================================
