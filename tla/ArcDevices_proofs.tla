-------------------------- MODULE ArcDevices_proofs --------------------------
(***************************************************************************)
(* Theorems about ArcDevices, for any number of devices, any device lists, *)
(* times, sizes and buffers.                                               *)
(***************************************************************************)
EXTENDS ArcDevices, SequenceTheorems, TLAPS

-----------------------------------------------------------------------------
(* The inductive invariant. *)

(* With controllers, devlist names devices that have one; without, nothing of
   the history is left. *)
Known0 ==
  /\ ncon > 0 => Members(devlist) \subseteq 0 .. ncon - 1
  /\ ncon = 0 => sized = {} /\ mapped = {}

(* The devices for which buffer last succeeded have the buffer that the host
   believes. *)
BufferKept == \A d \in mapped : dev[d].buffer = bufsize

Inv ==
  /\ TypeOK /\ Known0 /\ AllOrNothing /\ TimesAgree
  /\ SizeIsRead /\ BufferKept /\ FramesFit /\ LoadedRuns /\ LoadReported

-----------------------------------------------------------------------------
(* Records: what a changed field leaves alone. *)

(* A controller that does not exist, and a new one. *)
LEMMA NoControllerIs ==
  /\ NoController \in Controller
  /\ NoController.firmwareloaded = FALSE
  /\ NoController.exposure_time = Unset
  BY DEF NoController, Controller

LEMMA NewControllerIs ==
  ASSUME NEW c \in BOOLEAN, NEW s \in Sizes \cup {0}, NEW r, r = NewController(c, s)
  PROVE  /\ r \in Controller
         /\ r.connected = c /\ r.firmwareloaded = FALSE /\ r.exposure_time = Unset
  BY DEF NewController, Controller

(* A device that is closed, opened, given a size, a buffer or a firmware. *)
LEMMA ClosedDevice ==
  ASSUME NEW r \in Device, NEW q, q = [r EXCEPT !.open = FALSE, !.buffer = 0]
  PROVE  q \in Device /\ q.open = FALSE
  BY DEF Device

LEMMA OpenedDevice ==
  ASSUME NEW r \in Device, NEW b \in BOOLEAN, NEW q, q = [r EXCEPT !.open = b]
  PROVE  q \in Device /\ q.open = b
  BY DEF Device

LEMMA SizedDevice ==
  ASSUME NEW r \in Device, NEW s \in Sizes, NEW q, q = [r EXCEPT !.size = s]
  PROVE  /\ q \in Device /\ q.size = s
         /\ q.open = r.open /\ q.firmware = r.firmware /\ q.buffer = r.buffer
  BY DEF Device

LEMMA BufferedDevice ==
  ASSUME NEW r \in Device, NEW b \in Buffers \cup {0}, NEW q, q = [r EXCEPT !.buffer = b]
  PROVE  /\ q \in Device /\ q.buffer = b
         /\ q.open = r.open /\ q.firmware = r.firmware /\ q.size = r.size
  BY DEF Device

(* A controller that is given a time, a name, a size or a firmware. *)
LEMMA TimedController ==
  ASSUME NEW r \in Controller, NEW t \in Times, NEW q, q = [r EXCEPT !.exposure_time = t]
  PROVE  /\ q \in Controller /\ q.exposure_time = t
         /\ q.connected = r.connected /\ q.firmwareloaded = r.firmwareloaded /\ q.size = r.size
  BY DEF Controller

LEMMA NamedController ==
  ASSUME NEW r \in Controller, NEW q, q = [r EXCEPT !.readout_name = "amp"]
  PROVE  /\ q \in Controller /\ q.exposure_time = r.exposure_time
         /\ q.connected = r.connected /\ q.firmwareloaded = r.firmwareloaded /\ q.size = r.size
  BY DEF Controller

LEMMA SizedController ==
  ASSUME NEW r \in Controller, NEW s \in Sizes \cup {0}, NEW q, q = [r EXCEPT !.size = s]
  PROVE  /\ q \in Controller /\ q.exposure_time = r.exposure_time
         /\ q.connected = r.connected /\ q.firmwareloaded = r.firmwareloaded /\ q.size = s
  BY DEF Controller

LEMMA LoadedController ==
  ASSUME NEW r \in Controller, NEW f \in BOOLEAN, NEW q, q = [r EXCEPT !.firmwareloaded = f]
  PROVE  /\ q \in Controller /\ q.exposure_time = r.exposure_time
         /\ q.connected = r.connected /\ q.firmwareloaded = f /\ q.size = r.size
  BY DEF Controller

-----------------------------------------------------------------------------
(* Helpers. *)

(* A list of devices, as a client sends it, names numbers. *)
LEMMA MembersAreNumbers ==
  ASSUME NEW s \in Seq(Nat)
  PROVE  Members(s) \in SUBSET Nat
<1>1. DOMAIN s = 1 .. Len(s)
  BY LenProperties
<1>2. \A i \in DOMAIN s : s[i] \in Nat
  BY <1>1, ElementOfSeq
<1>. QED
  BY <1>2 DEF Members

(* Devices that a command is sent to are devices of the host. *)
LEMMA SentToDevices ==
  ASSUME TypeOK, NEW devices \in SUBSET Nat, Sendable(devices)
  PROVE  /\ ncon > 0 /\ devices \subseteq Dev
         /\ \A d \in devices : d \in 0 .. ncon - 1
<1>1. NumDev \in Nat /\ numdev \in 0 .. NumDev /\ ncon \in 0 .. numdev
  BY ArcDevicesAssumption DEF TypeOK
<1>2. devices # {} /\ \A d \in devices : d \in Nat /\ d < ncon
  BY DEF Sendable, Known
<1>3. \A d \in devices : d \in 0 .. ncon - 1 /\ d \in Dev
  BY <1>1, <1>2 DEF Dev
<1>4. PICK d \in devices : d \in Nat /\ d < ncon
  BY <1>2
<1>5. ncon > 0
  BY <1>1, <1>4
<1>. QED
  BY <1>3, <1>5

(* The list that Selected gives consists of numbers. *)
LEMMA SelectedNumbers ==
  ASSUME TypeOK, NEW arg \in Selections
  PROVE  Members(Selected(arg)) \in SUBSET Nat
<1>1. arg \in Seq(Nat) /\ devlist \in Seq(Nat)
  BY ArcDevicesAssumption DEF TypeOK
<1>. QED
  BY <1>1, MembersAreNumbers DEF Selected

-----------------------------------------------------------------------------
(* Steps that several commands have in common. *)

(* A command that changes nothing but its result. *)
LEMMA NothingChanges ==
  ASSUME Inv, UNCHANGED <<host, con, frames, dev, history>>, result' \in {NoError, Error}
  PROVE  Inv'
<1>. USE DEF host, frames, history
<1>1. TypeOK'
  <2>1. result' \in Results
    BY DEF Results
  <2>. QED
    BY <2>1 DEF Inv, TypeOK
<1>2. Known0' /\ BufferKept'
  BY DEF Inv, Known0, BufferKept, Members
<1>3. AllOrNothing' /\ TimesAgree'
  BY DEF Inv, AllOrNothing, TimesAgree, IsConnected, Members
<1>4. SizeIsRead' /\ LoadedRuns'
  BY DEF Inv, SizeIsRead, LoadedRuns
<1>5. FramesFit' /\ LoadReported'
  BY DEF FramesFit, LoadReported, NoError, Error, Exposes, Loads
<1>. QED
  BY <1>1, <1>2, <1>3, <1>4, <1>5 DEF Inv

(* disconnect_controller. *)
LEMMA DisconnectedStep ==
  ASSUME Inv, Disconnected, bufsize' \in Buffers \cup {0}, nframes' \in 1 .. 2,
         result' \in {NoError, Error}
  PROVE  Inv'
<1>. USE DEF Disconnected
<1>1. devlist' = <<>> /\ Members(devlist') = {}
  BY DEF Members
<1>2. TypeOK'
  <2>1. con' \in [Dev -> Controller]
    BY NoControllerIs
  <2>2. dev' \in [Dev -> Device]
    <3>1. ASSUME NEW d \in Dev
          PROVE  dev'[d] \in Device
      <4>1. dev[d] \in Device /\ dev'[d] = [dev[d] EXCEPT !.open = FALSE, !.buffer = 0]
        BY DEF Closed, Inv, TypeOK
      <4>. QED
        BY <4>1, ClosedDevice
    <3>. QED
      BY <3>1 DEF Closed
  <2>3. numdev' \in 0 .. NumDev /\ ncon' \in 0 .. numdev' /\ devlist' \in Seq(Nat)
    BY ArcDevicesAssumption, EmptySeq
  <2>4. result' \in Results
    BY DEF Results
  <2>. QED
    BY <2>1, <2>2, <2>3, <2>4 DEF TypeOK
<1>3. Known0' /\ BufferKept' /\ SizeIsRead'
  BY DEF Known0, BufferKept, SizeIsRead
<1>4. AllOrNothing'
  <2>1. ASSUME NEW d \in Dev
        PROVE  ~dev'[d].open
    <3>1. dev[d] \in Device /\ dev'[d] = [dev[d] EXCEPT !.open = FALSE, !.buffer = 0]
      BY DEF Closed, Inv, TypeOK
    <3>. QED
      BY <3>1, ClosedDevice
  <2>2. ncon' = 0
    OBVIOUS
  <2>. QED
    BY <2>1, <2>2 DEF AllOrNothing
<1>5. TimesAgree' /\ LoadedRuns'
  <2>1. \A d \in Dev : con'[d].firmwareloaded = FALSE
    BY NoControllerIs
  <2>. QED
    BY <2>1 DEF TimesAgree, LoadedRuns
<1>6. FramesFit' /\ LoadReported'
  BY DEF FramesFit, LoadReported, NoError, Error, Exposes, Loads
<1>. QED
  BY <1>2, <1>3, <1>4, <1>5, <1>6 DEF Inv

LEMMA TerminatesStep ==
  ASSUME Inv, Terminates
  PROVE  Inv'
<1>1. Disconnected /\ bufsize' \in Buffers \cup {0} /\ nframes' \in 1 .. 2
        /\ result' \in {NoError, Error}
  BY DEF Terminates
<1>. QED
  BY <1>1, DisconnectedStep

LEMMA FailsStep ==
  ASSUME Inv, Fails
  PROVE  Inv'
  BY NothingChanges DEF Fails

(* open.  Without controllers, the history is empty. *)
LEMMA ConnectStep ==
  ASSUME Inv, NEW req \in Requests, Connect(req)
  PROVE  Inv'
<1>1. PICK n \in 1 .. NumDev, how \in [Dev -> {"connected", "unconnected", "throws"}] :
        LET list == Requested(req, n) IN
        \/ /\ Served(list, n, how)
           /\ numdev' = n /\ ncon' = n /\ devlist' = list
           /\ \E size \in [0 .. n - 1 -> Sizes \cup {0}] :
                con' = [d \in Dev |-> IF d < n THEN NewController(d \in Members(list) /\ how[d] = "connected",
                                                             size[d])
                                      ELSE NoController]
           /\ dev' = [d \in Dev |-> [dev[d] EXCEPT !.open = d \in Members(list)]]
           /\ result' = NoError
           /\ UNCHANGED history
        \/ ~Served(list, n, how) /\ Disconnected /\ result' = Error
  BY DEF Connect
<1>2. UNCHANGED frames /\ ncon = 0
  BY DEF Connect
<1>3. CASE ~Served(Requested(req, n), n, how) /\ Disconnected /\ result' = Error
  <2>1. bufsize' \in Buffers \cup {0} /\ nframes' \in 1 .. 2
    BY <1>2 DEF frames, Inv, TypeOK
  <2>. QED
    BY <1>3, <2>1, DisconnectedStep
<1>4. CASE /\ Served(Requested(req, n), n, how)
           /\ numdev' = n /\ ncon' = n /\ devlist' = Requested(req, n)
           /\ \E size \in [0 .. n - 1 -> Sizes \cup {0}] :
                con' = [d \in Dev |-> IF d < n THEN NewController(d \in Members(Requested(req, n)) /\ how[d] = "connected",
                                                             size[d])
                                      ELSE NoController]
           /\ dev' = [d \in Dev |-> [dev[d] EXCEPT !.open = d \in Members(Requested(req, n))]]
           /\ result' = NoError
           /\ UNCHANGED history
  <2>. DEFINE list == Requested(req, n)
  <2>1. NumDev \in Nat /\ n \in Nat /\ n > 0 /\ n <= NumDev
    BY ArcDevicesAssumption
  <2>2. list \in Seq(Nat)
    <3>1. req \in Seq(Nat) /\ devlist \in Seq(Nat)
      BY ArcDevicesAssumption DEF Inv, TypeOK
    <3>2. [i \in 1 .. n |-> i - 1] \in Seq(Nat)
      BY <2>1, IsASeq
    <3>. QED
      BY <3>1, <3>2, ConcatProperties DEF Requested
  <2>3. \A i \in DOMAIN list : list[i] < n /\ how[list[i]] = "connected"
    BY <1>4 DEF Served
  <2>4. \A d \in Members(list) : d \in 0 .. n - 1 /\ d \in Dev /\ how[d] = "connected"
    <3>1. \A d \in Members(list) : d \in Nat /\ d < n /\ how[d] = "connected"
      BY <2>2, <2>3, MembersAreNumbers DEF Members
    <3>. QED
      BY <3>1, <2>1 DEF Dev
  <2>5. PICK size \in [0 .. n - 1 -> Sizes \cup {0}] :
          con' = [d \in Dev |-> IF d < n THEN NewController(d \in Members(list) /\ how[d] = "connected",
                                                       size[d])
                                ELSE NoController]
    BY <1>4
  <2>6. ASSUME NEW d \in Dev, d < n
        PROVE  /\ con'[d] \in Controller
               /\ con'[d].connected = (d \in Members(list) /\ how[d] = "connected")
               /\ con'[d].firmwareloaded = FALSE /\ con'[d].exposure_time = Unset
    <3>1. size[d] \in Sizes \cup {0}
      BY <2>1, <2>6 DEF Dev
    <3>2. con'[d] = NewController(d \in Members(list) /\ how[d] = "connected", size[d])
      BY <2>5, <2>6
    <3>. QED
      BY ZenonT(40), <3>1, <3>2, NewControllerIs
  <2>7. ASSUME NEW d \in Dev, ~(d < n)
        PROVE  con'[d] \in Controller /\ con'[d].firmwareloaded = FALSE
    BY <2>5, <2>7, NoControllerIs
  <2>8. con' \in [Dev -> Controller]
    <3>1. \A d \in Dev : con'[d] \in Controller
      BY <2>6, <2>7
    <3>2. con' = [d \in Dev |-> con'[d]]
      BY <2>5
    <3>. QED
      BY <3>1, <3>2
  <2>9. ASSUME NEW d \in Dev
        PROVE  dev'[d] \in Device /\ dev'[d].open = (d \in Members(list))
    <3>. DEFINE open == d \in Members(list)
    <3>1. dev[d] \in Device
      BY DEF Inv, TypeOK
    <3>2. dev'[d] = [dev[d] EXCEPT !.open = open]
      BY <1>4
    <3>3. open \in BOOLEAN
      OBVIOUS
    <3>4. dev'[d] \in Device /\ dev'[d].open = open
      <4>. HIDE DEF open
      <4>. QED
        BY <3>1, <3>2, <3>3, OpenedDevice
    <3>. QED
      BY <3>4
  <2>10. TypeOK'
    <3>1. dev' \in [Dev -> Device]
      BY <1>4, <2>9
    <3>2. numdev' \in 0 .. NumDev /\ ncon' \in 0 .. numdev' /\ devlist' \in Seq(Nat)
      BY <1>4, <2>1, <2>2
    <3>3. result' \in Results
      BY <1>4 DEF Results
    <3>. QED
      BY <3>1, <3>2, <3>3, <2>8, <1>2, <1>4 DEF Inv, TypeOK, frames, history
  <2>11. Members(devlist') = Members(list)
    BY <1>4
  <2>12. sized' = {} /\ mapped' = {}
    BY <1>4, <1>2 DEF Inv, Known0, history
  <2>13. Known0' /\ SizeIsRead' /\ BufferKept'
    <3>1. Members(devlist)' = Members(list)
      BY <2>11 DEF Members
    <3>2. Members(list) \subseteq 0 .. ncon' - 1 /\ ncon' # 0
      BY <2>4, <2>1, <1>4
    <3>. QED
      BY <3>1, <3>2, <2>12 DEF Known0, SizeIsRead, BufferKept
  <2>14. AllOrNothing' /\ TimesAgree'
    <3>1. Members(devlist)' = Members(list) /\ ncon' = n
      BY <2>11, <1>4 DEF Members
    <3>2. ASSUME NEW d \in Members(list)
          PROVE  con'[d].connected /\ con'[d].exposure_time = Unset
      <4>1. d \in Dev /\ d < n /\ how[d] = "connected"
        BY <2>4, <2>1
      <4>2. con'[d].connected = TRUE /\ con'[d].exposure_time = Unset
        BY <4>1, <2>6
      <4>. QED
        BY <4>2
    <3>3. \A d \in Members(list) : dev'[d].open
      BY <2>4, <2>9
    <3>4. devlist' # <<>>
      <4>1. CASE req = <<>>
        <5>1. Len(list) = Len(devlist) + n /\ Len(devlist) \in Nat
          BY <4>1, <2>1, ConcatProperties, ArcDevicesAssumption, LenProperties, IsASeq
             DEF Requested, Inv, TypeOK
        <5>. QED
          BY <5>1, <2>1, <1>4, LenProperties, EmptySeq
      <4>2. CASE req # <<>>
        <5>1. req \in Seq(Nat) /\ devlist \in Seq(Nat)
          BY ArcDevicesAssumption DEF Inv, TypeOK
        <5>2. Len(list) = Len(devlist) + Len(req) /\ Len(devlist) \in Nat /\ Len(req) \in Nat
          BY <4>2, <5>1, ConcatProperties, LenProperties DEF Requested
        <5>3. Len(req) # 0
          BY <4>2, <5>1, EmptySeq
        <5>. QED
          BY <5>2, <5>3, <1>4, EmptySeq
      <4>. QED
        BY <4>1, <4>2
    <3>5. IsConnected'
      BY <3>1, <3>2, <3>4 DEF IsConnected
    <3>6. \A d \in Dev : dev'[d].open => d \in Members(list)
      BY <2>9
    <3>7. AllOrNothing'
      BY <3>1, <3>3, <3>5, <3>6, <2>1 DEF AllOrNothing
    <3>8. TimesAgree'
      BY <3>1, <3>2 DEF TimesAgree
    <3>. QED
      BY <3>7, <3>8
  <2>15. FramesFit' /\ LoadReported'
    BY <1>4 DEF FramesFit, LoadReported, NoError, Exposes, Loads
  <2>16. LoadedRuns'
    <3>1. \A d \in Dev : con'[d].firmwareloaded = FALSE
      BY <2>6, <2>7
    <3>. QED
      BY <3>1 DEF LoadedRuns
  <2>. QED
    BY <2>10, <2>13, <2>14, <2>15, <2>16 DEF Inv
<1>. QED
  BY <1>1, <1>3, <1>4

(* A list with a bad token, and no device at all: there are no controllers. *)
LEMMA ConnectBadStep ==
  ASSUME Inv, NEW req \in BadRequests, ConnectBad(req)
  PROVE  Inv'
<1>. USE DEF ConnectBad, frames, history
<1>1. devlist' \in Seq(Nat)
  BY ArcDevicesAssumption, ConcatProperties DEF Inv, TypeOK
<1>2. TypeOK'
  BY <1>1, ArcDevicesAssumption DEF Inv, TypeOK, Results
<1>3. Known0' /\ BufferKept' /\ SizeIsRead' /\ TimesAgree'
  BY DEF Inv, Known0, BufferKept, SizeIsRead, TimesAgree
<1>4. AllOrNothing' /\ LoadedRuns'
  BY DEF Inv, AllOrNothing, LoadedRuns
<1>5. FramesFit' /\ LoadReported'
  BY DEF FramesFit, LoadReported, Error, Exposes, Loads
<1>. QED
  BY <1>2, <1>3, <1>4, <1>5 DEF Inv

LEMMA ConnectNoneStep ==
  ASSUME Inv, ConnectNone
  PROVE  Inv'
<1>. USE DEF ConnectNone, frames, history
<1>2. TypeOK'
  BY ArcDevicesAssumption DEF Inv, TypeOK, Results
<1>3. Known0' /\ BufferKept' /\ SizeIsRead' /\ TimesAgree'
  BY DEF Inv, Known0, BufferKept, SizeIsRead, TimesAgree
<1>4. AllOrNothing' /\ LoadedRuns'
  BY DEF Inv, AllOrNothing, LoadedRuns
<1>5. FramesFit' /\ LoadReported'
  BY DEF FramesFit, LoadReported, Error, Exposes, Loads
<1>. QED
  BY <1>2, <1>3, <1>4, <1>5 DEF Inv

LEMMA DisconnectStep ==
  ASSUME Inv, Disconnect
  PROVE  Inv'
<1>1. Disconnected /\ bufsize' \in Buffers \cup {0} /\ nframes' \in 1 .. 2
        /\ result' \in {NoError, Error}
  BY DEF Disconnect, frames, Inv, TypeOK
<1>. QED
  BY <1>1, DisconnectedStep

-----------------------------------------------------------------------------
(* Commands for the devices. *)

(* A command that leaves devlist and what is open alone. *)
LEMMA KeepsConnections ==
  ASSUME Inv, UNCHANGED host,
         \A d \in Dev : con'[d].connected = con[d].connected /\ dev'[d].open = dev[d].open
  PROVE  AllOrNothing'
<1>1. Members(devlist)' = Members(devlist) /\ ncon' = ncon /\ (devlist # <<>>)' = (devlist # <<>>)
  BY DEF host, Members
<1>2. ncon > 0 => Members(devlist) \subseteq Dev
  BY ArcDevicesAssumption DEF Inv, Known0, TypeOK, Dev
<1>3. ncon > 0 => IsConnected'
  BY <1>1, <1>2 DEF Inv, AllOrNothing, IsConnected
<1>4. ncon > 0 => \A d \in Members(devlist) : dev'[d].open
  BY <1>2 DEF Inv, AllOrNothing
<1>5. \A d \in Dev : dev'[d].open => ncon > 0 /\ d \in Members(devlist)
  BY DEF Inv, AllOrNothing
<1>. QED
  BY <1>1, <1>3, <1>4, <1>5 DEF AllOrNothing

(* ... and the exposure times. *)
LEMMA KeepsTimes ==
  ASSUME Inv, UNCHANGED host,
         \A d \in Dev : con'[d].exposure_time = con[d].exposure_time
  PROVE  TimesAgree'
<1>1. Members(devlist)' = Members(devlist) /\ ncon' = ncon
  BY DEF host, Members
<1>2. ncon > 0 => Members(devlist) \subseteq Dev
  BY ArcDevicesAssumption DEF Inv, Known0, TypeOK, Dev
<1>. QED
  BY <1>1, <1>2 DEF Inv, TimesAgree

LEMMA ExptimeStep ==
  ASSUME Inv, NEW t \in Times, Exptime(t)
  PROVE  Inv'
<1>1. CASE ncon = 0 /\ (Terminates \/ Fails)
  BY <1>1, TerminatesStep, FailsStep
<1>2. CASE /\ Sendable(Members(devlist))
           /\ \E done \in Answers(Members(devlist)) :
                con' = [d \in Dev |-> IF d \in Members(devlist)
                                      THEN [con[d] EXCEPT !.exposure_time = TimeKept(d, t, done)]
                                      ELSE con[d]]
           /\ result' = NoError
           /\ UNCHANGED <<host, frames, dev, history>>
  <2>1. con' = [d \in Dev |-> IF d \in Members(devlist)
                              THEN [con[d] EXCEPT !.exposure_time = t] ELSE con[d]]
    BY <1>2 DEF TimeKept
  <2>2. ASSUME NEW d \in Dev
        PROVE  /\ con'[d] \in Controller
               /\ con'[d].connected = con[d].connected
               /\ con'[d].firmwareloaded = con[d].firmwareloaded
               /\ con'[d].size = con[d].size
               /\ d \in Members(devlist) => con'[d].exposure_time = t
    <3>1. con[d] \in Controller
      BY DEF Inv, TypeOK
    <3>2. CASE d \in Members(devlist)
      <4>1. con'[d] = [con[d] EXCEPT !.exposure_time = t]
        BY <2>1, <3>2
      <4>. QED
        BY <3>1, <4>1, TimedController
    <3>3. CASE d \notin Members(devlist)
      BY <3>1, <3>3, <2>1
    <3>. QED
      BY <3>2, <3>3
  <2>3. TypeOK'
    <3>1. con' \in [Dev -> Controller]
      BY <2>1, <2>2
    <3>. QED
      BY <3>1, <1>2 DEF Inv, TypeOK, Results, host, frames, history
  <2>4. Known0' /\ BufferKept'
    BY <1>2 DEF Inv, Known0, BufferKept, Members, host, frames, history
  <2>5. AllOrNothing'
    BY <1>2, <2>2, KeepsConnections
  <2>6. TimesAgree'
    <3>1. Members(devlist)' = Members(devlist)
      BY <1>2 DEF host, Members
    <3>2. Members(devlist) \subseteq Dev
      BY <1>2, SentToDevices, MembersAreNumbers DEF Inv, TypeOK
    <3>. QED
      BY <3>1, <3>2, <2>2 DEF TimesAgree
  <2>7. SizeIsRead' /\ LoadedRuns'
    BY <1>2, <2>2 DEF Inv, TypeOK, SizeIsRead, LoadedRuns, history
  <2>8. FramesFit' /\ LoadReported'
    BY <1>2 DEF FramesFit, LoadReported, NoError, Exposes, Loads
  <2>. QED
    BY <2>3, <2>4, <2>5, <2>6, <2>7, <2>8 DEF Inv
<1>. QED
  BY <1>1, <1>2 DEF Exptime

LEMMA ReadoutStep ==
  ASSUME Inv, NEW arg \in Selections, Readout(arg)
  PROVE  Inv'
<1>. DEFINE sel == Selected(arg)
<1>1. CASE Fails
  BY <1>1, FailsStep
<1>2. CASE Terminates
  BY <1>2, TerminatesStep
<1>3. CASE /\ \E k \in DOMAIN sel :
                /\ con' = [d \in Dev |-> IF \E i \in 1 .. k : d = sel[i]
                                         THEN [con[d] EXCEPT !.readout_name = "amp"] ELSE con[d]]
                /\ result' \in {NoError, Error}
           /\ UNCHANGED <<host, frames, dev, history>>
  <2>1. PICK named \in SUBSET Dev :
          con' = [d \in Dev |-> IF d \in named
                                THEN [con[d] EXCEPT !.readout_name = "amp"] ELSE con[d]]
    <3>1. PICK k \in DOMAIN sel :
            con' = [d \in Dev |-> IF \E i \in 1 .. k : d = sel[i]
                                  THEN [con[d] EXCEPT !.readout_name = "amp"] ELSE con[d]]
      BY <1>3
    <3>2. {d \in Dev : \E i \in 1 .. k : d = sel[i]} \in SUBSET Dev
      OBVIOUS
    <3>3. con' = [d \in Dev |-> IF d \in {e \in Dev : \E i \in 1 .. k : e = sel[i]}
                                THEN [con[d] EXCEPT !.readout_name = "amp"] ELSE con[d]]
      BY <3>1, Zenon
    <3>. QED
      BY <3>2, <3>3
  <2>2. ASSUME NEW d \in Dev
        PROVE  /\ con'[d] \in Controller
               /\ con'[d].connected = con[d].connected
               /\ con'[d].firmwareloaded = con[d].firmwareloaded
               /\ con'[d].exposure_time = con[d].exposure_time
               /\ con'[d].size = con[d].size
    <3>1. con[d] \in Controller
      BY DEF Inv, TypeOK
    <3>2. CASE d \in named
      <4>1. con'[d] = [con[d] EXCEPT !.readout_name = "amp"]
        BY <2>1, <3>2
      <4>. QED
        BY <3>1, <4>1, NamedController
    <3>3. CASE d \notin named
      BY <3>1, <3>3, <2>1
    <3>. QED
      BY <3>2, <3>3
  <2>3. TypeOK'
    <3>1. con' \in [Dev -> Controller]
      BY <2>1, <2>2
    <3>2. result' \in Results
      BY <1>3 DEF Results
    <3>. QED
      BY <3>1, <3>2, <1>3 DEF Inv, TypeOK, host, frames, history
  <2>4. Known0' /\ BufferKept'
    BY <1>3 DEF Inv, Known0, BufferKept, Members, host, frames, history
  <2>5. AllOrNothing' /\ TimesAgree'
    BY <1>3, <2>2, KeepsConnections, KeepsTimes
  <2>7. SizeIsRead' /\ LoadedRuns'
    BY <1>3, <2>2 DEF Inv, TypeOK, SizeIsRead, LoadedRuns, history
  <2>8. FramesFit' /\ LoadReported'
    BY <1>3 DEF FramesFit, LoadReported, NoError, Error, Exposes, Loads
  <2>. QED
    BY <2>3, <2>4, <2>5, <2>7, <2>8 DEF Inv
<1>. QED
  BY <1>1, <1>2, <1>3 DEF Readout

LEMMA GeometryStep ==
  ASSUME Inv, NEW arg \in Selections, NEW s \in Sizes, Geometry(arg, s)
  PROVE  Inv'
<1>. DEFINE sel == Selected(arg)
<1>1. CASE Fails
  BY <1>1, FailsStep
<1>2. CASE Terminates
  BY <1>2, TerminatesStep
<1>3. CASE /\ Sendable(Members(sel))
           /\ \E written, read \in Answers(Members(sel)) :
                /\ dev' = [d \in Dev |-> IF d \in written THEN [dev[d] EXCEPT !.size = s] ELSE dev[d]]
                /\ con' = [d \in Dev |-> IF d \in Members(sel)
                                         THEN [con[d] EXCEPT !.size = ReadBack(d, s, read)]
                                         ELSE con[d]]
           /\ sized' = sized \cup Members(sel) /\ result' = NoError
           /\ UNCHANGED <<host, frames, mapped>>
  <2>1. ncon > 0 /\ Members(sel) \subseteq Dev
    BY <1>3, SelectedNumbers, SentToDevices DEF Inv
  <2>2. PICK written \in Answers(Members(sel)), read \in Answers(Members(sel)) :
          /\ dev' = [d \in Dev |-> IF d \in written THEN [dev[d] EXCEPT !.size = s] ELSE dev[d]]
          /\ con' = [d \in Dev |-> IF d \in Members(sel)
                                   THEN [con[d] EXCEPT !.size = ReadBack(d, s, read)]
                                   ELSE con[d]]
    BY <1>3
  <2>3. written \subseteq Members(sel)
    BY DEF Answers
  <2>4. ASSUME NEW d \in Dev
        PROVE  /\ dev'[d] \in Device
               /\ dev'[d].open = dev[d].open /\ dev'[d].firmware = dev[d].firmware
               /\ dev'[d].buffer = dev[d].buffer
               /\ d \notin Members(sel) => dev'[d].size = dev[d].size
    <3>1. dev[d] \in Device
      BY DEF Inv, TypeOK
    <3>2. CASE d \in written
      <4>1. dev'[d] = [dev[d] EXCEPT !.size = s]
        BY <2>2, <3>2
      <4>. QED
        BY <3>1, <3>2, <4>1, <2>3, SizedDevice
    <3>3. CASE d \notin written
      BY <3>1, <3>3, <2>2
    <3>. QED
      BY <3>2, <3>3
  <2>5. ASSUME NEW d \in Dev
        PROVE  /\ con'[d] \in Controller
               /\ con'[d].connected = con[d].connected
               /\ con'[d].firmwareloaded = con[d].firmwareloaded
               /\ con'[d].exposure_time = con[d].exposure_time
               /\ d \in Members(sel) => con'[d].size \in {0, dev'[d].size}
               /\ d \notin Members(sel) => con'[d].size = con[d].size
    <3>1. con[d] \in Controller
      BY DEF Inv, TypeOK
    <3>2. CASE d \in Members(sel)
      <4>1. con'[d] = [con[d] EXCEPT !.size = ReadBack(d, s, read)]
        BY <2>2, <3>2
      <4>2. dev'[d].size \in Sizes
        BY <2>4 DEF Device
      <4>3. ReadBack(d, s, read) \in {0, dev'[d].size} /\ ReadBack(d, s, read) \in Sizes \cup {0}
        BY <4>2 DEF ReadBack
      <4>4. /\ con'[d] \in Controller /\ con'[d].exposure_time = con[d].exposure_time
            /\ con'[d].connected = con[d].connected
            /\ con'[d].firmwareloaded = con[d].firmwareloaded
            /\ con'[d].size = ReadBack(d, s, read)
        BY <3>1, <4>1, <4>3, SizedController
      <4>. QED
        BY <4>3, <4>4, <3>2
    <3>3. CASE d \notin Members(sel)
      BY <3>1, <3>3, <2>2
    <3>. QED
      BY <3>2, <3>3
  <2>6. TypeOK'
    <3>1. con' \in [Dev -> Controller]
      BY <2>2, <2>5
    <3>2. dev' \in [Dev -> Device]
      BY <2>2, <2>4
    <3>3. result' \in Results
      BY <1>3 DEF Results
    <3>. QED
      BY <3>1, <3>2, <3>3, <1>3, <2>1 DEF Inv, TypeOK, host, frames
  <2>7. Known0'
    BY <1>3, <2>1 DEF Inv, Known0, Members, host
  <2>8. BufferKept'
    <3>1. mapped' = mapped /\ bufsize' = bufsize /\ mapped \subseteq Dev
      BY <1>3 DEF frames, Inv, TypeOK
    <3>. QED
      BY <3>1, <2>4 DEF Inv, BufferKept
  <2>9. AllOrNothing' /\ TimesAgree'
    BY <1>3, <2>4, <2>5, KeepsConnections, KeepsTimes
  <2>10. SizeIsRead'
    <3>1. ASSUME NEW d \in sized'
          PROVE  con'[d].size \in {0, dev'[d].size}
      <4>1. d \in Dev
        BY <1>3, <2>1 DEF Inv, TypeOK
      <4>2. CASE d \in Members(sel)
        BY <4>1, <4>2, <2>5
      <4>3. CASE d \notin Members(sel)
        <5>1. con[d].size \in {0, dev[d].size}
          BY <4>3, <1>3 DEF Inv, SizeIsRead
        <5>. QED
          BY <5>1, <4>1, <4>3, <2>4, <2>5
      <4>. QED
        BY <4>2, <4>3
    <3>. QED
      BY <3>1 DEF SizeIsRead
  <2>11. LoadedRuns'
    BY <2>4, <2>5 DEF Inv, LoadedRuns
  <2>12. FramesFit' /\ LoadReported'
    BY <1>3 DEF FramesFit, LoadReported, NoError, Exposes, Loads
  <2>. QED
    BY <2>6, <2>7, <2>8, <2>9, <2>10, <2>11, <2>12 DEF Inv
<1>. QED
  BY <1>1, <1>2, <1>3 DEF Geometry

LEMMA BufferStep ==
  ASSUME Inv, NEW b \in Buffers, Buffer(b)
  PROVE  Inv'
<1>1. CASE Fails
  BY <1>1, FailsStep
<1>2. CASE /\ Sendable(Members(devlist))
           /\ \E k \in 0 .. Len(devlist) :
                LET done == {devlist[i] : i \in 1 .. k} IN
                /\ bufsize' = IF k = 0 THEN bufsize ELSE Remapped(b)
                /\ dev' = [d \in Dev |-> IF k < Len(devlist) /\ d = devlist[k + 1]
                                         THEN [dev[d] EXCEPT !.buffer = 0]
                                         ELSE IF d \in done THEN [dev[d] EXCEPT !.buffer = b]
                                         ELSE dev[d]]
                /\ mapped' = (IF k = 0 THEN mapped ELSE done)
                              \ (IF k = Len(devlist) THEN {} ELSE {devlist[k + 1]})
                /\ result' = IF k = Len(devlist) THEN NoError ELSE Error
           /\ UNCHANGED <<host, con, nframes, sized>>
  <2>1. /\ ncon > 0 /\ Members(devlist) \subseteq Dev /\ Members(devlist) # {}
        /\ Members(devlist)' = Members(devlist)
    <3>1. devlist \in Seq(Nat)
      BY DEF Inv, TypeOK
    <3>2. ncon > 0 /\ Members(devlist) \subseteq Dev
      BY <1>2, <3>1, SentToDevices, MembersAreNumbers DEF Inv
    <3>3. Members(devlist) # {} /\ devlist' = devlist
      BY <1>2 DEF Sendable, host
    <3>. QED
      BY <3>2, <3>3 DEF Members
  <2>2. PICK k \in 0 .. Len(devlist) :
          /\ bufsize' = IF k = 0 THEN bufsize ELSE b
          /\ dev' = [d \in Dev |-> IF k < Len(devlist) /\ d = devlist[k + 1]
                                   THEN [dev[d] EXCEPT !.buffer = 0]
                                   ELSE IF d \in {devlist[i] : i \in 1 .. k}
                                   THEN [dev[d] EXCEPT !.buffer = b]
                                   ELSE dev[d]]
          /\ mapped' = (IF k = 0 THEN mapped ELSE {devlist[i] : i \in 1 .. k})
                        \ (IF k = Len(devlist) THEN {} ELSE {devlist[k + 1]})
          /\ result' = IF k = Len(devlist) THEN NoError ELSE Error
    BY <1>2 DEF Remapped
  <2>3. ASSUME NEW d \in Dev
        PROVE  /\ dev'[d] \in Device
               /\ dev'[d].open = dev[d].open /\ dev'[d].firmware = dev[d].firmware
               /\ dev'[d].size = dev[d].size
               /\ d \in mapped' => dev'[d].buffer = IF k = 0 THEN dev[d].buffer ELSE b
    <3>1. dev[d] \in Device /\ 0 \in Buffers \cup {0} /\ b \in Buffers \cup {0}
      BY DEF Inv, TypeOK
    <3>2. Len(devlist) \in Nat /\ DOMAIN devlist = 1 .. Len(devlist)
      BY LenProperties DEF Inv, TypeOK
    <3>3. CASE k < Len(devlist) /\ d = devlist[k + 1]
      <4>1. dev'[d] = [dev[d] EXCEPT !.buffer = 0]
        BY <2>2, <3>3
      <4>2. /\ dev'[d] \in Device
            /\ dev'[d].open = dev[d].open /\ dev'[d].firmware = dev[d].firmware
            /\ dev'[d].size = dev[d].size
        BY <3>1, <4>1 DEF Device
      <4>3. d \notin mapped'
        <5>1. \A m, l \in Nat : m < l => m # l
          OBVIOUS
        <5>2. k \in Nat
          BY <3>2
        <5>3. k # Len(devlist)
          BY <5>1, <5>2, <3>2, <3>3, Zenon
        <5>. QED
          BY <5>3, <3>3, <2>2, Zenon
      <4>. QED
        BY <4>2, <4>3
    <3>4. CASE ~(k < Len(devlist) /\ d = devlist[k + 1]) /\ d \in {devlist[i] : i \in 1 .. k}
      <4>1. dev'[d] = [dev[d] EXCEPT !.buffer = b]
        BY <2>2, <3>4
      <4>2. k # 0
        BY <3>4
      <4>. QED
        BY <3>1, <4>1, <4>2, BufferedDevice
    <3>5. CASE ~(k < Len(devlist) /\ d = devlist[k + 1]) /\ d \notin {devlist[i] : i \in 1 .. k}
      <4>1. dev'[d] = dev[d]
        BY <2>2, <3>5
      <4>2. k # 0 => d \notin mapped'
        BY <3>5, <2>2, Zenon
      <4>. QED
        BY <3>1, <4>1, <4>2
    <3>. QED
      BY <3>3, <3>4, <3>5
  <2>4. mapped' \subseteq Dev /\ (k = 0 => mapped' \subseteq mapped)
    <3>1. k # 0 => {devlist[i] : i \in 1 .. k} \subseteq Members(devlist)
      <4>1. DOMAIN devlist = 1 .. Len(devlist) /\ Len(devlist) \in Nat
        BY LenProperties DEF Inv, TypeOK
      <4>. QED
        BY <4>1 DEF Members
    <3>2. mapped \subseteq Dev
      BY DEF Inv, TypeOK
    <3>. QED
      BY <3>1, <3>2, <2>1, <2>2
  <2>5. TypeOK'
    <3>1. dev' \in [Dev -> Device]
      BY <2>2, <2>3
    <3>2. result' \in Results /\ bufsize' \in Buffers \cup {0}
      BY <2>2 DEF Results, Inv, TypeOK
    <3>. QED
      BY <3>1, <3>2, <2>4, <1>2 DEF Inv, TypeOK, host
  <2>6. Known0'
    BY <1>2, <2>1 DEF Inv, Known0, host
  <2>7. BufferKept'
    <3>1. ASSUME NEW d \in mapped'
          PROVE  dev'[d].buffer = bufsize'
      <4>1. dev'[d].buffer = IF k = 0 THEN dev[d].buffer ELSE b
        BY <2>3, <2>4
      <4>2. bufsize' = IF k = 0 THEN bufsize ELSE b
        BY <2>2
      <4>3. k = 0 => dev[d].buffer = bufsize
        BY <2>4 DEF Inv, BufferKept
      <4>. QED
        BY <4>1, <4>2, <4>3
    <3>. QED
      BY <3>1 DEF BufferKept
  <2>8. AllOrNothing' /\ TimesAgree'
    BY <1>2, <2>3, KeepsConnections, KeepsTimes
  <2>9. SizeIsRead' /\ LoadedRuns'
    BY <1>2, <2>3 DEF Inv, TypeOK, SizeIsRead, LoadedRuns
  <2>10. FramesFit' /\ LoadReported'
    BY <2>2 DEF FramesFit, LoadReported, NoError, Error, Exposes, Loads
  <2>. QED
    BY <2>5, <2>6, <2>7, <2>8, <2>9, <2>10 DEF Inv
<1>. QED
  BY <1>1, <1>2 DEF Buffer

LEMMA NframesStep ==
  ASSUME Inv, NEW n \in 1 .. 2, Nframes(n)
  PROVE  Inv'
<1>. USE DEF Nframes, host, history
<1>1. TypeOK'
  BY DEF Inv, TypeOK, Results
<1>2. Known0' /\ BufferKept'
  BY DEF Inv, Known0, BufferKept, Members
<1>3. AllOrNothing' /\ TimesAgree'
  BY DEF Inv, AllOrNothing, TimesAgree, IsConnected, Members
<1>4. SizeIsRead' /\ LoadedRuns'
  BY DEF Inv, SizeIsRead, LoadedRuns
<1>5. FramesFit' /\ LoadReported'
  BY DEF FramesFit, LoadReported, Error, Exposes, Loads
<1>. QED
  BY <1>1, <1>2, <1>3, <1>4, <1>5 DEF Inv

LEMMA ShutterStep ==
  ASSUME Inv, Shutter
  PROVE  Inv'
  BY TerminatesStep, NothingChanges DEF Shutter

LEMMA NativeStep ==
  ASSUME Inv, Native
  PROVE  Inv'
  BY NothingChanges DEF Native

-----------------------------------------------------------------------------
(* load. *)

LEMMA LoadStep ==
  ASSUME Inv, NEW devices \in SUBSET Nat, Load(devices)
  PROVE  Inv'
<1>. DEFINE run == {d \in devices : con[d].connected}
<1>1. Sendable(devices) /\ ncon > 0 /\ devices \subseteq Dev
  BY SentToDevices DEF Inv, Load
<1>2. run \subseteq Dev
  BY <1>1
<1>3. PICK done \in SUBSET run, size \in [run -> Sizes] :
        /\ con' = [d \in Dev |->
                     IF d \in run
                     THEN [con[d] EXCEPT !.firmwareloaded = IF d \in done THEN TRUE
                                                            ELSE FALSE]
                     ELSE con[d]]
        /\ dev' = [d \in Dev |-> IF d \in run
                                 THEN [dev[d] EXCEPT !.firmware = d \in done, !.size = size[d]]
                                 ELSE dev[d]]
        /\ result' \in (IF AllDone(run, done) THEN {Loads(run)} ELSE {Error})
                         \cup IF run = devices THEN {} ELSE {Error}
        /\ sized' = sized \ {d \in run : size[d] # dev[d].size}
  BY DEF Load, NotLoaded
<1>4. UNCHANGED <<host, frames, mapped>>
  BY DEF Load
<1>. HIDE DEF run
<1>5. ASSUME NEW d \in Dev
      PROVE  /\ con'[d] \in Controller
             /\ con'[d].connected = con[d].connected
             /\ con'[d].exposure_time = con[d].exposure_time
             /\ con'[d].size = con[d].size
             /\ d \in run /\ d \in done => con'[d].firmwareloaded
             /\ d \in run /\ d \notin done => ~con'[d].firmwareloaded
             /\ d \notin run => con'[d].firmwareloaded = con[d].firmwareloaded
  <2>1. con[d] \in Controller
    BY DEF Inv, TypeOK
  <2>2. CASE d \in run /\ d \in done
    <3>1. con'[d] = [con[d] EXCEPT !.firmwareloaded = TRUE]
      BY <1>3, <2>2
    <3>2. /\ con'[d] \in Controller /\ con'[d].firmwareloaded = TRUE
          /\ con'[d].connected = con[d].connected /\ con'[d].size = con[d].size
          /\ con'[d].exposure_time = con[d].exposure_time
      BY <2>1, <3>1, LoadedController
    <3>. QED
      BY <2>2, <3>2
  <2>3. CASE d \in run /\ d \notin done
    <3>1. con'[d] = [con[d] EXCEPT !.firmwareloaded = FALSE]
      BY <1>3, <2>3
    <3>2. /\ con'[d] \in Controller /\ con'[d].firmwareloaded = FALSE
          /\ con'[d].connected = con[d].connected /\ con'[d].size = con[d].size
          /\ con'[d].exposure_time = con[d].exposure_time
      BY <2>1, <3>1, LoadedController
    <3>. QED
      BY <2>3, <3>2
  <2>4. CASE d \notin run
    BY <2>1, <2>4, <1>3
  <2>. QED
    BY <2>2, <2>3, <2>4
<1>6. ASSUME NEW d \in Dev
      PROVE  /\ dev'[d] \in Device
             /\ dev'[d].open = dev[d].open /\ dev'[d].buffer = dev[d].buffer
             /\ d \in run /\ d \in done => dev'[d].firmware
             /\ d \in sized' => d \in sized /\ dev'[d].size = dev[d].size
             /\ d \notin run => /\ dev'[d].firmware = dev[d].firmware
                                /\ dev'[d].size = dev[d].size
  <2>1. dev[d] \in Device
    BY DEF Inv, TypeOK
  <2>2. CASE d \in run /\ d \in done
    <3>1. dev'[d] = [dev[d] EXCEPT !.firmware = TRUE, !.size = size[d]] /\ size[d] \in Sizes
      BY <1>3, <2>2
    <3>2. /\ dev'[d] \in Device /\ dev'[d].firmware = TRUE /\ dev'[d].size = size[d]
          /\ dev'[d].open = dev[d].open /\ dev'[d].buffer = dev[d].buffer
      BY <2>1, <3>1 DEF Device
    <3>3. d \in sized' => d \in sized /\ size[d] = dev[d].size
      BY <1>3, <2>2
    <3>. QED
      BY <2>2, <3>2, <3>3
  <2>4. CASE d \in run /\ d \notin done
    <3>0. (d \in done) = FALSE
      BY <2>4
    <3>1. dev'[d] = [dev[d] EXCEPT !.firmware = FALSE, !.size = size[d]] /\ size[d] \in Sizes
      BY <1>3, <2>4, <3>0, Zenon
    <3>2. /\ dev'[d] \in Device /\ dev'[d].size = size[d]
          /\ dev'[d].open = dev[d].open /\ dev'[d].buffer = dev[d].buffer
      BY <2>1, <3>1 DEF Device
    <3>3. d \in sized' => d \in sized /\ size[d] = dev[d].size
      BY <1>3, <2>4
    <3>. QED
      BY <2>4, <3>2, <3>3
  <2>3. CASE d \notin run
    BY <2>1, <2>3, <1>3
  <2>. QED
    BY <2>2, <2>3, <2>4
<1>7. result' = Error \/ (result' = Loads(run) /\ run \subseteq done)
  BY <1>3 DEF AllDone
<1>8. TypeOK'
  <2>1. con' \in [Dev -> Controller]
    BY <1>3, <1>5
  <2>2. dev' \in [Dev -> Device]
    BY <1>3, <1>6
  <2>3. result' \in Results
    BY <1>2, <1>7 DEF Results
  <2>4. sized' \subseteq Dev
    BY <1>3 DEF Inv, TypeOK
  <2>. QED
    BY <2>1, <2>2, <2>3, <2>4, <1>4 DEF Inv, TypeOK, host, frames
<1>9. Known0'
  BY <1>1, <1>4 DEF Inv, Known0, Members, host
<1>10. BufferKept'
  <2>1. mapped' = mapped /\ bufsize' = bufsize /\ mapped \subseteq Dev
    BY <1>4 DEF frames, Inv, TypeOK
  <2>. QED
    BY <2>1, <1>6 DEF Inv, BufferKept
<1>11. AllOrNothing' /\ TimesAgree'
  BY <1>4, <1>5, <1>6, KeepsConnections, KeepsTimes
<1>12. SizeIsRead'
  <2>1. ASSUME NEW d \in sized'
        PROVE  con'[d].size \in {0, dev'[d].size}
    <3>1. d \in Dev /\ d \in sized
      BY <1>3 DEF Inv, TypeOK
    <3>. QED
      BY <3>1, <1>5, <1>6 DEF Inv, SizeIsRead
  <2>. QED
    BY <2>1 DEF SizeIsRead
<1>13. LoadedRuns'
  <2>1. ASSUME NEW d \in Dev, con'[d].firmwareloaded
        PROVE  dev'[d].firmware
    <3>1. CASE d \in run
      <4>1. d \in done
        BY <2>1, <3>1, <1>5
      <4>. QED
        BY <3>1, <4>1, <1>6
    <3>2. CASE d \notin run
      BY <2>1, <3>2, <1>5, <1>6 DEF Inv, LoadedRuns
    <3>. QED
      BY <3>1, <3>2
  <2>. QED
    BY <2>1 DEF LoadedRuns
<1>14. FramesFit'
  BY <1>7 DEF FramesFit, Error, Exposes, Loads
<1>15. LoadReported'
  <2>1. ASSUME NEW D \in SUBSET Dev, result' = Loads(D), NEW d \in D
        PROVE  con'[d].firmwareloaded
    <3>1. D = run /\ run \subseteq done
      BY <1>7, <2>1 DEF Error, Loads
    <3>. QED
      BY <3>1, <1>2, <1>5
  <2>. QED
    BY <2>1 DEF LoadReported
<1>. QED
  BY <1>8, <1>9, <1>10, <1>11, <1>12, <1>13, <1>14, <1>15 DEF Inv

LEMMA LoadFileStep ==
  ASSUME Inv, NEW arg \in Selections, LoadFile(arg)
  PROVE  Inv'
<1>1. CASE Load(Members(Selected(arg)))
  BY <1>1, SelectedNumbers, LoadStep DEF Inv
<1>2. CASE Terminates
  BY <1>2, TerminatesStep
<1>3. CASE Fails
  BY <1>3, FailsStep
<1>. QED
  BY <1>1, <1>2, <1>3 DEF LoadFile

LEMMA LoadDefaultsStep ==
  ASSUME Inv, LoadDefaults
  PROVE  Inv'
<1>1. Members(devlist) \cap Defaults \in SUBSET Nat
  BY MembersAreNumbers DEF Inv, TypeOK
<1>2. CASE Load(Members(devlist) \cap Defaults)
  BY <1>1, <1>2, LoadStep
<1>3. CASE Fails
  BY <1>3, FailsStep
<1>4. CASE result' = NoError /\ UNCHANGED <<host, con, frames, dev, history>>
  BY <1>4, NothingChanges
<1>. QED
  BY <1>2, <1>3, <1>4 DEF LoadDefaults

-----------------------------------------------------------------------------
(* expose. *)

(* The checks are made of what the host believes; SizeIsRead and BufferKept say
   that this is what the devices have. *)
LEMMA ExposeStep ==
  ASSUME Inv, Expose
  PROVE  Inv'
<1>1. CASE Fails
  BY <1>1, FailsStep
<1>2. CASE /\ result' = IF \A d \in Members(devlist) : Exposable(con[d])
                        THEN Exposes ELSE Error
           /\ UNCHANGED <<host, con, frames, dev, history>>
  <2>. USE <1>2 DEF host, frames, history
  <2>1. TypeOK'
    <3>1. result' \in Results
      BY DEF Results
    <3>. QED
      BY <3>1 DEF Inv, TypeOK
  <2>2. Known0' /\ BufferKept'
    BY DEF Inv, Known0, BufferKept, Members
  <2>3. AllOrNothing' /\ TimesAgree'
    BY DEF Inv, AllOrNothing, TimesAgree, IsConnected, Members
  <2>4. SizeIsRead' /\ LoadedRuns'
    BY DEF Inv, SizeIsRead, LoadedRuns
  <2>5. LoadReported'
    BY DEF LoadReported, Error, Exposes, Loads
  <2>6. FramesFit'
    <3>1. ASSUME result' = Exposes, NEW d \in Members(devlist) \cap sized \cap mapped
          PROVE  dev[d].buffer >= (IF nframes > 1 THEN 2 ELSE 1) * dev[d].size
      <4>1. Exposable(con[d])
        BY <3>1 DEF Error, Exposes
      <4>2. d \in Dev /\ con[d].size \in {0, dev[d].size} /\ dev[d].buffer = bufsize
        BY <3>1 DEF Inv, TypeOK, SizeIsRead, BufferKept
      <4>3. con[d].size >= 1 /\ bufsize >= (IF nframes > 1 THEN 2 ELSE 1) * con[d].size
        BY <4>1 DEF Exposable, Needed
      <4>4. con[d].size = dev[d].size
        BY <4>2, <4>3
      <4>. QED
        BY <4>2, <4>3, <4>4
    <3>. QED
      BY <3>1 DEF FramesFit, Members
  <2>. QED
    BY <2>1, <2>2, <2>3, <2>4, <2>5, <2>6 DEF Inv
<1>. QED
  BY <1>1, <1>2 DEF Expose

-----------------------------------------------------------------------------
(* The invariant and the theorems. *)

LEMMA InitInv == Init => Inv
<1>. SUFFICES ASSUME Init
              PROVE  Inv
  OBVIOUS
<1>1. TypeOK
  <2>1. con \in [Dev -> Controller]
    BY NoControllerIs DEF Init
  <2>2. numdev \in 0 .. NumDev /\ ncon \in 0 .. numdev /\ devlist \in Seq(Nat)
    BY ArcDevicesAssumption, EmptySeq DEF Init
  <2>3. dev \in [Dev -> Device]
    BY DEF Init
  <2>4. result \in Results /\ nframes \in 1 .. 2
    BY DEF Init, Results
  <2>. QED
    BY <2>1, <2>2, <2>3, <2>4 DEF Init, TypeOK
<1>2. Known0 /\ BufferKept /\ SizeIsRead /\ TimesAgree
  BY DEF Init, Known0, BufferKept, SizeIsRead, TimesAgree
<1>3. AllOrNothing
  BY DEF Init, AllOrNothing
<1>4. LoadedRuns
  <2>1. \A d \in Dev : con[d].firmwareloaded = FALSE
    BY NoControllerIs DEF Init
  <2>. QED
    BY <2>1 DEF LoadedRuns
<1>5. FramesFit /\ LoadReported
  BY DEF Init, FramesFit, LoadReported, NoError, Exposes, Loads
<1>. QED
  BY <1>1, <1>2, <1>3, <1>4, <1>5 DEF Inv

LEMMA NextInv == Inv /\ [Next]_vars => Inv'
<1>. SUFFICES ASSUME Inv, [Next]_vars
              PROVE  Inv'
  OBVIOUS
<1>1. ASSUME NEW req \in Requests, Connect(req) PROVE Inv'
  BY <1>1, ConnectStep
<1>2. ASSUME NEW req \in BadRequests, ConnectBad(req) PROVE Inv'
  BY <1>2, ConnectBadStep
<1>3. CASE ConnectRefused
  BY <1>3, FailsStep DEF ConnectRefused
<1>4. CASE ConnectNone
  BY <1>4, ConnectNoneStep
<1>5. CASE Disconnect
  BY <1>5, DisconnectStep
<1>6. CASE Native
  BY <1>6, NativeStep
<1>7. CASE Shutter
  BY <1>7, ShutterStep
<1>8. CASE LoadDefaults
  BY <1>8, LoadDefaultsStep
<1>9. CASE Expose
  BY <1>9, ExposeStep
<1>10. ASSUME NEW t \in Times, Exptime(t) PROVE Inv'
  BY <1>10, ExptimeStep
<1>11. ASSUME NEW sel \in Selections, LoadFile(sel) PROVE Inv'
  BY <1>11, LoadFileStep
<1>12. ASSUME NEW sel \in Selections, Readout(sel) PROVE Inv'
  BY <1>12, ReadoutStep
<1>13. ASSUME NEW sel \in Selections, NEW s \in Sizes, Geometry(sel, s) PROVE Inv'
  BY <1>13, GeometryStep
<1>14. ASSUME NEW b \in Buffers, Buffer(b) PROVE Inv'
  BY <1>14, BufferStep
<1>15. ASSUME NEW n \in 1 .. 2, Nframes(n) PROVE Inv'
  BY <1>15, NframesStep
<1>16. CASE UNCHANGED vars
  <2>. USE <1>16 DEF vars, host, frames, history
  <2>1. TypeOK' /\ Known0' /\ BufferKept'
    BY DEF Inv, TypeOK, Known0, BufferKept, Members
  <2>2. AllOrNothing' /\ TimesAgree' /\ FramesFit'
    BY DEF Inv, AllOrNothing, TimesAgree, IsConnected, Members, FramesFit
  <2>3. SizeIsRead' /\ LoadedRuns' /\ LoadReported'
    BY DEF Inv, SizeIsRead, LoadedRuns, LoadReported
  <2>. QED
    BY <2>1, <2>2, <2>3 DEF Inv
<1>. QED
  BY <1>1, <1>2, <1>3, <1>4, <1>5, <1>6, <1>7, <1>8, <1>9, <1>10, <1>11, <1>12,
     <1>13, <1>14, <1>15, <1>16 DEF Next

(* The invariant holds always: what the host keeps of the devices is in order. *)
THEOREM HostInOrder == Spec => []Inv
  BY InitInv, NextInv, PTL DEF Spec

(* open opens all the requested devices or leaves none open, and nothing that a
   command or the end of the process does later separates the two. *)
THEOREM OpenIsAllOrNothing == Spec => []AllOrNothing
<1>1. Inv => AllOrNothing
  BY DEF Inv
<1>. QED
  BY <1>1, HostInOrder, PTL

(* All devices of an exposure have one time, whatever they answered to SET. *)
THEOREM ExposureTimesAgree == Spec => []TimesAgree
<1>1. Inv => TimesAgree
  BY DEF Inv
<1>. QED
  BY <1>1, HostInOrder, PTL

(* What passes the checks of expose fits the buffers of the devices, in any order
   of open, geometry, readout, buffer, load, frames and close and whichever of
   the devices refuse or throw.  It is said of a device whose size no load has
   changed since its last geometry and for which buffer has last succeeded: the
   host does not read the size after a load, and has one bufsize for all. *)
THEOREM ExposedFramesFit == Spec => []FramesFit
<1>1. Inv => FramesFit
  BY DEF Inv
<1>. QED
  BY <1>1, HostInOrder, PTL

(* A device that is marked as loaded runs a whole firmware: expose refuses the
   others by that mark. *)
THEOREM LoadedIsLoaded == Spec => []LoadedRuns
<1>1. Inv => LoadedRuns
  BY DEF Inv
<1>. QED
  BY <1>1, HostInOrder, PTL

(* A load that reported success, of a file or of the defaults, has loaded all
   the devices that were connected. *)
THEOREM FirmwareAsReported == Spec => []LoadReported
<1>1. Inv => LoadReported
  BY DEF Inv
<1>. QED
  BY <1>1, HostInOrder, PTL

=============================================================================
