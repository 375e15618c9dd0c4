------------------------------ MODULE ArcDevices ------------------------------
(***************************************************************************)
(* The ARC controllers of AstroCam::Interface (camerad/astrocam.cpp): what *)
(* the host keeps of each (class Controller) beside what the device really *)
(* has, through connect and disconnect, the commands that set a device by  *)
(* a 3-letter command (native) and mirror it, and the checks of expose.    *)
(* An action is one command of one client; the threads it starts for the   *)
(* devices are joined within it and share nothing.                         *)
(*                                                                         *)
(* The ARC API is external: any call may throw, any command may be         *)
(* answered ERR.  A size is one number, for both registers of the geometry *)
(* and for the bytes of a frame.                                           *)
(***************************************************************************)
EXTENDS Integers, Sequences, FiniteSets

CONSTANTS
  NumDev,      \* bound: ARC devices in the host
  Requests,    \* device lists of open: <<>> is none, for all devices
  BadRequests, \* the numbers that precede a bad token in a list of open
  Selections,  \* device lists of load, readout and geometry: <<>> is none
  Defaults,    \* devices that have a DEFAULT_FIRMWARE
  Times, Sizes, Buffers, \* bounds: values clients send
  MaxList      \* bound: length of devlist

Dev == 0 .. NumDev - 1

ASSUME ArcDevicesAssumption ==
  /\ NumDev \in Nat \ {0}
  /\ Requests \cup BadRequests \cup Selections \subseteq Seq(Nat)
  /\ Defaults \subseteq Dev
  /\ MaxList \in Nat /\ Times \subseteq Nat /\ Sizes \subseteq Nat \ {0} /\ Buffers \subseteq Nat \ {0}

VARIABLES
  numdev, devlist, ncon,       \* Interface; ncon is the size of controller
  con,                         \* Controller of each device
  bufsize, nframes,
  dev,                         \* the devices themselves
  result,                      \* how the last command ended
  sized, mapped                \* history: devices of which geometry has set the size that
                               \* they have, and for which buffer has last succeeded

host    == <<numdev, devlist, ncon>>
frames  == <<bufsize, nframes>>
history == <<sized, mapped>>
vars    == <<host, con, frames, dev, result, history>>

Unset == -1

\* How a command ends: of expose and load it is said what succeeded.
NoError == <<"NO_ERROR", {}>>
Error == <<"ERROR", {}>>
Exposes == <<"exposes", {}>>
Loads(devices) == <<"loads", devices>>
Results == {NoError, Error, Exposes} \cup {Loads(devices) : devices \in SUBSET Dev}

Controller == [connected : BOOLEAN, firmwareloaded : BOOLEAN,
               exposure_time : Times \cup {Unset}, readout_name : {"", "amp"},
               size : Sizes \cup {0}]

NoController == [connected |-> FALSE, firmwareloaded |-> FALSE,
                 exposure_time |-> Unset, readout_name |-> "", size |-> 0]

\* rows and cols of a new Controller are not initialised.
NewController(connected, size) ==
  [connected |-> connected, firmwareloaded |-> FALSE,
   exposure_time |-> Unset, readout_name |-> "", size |-> size]

Device == [open : BOOLEAN, firmware : BOOLEAN, size : Sizes, buffer : Buffers \cup {0}]

Init ==
  /\ numdev = 0 /\ devlist = <<>> /\ ncon = 0
  /\ con = [d \in Dev |-> NoController] /\ bufsize = 0 /\ nframes = 1
  /\ dev \in [Dev -> {r \in Device : ~r.open /\ ~r.firmware /\ r.buffer = 0}]
  /\ result = NoError /\ sized = {} /\ mapped = {}

-----------------------------------------------------------------------------
(* Helpers. *)

Members(s) == {s[i] : i \in DOMAIN s}

Fails == result' = Error /\ UNCHANGED <<host, con, frames, dev, history>>

Closed == [d \in Dev |-> [dev[d] EXCEPT !.open = FALSE, !.buffer = 0]]

\* disconnect_controller: bufsize stays.
Disconnected ==
  /\ numdev' = 0 /\ devlist' = <<>> /\ ncon' = 0
  /\ con' = [d \in Dev |-> NoController]
  /\ dev' = Closed
  /\ sized' = {} /\ mapped' = {}

\* An exception nobody catches, or a thread nobody joins: the server is started anew.
Terminates ==
  /\ Disconnected /\ bufsize' = 0 /\ nframes' = 1
  /\ result' = Error

Selected(sel) == IF sel = <<>> THEN devlist ELSE sel
Known(devices) == \A d \in devices : d < ncon

(* Threads are started in the order of the selection.  A device that does not
   exist is an error, or the end of the process if a thread runs already. *)
Sendable(devices) == numdev # 0 /\ devices # {} /\ Known(devices)
Abandons(sel) ==
  numdev # 0 /\ sel # <<>> /\ Known({Head(sel)}) /\ ~Known(Members(sel))

\* The devices of a selection that answer a command, the others say ERR.
Answers(devices) == SUBSET {d \in devices : dev[d].open}

-----------------------------------------------------------------------------
(* open, close. *)

AnyServed(list, n, how) ==
  (\A i \in DOMAIN list : list[i] < n) /\ \E i \in DOMAIN list : how[list[i]] = "connected"
Served(list, n, how) == \A i \in DOMAIN list : list[i] < n /\ how[list[i]] = "connected"

Requested(req, n) == devlist \o IF req = <<>> THEN [i \in 1 .. n |-> i - 1] ELSE req

(* A requested device that is not there, that throws or that is not connected
   leads to a disconnect; an opened device may refuse to be opened again. *)
Connect(req) ==
  /\ ncon = 0
  /\ \E n \in 1 .. NumDev, how \in [Dev -> {"connected", "unconnected", "throws"}] :
       LET list == Requested(req, n) IN
       \/ /\ Served(list, n, how)
          /\ numdev' = n /\ ncon' = n /\ devlist' = list
          /\ \E size \in [0 .. n - 1 -> Sizes \cup {0}] :
               con' = [d \in Dev |-> IF d < n THEN NewController(d \in Members(list) /\ how[d] = "connected",
                                                             size[d])
                                     ELSE NoController]
          /\ dev' = [d \in Dev |-> [dev[d] EXCEPT !.open = d \in Members(list)]]
          /\ result' = NoError
          /\ UNCHANGED history
       \/ ~Served(list, n, how) /\ Disconnected /\ result' = Error
  /\ UNCHANGED frames

\* devlist keeps the numbers before the bad token.
ConnectBad(req) ==
  /\ ncon = 0 /\ Len(devlist \o req) <= MaxList
  /\ numdev' \in 1 .. NumDev /\ devlist' = devlist \o req
  /\ result' = Error
  /\ UNCHANGED <<ncon, con, frames, dev, history>>

ConnectRefused == ncon > 0 /\ Fails

\* findDevices found none; devlist is not touched.
ConnectNone ==
  /\ ncon = 0 /\ numdev' = 0
  /\ result' = Error
  /\ UNCHANGED <<devlist, ncon, con, frames, dev, history>>

Disconnect == Disconnected /\ UNCHANGED frames /\ result' = NoError

IsConnected == devlist # <<>> /\ \A d \in Members(devlist) : con[d].connected

-----------------------------------------------------------------------------
(* Commands for the devices. *)

\* native reports success whatever the devices answer.
Native ==
  /\ result' = IF Sendable(Members(devlist)) THEN NoError ELSE Error
  /\ UNCHANGED <<host, con, frames, dev, history>>

TimeIfDone(d, t, done) == IF d \in done THEN t ELSE con[d].exposure_time
TimeKept(d, t, done) == t

(* exptime sends SET to all devices and keeps the time whatever they answer;
   without controllers it reads the front of an empty vector. *)
Exptime(t) ==
  \/ ncon = 0 /\ (Terminates \/ Fails)
  \/ /\ Sendable(Members(devlist))
     /\ \E done \in Answers(Members(devlist)) :
          con' = [d \in Dev |-> IF d \in Members(devlist)
                                THEN [con[d] EXCEPT !.exposure_time = TimeKept(d, t, done)]
                                ELSE con[d]]
     /\ result' = NoError
     /\ UNCHANGED <<host, frames, dev, history>>

\* Every device of devlist is looked up without a try.
Shutter ==
  \/ ~Known(Members(devlist)) /\ Terminates
  \/ /\ Known(Members(devlist)) /\ result' = NoError
     /\ UNCHANGED <<host, con, frames, dev, history>>

(* The name is kept for device after device, and SOS sent to all of them each
   time, until they all answer ERR; that is seen if the first controller's last
   answer was ERR, too. *)
Readout(arg) ==
  LET sel == Selected(arg) IN
  \/ ~Sendable(Members(sel)) /\ ~Abandons(sel) /\ Fails
  \/ Abandons(sel) /\ Terminates
  \/ /\ Sendable(Members(sel))
     /\ \E k \in DOMAIN sel, done \in Answers(Members(sel)), refused \in BOOLEAN :
          /\ refused => done = {}
          /\ done = {} /\ 0 \in Members(sel) => refused
          /\ ~refused => k = Len(sel)
          /\ con' = [d \in Dev |-> IF \E i \in 1 .. k : d = sel[i]
                                   THEN [con[d] EXCEPT !.readout_name = "amp"] ELSE con[d]]
          /\ result' = IF ~refused /\ \A d \in Members(sel) : con[d].connected
                       THEN NoError ELSE Error
     /\ UNCHANGED <<host, frames, dev, history>>

AsSent(d, s, read) == s
ReadBack(d, s, read) == IF d \in read THEN dev'[d].size ELSE 0

\* The size is written, then read back: what is no number is read as 0.
Geometry(arg, s) ==
  LET sel == Selected(arg) IN
  \/ ~Sendable(Members(sel)) /\ ~Abandons(sel) /\ Fails
  \/ Abandons(sel) /\ Terminates
  \/ /\ Sendable(Members(sel))
     /\ \E written, read \in Answers(Members(sel)) :
          /\ dev' = [d \in Dev |-> IF d \in written THEN [dev[d] EXCEPT !.size = s] ELSE dev[d]]
          /\ con' = [d \in Dev |-> IF d \in Members(sel)
                                   THEN [con[d] EXCEPT !.size = ReadBack(d, s, read)]
                                   ELSE con[d]]
     /\ sized' = sized \cup Members(sel) /\ result' = NoError
     /\ UNCHANGED <<host, frames, mapped>>

Grown(b) == bufsize + b
Remapped(b) == b

\* The devices are remapped one after the other until one throws.
Buffer(b) ==
  \/ ~Sendable(Members(devlist)) /\ Fails
  \/ /\ Sendable(Members(devlist))
     /\ \E k \in 0 .. Len(devlist) :
          LET done == {devlist[i] : i \in 1 .. k} IN
          /\ bufsize' = IF k = 0 THEN bufsize ELSE Remapped(b)
          /\ dev' = [d \in Dev |-> IF k < Len(devlist) /\ d = devlist[k + 1]
                                   THEN [dev[d] EXCEPT !.buffer = 0]
                                   ELSE IF d \in done THEN [dev[d] EXCEPT !.buffer = b]
                                   ELSE dev[d]]
          /\ mapped' = (IF k = 0 THEN mapped ELSE done)
                        \ (IF k = Len(devlist) THEN {} ELSE {devlist[k + 1]})
          /\ result' = IF k = Len(devlist) THEN NoError ELSE Error
     /\ UNCHANGED <<host, con, nframes, sized>>

(* access_nframes keeps the number; what native returns is compared with the
   code of DON, which it never is. *)
Nframes(n) ==
  /\ devlist # <<>>
  /\ nframes' = IF Known({Head(devlist)}) THEN n ELSE nframes
  /\ result' = Error
  /\ UNCHANGED <<host, con, bufsize, dev, history>>

-----------------------------------------------------------------------------
(* load. *)

StillLoaded(d) == con[d].firmwareloaded
NotLoaded(d) == FALSE

AnyDone(run, done) == run \cap done # {}
AllDone(run, done) == run \subseteq done

(* dothread_load for the connected ones of the devices, of which those of
   done succeed; what retval the others have is not known.  Firmware comes with
   a size of its own. *)
Load(devices) ==
  LET run == {d \in devices : con[d].connected} IN
  /\ Sendable(devices)
  /\ \E done \in SUBSET run, size \in [run -> Sizes] :
       /\ con' = [d \in Dev |->
                    IF d \in run
                    THEN [con[d] EXCEPT !.firmwareloaded = IF d \in done THEN TRUE
                                                           ELSE NotLoaded(d)]
                    ELSE con[d]]
       /\ dev' = [d \in Dev |-> IF d \in run
                                THEN [dev[d] EXCEPT !.firmware = d \in done, !.size = size[d]]
                                ELSE dev[d]]
       /\ result' \in (IF AllDone(run, done) THEN {Loads(run)} ELSE {Error})
                        \cup IF run = devices THEN {} ELSE {Error}
       /\ sized' = sized \ {d \in run : size[d] # dev[d].size}
  /\ UNCHANGED <<host, frames, mapped>>

LoadFile(arg) ==
  LET sel == Selected(arg) IN
  \/ Load(Members(sel))
  \/ Abandons(sel) /\ con[Head(sel)].connected /\ Terminates
  \/ Fails     \* no such file, or too many devices, or one that does not exist

\* Without a file: the default of each device of devlist that has one.
LoadDefaults ==
  LET devices == Members(devlist) \cap Defaults IN
  \/ Load(devices)
  \/ ~Sendable(devices) /\ (numdev = 0 \/ devices # {}) /\ Fails
  \/ /\ numdev # 0 /\ devices = {} /\ result' = NoError
     /\ UNCHANGED <<host, con, frames, dev, history>>

-----------------------------------------------------------------------------
(* expose: its checks. *)

OneFrame(c) == c.size
Needed(c) == (IF nframes > 1 THEN 2 ELSE 1) * c.size

Exposable(c) ==
  /\ c.exposure_time >= 0 /\ c.size >= 1 /\ c.readout_name # ""
  /\ bufsize >= Needed(c)

Expose ==
  \/ ~Known(Members(devlist)) /\ Fails
  \/ /\ Known(Members(devlist))
     /\ result' = IF \A d \in Members(devlist) : Exposable(con[d])
                  THEN Exposes ELSE Error
     /\ UNCHANGED <<host, con, frames, dev, history>>

-----------------------------------------------------------------------------
Next ==
  \/ \E req \in Requests : Connect(req)
  \/ \E req \in BadRequests : ConnectBad(req)
  \/ ConnectRefused \/ ConnectNone \/ Disconnect \/ Native \/ Shutter \/ LoadDefaults \/ Expose
  \/ \E t \in Times : Exptime(t)
  \/ \E sel \in Selections : LoadFile(sel) \/ Readout(sel) \/ \E s \in Sizes : Geometry(sel, s)
  \/ \E b \in Buffers : Buffer(b)
  \/ \E n \in 1 .. 2 : Nframes(n)

Spec == Init /\ [][Next]_vars

-----------------------------------------------------------------------------
(* Properties. *)

(* Types; there are no more controllers than devices were found, and the
   buffer has a size that a client asked for. *)
TypeOK ==
  /\ numdev \in 0 .. NumDev /\ devlist \in Seq(Nat) /\ ncon \in 0 .. numdev
  /\ con \in [Dev -> Controller] /\ bufsize \in Buffers \cup {0} /\ nframes \in 1 .. 2
  /\ dev \in [Dev -> Device] /\ result \in Results
  /\ sized \subseteq Dev /\ mapped \subseteq Dev

(* All requested or nothing: either no device is open, or the controllers
   exist and every device of devlist is open and connected. *)
AllOrNothing ==
  /\ ncon > 0 => IsConnected /\ \A d \in Members(devlist) : dev[d].open
  /\ \A d \in Dev : dev[d].open => ncon > 0 /\ d \in Members(devlist)

(* The devices of an exposure never have different times, whichever of them
   refused to take one. *)
TimesAgree ==
  ncon > 0 => \A d, e \in Members(devlist) : con[d].exposure_time = con[e].exposure_time

(* After geometry and until a firmware of another size is loaded, a device has
   the size the host believes, or the host knows none. *)
SizeIsRead == \A d \in sized : con[d].size \in {0, dev[d].size}

(* An exposure that passes the checks has in a device a buffer for its frames,
   two of them if more than one will come, of the size that the device really
   has, whatever failed on the others.  Exempt is a device whose size a load has
   changed since its last geometry (the host does not ask again), and one on
   which the last buffer command failed or which it did not reach: bufsize is
   one number for all of them and was changed before. *)
FramesFit ==
  result = Exposes =>
    \A d \in Members(devlist) \cap sized \cap mapped :
      dev[d].buffer >= (IF nframes > 1 THEN 2 ELSE 1) * dev[d].size

\* A device is marked as loaded only while it runs a whole firmware.
LoadedRuns == \A d \in Dev : con[d].firmwareloaded => dev[d].firmware

(* A load that reports success, of a file or of the defaults, leaves none of
   its connected devices without firmware. *)
LoadReported ==
  \A D \in SUBSET Dev : result = Loads(D) => \A d \in D : con[d].firmwareloaded
==============================================================================
