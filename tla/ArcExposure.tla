----------------------------- MODULE ArcExposure -----------------------------
(***************************************************************************)
(* An exposure of ARC controllers: AstroCam::Interface::expose, its thread *)
(* per device (dothread_expose), the frame callback and a thread for each  *)
(* frame (handle_frame, write_frame), camerad/astrocam.cpp.                *)
(*                                                                         *)
(* The driver library, CArcDevice::expose, is external: it fills the       *)
(* slots of the PCI buffer in turn and calls back for each frame.  Each    *)
(* frame of a device replaces the image in the device's FITS file (iscube  *)
(* is never set).  FITS_file::write_image is one step here: FitsFile has   *)
(* its threads.                                                            *)
(***************************************************************************)
EXTENDS Integers, Sequences, FiniteSets

CONSTANTS
  MaxDev,      \* bound: devices of devlist
  Scenarios,   \* setups of which a behaviour has one, see Scenario
  MaxFrames,   \* bound: frames of an exposure
  MaxExposes   \* bound: exposures

\* What the controllers are set to, and what may happen.
Scenario == [devices   : 1 .. MaxDev,         \* devices of devlist
             frames    : 1 .. MaxFrames,      \* nframes
             fpb       : 1 .. MaxFrames,      \* frames that fit in the buffer
             useframes : BOOLEAN,             \* the firmware numbers its frames
             apifails  : BOOLEAN,             \* CArcDevice::expose may throw
             openfails : BOOLEAN,             \* files may fail to be created
             writefails : BOOLEAN,            \* CCfits may fail to write an image
             aborts    : BOOLEAN]             \* clients send abort

ASSUME ArcExposureAssumption ==
  /\ MaxDev \in Nat \ {0} /\ MaxFrames \in Nat \ {0} /\ MaxExposes \in Nat
  /\ Scenarios \subseteq Scenario

Frames == 1 .. MaxFrames
NoFrame == 0
FrameNumber == Frames \cup {NoFrame}
ThreadPlaces == {"none", "start", "wait", "write", "erase"}

VARIABLES
  sc,                                  \* the scenario
  pc, next, result, imnum, exposes,    \* expose: its place, the next device to start
  abortstate, framethreadcount,
  framecount, frameinfo, workbuf, failed,   \* Controller: failed is its error
  api, delivered, slot,                \* the thread of a device, its frames, its buffer
  fpc,                                 \* the thread of each frame
  fileOpen, ferror,                    \* the FITS_file of each device
  written,                             \* images that went to its file, in order
  \* History of what the code lets happen and does not record:
  lost,                                \* threads that ended without counting themselves off
  outpaced,                            \* devices a frame of which came too early for its file
  unopened                             \* devices that expose without a file

main    == <<pc, next, result, imnum, exposes>>
shared  == <<abortstate, framethreadcount>>
control == <<framecount, frameinfo, workbuf>>
device  == <<api, delivered, slot>>
files   == <<fileOpen, ferror, written>>
history == <<lost, outpaced, unopened>>
vars    == <<sc, main, shared, control, failed, device, fpc, files, history>>

Devices == 1 .. sc.devices

Init ==
  /\ sc \in Scenarios
  /\ pc = "idle" /\ next = 1 /\ result = "NO_ERROR" /\ imnum = 0 /\ exposes = 0
  /\ abortstate = FALSE /\ framethreadcount = 0
  /\ framecount = [d \in Devices |-> 0] /\ frameinfo = [d \in Devices |-> {}]
  /\ workbuf = [d \in Devices |-> NoFrame] /\ failed = [d \in Devices |-> FALSE]
  /\ api = [d \in Devices |-> "off"] /\ delivered = [d \in Devices |-> 0]
  /\ slot = [d \in Devices |-> [b \in 0 .. MaxFrames - 1 |-> NoFrame]]
  /\ fpc = [d \in Devices |-> [f \in Frames |-> "none"]]
  /\ fileOpen = [d \in Devices |-> FALSE] /\ ferror = [d \in Devices |-> FALSE]
  /\ written = [d \in Devices |-> <<>>]
  /\ lost = 0 /\ outpaced = {} /\ unopened = {}

-----------------------------------------------------------------------------
(* Helpers of the handlers. *)

HasThread(d, f) == fpc[d][f] # "none"

\* fpbcount: the slot of a frame.
Slot(f) == (f - 1) % sc.fpb

\* fcount as frameCallback hands it on.
Fcount(f) == IF sc.useframes THEN f ELSE 1

Live == {t \in Devices \X Frames : HasThread(t[1], t[2])}

NotRemoved == framethreadcount
RemovedTwice == framethreadcount - 2
add_framethread == framethreadcount + 1
remove_framethread == framethreadcount - 1

init_framecount == [d \in Devices |-> 0]
increment_framecount(d) == [framecount EXCEPT ![d] = @ + 1]

open_file(d) ==
  /\ ~fileOpen[d]
  /\ fileOpen' = [fileOpen EXCEPT ![d] = TRUE]
  /\ ferror' = [ferror EXCEPT ![d] = FALSE]
  /\ written' = [written EXCEPT ![d] = <<>>]
  /\ outpaced' = outpaced \ {d} /\ unopened' = unopened \ {d}

close_file == fileOpen' = [d \in Devices |-> FALSE]

Moves(d, f, place) == fpc' = [fpc EXCEPT ![d][f] = place]

-----------------------------------------------------------------------------
(* expose. *)

(* The checks of exposure time, image size, readout type and buffer may
   refuse it; get_fitsname may fail after abort flag and counters are reset. *)
Expose ==
  /\ pc = "idle" /\ exposes < MaxExposes
  /\ exposes' = exposes + 1
  /\ \/ result' = "ERROR" /\ UNCHANGED <<pc, next, shared, framecount>>
     \/ /\ abortstate' = FALSE /\ framethreadcount' = 0
        /\ framecount' = init_framecount
        /\ \/ pc' = "start" /\ next' = 1 /\ result' = "NO_ERROR"
           \/ result' = "ERROR" /\ UNCHANGED <<pc, next>>
  /\ UNCHANGED <<sc, imnum, frameinfo, workbuf, failed, device, fpc, files, history>>

(* The file of the next device is opened and its thread started.  An error of
   open_file is overwritten by the check of the threads' errors.  What the
   buffers hold of earlier exposures is no frame of this one. *)
Start ==
  /\ pc = "start"
  /\ \/ open_file(next)
     \/ /\ fileOpen[next] \/ sc.openfails
        /\ unopened' = unopened \cup {next} /\ UNCHANGED <<files, outpaced>>
  /\ api' = [api EXCEPT ![next] = "running"]
  /\ slot' = [slot EXCEPT ![next] = [b \in DOMAIN @ |-> NoFrame]]
  /\ workbuf' = [workbuf EXCEPT ![next] = NoFrame]
  /\ next' = next + 1 /\ pc' = IF next = sc.devices THEN "join" ELSE "start"
  /\ UNCHANGED <<sc, result, imnum, exposes, shared, framecount, frameinfo, failed, delivered, fpc, lost>>

Join ==
  /\ pc = "join" /\ \A d \in Devices : api[d] = "off"
  /\ pc' = "count"
  /\ UNCHANGED <<sc, next, result, imnum, exposes, shared, control, failed, device, fpc, files, history>>

LastFailed == failed[sc.devices]
AnyFailed == \E d \in Devices : failed[d]

NotAwaited == TRUE
AllFramesDone == framethreadcount <= 0

\* The errors are collected, the files closed.
Finish ==
  /\ pc = "count" /\ AllFramesDone
  /\ imnum' = IF AnyFailed THEN imnum ELSE imnum + 1
  /\ close_file
  /\ result' = IF AnyFailed \/ \E d \in Devices : ferror[d] THEN "ERROR" ELSE "NO_ERROR"
  /\ pc' = "idle"
  /\ UNCHANGED <<sc, next, exposes, shared, control, failed, device, fpc, ferror, written, history>>

-----------------------------------------------------------------------------
(* dothread_expose with the API, and frameCallback. *)

(* Nothing keeps a device from being faster than its threads.  A frame comes
   too early if it overwrites one whose thread is not through or, from firmware
   without frame numbers, if any earlier thread is not. *)
Outruns(d, f) == \E g \in Frames : HasThread(d, g) /\ (sc.useframes => Slot(g) = Slot(f))

frameCallback(d) ==
  /\ api[d] = "running" /\ delivered[d] < sc.frames
  /\ LET f == delivered[d] + 1
     IN /\ delivered' = [delivered EXCEPT ![d] = f]
        /\ slot' = [slot EXCEPT ![d][Slot(f)] = f]
        /\ Moves(d, f, "start")
        /\ outpaced' = IF Outruns(d, f) THEN outpaced \cup {d} ELSE outpaced
  /\ framethreadcount' = add_framethread
  /\ UNCHANGED <<sc, main, abortstate, control, failed, api, files, lost, unopened>>

\* The API returns when all frames are in.  Header keys are added to the file.
ExposeEnds(d) ==
  /\ api[d] = "running" /\ delivered[d] = sc.frames
  /\ api' = [api EXCEPT ![d] = "keys"] /\ delivered' = [delivered EXCEPT ![d] = 0]
  /\ UNCHANGED <<sc, main, shared, control, failed, slot, fpc, files, history>>

KeysAdded(d) ==
  /\ api[d] = "keys"
  /\ api' = [api EXCEPT ![d] = "off"] /\ failed' = [failed EXCEPT ![d] = FALSE]
  /\ UNCHANGED <<sc, main, shared, control, delivered, slot, fpc, files, history>>

\* It throws because of an abort or an error, which aborts the other devices.
ExposeThrows(d) ==
  /\ api[d] = "running" /\ (abortstate \/ sc.apifails)
  /\ abortstate' = TRUE
  /\ api' = [api EXCEPT ![d] = "off"] /\ failed' = [failed EXCEPT ![d] = TRUE]
  /\ delivered' = [delivered EXCEPT ![d] = 0]
  /\ UNCHANGED <<sc, main, framethreadcount, control, slot, fpc, files, history>>

-----------------------------------------------------------------------------
(* handle_frame. *)

(* The frame takes its slot.  If another one has it the thread returns at
   once, without counting itself off. *)
Claim(d, f) ==
  /\ fpc[d][f] = "start"
  /\ IF Slot(f) \in frameinfo[d]
       THEN Moves(d, f, "none") /\ lost' = lost + 1 /\ UNCHANGED frameinfo
       ELSE /\ Moves(d, f, "wait") /\ frameinfo' = [frameinfo EXCEPT ![d] = @ \cup {Slot(f)}]
            /\ UNCHANGED lost
  /\ UNCHANGED <<sc, main, shared, framecount, workbuf, failed, device, files, outpaced, unopened>>

AnyFrame(d, f) == TRUE
NextInLine(d, f) == Fcount(f) = framecount[d] + 1 \/ ~sc.useframes

\* write_frame deinterlaces the slot into the work buffer.
Deinterlace(d, f) ==
  /\ fpc[d][f] = "wait" /\ NextInLine(d, f) /\ ~abortstate
  /\ workbuf' = [workbuf EXCEPT ![d] = slot[d][Slot(f)]]
  /\ Moves(d, f, "write")
  /\ UNCHANGED <<sc, main, shared, framecount, frameinfo, failed, device, files, history>>

WaitsOn(d, f) == FALSE
Aborted(d, f) == abortstate

Skip(d, f) ==
  /\ fpc[d][f] = "wait" /\ Aborted(d, f)
  /\ Moves(d, f, "erase")
  /\ UNCHANGED <<sc, main, shared, control, failed, device, files, history>>

\* Controller::write: a write that fails is not counted, so that the next frame
\* waits for it.
write(d) ==
  \/ /\ fileOpen[d]
     /\ written' = [written EXCEPT ![d] = Append(@, workbuf[d])]
     /\ framecount' = IF ferror[d] THEN framecount ELSE increment_framecount(d)
     /\ UNCHANGED ferror
  \/ /\ fileOpen[d] /\ sc.writefails
     /\ ferror' = [ferror EXCEPT ![d] = TRUE]
     /\ UNCHANGED <<written, framecount>>
  \/ ~fileOpen[d] /\ UNCHANGED <<ferror, written, framecount>>

\* write_frame: an abort skips the write and counts it as done.
Write(d, f) ==
  /\ fpc[d][f] = "write"
  /\ \/ ~abortstate /\ write(d)
     \/ /\ abortstate /\ framecount' = increment_framecount(d)
        /\ UNCHANGED <<ferror, written>>
  /\ Moves(d, f, "erase")
  /\ UNCHANGED <<sc, main, shared, frameinfo, workbuf, failed, device, fileOpen, history>>

Erase(d, f) ==
  /\ fpc[d][f] = "erase"
  /\ frameinfo' = [frameinfo EXCEPT ![d] = @ \ {Slot(f)}]
  /\ framethreadcount' = remove_framethread
  /\ Moves(d, f, "none")
  /\ UNCHANGED <<sc, main, abortstate, framecount, workbuf, failed, device, files, history>>

-----------------------------------------------------------------------------
\* Camera::abort, from another client.
Abort ==
  /\ sc.aborts /\ pc # "idle" /\ ~abortstate
  /\ abortstate' = TRUE
  /\ UNCHANGED <<sc, main, framethreadcount, control, failed, device, fpc, files, history>>

Exposer == Start \/ Join \/ Finish
Driver(d) == frameCallback(d) \/ ExposeEnds(d) \/ KeysAdded(d) \/ ExposeThrows(d)
Thread(d, f) == Claim(d, f) \/ Deinterlace(d, f) \/ Skip(d, f) \/ Write(d, f) \/ Erase(d, f)

Next == Expose \/ Exposer \/ Abort
          \/ \E d \in Devices : Driver(d) \/ \E f \in Frames : Thread(d, f)

Spec == Init /\ [][Next]_vars

(* Threads are scheduled; a device that exposes delivers its frames or throws.
   expose and handle_frame wait in loops that poll. *)
FairSpec ==
  /\ Spec /\ WF_vars(Exposer)
  /\ \A d \in 1 .. MaxDev :
       /\ WF_vars(d \in Devices /\ Driver(d))
       /\ \A f \in Frames : WF_vars(d \in Devices /\ Thread(d, f))

-----------------------------------------------------------------------------
(* Properties. *)

(* Types of the variables. *)
TypeOK ==
  /\ sc \in Scenarios
  /\ pc \in {"idle", "start", "join", "count"} /\ next \in 1 .. sc.devices + 1
  /\ result \in {"NO_ERROR", "ERROR"} /\ imnum \in 0 .. MaxExposes /\ exposes \in 0 .. MaxExposes
  /\ abortstate \in BOOLEAN /\ framethreadcount \in Nat
  /\ framecount \in [Devices -> 0 .. MaxFrames]
  /\ frameinfo \in [Devices -> SUBSET (0 .. MaxFrames - 1)]
  /\ workbuf \in [Devices -> FrameNumber] /\ failed \in [Devices -> BOOLEAN]
  /\ api \in [Devices -> {"off", "running", "keys"}] /\ delivered \in [Devices -> 0 .. MaxFrames]
  /\ slot \in [Devices -> [0 .. MaxFrames - 1 -> FrameNumber]]
  /\ fpc \in [Devices -> [Frames -> ThreadPlaces]]
  /\ fileOpen \in [Devices -> BOOLEAN] /\ ferror \in [Devices -> BOOLEAN]
  /\ written \in [Devices -> Seq(FrameNumber)]
  /\ lost \in Nat /\ outpaced \subseteq Devices /\ unopened \subseteq Devices

(* framethreadcount is the number of frame threads and of those that ended
   without counting themselves off.  A thread only ends so if its device
   overwrote a frame that waited in the buffer. *)
ThreadsCounted ==
  /\ framethreadcount = Cardinality(Live) + lost
  /\ lost > 0 => outpaced # {}

(* The images of a device go to its file in the order of the frames, each one
   at most once, and each one is what the controller put in the buffer for it,
   whatever their threads do, unless the device was too fast for them.  None
   is left out, unless the firmware has no frame numbers and a write failed,
   which the file reports. *)
FramesInOrder ==
  \A d \in Devices \ outpaced :
    /\ \A i, j \in DOMAIN written[d] : i < j => written[d][i] < written[d][j]
    /\ sc.useframes \/ ~ferror[d] => \A i \in DOMAIN written[d] : written[d][i] = i

(* When expose has returned, its threads have ended and its files are closed:
   no frame of this exposure touches the file of the next. *)
QuietAtRest ==
  pc = "idle" => /\ Live = {}
                 /\ \A d \in Devices : api[d] = "off" /\ ~fileOpen[d] /\ frameinfo[d] = {}

(* An exposure that returns NO_ERROR had no device fail, and no image that its
   file did not take, whatever the others did; unless it was aborted, there is
   an image for every frame of every device, those aside whose file could not
   be created: that error is lost. *)
SuccessIsComplete ==
  pc = "idle" /\ exposes > 0 /\ result = "NO_ERROR" =>
    \A d \in Devices : /\ ~failed[d] /\ ~ferror[d]
                       /\ abortstate \/ d \in unopened \/ Len(written[d]) = sc.frames

(* What expose may wait for in vain: a thread that ended uncounted, or one that
   waits, in an exposure that nobody aborts, for a frame that its file did not
   take. *)
Hangs ==
  \/ lost > 0
  \/ /\ sc.useframes /\ ~abortstate
     /\ \E d \in Devices : /\ ferror[d] \/ ~fileOpen[d]
                           /\ \E f \in Frames : fpc[d][f] = "wait"

(* Every exposure comes to an end, an aborted or failed one too, except one
   that hangs for one of these reasons, and from some moment on for good. *)
ExposeReturns == <>[](pc # "idle") => <>[]Hangs
=============================================================================
