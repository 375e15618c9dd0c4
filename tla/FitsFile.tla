------------------------------- MODULE FitsFile -------------------------------
(***************************************************************************)
(* The FITS file of an exposure: class FITS_file (camerad/fits.h) with its *)
(* detached writer threads, and the parts of Archon::Interface::expose,    *)
(* read_frame() and write_frame (camerad/archon.cpp) that open the file,   *)
(* feed it and close it, for single images, data cubes (datacube), one     *)
(* extension per amplifier (cubeamps), image and raw data (RAWENABLE), and *)
(* the observing mode RAW.                                                 *)
(*                                                                         *)
(* One thread runs expose; other clients may change the settings.  A file  *)
(* is a number, its content the sequence of images in its data units.      *)
(***************************************************************************)
EXTENDS Integers, Sequences, FiniteSets

CONSTANTS
  Amps,         \* amplifier sections of the mode
  Scenarios,    \* what a behaviour may do, see the assumption
  MaxSeq,       \* bound: images of an expose, and of all scenarios
  MaxFiles,     \* bound: files ever created, the same
  MaxWriters    \* bound: writer threads at the same time

Settings == {"datacube_true", "datacube_false", "cubeamps_true", "cubeamps_false",
             "mode_raw", "mode_image"}

(* In a scenario clients send the commands between the exposes, or during  *)
(* them too; with rawtoo (RAWENABLE of the mode) a raw frame follows each  *)
(* image and up to pre pre-exposures come before the images; files may fail *)
(* to be created (create) or images to be written (write),                 *)
(* wait_for_exposure (wait) and wait_for_readout and read_frame (read) may *)
(* fail, and a write may outlast FITS_WRITE_WAIT (slow).                   *)
ASSUME FitsFileAssumption ==
  /\ \A s \in Scenarios :
       /\ s.commands \subseteq Settings /\ {s.during, s.rawtoo} \subseteq BOOLEAN
       /\ {s.create, s.wait, s.read, s.write, s.slow} \subseteq BOOLEAN
       /\ s.seq \in 0 .. MaxSeq /\ s.pre \in Nat /\ s.files \in 0 .. MaxFiles
  /\ Amps \in Nat \ {0} /\ MaxSeq \in Nat /\ MaxFiles \in Nat /\ MaxWriters \in Nat \ {0}

Writers == 1 .. MaxWriters
Nobody == 0
Files == 0 .. MaxFiles      \* 0: no file yet
RawPart == 0                \* the raw frame; 1 .. Amps are amplifiers
Image == [frame : 1 .. MaxFiles * MaxSeq, part : 0 .. Amps]
Garbage == [frame |-> 0, part |-> 0]   \* pixels of an array that is gone

Places == {"idle", "opencube", "loop", "openframe", "wait", "read",
           "write", "join", "written", "failed", "stored", "last",
           "openraw", "readraw", "rawdone"}
WriterPlaces == {"none", "start", "turn", "lock", "write", "count"}

VARIABLES
  scen,                                 \* the scenario, which never changes
  datacube, cubeamps, mode,             \* settings, current_observing_mode
  iscube, extension,                    \* camera_info
  fileOpen, threadcount, framen, writing, werror, fmutex,   \* FITS_file
  container,                            \* its pFits: the last file created
  wpc, wcube, wimage,                   \* writer threads: what each writes
  disk,                                 \* images in each file
  pc, nseq, pre, result,                \* expose: the images and, before them,
                                        \* the pre-exposures that are left
  rawexpose,                            \* its local copy of the mode is RAW
  frame, part, parts, raw, ok,          \* read_frame and write_frame
  current,                              \* thread that write_image waits for
  announced,                            \* files announced as COMPLETE
  given, first,                         \* history: images handed over for each file,
                                        \* frames read before this expose,
  stray,                                \* files in whose time a writer thread was left
                                        \* behind, or was still there from before,
  abandoned                             \* an expose returned without its close_file

settings == <<datacube, cubeamps, mode>>
info     == <<iscube, extension>>
fits     == <<fileOpen, threadcount, framen, writing, werror, fmutex, container>>
threads  == <<wpc, wcube, wimage>>
stored   == <<disk, given, first, announced>>
history  == <<stray, abandoned>>
place    == <<pc, nseq, pre, result, rawexpose>>
image    == <<frame, part, parts, raw, ok, current>>
vars     == <<scen, settings, info, fits, threads, stored, history, place, image>>

Init ==
  /\ scen \in Scenarios
  /\ datacube = FALSE /\ cubeamps = FALSE /\ mode = "image" /\ iscube = FALSE /\ extension = 0
  /\ fileOpen = FALSE /\ threadcount = 0 /\ framen = 0 /\ writing = FALSE
  /\ werror = FALSE /\ fmutex = Nobody /\ container = 0
  /\ wpc = [w \in Writers |-> "none"]
  /\ wcube = [w \in Writers |-> FALSE] /\ wimage = [w \in Writers |-> Garbage]
  /\ disk = [f \in Files |-> <<>>] /\ given = [f \in Files |-> <<>>]
  /\ announced = {} /\ first = 0 /\ stray = {} /\ abandoned = FALSE
  /\ pc = "idle" /\ nseq = 0 /\ pre = 0 /\ result = "NO_ERROR" /\ rawexpose = FALSE
  /\ frame = 0 /\ part = 0 /\ parts = 1 /\ raw = FALSE /\ ok = TRUE /\ current = Nobody

-----------------------------------------------------------------------------
(* Camera::datacube, Camera::cubeamps and set_camera_mode. *)

Set(command) ==
  /\ command \in scen.commands /\ (scen.during \/ pc = "idle")
  /\ \/ /\ command \in {"datacube_true", "datacube_false"}
        /\ datacube' = (command = "datacube_true")
        /\ UNCHANGED <<cubeamps, mode>>
     \/ /\ command \in {"cubeamps_true", "cubeamps_false"}
        /\ datacube' = (command = "cubeamps_true") /\ cubeamps' = datacube'
        /\ UNCHANGED mode
     \/ /\ command \in {"mode_raw", "mode_image"} /\ pc = "idle"
        /\ mode' = IF command = "mode_raw" THEN "raw" ELSE "image"
        /\ UNCHANGED <<datacube, cubeamps>>
  /\ UNCHANGED <<scen, info, fits, threads, stored, history, place, image>>

-----------------------------------------------------------------------------
(* FITS_file::open_file and close_file. *)

Goto(p) == pc' = p /\ UNCHANGED result
Return(code) == pc' = "idle" /\ result' = code

Threads == {w \in Writers : wpc[w] # "none"}

OpenFile(next) ==
  /\ fmutex = Nobody
  /\ \/ /\ fileOpen \/ scen.create
        /\ Return("ERROR")
        /\ abandoned' = (abandoned \/ fileOpen)
        /\ UNCHANGED <<fits, stray>>
     \/ /\ ~fileOpen
        /\ fileOpen' = TRUE /\ container' = container + 1
        /\ threadcount' = 0 /\ framen' = 0 /\ writing' = FALSE /\ werror' = FALSE
        /\ stray' = IF Threads = {} THEN stray ELSE stray \cup {container + 1}
        /\ Goto(next)
        /\ UNCHANGED <<fmutex, abandoned>>

\* A return between open_file and close_file.
Abandon(code) == Return(code) /\ abandoned' = (abandoned \/ fileOpen) /\ UNCHANGED stray

StaysOpen == fileOpen
Closed == FALSE

\* The mutex of the writer threads is not taken.
CloseFile ==
  /\ fileOpen' = Closed
  /\ UNCHANGED <<threadcount, framen, writing, werror, fmutex, container>>

Announce == announced' = announced \cup {container} /\ UNCHANGED <<disk, given, first>>

-----------------------------------------------------------------------------
(* expose. *)

\* Every frame of an expose has a file of its own, or all share one.
PerFrame == ~datacube \/ cubeamps

Expose(n, p) ==
  /\ pc = "idle" /\ container + n < scen.files
  /\ datacube' = (datacube \/ (scen.rawtoo /\ mode # "raw"))
  /\ iscube' = datacube' /\ extension' = 0
  /\ nseq' = n /\ pre' = p /\ first' = frame
  /\ result' = "NO_ERROR" /\ rawexpose' = (mode = "raw")
  /\ pc' = IF datacube' /\ ~cubeamps THEN "opencube"
           ELSE IF rawexpose' THEN "openraw" ELSE "loop"
  /\ UNCHANGED <<scen, cubeamps, mode, fits, threads, disk, given, announced, history, image>>

OpenCube ==
  /\ pc = "opencube"
  /\ OpenFile(IF rawexpose THEN "openraw" ELSE "loop")
  /\ UNCHANGED <<scen, settings, info, threads, stored, nseq, pre, rawexpose, image>>

\* A pre-exposure is waited for and not read; its failure returns at once, too.
Loop ==
  /\ pc = "loop"
  /\ \/ /\ pre > 0 /\ pre' = pre - 1
        /\ \/ Goto("loop") /\ UNCHANGED history
           \/ (scen.wait \/ scen.read) /\ Abandon("ERROR")
        /\ UNCHANGED nseq
     \/ /\ pre = 0 /\ nseq > 0 /\ nseq' = nseq - 1
        /\ Goto(IF PerFrame THEN "openframe" ELSE "wait")
        /\ UNCHANGED <<pre, history>>
     \/ pre = 0 /\ nseq = 0 /\ Goto("last") /\ UNCHANGED <<nseq, pre, history>>
  /\ UNCHANGED <<scen, settings, info, fits, threads, stored, rawexpose, image>>

OpenFrame ==
  /\ pc = "openframe"
  /\ extension' = 0
  /\ OpenFile("wait")
  /\ UNCHANGED <<scen, settings, iscube, threads, stored, nseq, pre, rawexpose, image>>

\* wait_for_exposure: its failure returns without closing the file.
Wait ==
  /\ pc = "wait"
  /\ \/ Goto("read") /\ UNCHANGED history
     \/ scen.wait /\ Abandon("ERROR")
  /\ UNCHANGED <<scen, settings, info, fits, threads, stored, nseq, pre, rawexpose, image>>

\* wait_for_readout, read_frame(frame_type), then write_frame begins.
Read ==
  /\ pc = "read"
  /\ \/ /\ frame' = frame + 1 /\ part' = 1 /\ raw' = FALSE
        /\ parts' = IF cubeamps THEN Amps ELSE 1
        /\ Goto("write")
     \/ scen.read /\ Goto("failed") /\ UNCHANGED <<frame, part, parts, raw>>
  /\ UNCHANGED <<scen, settings, info, fits, threads, stored, history, nseq, pre, rawexpose,
                 ok, current>>

ThisImage == [frame |-> frame, part |-> IF raw THEN RawPart ELSE part]

\* write_image hands its copy of the pixels to a new detached thread.
Write ==
  /\ pc = "write"
  /\ \/ /\ ~fileOpen
        /\ ok' = FALSE /\ Goto("written")
        /\ UNCHANGED <<threadcount, threads, given, current>>
     \/ /\ fileOpen
        /\ \E w \in Writers :
             /\ wpc[w] = "none"
             /\ wpc' = [wpc EXCEPT ![w] = "start"] /\ wimage' = [wimage EXCEPT ![w] = ThisImage]
             /\ current' = w /\ UNCHANGED wcube
        /\ threadcount' = threadcount + 1
        /\ given' = [given EXCEPT ![container] = Append(@, ThisImage)]
        /\ Goto("join") /\ UNCHANGED ok
  /\ UNCHANGED <<scen, settings, info, fileOpen, framen, writing, werror, fmutex, container,
                 disk, first, announced, history, nseq, pre, rawexpose, frame, part, parts, raw>>

MyTurn(w) == IF wcube[w] THEN extension = framen ELSE ~writing

\* Thread w is not waiting for anything.
Runs(w) == \/ wpc[w] \in {"start", "write"}
           \/ wpc[w] = "turn" /\ MyTurn(w)
           \/ wpc[w] \in {"lock", "count"} /\ fmutex = Nobody

WriteTakesTooLong == scen.slow \/ \A w \in Writers : ~Runs(w)

NoJoin == TRUE
AllJoined == threadcount <= 0

Join ==
  /\ pc = "join"
  /\ \/ AllJoined /\ ok' = ~werror /\ UNCHANGED <<writing, stray>>
     \/ /\ ~AllJoined /\ WriteTakesTooLong
        /\ ok' = FALSE /\ writing' = FALSE
        /\ stray' = stray \cup {container}
  /\ Goto("written") /\ current' = Nobody
  /\ UNCHANGED <<scen, settings, info, fileOpen, threadcount, framen, werror, fmutex, container,
                 threads, stored, abandoned, nseq, pre, rawexpose, frame, part, parts, raw>>

NotCounted(n) == n
Counted(n) == n + 1

Amp == parts > 1 /\ ~raw
AfterAmp == IF Amp THEN Counted(extension) ELSE extension

\* write_frame goes on with the next amplifier, whatever became of this one.
NextAmp ==
  /\ pc = "written" /\ Amp /\ part < parts
  /\ extension' = AfterAmp /\ part' = part + 1
  /\ Goto("write")
  /\ UNCHANGED <<scen, settings, iscube, fits, threads, stored, history, nseq, pre, rawexpose,
                 frame, parts, raw, ok, current>>

NotWritten ==
  /\ pc = "written" /\ ~(Amp /\ part < parts) /\ ~ok
  /\ extension' = AfterAmp
  /\ Goto(IF rawexpose THEN "rawdone" ELSE "failed")
  /\ UNCHANGED <<scen, settings, iscube, fits, threads, stored, history, nseq, pre, rawexpose,
                 image>>

ModeLeft == mode
OriginalMode == "image"

(* After an image the mode is switched to RAW, a raw frame is read and
   written, and the mode is switched back.  Each of these may fail. *)
WrittenWell ==
  /\ pc = "written" /\ ~(Amp /\ part < parts) /\ ok
  /\ extension' = IF datacube THEN Counted(AfterAmp) ELSE AfterAmp
  /\ \/ rawexpose /\ Goto("rawdone") /\ UNCHANGED <<mode, raw>>
     \/ ~rawexpose /\ ~scen.rawtoo /\ Goto("stored") /\ UNCHANGED <<mode, raw>>
     \/ /\ ~rawexpose /\ scen.rawtoo /\ ~raw
        /\ \/ mode' = "raw" /\ raw' = TRUE /\ Goto("write")
           \/ scen.read /\ mode' \in {mode, "raw"} /\ UNCHANGED raw /\ Goto("failed")
     \/ /\ ~rawexpose /\ scen.rawtoo /\ raw
        /\ \/ mode' = OriginalMode /\ Goto("stored")
           \/ scen.read /\ mode' \in {mode, OriginalMode} /\ Goto("failed")
        /\ UNCHANGED raw
  /\ UNCHANGED <<scen, datacube, cubeamps, iscube, fits, threads, stored, history, nseq, pre,
                 rawexpose, frame, part, parts, ok, current>>

Failed ==
  /\ pc = "failed"
  /\ CloseFile
  /\ Return("ERROR")
  /\ UNCHANGED <<scen, settings, info, threads, stored, history, nseq, pre, rawexpose, image>>

Stored ==
  /\ pc = "stored"
  /\ IF PerFrame THEN CloseFile /\ Announce ELSE UNCHANGED <<fits, stored>>
  /\ Goto("loop")
  /\ UNCHANGED <<scen, settings, info, threads, history, nseq, pre, rawexpose, image>>

Last ==
  /\ pc = "last"
  /\ IF datacube /\ ~cubeamps THEN CloseFile /\ Announce ELSE UNCHANGED <<fits, stored>>
  /\ Return("NO_ERROR")
  /\ UNCHANGED <<scen, settings, info, threads, history, nseq, pre, rawexpose, image>>

-----------------------------------------------------------------------------
(* expose in the observing mode RAW: the frame is read without a wait. *)

OpenRaw ==
  /\ pc = "openraw"
  /\ OpenFile("readraw")
  /\ UNCHANGED <<scen, settings, info, threads, stored, nseq, pre, rawexpose, image>>

ReadRaw ==
  /\ pc = "readraw"
  /\ \/ /\ frame' = frame + 1 /\ part' = 1 /\ parts' = 1 /\ raw' = TRUE
        /\ Goto("write")
        /\ UNCHANGED ok
     \/ scen.read /\ ok' = FALSE /\ Goto("rawdone") /\ UNCHANGED <<frame, part, parts, raw>>
  /\ UNCHANGED <<scen, settings, info, fits, threads, stored, history, nseq, pre, rawexpose,
                 current>>

RawDone ==
  /\ pc = "rawdone"
  /\ CloseFile
  /\ IF ok /\ datacube /\ ~cubeamps THEN Announce ELSE UNCHANGED stored
  /\ Return(IF ok THEN "NO_ERROR" ELSE "ERROR")
  /\ UNCHANGED <<scen, settings, info, threads, history, nseq, pre, rawexpose, image>>

-----------------------------------------------------------------------------
(* The writer threads: write_image_thread and write_cube_thread. *)

At(w, p) == wpc' = [wpc EXCEPT ![w] = p]

Begin(w) ==
  /\ wpc[w] = "start"
  /\ wcube' = [wcube EXCEPT ![w] = iscube]
  /\ At(w, "turn")
  /\ UNCHANGED <<scen, settings, info, fits, wimage, stored, history, place, image>>

Turn(w) ==
  /\ wpc[w] = "turn" /\ MyTurn(w)
  /\ At(w, "lock")
  /\ UNCHANGED <<scen, settings, info, fits, wcube, wimage, stored, history, place, image>>

TurnTimeout(w) ==
  /\ wpc[w] = "turn" /\ ~MyTurn(w)
  /\ writing' = FALSE /\ werror' = TRUE
  /\ At(w, "count")
  /\ UNCHANGED <<scen, settings, info, fileOpen, threadcount, framen, fmutex, container,
                 wcube, wimage, stored, history, place, image>>

Lock(w) ==
  /\ wpc[w] = "lock" /\ fmutex = Nobody
  /\ fmutex' = w /\ writing' = TRUE
  /\ At(w, "write")
  /\ UNCHANGED <<scen, settings, info, fileOpen, threadcount, framen, werror, container,
                 wcube, wimage, stored, history, place, image>>

\* The array of the pixels is a variable of write_image.
Pixels(w) == IF current = w THEN wimage[w] ELSE Garbage

ErrorForgotten == werror
ErrorNoted == TRUE
MutexKept == fmutex
MutexAfter == Nobody

\* A cube gets one more extension, another file has its one image replaced.
Save(w) ==
  /\ wpc[w] = "write"
  /\ \/ /\ disk' = [disk EXCEPT ![container] =
                      IF wcube[w] THEN Append(@, Pixels(w)) ELSE <<Pixels(w)>>]
        /\ framen' = IF wcube[w] THEN framen + 1 ELSE framen
        /\ UNCHANGED werror
     \/ scen.write /\ werror' = ErrorNoted /\ UNCHANGED <<disk, framen>>
  /\ writing' = FALSE /\ fmutex' = MutexAfter
  /\ At(w, "count")
  /\ UNCHANGED <<scen, settings, info, fileOpen, threadcount, container, wcube, wimage,
                 given, first, announced, history, place, image>>

End(w) ==
  /\ wpc[w] = "count" /\ fmutex = Nobody
  /\ threadcount' = threadcount - 1
  /\ At(w, "none")
  /\ wcube' = [wcube EXCEPT ![w] = FALSE] /\ wimage' = [wimage EXCEPT ![w] = Garbage]
  /\ UNCHANGED <<scen, settings, info, fileOpen, framen, writing, werror, fmutex, container,
                 stored, history, place, image>>

-----------------------------------------------------------------------------
Exposer == OpenCube \/ Loop \/ OpenFrame \/ Wait \/ Read \/ Write \/ Join
             \/ NextAmp \/ NotWritten \/ WrittenWell \/ Failed \/ Stored \/ Last
             \/ OpenRaw \/ ReadRaw \/ RawDone

Writer(w) == Begin(w) \/ Turn(w) \/ TurnTimeout(w) \/ Lock(w) \/ Save(w) \/ End(w)

Next == Exposer \/ (\E n \in 1 .. scen.seq, p \in 0 .. scen.pre : Expose(n, p))
          \/ (\E w \in Writers : Writer(w)) \/ \E c \in Settings : Set(c)

Spec == Init /\ [][Next]_vars

\* Threads are scheduled, and every wait in them is counted down.
FairSpec == Spec /\ WF_vars(Exposer) /\ \A w \in Writers : WF_vars(Writer(w))

-----------------------------------------------------------------------------
(* Properties. *)

(* Types; an open_file resets the count of threads, also under threads that a
   write_image has left behind and that are still to count themselves off. *)
TypeOK ==
  /\ datacube \in BOOLEAN /\ cubeamps \in BOOLEAN /\ mode \in {"image", "raw"}
  /\ iscube \in BOOLEAN /\ extension \in Nat
  /\ fileOpen \in BOOLEAN /\ threadcount \in Int /\ framen \in Nat
  /\ writing \in BOOLEAN /\ werror \in BOOLEAN /\ fmutex \in Writers \cup {Nobody}
  /\ container \in Files
  /\ wpc \in [Writers -> WriterPlaces] /\ wcube \in [Writers -> BOOLEAN]
  /\ wimage \in [Writers -> Image \cup {Garbage}]
  /\ disk \in [Files -> Seq(Image \cup {Garbage})] /\ given \in [Files -> Seq(Image)]
  /\ announced \subseteq Files /\ first \in Nat /\ stray \subseteq Files /\ abandoned \in BOOLEAN
  /\ pc \in Places /\ nseq \in 0 .. MaxSeq /\ pre \in Nat /\ result \in {"NO_ERROR", "ERROR"}
  /\ rawexpose \in BOOLEAN
  /\ frame \in Nat /\ part \in 0 .. Amps /\ parts \in 1 .. Amps
  /\ raw \in BOOLEAN /\ ok \in BOOLEAN /\ current \in Writers \cup {Nobody}

(* A file announced as COMPLETE is closed and holds every image that was
   handed over for it, once and in order, unless a writer thread outlived the
   write_image that waited for it. *)
CompleteFiles ==
  \A f \in announced :
    /\ ~(fileOpen /\ f = container)
    /\ f \in stray \/ disk[f] = given[f]

Has(images, k) == \E i \in DOMAIN images : images[i].frame = k

\* Frame k was handed over for a file, which holds it unless it is stray.
Kept(k) == \E f \in Files : Has(given[f], k) /\ (f \in stray \/ Has(disk[f], k))

(* When an expose has returned NO_ERROR, its file is closed and every frame it
   read is in a file: an error of a writer thread is never lost on its way.
   Excepted are frames of stray files, whose thread counts are wrong. *)
SavedOrReported ==
  pc = "idle" /\ result = "NO_ERROR" => ~fileOpen /\ \A k \in first + 1 .. frame : Kept(k)

(* When no expose runs, no file is open, so that the next open_file does not
   fail because of the last one.  Only an expose that returned between its
   open_file and close_file leaves the file open: from wait_for_exposure, from
   a pre-exposure, or from a second open_file of its own. *)
ClosedAtRest == pc = "idle" /\ fileOpen => abandoned

(* When nothing fails, no expose does: the count of frames written, which the
   writer threads of a cube wait for, keeps up with the extension number. *)
NoSpuriousError ==
  ~(scen.create \/ scen.wait \/ scen.read \/ scen.write \/ scen.slow) => result = "NO_ERROR"

(* An expose that returns NO_ERROR leaves the observing mode as it found it:
   whatever fails between the two switches of a raw frame, which leaves the
   mode RAW behind, is reported. *)
ModeKept ==
  [][pc # "idle" /\ pc' = "idle" /\ result' = "NO_ERROR" =>
       mode' = IF rawexpose THEN "raw" ELSE "image"]_vars

\* Every expose comes to an end.
ExposeReturns == pc # "idle" ~> pc = "idle"
=============================================================================
