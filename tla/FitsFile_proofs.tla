------------------------- MODULE FitsFile_proofs -------------------------
(*************************************************************************)
(* Theorems about FitsFile, for any scenarios, images and writer threads. *)
(*************************************************************************)
EXTENDS FitsFile, SequenceTheorems, TLAPS

(* Scenarios in which the settings stay as they are during an expose, and
   amplifiers come only in cubes; anything may fail or be late. *)
Settled(s) ==
  /\ ~s.during
  /\ "cubeamps_true" \in s.commands => "datacube_false" \notin s.commands

(* Scenarios, of these, in which nothing fails or is late, amplifiers come
   without raw data, and the mode RAW without data cubes. *)
Quiet(s) ==
  /\ Settled(s) /\ ~(s.create \/ s.wait \/ s.read \/ s.write \/ s.slow)
  /\ "cubeamps_true" \in s.commands => ~s.rawtoo
  /\ "mode_raw" \in s.commands => ~s.rawtoo /\ "datacube_true" \notin s.commands

Pieces == [frame : Nat, part : Nat]

(* Types: of the settings and flags, of the counters, and of the data. *)
Flags ==
  /\ datacube \in BOOLEAN /\ cubeamps \in BOOLEAN /\ iscube \in BOOLEAN
  /\ mode \in {"image", "raw"} /\ result \in {"NO_ERROR", "ERROR"}
  /\ fileOpen \in BOOLEAN /\ writing \in BOOLEAN /\ werror \in BOOLEAN /\ abandoned \in BOOLEAN
  /\ rawexpose \in BOOLEAN /\ raw \in BOOLEAN /\ ok \in BOOLEAN

Counters ==
  /\ extension \in Nat /\ threadcount \in Int /\ framen \in Nat /\ container \in Nat
  /\ nseq \in Nat /\ pre \in Nat /\ first \in Nat /\ frame \in Nat /\ part \in Nat
  /\ parts \in Nat \ {0}

Data ==
  /\ fmutex \in Writers \cup {Nobody} /\ current \in Writers \cup {Nobody}
  /\ wpc \in [Writers -> WriterPlaces] /\ wcube \in [Writers -> BOOLEAN]
  /\ wimage \in [Writers -> Pieces]
  /\ disk \in [Files -> Seq(Pieces)] /\ given \in [Files -> Seq(Pieces)]
  /\ announced \subseteq Nat /\ stray \subseteq Nat

Typed == scen \in Scenarios /\ pc \in Places /\ Flags /\ Counters /\ Data

Writing == pc \in {"write", "join", "written"}

(* The settings, which an expose has taken over and which do not change until
   it returns. *)
SettingsInv ==
  ~scen.during =>
    /\ cubeamps => "cubeamps_true" \in scen.commands
    /\ pc # "idle" => iscube = datacube
    /\ pc = "opencube" => ~PerFrame
    /\ pc = "openframe" => PerFrame
    /\ pc \in {"openraw", "readraw", "rawdone"} => rawexpose
    /\ pc \in {"loop", "openframe", "wait", "read", "failed", "stored", "last"} => ~rawexpose

(* Where the file is open. *)
OpenInv ==
  ~scen.during =>
    /\ pc \in {"wait", "read", "write", "join", "written", "failed", "stored", "readraw",
       "rawdone"}
         => fileOpen
    /\ pc \in {"loop", "last", "openraw"} /\ ~PerFrame => fileOpen
    /\ pc \in {"readraw", "rawdone"} \/ (Writing /\ rawexpose) => PerFrame
    /\ pc = "last" /\ PerFrame => ~fileOpen
    /\ pc = "loop" /\ PerFrame /\ fileOpen => nseq > 0
    /\ pc = "idle" /\ result = "NO_ERROR" => ~fileOpen

(* Where it is closed, unless an expose has abandoned it. *)
ClosedInv ==
  ~scen.during =>
    /\ pc \in {"idle", "opencube", "openframe"} => ~fileOpen \/ abandoned
    /\ pc \in {"openraw", "loop"} /\ PerFrame => ~fileOpen \/ abandoned

(* What an image of the mode consists of. *)
PartsInv ==
  Settled(scen) =>
    /\ cubeamps => datacube
    /\ pc # "idle" /\ scen.rawtoo /\ ~rawexpose => datacube
    /\ Writing => part \in 1 .. parts /\ (parts > 1 => cubeamps)
    /\ Writing /\ rawexpose => raw /\ parts = 1
    /\ Writing /\ raw /\ ~rawexpose => scen.rawtoo

(* The files that are still to be created are within the bound. *)
BoundInv ==
  Settled(scen) =>
    /\ container <= MaxFiles
    /\ pc = "opencube" \/ (pc = "openraw" /\ PerFrame) => container < scen.files
    /\ PerFrame /\ ~rawexpose /\ pc \in {"loop", "wait", "read", "write", "join", "written",
       "stored"}
         => container + nseq < scen.files
    /\ pc = "openframe" => container + nseq + 1 < scen.files

NoThread ==
  /\ threadcount = 0 /\ ~writing /\ fmutex = Nobody
  /\ \A w \in Writers : wpc[w] = "none"

(* At most the thread that write_image waits for lives; it has its image and
   the file to itself. *)
OneThread ==
  /\ current \in Writers
  /\ \A w \in Writers : w # current => wpc[w] = "none"
  /\ threadcount = IF wpc[current] = "none" THEN 0 ELSE 1
  /\ fmutex = IF wpc[current] = "write" THEN current ELSE Nobody
  /\ writing => wpc[current] = "write"
  /\ wpc[current] \in {"turn", "lock", "write", "count"} => (wcube[current] <=> iscube)
  /\ wpc[current] # "none" => wimage[current] = ThisImage

(* No thread of another image touches the file, or has touched it. *)
Whole == Settled(scen) /\ container \notin stray

ThreadInv == Whole => IF pc = "join" THEN OneThread ELSE NoThread

(* The file holds what it was given, or will when one more image is written,
   unless a thread had an error. *)
Matches == disk[container] = given[container]
Empty == iscube \/ disk[container] = <<>>
Ready == Matches /\ Empty /\ ~werror
Unwritten == given[container] = Append(disk[container], ThisImage)
Written == werror \/ Matches
Pending == Empty /\ (werror \/ Unwritten)

PlaceInv ==
  Whole =>
    /\ pc \in {"wait", "read", "readraw"} => Ready
    /\ pc \in {"loop", "stored"} /\ ~PerFrame => Ready
    /\ pc = "stored" \/ (pc = "last" /\ ~PerFrame) => Matches
    /\ pc = "write" => Empty /\ Written
    /\ pc = "join" => IF wpc[current] \in {"count", "none"} THEN Written ELSE Pending
    /\ pc = "written" => (ok <=> ~werror) /\ Written
    /\ pc = "rawdone" /\ ok => Matches

(* The files: those to come are empty, those announced are complete. *)
FileInv ==
  Settled(scen) =>
    /\ \A f \in Files : f > container => disk[f] = <<>> /\ given[f] = <<>>
    /\ \A f \in stray : f <= container
    /\ \A f \in announced :
         f <= container /\ ~(fileOpen /\ f = container) /\ (f \in stray \/ disk[f] = given[f])

LastKept == first < frame => Kept(frame)

(* Every frame that this expose has read, the last one when it was written, is
   in a file. *)
KeptInv ==
  Settled(scen) =>
    /\ first <= frame
    /\ \A k \in first + 1 .. frame - 1 : Kept(k)
    /\ pc \in {"opencube", "openraw", "loop", "openframe", "wait", "read", "readraw", "stored",
       "last"}
         => LastKept
    /\ pc = "idle" /\ result = "NO_ERROR" => LastKept
    /\ pc \in {"join", "written"} => Has(given[container], frame)
    /\ pc \in {"written", "rawdone"} /\ ok => LastKept

(* The mode is RAW only while the raw frame of an expose is written, or when it
   was RAW to begin with. *)
Found == mode = IF rawexpose THEN "raw" ELSE "image"

ModeInv ==
  /\ pc \in {"opencube", "openraw", "loop", "openframe", "wait", "read", "readraw", "stored",
     "last", "rawdone"}
       => Found
  /\ Writing => Found \/ (raw /\ ~rawexpose /\ scen.rawtoo)

(* Without a cause there is no error, and every file is closed before the next
   one is opened. *)
ErrorInv ==
  Quiet(scen) =>
    /\ stray = {} /\ ~werror /\ result = "NO_ERROR" /\ pc # "failed"
    /\ pc \in {"written", "rawdone"} => ok
    /\ ~PerFrame => "mode_raw" \notin scen.commands /\ (pc # "idle" => ~rawexpose)
    /\ pc \in {"idle", "opencube", "openraw", "openframe"} => ~fileOpen
    /\ pc = "loop" /\ PerFrame => ~fileOpen
    /\ "mode_raw" \notin scen.commands =>
         ~rawexpose /\ (mode = "image" \/ (Writing /\ raw /\ scen.rawtoo))

(* The extension number is the count of images written, or one behind. *)
InStep == iscube => extension = framen
Behind == iscube => framen = extension + 1

StepInv ==
  Quiet(scen) =>
    /\ pc \in {"opencube", "openraw"} => extension = 0
    /\ pc \in {"wait", "read", "readraw", "write"} => InStep
    /\ pc \in {"loop", "stored"} /\ ~PerFrame => InStep
    /\ pc = "join" => IF wpc[current] \in {"count", "none"} THEN Behind ELSE InStep
    /\ pc = "written" => Behind

Inv ==
  /\ Typed /\ SettingsInv /\ OpenInv /\ ClosedInv /\ PartsInv /\ BoundInv
  /\ ThreadInv /\ PlaceInv /\ FileInv /\ KeptInv /\ ModeInv /\ ErrorInv /\ StepInv


(* A writer thread that moves on. *)
LEMMA Moves ==
  ASSUME Data, NEW w \in Writers, NEW p \in WriterPlaces, wpc' = [wpc EXCEPT ![w] = p]
  PROVE  /\ wpc' \in [Writers -> WriterPlaces] /\ wpc'[w] = p
         /\ \A v \in Writers : v # w => wpc'[v] = wpc[v]
  BY DEF Data

(* In the time of a whole file, a thread that lives is the one that write_image
   waits for. *)
LEMMA OnlyOne ==
  ASSUME Inv, Whole, NEW w \in Writers, wpc[w] # "none"
  PROVE  pc = "join" /\ current = w /\ OneThread
<1>1. IF pc = "join" THEN OneThread ELSE NoThread
  BY DEF Inv, ThreadInv
<1>2. pc = "join"
  BY <1>1 DEF NoThread
<1>. QED
  BY <1>1, <1>2 DEF OneThread

LEMMA QuietIsWhole ==
  ASSUME Inv, Quiet(scen)
  PROVE  Whole /\ Settled(scen) /\ stray = {} /\ ~werror
  BY DEF Inv, ErrorInv, Whole, Quiet

(* A thread that works on a whole file has its turn, if nothing has failed. *)
LEMMA HasTurn ==
  ASSUME Inv, Quiet(scen), pc = "join", wpc[current] = "turn"
  PROVE  MyTurn(current)
<1>1. OneThread
  BY QuietIsWhole DEF Inv, ThreadInv
<1>2. ~writing /\ (wcube[current] <=> iscube)
  BY <1>1 DEF OneThread
<1>3. InStep
  BY DEF Inv, StepInv
<1>. QED
  BY <1>2, <1>3 DEF MyTurn, InStep

LEMMA SetStep ==
  ASSUME Inv, NEW command \in Settings, Set(command)
  PROVE  Inv'
<1>0. UNCHANGED <<scen, iscube, extension, fileOpen, threadcount, framen, writing, werror,
                   fmutex, container, wpc, wcube, wimage, disk, given, announced, first, stray,
                   abandoned, pc, nseq, pre, result, rawexpose, frame, part, parts, raw, ok,
                   current>>
  BY DEF Set, settings, info, fits, threads, stored, place, image, history
<1>b. scen.files \in Nat /\ scen.files <= MaxFiles /\ MaxFiles \in Nat
  BY FitsFileAssumption DEF Inv, Typed
<1>k. (Whole' <=> Whole) /\ (LastKept' <=> LastKept) /\ (Matches' <=> Matches)
      /\ (InStep' <=> InStep) /\ (Behind' <=> Behind) /\ (Empty' <=> Empty) /\ (NoThread' <=> NoThread)
  BY <1>0 DEF Whole, LastKept, Kept, Has, Matches, InStep, Behind, Empty, NoThread
<1>1. Typed'
  <2>1. Flags'
    <3>1. datacube' \in BOOLEAN
      <4>1. (command = "datacube_true") \in BOOLEAN /\ (command = "cubeamps_true") \in BOOLEAN
        OBVIOUS
      <4>. QED
        BY ZenonT(40), <4>1 DEF Inv, Typed, Flags, Set
    <3>2. cubeamps' \in BOOLEAN
      BY ZenonT(40), <3>1 DEF Inv, Typed, Flags, Set
    <3>3. mode' \in {"image", "raw"}
      BY SMTT(40) DEF Inv, Typed, Flags, Set
    <3>. QED
      BY ZenonT(40), <3>1, <3>2, <3>3, <1>0 DEF Inv, Typed, Flags
  <2>2. Counters'
    BY <1>0 DEF Inv, Typed, Counters
  <2>3. Data'
    BY <1>0 DEF Inv, Typed, Data
  <2>. QED
    BY <1>0, <2>1, <2>2, <2>3 DEF Inv, Typed
<1>2. SettingsInv'
  BY <1>0 DEF Inv, Typed, Flags, SettingsInv, PerFrame, Set
<1>3. OpenInv'
  BY <1>0 DEF Inv, Typed, Flags, Counters, SettingsInv, OpenInv, PerFrame, Writing, Set
<1>4. ClosedInv'
  BY <1>0 DEF Inv, Typed, Flags, SettingsInv, OpenInv, ClosedInv, PerFrame, Writing, Set
<1>5. PartsInv'
  BY <1>0 DEF Inv, Typed, Flags, Counters, SettingsInv, PartsInv, Writing, Settled, Set
<1>6. BoundInv'
  BY <1>0, <1>b DEF Inv, Typed, Flags, Counters, SettingsInv, OpenInv, BoundInv, PerFrame,
     Settled, Set
<1>7. ThreadInv'
  BY <1>0 DEF Inv, ThreadInv, Whole, NoThread, OneThread, ThisImage
<1>8. PlaceInv'
  <2>1. Settled(scen) => pc = "idle"
    BY DEF Set, Settled
  <2>. QED
    BY <1>0, <2>1 DEF PlaceInv, Whole
<1>9. FileInv'
  BY <1>0 DEF Inv, FileInv
<1>10. KeptInv'
  BY <1>0 DEF Inv, KeptInv, LastKept, Kept, Has
<1>11. ModeInv'
  BY <1>0 DEF Inv, Typed, Flags, ModeInv, Found, Writing, Set
<1>12. ErrorInv'
  BY <1>0, <1>k DEF Inv, Typed, Flags, SettingsInv, OpenInv, PartsInv, ErrorInv, PerFrame,
     Writing, Settled, Quiet, Set
<1>13. StepInv'
  <2>1. Quiet(scen) => pc = "idle"
    BY DEF Set, Quiet, Settled
  <2>. QED
    BY <1>0, <2>1 DEF StepInv
<1>. QED
  BY <1>1, <1>2, <1>3, <1>4, <1>5, <1>6, <1>7, <1>8, <1>9, <1>10, <1>11, <1>12, <1>13 DEF Inv

LEMMA ExposeStep ==
  ASSUME Inv, NEW n \in 1 .. scen.seq, NEW p \in 0 .. scen.pre, Expose(n, p)
  PROVE  Inv'
<1>0. UNCHANGED <<scen, cubeamps, mode, fileOpen, threadcount, framen, writing, werror, fmutex,
                   container, wpc, wcube, wimage, disk, given, announced, stray, abandoned,
                   frame, part, parts, raw, ok, current>>
  BY DEF Expose, settings, info, fits, threads, stored, place, image, history
<1>b. scen.files \in Nat /\ scen.files <= MaxFiles /\ MaxFiles \in Nat
  BY FitsFileAssumption DEF Inv, Typed
<1>k. (Whole' <=> Whole) /\ (Matches' <=> Matches) /\ (NoThread' <=> NoThread)
  BY <1>0 DEF Whole, Matches, NoThread
<1>1. Typed'
  <2>1. Flags'
    BY <1>0 DEF Inv, Typed, Flags, Expose
  <2>2. Counters'
    BY <1>0 DEF Inv, Typed, Counters, Expose
  <2>3. Data'
    BY <1>0 DEF Inv, Typed, Counters, Data
  <2>4. pc' \in Places
    BY <1>0 DEF Inv, Typed, Places, Expose
  <2>. QED
    BY <1>0, <2>1, <2>2, <2>3, <2>4 DEF Inv, Typed
<1>2. SettingsInv'
  BY <1>0 DEF Inv, Typed, Flags, SettingsInv, PerFrame, Expose
<1>3. OpenInv'
  BY <1>0 DEF Inv, Typed, Flags, Counters, SettingsInv, OpenInv, PerFrame, Writing, Expose
<1>4. ClosedInv'
  BY <1>0 DEF Inv, Typed, Flags, SettingsInv, OpenInv, ClosedInv, PerFrame, Writing, Expose
<1>5. PartsInv'
  <2>1. pc' # "idle" /\ ~Writing' /\ (rawexpose' <=> mode = "raw")
    BY DEF Expose, Writing
  <2>2. datacube' <=> datacube \/ (scen.rawtoo /\ mode # "raw")
    BY DEF Expose
  <2>. QED
    BY <1>0, <2>1, <2>2 DEF Inv, PartsInv
<1>6. BoundInv'
  BY <1>0, <1>b DEF Inv, Typed, Flags, Counters, SettingsInv, OpenInv, BoundInv, PerFrame,
     Settled, Expose
<1>7. ThreadInv'
  BY <1>0, <1>k DEF Inv, ThreadInv, Expose
<1>8. PlaceInv'
  BY <1>0, <1>k DEF Inv, Typed, Flags, SettingsInv, OpenInv, PartsInv, PlaceInv, PerFrame,
     Ready, Written, Settled, Expose
<1>9. FileInv'
  BY <1>0 DEF Inv, FileInv
<1>10. KeptInv'
  <2>1. first' = frame /\ frame \in Nat /\ pc' \in {"opencube", "openraw", "loop"}
    BY DEF Expose, Inv, Typed, Counters
  <2>2. first' + 1 .. frame' - 1 = {} /\ LastKept'
    BY <1>0, <2>1 DEF LastKept
  <2>. QED
    BY <1>0, <2>1, <2>2 DEF KeptInv
<1>11. ModeInv'
  BY <1>0 DEF Inv, Typed, Flags, ModeInv, Found, Writing, Expose
<1>12. ErrorInv'
  BY <1>0, <1>k DEF Inv, Typed, Flags, SettingsInv, OpenInv, PartsInv, ErrorInv, PerFrame,
     Writing, Settled, Quiet, Expose
<1>13. StepInv'
  BY <1>0, <1>k DEF Inv, Typed, Flags, StepInv, PerFrame, Expose
<1>. QED
  BY <1>1, <1>2, <1>3, <1>4, <1>5, <1>6, <1>7, <1>8, <1>9, <1>10, <1>11, <1>12, <1>13 DEF Inv

LEMMA OpenCubeStep ==
  ASSUME Inv, OpenCube
  PROVE  Inv'
<1>0. UNCHANGED <<scen, datacube, cubeamps, mode, iscube, extension, fmutex, wpc, wcube, wimage,
                   disk, given, announced, first, nseq, pre, rawexpose, frame, part, parts, raw,
                   ok, current>>
  BY DEF OpenCube, settings, info, fits, threads, stored, place, image, history, OpenFile, Goto,
     Return
<1>b. scen.files \in Nat /\ scen.files <= MaxFiles /\ MaxFiles \in Nat
  BY FitsFileAssumption DEF Inv, Typed
<1>o. \/ /\ pc' = "idle" /\ result' = "ERROR" /\ (fileOpen \/ scen.create)
         /\ UNCHANGED <<fileOpen, container, stray, threadcount, framen, writing, werror>>
      \/ /\ pc' \in {"openraw", "loop"} /\ UNCHANGED result /\ fmutex = Nobody
         /\ fileOpen' /\ container' = container + 1
         /\ threadcount' = 0 /\ framen' = 0 /\ ~writing' /\ ~werror'
         /\ stray' = IF Threads = {} THEN stray ELSE stray \cup {container + 1}
  BY DEF OpenCube, OpenFile, Goto, Return, fits
<1>s. pc = "opencube" /\ stray \subseteq stray'
  BY <1>o DEF OpenCube
<1>1. Typed'
  <2>1. Flags'
    BY ZenonT(40), <1>0 DEF Inv, Typed, Flags, OpenCube, OpenFile, Goto, Return, fits
  <2>2. Counters'
    BY <1>0 DEF Inv, Typed, Counters, OpenCube, OpenFile, fits
  <2>3. container' \in Nat /\ (stray' = stray \/ stray' = stray \cup {container'})
    BY DEF Inv, Typed, Counters, OpenCube, OpenFile, fits
  <2>4. Data'
    BY <1>0, <2>3 DEF Inv, Typed, Data
  <2>5. pc' \in Places
    BY <1>0 DEF Inv, Typed, Places, OpenCube, OpenFile, Goto, Return
  <2>. QED
    BY <1>0, <2>1, <2>2, <2>4, <2>5 DEF Inv, Typed
<1>2. SettingsInv'
  BY <1>0 DEF Inv, Typed, Flags, SettingsInv, PerFrame, OpenCube, OpenFile, Goto, Return, fits
<1>3. OpenInv'
  BY <1>0 DEF Inv, Typed, Flags, Counters, SettingsInv, OpenInv, PerFrame, Writing, OpenCube,
     OpenFile, Goto, Return, fits
<1>4. ClosedInv'
  BY <1>0 DEF Inv, Typed, Flags, SettingsInv, OpenInv, ClosedInv, PerFrame, Writing, OpenCube,
     OpenFile, Goto, Return, fits
<1>5. PartsInv'
  BY <1>0 DEF Inv, Typed, Flags, Counters, SettingsInv, PartsInv, Writing, Settled, OpenCube,
     OpenFile, Goto, Return, fits
<1>6. BoundInv'
  BY <1>0, <1>b DEF Inv, Typed, Flags, Counters, SettingsInv, OpenInv, BoundInv, PerFrame,
     Settled, OpenCube, OpenFile, Goto, Return, fits
<1>7. ThreadInv'
  <2>. SUFFICES ASSUME Whole' PROVE NoThread'
    BY <1>o DEF ThreadInv
  <2>1. CASE UNCHANGED <<container, stray, threadcount, writing>>
    BY <1>0, <1>s, <2>1 DEF Inv, ThreadInv, Whole, NoThread
  <2>2. CASE /\ container' = container + 1 /\ threadcount' = 0 /\ ~writing' /\ fmutex = Nobody
             /\ stray' = IF Threads = {} THEN stray ELSE stray \cup {container + 1}
    <3>1. Threads = {}
      BY <2>2 DEF Whole
    <3>. QED
      BY <1>0, <2>2, <3>1 DEF NoThread, Threads
  <2>. QED
    BY <1>o, <2>1, <2>2
<1>8. PlaceInv'
  <2>. SUFFICES ASSUME Whole' PROVE PlaceInv'
    BY DEF PlaceInv
  <2>0. Settled(scen)
    BY <1>0 DEF Whole
  <2>1. CASE pc' = "idle"
    BY <2>1 DEF PlaceInv
  <2>2. CASE pc' \in {"openraw", "loop"} /\ container' = container + 1 /\ ~werror'
    <3>1. container + 1 \in Files /\ container + 1 > container
      BY <1>b, <1>s, <2>0, <2>2 DEF Inv, Typed, Counters, BoundInv, Files
    <3>2. disk[container + 1] = <<>> /\ given[container + 1] = <<>>
      BY <2>0, <3>1 DEF Inv, FileInv
    <3>3. Ready'
      BY <1>0, <2>2, <3>2 DEF Ready, Matches, Empty
    <3>. QED
      BY <2>2, <3>3 DEF PlaceInv, Ready
  <2>. QED
    BY <1>o, <2>1, <2>2
<1>9. FileInv'
  <2>. SUFFICES ASSUME Settled(scen) PROVE FileInv'
    BY <1>0 DEF FileInv
  <2>1. CASE UNCHANGED <<fileOpen, container, stray>>
    BY <1>0, <2>1 DEF Inv, FileInv
  <2>2. CASE container' = container + 1 /\ stray' \subseteq stray \cup {container + 1}
    <3>1. /\ container \in Nat /\ Files \subseteq Nat
          /\ announced \subseteq Nat /\ stray \subseteq Nat
      BY DEF Inv, Typed, Counters, Data, Files
    <3>2. \A f \in Files : f > container => disk[f] = <<>> /\ given[f] = <<>>
      BY DEF Inv, FileInv
    <3>3. \A f \in stray : f <= container
      BY DEF Inv, FileInv
    <3>4. \A f \in announced : f <= container /\ (f \in stray \/ disk[f] = given[f])
      BY DEF Inv, FileInv
    <3>5. \A f \in Files : f > container' => f > container
      BY <2>2, <3>1
    <3>6. \A f \in stray' : f <= container'
      BY <2>2, <3>1, <3>3
    <3>7. \A f \in announced : f <= container' /\ f # container'
      BY <2>2, <3>1, <3>4
    <3>. QED
      BY <1>0, <1>s, <3>2, <3>4, <3>5, <3>6, <3>7 DEF FileInv
  <2>. QED
    BY <1>o, <2>1, <2>2
<1>10. KeptInv'
  <2>1. \A k : Kept(k) => Kept(k)'
    BY <1>0, <1>s DEF Kept, Has
  <2>2. LastKept => LastKept'
    BY <1>0, <2>1 DEF LastKept
  <2>. QED
    BY <1>0, <1>s, <1>o, <2>1, <2>2 DEF Inv, KeptInv
<1>11. ModeInv'
  BY <1>0 DEF Inv, Typed, Flags, ModeInv, Found, Writing, OpenCube, OpenFile, Goto, Return, fits
<1>12. ErrorInv'
  <2>. SUFFICES ASSUME Quiet(scen) PROVE ErrorInv'
    BY <1>0 DEF ErrorInv
  <2>1. Whole /\ stray = {} /\ ~fileOpen /\ ~scen.create /\ Settled(scen)
    BY <1>s, QuietIsWhole DEF Inv, ErrorInv, Quiet
  <2>2. Threads = {}
    BY <1>s, <2>1 DEF Inv, ThreadInv, NoThread, Threads
  <2>3. stray' = {} /\ ~werror' /\ UNCHANGED result /\ pc' \in {"openraw", "loop"}
    BY <1>o, <2>1, <2>2
  <2>4. result' = "NO_ERROR" /\ (~PerFrame => "mode_raw" \notin scen.commands /\ ~rawexpose)
    BY <1>s, <2>3 DEF Inv, ErrorInv
  <2>5. "mode_raw" \notin scen.commands => ~rawexpose /\ mode = "image"
    BY <1>s DEF Inv, ErrorInv, Writing
  <2>. QED
    BY <1>0, <1>s, <2>1, <2>3, <2>4, <2>5 DEF ErrorInv, Inv, SettingsInv, Settled, PerFrame,
       OpenCube, OpenFile, Goto, Return
<1>13. StepInv'
  <2>. SUFFICES ASSUME Quiet(scen) PROVE StepInv'
    BY <1>0 DEF StepInv
  <2>1. extension' = 0
    BY <1>0, <1>s DEF Inv, StepInv, OpenCube
  <2>2. pc' = "idle" \/ (pc' \in {"openraw", "loop"} /\ framen' = 0)
    BY <1>o
  <2>. QED
    BY <2>1, <2>2 DEF StepInv, InStep
<1>. QED
  BY <1>1, <1>2, <1>3, <1>4, <1>5, <1>6, <1>7, <1>8, <1>9, <1>10, <1>11, <1>12, <1>13 DEF Inv

LEMMA LoopStep ==
  ASSUME Inv, Loop
  PROVE  Inv'
<1>0. UNCHANGED <<scen, datacube, cubeamps, mode, iscube, extension, fileOpen, threadcount,
                   framen, writing, werror, fmutex, container, wpc, wcube, wimage, disk, given,
                   announced, first, stray, rawexpose, frame, part, parts, raw, ok, current>>
  BY DEF Loop, settings, info, fits, threads, stored, place, image, Goto, Abandon, Return, history
<1>b. scen.files \in Nat /\ scen.files <= MaxFiles /\ MaxFiles \in Nat
  BY FitsFileAssumption DEF Inv, Typed
<1>k. (Whole' <=> Whole) /\ (LastKept' <=> LastKept) /\ (Matches' <=> Matches)
      /\ (InStep' <=> InStep) /\ (Behind' <=> Behind) /\ (Empty' <=> Empty) /\ (NoThread' <=> NoThread)
  BY <1>0 DEF Whole, LastKept, Kept, Has, Matches, InStep, Behind, Empty, NoThread
<1>1. Typed'
  <2>1. Flags'
    BY <1>0 DEF Inv, Typed, Flags, Loop, Goto, Abandon, Return, history
  <2>2. Counters'
    BY <1>0 DEF Inv, Typed, Counters, Loop, Goto, Abandon, Return, history
  <2>3. Data'
    BY <1>0 DEF Inv, Typed, Counters, Data
  <2>4. pc' \in Places
    BY <1>0 DEF Inv, Typed, Places, Loop, Goto, Abandon, Return, history
  <2>. QED
    BY <1>0, <2>1, <2>2, <2>3, <2>4 DEF Inv, Typed
<1>2. SettingsInv'
  BY <1>0 DEF Inv, Typed, Flags, SettingsInv, PerFrame, Loop, Goto, Abandon, Return, history
<1>3. OpenInv'
  BY <1>0 DEF Inv, Typed, Flags, Counters, SettingsInv, OpenInv, PerFrame, Writing, Loop, Goto,
     Abandon, Return, history
<1>4. ClosedInv'
  BY <1>0 DEF Inv, Typed, Flags, SettingsInv, OpenInv, ClosedInv, PerFrame, Writing, Loop, Goto,
     Abandon, Return, history
<1>5. PartsInv'
  BY <1>0 DEF Inv, Typed, Flags, Counters, SettingsInv, PartsInv, Writing, Settled, Loop, Goto,
     Abandon, Return, history
<1>6. BoundInv'
  BY <1>0, <1>b DEF Inv, Typed, Flags, Counters, SettingsInv, OpenInv, BoundInv, PerFrame,
     Settled, Loop, Goto, Abandon, Return, history
<1>7. ThreadInv'
  BY <1>0, <1>k DEF Inv, ThreadInv, Loop, Goto, Abandon, Return, history
<1>8. PlaceInv'
  BY <1>0, <1>k DEF Inv, Typed, Flags, SettingsInv, OpenInv, PartsInv, PlaceInv, PerFrame,
     Ready, Written, Settled, Loop, Goto, Abandon, Return, history
<1>9. FileInv'
  BY <1>0 DEF Inv, FileInv
<1>10. KeptInv'
  <2>1. (\A k : Kept(k)' <=> Kept(k)) /\ LastKept' = LastKept
    BY <1>0 DEF LastKept, Kept, Has
  <2>2. Has(given[container], frame)' <=> Has(given[container], frame)
    BY <1>0 DEF Has
  <2>. QED
    BY <1>0, <2>1, <2>2 DEF Inv, KeptInv, Loop, Goto, Abandon, Return
<1>11. ModeInv'
  BY <1>0 DEF Inv, Typed, Flags, ModeInv, Found, Writing, Loop, Goto, Abandon, Return, history
<1>12. ErrorInv'
  BY <1>0, <1>k DEF Inv, Typed, Flags, SettingsInv, OpenInv, PartsInv, ErrorInv, PerFrame,
     Writing, Settled, Quiet, Loop, Goto, Abandon, Return, history
<1>13. StepInv'
  BY <1>0, <1>k DEF Inv, Typed, Flags, StepInv, PerFrame, Loop, Goto, Abandon, Return, history
<1>. QED
  BY <1>1, <1>2, <1>3, <1>4, <1>5, <1>6, <1>7, <1>8, <1>9, <1>10, <1>11, <1>12, <1>13 DEF Inv

LEMMA OpenFrameStep ==
  ASSUME Inv, OpenFrame
  PROVE  Inv'
<1>0. UNCHANGED <<scen, datacube, cubeamps, mode, iscube, fmutex, wpc, wcube, wimage, disk,
                   given, announced, first, nseq, pre, rawexpose, frame, part, parts, raw, ok,
                   current>>
  BY DEF OpenFrame, settings, info, fits, threads, stored, place, image, history, OpenFile,
     Goto, Return
<1>b. scen.files \in Nat /\ scen.files <= MaxFiles /\ MaxFiles \in Nat
  BY FitsFileAssumption DEF Inv, Typed
<1>o. \/ /\ pc' = "idle" /\ result' = "ERROR" /\ (fileOpen \/ scen.create)
         /\ UNCHANGED <<fileOpen, container, stray, threadcount, framen, writing, werror>>
      \/ /\ pc' \in {"wait"} /\ UNCHANGED result /\ fmutex = Nobody
         /\ fileOpen' /\ container' = container + 1
         /\ threadcount' = 0 /\ framen' = 0 /\ ~writing' /\ ~werror'
         /\ stray' = IF Threads = {} THEN stray ELSE stray \cup {container + 1}
  BY DEF OpenFrame, OpenFile, Goto, Return, fits
<1>s. pc = "openframe" /\ stray \subseteq stray'
  BY <1>o DEF OpenFrame
<1>1. Typed'
  <2>1. Flags'
    BY ZenonT(40), <1>0 DEF Inv, Typed, Flags, OpenFrame, OpenFile, Goto, Return, fits
  <2>2. Counters'
    BY <1>0 DEF Inv, Typed, Counters, OpenFrame, OpenFile, fits
  <2>3. container' \in Nat /\ (stray' = stray \/ stray' = stray \cup {container'})
    BY DEF Inv, Typed, Counters, OpenFrame, OpenFile, fits
  <2>4. Data'
    BY <1>0, <2>3 DEF Inv, Typed, Data
  <2>5. pc' \in Places
    BY <1>0 DEF Inv, Typed, Places, OpenFrame, OpenFile, Goto, Return
  <2>. QED
    BY <1>0, <2>1, <2>2, <2>4, <2>5 DEF Inv, Typed
<1>2. SettingsInv'
  BY <1>0 DEF Inv, Typed, Flags, SettingsInv, PerFrame, OpenFrame, OpenFile, Goto, Return, fits
<1>3. OpenInv'
  BY <1>0 DEF Inv, Typed, Flags, Counters, SettingsInv, OpenInv, PerFrame, Writing, OpenFrame,
     OpenFile, Goto, Return, fits
<1>4. ClosedInv'
  BY <1>0 DEF Inv, Typed, Flags, SettingsInv, OpenInv, ClosedInv, PerFrame, Writing, OpenFrame,
     OpenFile, Goto, Return, fits
<1>5. PartsInv'
  BY <1>0 DEF Inv, Typed, Flags, Counters, SettingsInv, PartsInv, Writing, Settled, OpenFrame,
     OpenFile, Goto, Return, fits
<1>6. BoundInv'
  BY <1>0, <1>b DEF Inv, Typed, Flags, Counters, SettingsInv, OpenInv, BoundInv, PerFrame,
     Settled, OpenFrame, OpenFile, Goto, Return, fits
<1>7. ThreadInv'
  <2>. SUFFICES ASSUME Whole' PROVE NoThread'
    BY <1>o DEF ThreadInv
  <2>1. CASE UNCHANGED <<container, stray, threadcount, writing>>
    BY <1>0, <1>s, <2>1 DEF Inv, ThreadInv, Whole, NoThread
  <2>2. CASE /\ container' = container + 1 /\ threadcount' = 0 /\ ~writing' /\ fmutex = Nobody
             /\ stray' = IF Threads = {} THEN stray ELSE stray \cup {container + 1}
    <3>1. Threads = {}
      BY <2>2 DEF Whole
    <3>. QED
      BY <1>0, <2>2, <3>1 DEF NoThread, Threads
  <2>. QED
    BY <1>o, <2>1, <2>2
<1>8. PlaceInv'
  <2>. SUFFICES ASSUME Whole' PROVE PlaceInv'
    BY DEF PlaceInv
  <2>0. Settled(scen)
    BY <1>0 DEF Whole
  <2>1. CASE pc' = "idle"
    BY <2>1 DEF PlaceInv
  <2>2. CASE pc' \in {"wait"} /\ container' = container + 1 /\ ~werror'
    <3>1. container + 1 \in Files /\ container + 1 > container
      BY <1>b, <1>s, <2>0, <2>2 DEF Inv, Typed, Counters, BoundInv, Files
    <3>2. disk[container + 1] = <<>> /\ given[container + 1] = <<>>
      BY <2>0, <3>1 DEF Inv, FileInv
    <3>3. Ready'
      BY <1>0, <2>2, <3>2 DEF Ready, Matches, Empty
    <3>. QED
      BY <2>2, <3>3 DEF PlaceInv, Ready
  <2>. QED
    BY <1>o, <2>1, <2>2
<1>9. FileInv'
  <2>. SUFFICES ASSUME Settled(scen) PROVE FileInv'
    BY <1>0 DEF FileInv
  <2>1. CASE UNCHANGED <<fileOpen, container, stray>>
    BY <1>0, <2>1 DEF Inv, FileInv
  <2>2. CASE container' = container + 1 /\ stray' \subseteq stray \cup {container + 1}
    <3>1. /\ container \in Nat /\ Files \subseteq Nat
          /\ announced \subseteq Nat /\ stray \subseteq Nat
      BY DEF Inv, Typed, Counters, Data, Files
    <3>2. \A f \in Files : f > container => disk[f] = <<>> /\ given[f] = <<>>
      BY DEF Inv, FileInv
    <3>3. \A f \in stray : f <= container
      BY DEF Inv, FileInv
    <3>4. \A f \in announced : f <= container /\ (f \in stray \/ disk[f] = given[f])
      BY DEF Inv, FileInv
    <3>5. \A f \in Files : f > container' => f > container
      BY <2>2, <3>1
    <3>6. \A f \in stray' : f <= container'
      BY <2>2, <3>1, <3>3
    <3>7. \A f \in announced : f <= container' /\ f # container'
      BY <2>2, <3>1, <3>4
    <3>. QED
      BY <1>0, <1>s, <3>2, <3>4, <3>5, <3>6, <3>7 DEF FileInv
  <2>. QED
    BY <1>o, <2>1, <2>2
<1>10. KeptInv'
  <2>1. \A k : Kept(k) => Kept(k)'
    BY <1>0, <1>s DEF Kept, Has
  <2>2. LastKept => LastKept'
    BY <1>0, <2>1 DEF LastKept
  <2>. QED
    BY <1>0, <1>s, <1>o, <2>1, <2>2 DEF Inv, KeptInv
<1>11. ModeInv'
  BY <1>0 DEF Inv, Typed, Flags, ModeInv, Found, Writing, OpenFrame, OpenFile, Goto, Return, fits
<1>12. ErrorInv'
  <2>. SUFFICES ASSUME Quiet(scen) PROVE ErrorInv'
    BY <1>0 DEF ErrorInv
  <2>1. Whole /\ stray = {} /\ ~fileOpen /\ ~scen.create /\ Settled(scen)
    BY <1>s, QuietIsWhole DEF Inv, ErrorInv, Quiet
  <2>2. Threads = {}
    BY <1>s, <2>1 DEF Inv, ThreadInv, NoThread, Threads
  <2>3. stray' = {} /\ ~werror' /\ UNCHANGED result /\ pc' \in {"wait"}
    BY <1>o, <2>1, <2>2
  <2>4. result' = "NO_ERROR" /\ (~PerFrame => "mode_raw" \notin scen.commands /\ ~rawexpose)
    BY <1>s, <2>3 DEF Inv, ErrorInv
  <2>5. "mode_raw" \notin scen.commands => ~rawexpose /\ mode = "image"
    BY <1>s DEF Inv, ErrorInv, Writing
  <2>. QED
    BY <1>0, <1>s, <2>1, <2>3, <2>4, <2>5 DEF ErrorInv, Inv, SettingsInv, Settled, PerFrame,
       OpenFrame, OpenFile, Goto, Return
<1>13. StepInv'
  <2>. SUFFICES ASSUME Quiet(scen) PROVE StepInv'
    BY <1>0 DEF StepInv
  <2>1. extension' = 0
    BY <1>0, <1>s DEF Inv, StepInv, OpenFrame
  <2>2. pc' = "idle" \/ (pc' \in {"wait"} /\ framen' = 0)
    BY <1>o
  <2>. QED
    BY <2>1, <2>2 DEF StepInv, InStep
<1>. QED
  BY <1>1, <1>2, <1>3, <1>4, <1>5, <1>6, <1>7, <1>8, <1>9, <1>10, <1>11, <1>12, <1>13 DEF Inv

LEMMA WaitStep ==
  ASSUME Inv, Wait
  PROVE  Inv'
<1>0. UNCHANGED <<scen, datacube, cubeamps, mode, iscube, extension, fileOpen, threadcount,
                   framen, writing, werror, fmutex, container, wpc, wcube, wimage, disk, given,
                   announced, first, stray, nseq, pre, rawexpose, frame, part, parts, raw, ok,
                   current>>
  BY DEF Wait, settings, info, fits, threads, stored, place, image, Goto, Abandon, Return, history
<1>b. scen.files \in Nat /\ scen.files <= MaxFiles /\ MaxFiles \in Nat
  BY FitsFileAssumption DEF Inv, Typed
<1>k. (Whole' <=> Whole) /\ (LastKept' <=> LastKept) /\ (Matches' <=> Matches)
      /\ (InStep' <=> InStep) /\ (Behind' <=> Behind) /\ (Empty' <=> Empty) /\ (NoThread' <=> NoThread)
  BY <1>0 DEF Whole, LastKept, Kept, Has, Matches, InStep, Behind, Empty, NoThread
<1>1. Typed'
  <2>1. Flags'
    BY <1>0 DEF Inv, Typed, Flags, Wait, Goto, Abandon, Return, history
  <2>2. Counters'
    BY <1>0 DEF Inv, Typed, Counters
  <2>3. Data'
    BY <1>0 DEF Inv, Typed, Counters, Data
  <2>4. pc' \in Places
    BY <1>0 DEF Inv, Typed, Places, Wait, Goto, Abandon, Return, history
  <2>. QED
    BY <1>0, <2>1, <2>2, <2>3, <2>4 DEF Inv, Typed
<1>2. SettingsInv'
  BY <1>0 DEF Inv, Typed, Flags, SettingsInv, PerFrame, Wait, Goto, Abandon, Return, history
<1>3. OpenInv'
  BY <1>0 DEF Inv, Typed, Flags, Counters, SettingsInv, OpenInv, PerFrame, Writing, Wait, Goto,
     Abandon, Return, history
<1>4. ClosedInv'
  BY <1>0 DEF Inv, Typed, Flags, SettingsInv, OpenInv, ClosedInv, PerFrame, Writing, Wait, Goto,
     Abandon, Return, history
<1>5. PartsInv'
  BY <1>0 DEF Inv, Typed, Flags, Counters, SettingsInv, PartsInv, Writing, Settled, Wait, Goto,
     Abandon, Return, history
<1>6. BoundInv'
  BY <1>0, <1>b DEF Inv, Typed, Flags, Counters, SettingsInv, OpenInv, BoundInv, PerFrame,
     Settled, Wait, Goto, Abandon, Return, history
<1>7. ThreadInv'
  BY <1>0, <1>k DEF Inv, ThreadInv, Wait, Goto, Abandon, Return, history
<1>8. PlaceInv'
  BY <1>0, <1>k DEF Inv, Typed, Flags, SettingsInv, OpenInv, PartsInv, PlaceInv, PerFrame,
     Ready, Written, Settled, Wait, Goto, Abandon, Return, history
<1>9. FileInv'
  BY <1>0 DEF Inv, FileInv
<1>10. KeptInv'
  <2>1. (\A k : Kept(k)' <=> Kept(k)) /\ LastKept' = LastKept
    BY <1>0 DEF LastKept, Kept, Has
  <2>2. Has(given[container], frame)' <=> Has(given[container], frame)
    BY <1>0 DEF Has
  <2>. QED
    BY <1>0, <2>1, <2>2 DEF Inv, KeptInv, Wait, Goto, Abandon, Return
<1>11. ModeInv'
  BY <1>0 DEF Inv, Typed, Flags, ModeInv, Found, Writing, Wait, Goto, Abandon, Return, history
<1>12. ErrorInv'
  BY <1>0, <1>k DEF Inv, Typed, Flags, SettingsInv, OpenInv, PartsInv, ErrorInv, PerFrame,
     Writing, Settled, Quiet, Wait, Goto, Abandon, Return, history
<1>13. StepInv'
  BY <1>0, <1>k DEF Inv, Typed, Flags, StepInv, PerFrame, Wait, Goto, Abandon, Return, history
<1>. QED
  BY <1>1, <1>2, <1>3, <1>4, <1>5, <1>6, <1>7, <1>8, <1>9, <1>10, <1>11, <1>12, <1>13 DEF Inv

LEMMA ReadStep ==
  ASSUME Inv, Read
  PROVE  Inv'
<1>0. UNCHANGED <<scen, datacube, cubeamps, mode, iscube, extension, fileOpen, threadcount,
                   framen, writing, werror, fmutex, container, wpc, wcube, wimage, disk, given,
                   announced, first, stray, abandoned, nseq, pre, result, rawexpose, ok, current>>
  BY DEF Read, settings, info, fits, threads, stored, place, image, history, Goto
<1>b. scen.files \in Nat /\ scen.files <= MaxFiles /\ MaxFiles \in Nat
  BY FitsFileAssumption DEF Inv, Typed
<1>k. (Whole' <=> Whole) /\ (Matches' <=> Matches) /\ (InStep' <=> InStep)
      /\ (Behind' <=> Behind) /\ (Empty' <=> Empty) /\ (NoThread' <=> NoThread)
  BY <1>0 DEF Whole, Matches, InStep, Behind, Empty, NoThread
<1>1. Typed'
  <2>0. pc' \in Places /\ raw' \in BOOLEAN
    BY DEF Inv, Typed, Flags, Places, Read, Goto
  <2>1. Flags'
    BY <1>0, <2>0 DEF Inv, Typed, Flags
  <2>2. part' \in Nat /\ parts' \in Nat \ {0} /\ frame' \in Nat
    BY FitsFileAssumption DEF Inv, Typed, Counters, Read
  <2>3. Counters'
    BY <1>0, <2>2 DEF Inv, Typed, Counters
  <2>4. Data'
    BY <1>0 DEF Inv, Typed, Data
  <2>. QED
    BY <1>0, <2>0, <2>1, <2>3, <2>4 DEF Inv, Typed
<1>2. SettingsInv'
  BY <1>0 DEF Inv, Typed, Flags, SettingsInv, PerFrame, Read, Goto
<1>3. OpenInv'
  BY <1>0 DEF Inv, Typed, Flags, Counters, SettingsInv, OpenInv, PerFrame, Writing, Read, Goto
<1>4. ClosedInv'
  BY <1>0 DEF Inv, Typed, Flags, SettingsInv, OpenInv, ClosedInv, PerFrame, Writing, Read, Goto
<1>5. PartsInv'
  <2>. SUFFICES ASSUME Settled(scen) PROVE PartsInv'
    BY <1>0 DEF PartsInv
  <2>1. ~rawexpose /\ pc # "idle"
    BY DEF Inv, SettingsInv, Settled, Read
  <2>2. (cubeamps => datacube) /\ (scen.rawtoo => datacube)
    BY <2>1 DEF Inv, PartsInv
  <2>4. CASE pc' = "failed"
    BY <1>0, <2>1, <2>2, <2>4 DEF PartsInv, Writing
  <2>5. CASE pc' = "write" /\ part' = 1 /\ ~raw' /\ parts' = IF cubeamps THEN Amps ELSE 1
    <3>1. 1 \in 1 .. parts' /\ (parts' > 1 => cubeamps)
      BY <2>5, FitsFileAssumption
    <3>. QED
      BY <1>0, <2>1, <2>2, <2>5, <3>1 DEF PartsInv
  <2>. QED
    BY <2>4, <2>5 DEF Read, Goto
<1>6. BoundInv'
  BY <1>0, <1>b DEF Inv, Typed, Flags, Counters, SettingsInv, OpenInv, BoundInv, PerFrame,
     Settled, Read, Goto
<1>7. ThreadInv'
  BY <1>0, <1>k DEF Inv, ThreadInv, Read, Goto
<1>8. PlaceInv'
  BY <1>0, <1>k DEF Inv, Typed, Flags, SettingsInv, OpenInv, PartsInv, PlaceInv, PerFrame,
     Ready, Written, Settled, Read, Goto
<1>9. FileInv'
  BY <1>0 DEF Inv, FileInv
<1>10. KeptInv'
  <2>. SUFFICES ASSUME Settled(scen) PROVE KeptInv'
    BY <1>0 DEF KeptInv
  <2>1. first <= frame /\ (\A k \in first + 1 .. frame - 1 : Kept(k)) /\ LastKept
    BY DEF Inv, KeptInv, Read
  <2>2. \A k : Kept(k)' <=> Kept(k)
    BY <1>0 DEF Kept, Has
  <2>3. first \in Nat /\ frame \in Nat /\ frame' \in Nat /\ frame' <= frame + 1 /\ frame <= frame'
    BY <1>0 DEF Inv, Typed, Counters, Read
  <2>4. \A k \in first + 1 .. frame : Kept(k)
    BY <2>1, <2>3 DEF LastKept
  <2>5. first' = first /\ first <= frame'
    BY <1>0, <2>1, <2>3
  <2>6. ASSUME NEW a \in Nat, NEW b \in Nat, NEW c \in Nat, c <= b + 1, NEW k \in a + 1 .. c - 1
        PROVE  k \in a + 1 .. b
    <3>1. k \in Int /\ a + 1 <= k /\ k <= c - 1
      OBVIOUS
    <3>. QED
      BY <2>6, <3>1
  <2>7. \A k \in first + 1 .. frame' - 1 : k \in first + 1 .. frame
    BY <2>3, <2>6
  <2>8. \A k \in first' + 1 .. frame' - 1 : Kept(k)'
    BY <2>2, <2>4, <2>5, <2>7
  <2>9. pc' = "write" \/ pc' = "failed" \/ (pc' = "rawdone" /\ ~ok')
    BY DEF Read, Goto
  <2>. QED
    BY <2>5, <2>8, <2>9 DEF KeptInv
<1>11. ModeInv'
  BY <1>0 DEF Inv, Typed, Flags, ModeInv, Found, Writing, Read, Goto
<1>12. ErrorInv'
  BY <1>0, <1>k DEF Inv, Typed, Flags, SettingsInv, OpenInv, PartsInv, ErrorInv, PerFrame,
     Writing, Settled, Quiet, Read, Goto
<1>13. StepInv'
  BY <1>0, <1>k DEF Inv, Typed, Flags, StepInv, PerFrame, Read, Goto
<1>. QED
  BY <1>1, <1>2, <1>3, <1>4, <1>5, <1>6, <1>7, <1>8, <1>9, <1>10, <1>11, <1>12, <1>13 DEF Inv

LEMMA WriteStep ==
  ASSUME Inv, Write
  PROVE  Inv'
<1>0. UNCHANGED <<scen, datacube, cubeamps, mode, iscube, extension, fileOpen, framen, writing,
                   werror, fmutex, container, wcube, disk, announced, first, stray, abandoned,
                   nseq, pre, result, rawexpose, frame, part, parts, raw>>
  BY DEF Write, settings, info, fits, threads, stored, place, image, history, Goto
<1>b. scen.files \in Nat /\ scen.files <= MaxFiles /\ MaxFiles \in Nat
  BY FitsFileAssumption DEF Inv, Typed
<1>k. (Whole' <=> Whole) /\ (InStep' <=> InStep) /\ (Behind' <=> Behind)
      /\ (Empty' <=> Empty)
  BY <1>0 DEF Whole, InStep, Behind, Empty
<1>c. ASSUME Settled(scen)
      PROVE  /\ fileOpen /\ ok' = ok /\ pc' = "join" /\ threadcount' = threadcount + 1
             /\ given' = [given EXCEPT ![container] = Append(@, ThisImage)]
             /\ current' \in Writers /\ wpc' = [wpc EXCEPT ![current'] = "start"]
             /\ wimage' = [wimage EXCEPT ![current'] = ThisImage]
  <2>1. fileOpen
    BY <1>c DEF Inv, OpenInv, Settled, Write
  <2>. QED
    BY <2>1 DEF Write, Goto
<1>d. /\ Data /\ (Whole' <=> Whole) /\ (Settled(scen) => container \in Files)
      /\ ThisImage \in Pieces /\ ThisImage.frame = frame /\ ThisImage' = ThisImage
      /\ (Whole => Settled(scen))
  BY <1>0, FitsFileAssumption
     DEF Inv, Typed, Counters, BoundInv, Files, ThisImage, Pieces, RawPart, Whole
<1>e. ASSUME Settled(scen)
      PROVE  /\ given'[container] = Append(given[container], ThisImage)
             /\ \A f \in Files : f # container => given'[f] = given[f]
             /\ given[container] \in Seq(Pieces)
  BY <1>c, <1>d, <1>e DEF Data
<1>f. ASSUME Settled(scen) PROVE wpc'[current'] = "start" /\ wimage'[current'] = ThisImage
        /\ \A v \in Writers : v # current' => wpc'[v] = wpc[v]
  BY <1>c, <1>d, <1>f DEF Data
<1>1. Typed'
  <2>1. Flags' /\ pc' \in Places
    <3>1. ok' \in BOOLEAN
      BY ZenonT(40) DEF Inv, Typed, Flags, Write
    <3>2. pc' \in Places
      BY SMTT(40) DEF Places, Write, Goto
    <3>. QED
      BY ZenonT(40), <3>1, <3>2, <1>0 DEF Inv, Typed, Flags
  <2>2. Counters'
    BY <1>0 DEF Inv, Typed, Counters, Write
  <2>4. ASSUME pc' = "written" PROVE Data'
    <3>1. UNCHANGED <<wpc, wimage, current, given>>
      BY <2>4 DEF Write, Goto, threads
    <3>. QED
      BY <1>0, <1>d, <3>1 DEF Data
  <2>5. ASSUME pc' = "join" PROVE Data'
    <3>0. given' = [given EXCEPT ![container] = Append(@, ThisImage)]
      BY <2>5 DEF Write, Goto
    <3>1. PICK w \in Writers : wpc' = [wpc EXCEPT ![w] = "start"] /\ current' = w
                             /\ wimage' = [wimage EXCEPT ![w] = ThisImage]
      BY <2>5 DEF Write, Goto
    <3>2. wpc' \in [Writers -> WriterPlaces] /\ wimage' \in [Writers -> Pieces]
      BY <1>d, <3>1 DEF Data, WriterPlaces
    <3>3. \A f \in Files : Append(given[f], ThisImage) \in Seq(Pieces)
      BY <1>d, AppendProperties DEF Data
    <3>4. given' \in [Files -> Seq(Pieces)]
      BY <1>d, <3>0, <3>3 DEF Data
    <3>. QED
      BY <1>0, <1>d, <3>1, <3>2, <3>4 DEF Data
  <2>6. Data'
    BY <2>4, <2>5 DEF Write, Goto
  <2>. QED
    BY <1>0, <2>1, <2>2, <2>6 DEF Inv, Typed
<1>2. SettingsInv'
  BY <1>0 DEF Inv, Typed, Flags, SettingsInv, PerFrame, Write, Goto
<1>3. OpenInv'
  BY <1>0 DEF Inv, Typed, Flags, Counters, SettingsInv, OpenInv, PerFrame, Writing, Write, Goto
<1>4. ClosedInv'
  BY <1>0 DEF Inv, Typed, Flags, SettingsInv, OpenInv, ClosedInv, PerFrame, Writing, Write, Goto
<1>5. PartsInv'
  BY <1>0 DEF Inv, Typed, Flags, Counters, SettingsInv, PartsInv, Writing, Settled, Write, Goto
<1>6. BoundInv'
  BY <1>0, <1>b DEF Inv, Typed, Flags, Counters, SettingsInv, OpenInv, BoundInv, PerFrame,
     Settled, Write, Goto
<1>7. ThreadInv'
  <2>. SUFFICES ASSUME Whole PROVE OneThread' /\ pc' = "join"
    BY <1>d DEF ThreadInv
  <2>0. Settled(scen) /\ NoThread
    BY DEF Whole, Inv, ThreadInv, Write
  <2>. QED
    BY <1>0, <1>c, <1>d, <1>f, <2>0 DEF OneThread, NoThread
<1>8. PlaceInv'
  <2>. SUFFICES ASSUME Whole PROVE PlaceInv'
    BY <1>d DEF PlaceInv
  <2>0. Settled(scen) /\ Empty /\ (werror \/ disk[container] = given[container])
    BY DEF Whole, Inv, PlaceInv, Write, Written, Matches
  <2>1. given'[container] = Append(given[container], ThisImage)
    BY <1>e, <2>0
  <2>2. werror \/ Unwritten'
    BY <1>0, <1>d, <2>0, <2>1 DEF Unwritten
  <2>3. Pending'
    BY <1>0, <1>k, <2>0, <2>2 DEF Pending
  <2>. QED
    BY <1>c, <1>f, <2>0, <2>3 DEF PlaceInv
<1>9. FileInv'
  <2>. SUFFICES ASSUME Settled(scen) PROVE FileInv'
    BY <1>0 DEF FileInv
  <2>1. fileOpen /\ container \in Nat /\ MaxFiles \in Nat /\ container <= MaxFiles
    BY <1>c, FitsFileAssumption DEF Inv, Typed, Counters, BoundInv
  <2>2. Data /\ FileInv
    BY DEF Inv, Typed
  <2>3. \A f \in Files : f # container => given'[f] = given[f]
    BY <1>e
  <2>4. \A f \in announced : f \in Files /\ f # container
    BY <2>1, <2>2 DEF FileInv, Data, Files
  <2>. QED
    BY <1>0, <2>1, <2>2, <2>3, <2>4 DEF FileInv, Files
<1>10. KeptInv'
  <2>. SUFFICES ASSUME Settled(scen) PROVE KeptInv'
    BY <1>0 DEF KeptInv
  <2>1. /\ Len(given'[container]) = Len(given[container]) + 1
        /\ given'[container] \in Seq(Pieces) /\ Len(given[container]) \in Nat
        /\ \A i \in 1 .. Len(given[container]) : given'[container][i] = given[container][i]
        /\ given'[container][Len(given[container]) + 1] = ThisImage
    <3>1. given[container] \in Seq(Pieces) /\ ThisImage \in Pieces
      BY <1>d, <1>e
    <3>2. given'[container] = Append(given[container], ThisImage)
      BY <1>e
    <3>3. DEFINE s == given[container]
    <3>4. s \in Seq(Pieces) /\ given'[container] = Append(s, ThisImage)
      BY <3>1, <3>2
    <3> HIDE DEF s
    <3>5. /\ Len(given'[container]) = Len(s) + 1
          /\ given'[container] \in Seq(Pieces) /\ Len(s) \in Nat
          /\ \A i \in 1 .. Len(s) : given'[container][i] = s[i]
          /\ given'[container][Len(s) + 1] = ThisImage
      BY <3>1, <3>4, AppendProperties
    <3>. QED
      BY <3>5 DEF s
  <2>2. /\ DOMAIN given[container] = 1 .. Len(given[container])
        /\ DOMAIN given'[container] = 1 .. Len(given[container]) + 1
    BY <1>e, <2>1
  <2>3. Has(given'[container], frame)
    BY <1>d, <2>1, <2>2 DEF Has
  <2>4. ASSUME NEW k, NEW f \in Files, Has(given[f], k) PROVE Has(given'[f], k)
    BY <1>e, <2>1, <2>2, <2>4 DEF Has
  <2>5. \A k : Kept(k) => Kept(k)'
    BY <1>0, <2>4 DEF Kept
  <2>. QED
    BY <1>0, <1>c, <2>3, <2>5 DEF Inv, KeptInv
<1>11. ModeInv'
  BY <1>0 DEF Inv, Typed, Flags, ModeInv, Found, Writing, Write, Goto
<1>12. ErrorInv'
  BY <1>0, <1>k DEF Inv, Typed, Flags, SettingsInv, OpenInv, PartsInv, ErrorInv, PerFrame,
     Writing, Settled, Quiet, Write, Goto
<1>13. StepInv'
  <2>. SUFFICES ASSUME Quiet(scen) PROVE StepInv'
    BY <1>0 DEF StepInv
  <2>1. Settled(scen) /\ InStep
    BY DEF Quiet, Inv, StepInv, Write
  <2>. QED
    BY <1>k, <1>c, <1>f, <2>1 DEF StepInv
<1>. QED
  BY <1>1, <1>2, <1>3, <1>4, <1>5, <1>6, <1>7, <1>8, <1>9, <1>10, <1>11, <1>12, <1>13 DEF Inv

LEMMA JoinStep ==
  ASSUME Inv, Join
  PROVE  Inv'
<1>0. UNCHANGED <<scen, datacube, cubeamps, mode, iscube, extension, fileOpen, threadcount,
                   framen, werror, fmutex, container, wpc, wcube, wimage, disk, given,
                   announced, first, abandoned, nseq, pre, result, rawexpose, frame, part,
                   parts, raw>>
  BY DEF Join, settings, info, fits, threads, stored, place, image, history, Goto, AllJoined
<1>b. scen.files \in Nat /\ scen.files <= MaxFiles /\ MaxFiles \in Nat
  BY FitsFileAssumption DEF Inv, Typed
<1>k. (Matches' <=> Matches) /\ (InStep' <=> InStep) /\ (Behind' <=> Behind)
      /\ (Empty' <=> Empty)
  BY <1>0 DEF Matches, InStep, Behind, Empty
<1>c. ASSUME Whole'
      PROVE  /\ Whole /\ NoThread /\ UNCHANGED writing /\ (ok' <=> ~werror) /\ Written
             /\ wpc[current] = "none"
  <2>1. AllJoined /\ ok' = ~werror /\ UNCHANGED <<writing, stray>>
    BY <1>0, <1>c DEF Join, Whole
  <2>2. Whole
    BY <1>0, <1>c, <2>1 DEF Whole
  <2>3. OneThread /\ pc = "join"
    BY <2>2 DEF Inv, ThreadInv, Join
  <2>4. wpc[current] = "none"
    BY <2>1, <2>3 DEF AllJoined, OneThread
  <2>5. NoThread
    BY <2>3, <2>4 DEF OneThread, NoThread
  <2>6. Written
    BY <2>2, <2>3, <2>4 DEF Inv, PlaceInv
  <2>. QED
    BY <2>1, <2>2, <2>4, <2>5, <2>6
<1>d. ASSUME Quiet(scen) PROVE Whole' /\ stray' = {} /\ ~werror
  <2>1. Whole /\ stray = {} /\ ~werror /\ OneThread /\ pc = "join"
    BY <1>d, QuietIsWhole DEF Inv, ThreadInv, Join
  <2>2. CASE AllJoined
    BY <1>0, <2>1, <2>2 DEF Join, Whole
  <2>3. CASE ~AllJoined
    <3>1. wpc[current] \in {"start", "turn", "lock", "write", "count"} /\ current \in Writers
      BY <2>1, <2>3 DEF OneThread, AllJoined, Inv, Typed, Data, WriterPlaces
    <3>2. wpc[current] = "turn" => Runs(current)
      BY <1>d, <2>1, HasTurn DEF Runs
    <3>3. wpc[current] \in {"lock", "count"} => Runs(current)
      BY <2>1 DEF Runs, OneThread
    <3>4. Runs(current)
      BY <3>1, <3>2, <3>3 DEF Runs
    <3>5. ~WriteTakesTooLong
      BY <1>d, <3>1, <3>4 DEF WriteTakesTooLong, Quiet
    <3>. QED
      BY <2>3, <3>5 DEF Join
  <2>. QED
    BY <2>2, <2>3
<1>e. pc = "join" /\ pc' = "written" /\ stray \subseteq stray'
  BY DEF Join, Goto
<1>1. Typed'
  <2>1. Flags'
    BY ZenonT(40), <1>0 DEF Inv, Typed, Flags, Join
  <2>2. Counters'
    BY <1>0 DEF Inv, Typed, Counters
  <2>3. current' \in Writers \cup {Nobody} /\ stray' \subseteq Nat
    BY DEF Inv, Typed, Counters, Data, Join
  <2>4. Data'
    BY <1>0, <2>3 DEF Inv, Typed, Data
  <2>. QED
    BY <1>0, <1>e, <2>1, <2>2, <2>4 DEF Inv, Typed, Places
<1>2. SettingsInv'
  BY <1>0 DEF Inv, Typed, Flags, SettingsInv, PerFrame, Join, Goto, AllJoined
<1>3. OpenInv'
  BY <1>0 DEF Inv, Typed, Flags, Counters, SettingsInv, OpenInv, PerFrame, Writing, Join, Goto,
     AllJoined
<1>4. ClosedInv'
  BY <1>0 DEF Inv, Typed, Flags, SettingsInv, OpenInv, ClosedInv, PerFrame, Writing, Join, Goto,
     AllJoined
<1>5. PartsInv'
  BY <1>0 DEF Inv, Typed, Flags, Counters, SettingsInv, PartsInv, Writing, Settled, Join, Goto,
     AllJoined
<1>6. BoundInv'
  BY <1>0, <1>b DEF Inv, Typed, Flags, Counters, SettingsInv, OpenInv, BoundInv, PerFrame,
     Settled, Join, Goto, AllJoined
<1>7. ThreadInv'
  BY <1>0, <1>c, <1>e DEF ThreadInv, NoThread
<1>8. PlaceInv'
  BY <1>0, <1>k, <1>c, <1>e DEF PlaceInv, Written
<1>9. FileInv'
  <2>. SUFFICES ASSUME Settled(scen) PROVE FileInv'
    BY <1>0 DEF FileInv
  <2>1. container \in Nat /\ stray' \subseteq stray \cup {container}
    BY DEF Inv, Typed, Counters, Join
  <2>2. \A f \in stray' : f <= container
    BY <2>1 DEF Inv, FileInv
  <2>. QED
    BY <1>0, <1>e, <2>2 DEF Inv, FileInv
<1>10. KeptInv'
  <2>. SUFFICES ASSUME Settled(scen) PROVE KeptInv'
    BY <1>0 DEF KeptInv
  <2>1. \A k : Kept(k) => Kept(k)'
    BY <1>0, <1>e DEF Kept, Has
  <2>2. Has(given[container], frame) /\ container \in Files
    BY <1>e, FitsFileAssumption DEF Inv, KeptInv, BoundInv, Typed, Counters, Files
  <2>3. ASSUME ok' PROVE Kept(frame)'
    <3>1. CASE container \in stray'
      BY <1>0, <2>2, <3>1 DEF Kept, Has
    <3>2. CASE container \notin stray'
      <4>1. disk[container] = given[container]
        BY <1>0, <1>c, <2>3, <3>2 DEF Whole, Written, Matches
      <4>. QED
        BY <1>0, <2>2, <4>1 DEF Kept, Has
    <3>. QED
      BY <3>1, <3>2
  <2>4. ok' => LastKept'
    BY <1>0, <2>3 DEF LastKept
  <2>5. Has(given[container], frame)'
    BY <1>0, <2>2 DEF Has
  <2>. QED
    BY <1>0, <1>e, <2>1, <2>4, <2>5 DEF Inv, KeptInv
<1>11. ModeInv'
  BY <1>0 DEF Inv, Typed, Flags, ModeInv, Found, Writing, Join, Goto, AllJoined
<1>12. ErrorInv'
  <2>. SUFFICES ASSUME Quiet(scen) PROVE ErrorInv'
    BY <1>0 DEF ErrorInv
  <2>1. stray' = {} /\ ~werror /\ ok'
    BY <1>c, <1>d
  <2>. QED
    BY <1>0, <1>e, <2>1 DEF Inv, ErrorInv, PerFrame, Writing
<1>13. StepInv'
  <2>. SUFFICES ASSUME Quiet(scen) PROVE StepInv'
    BY <1>0 DEF StepInv
  <2>1. wpc[current] = "none"
    BY <1>c, <1>d
  <2>2. Behind
    BY <1>e, <2>1 DEF Inv, StepInv
  <2>. QED
    BY <1>k, <1>e, <2>2 DEF StepInv
<1>. QED
  BY <1>1, <1>2, <1>3, <1>4, <1>5, <1>6, <1>7, <1>8, <1>9, <1>10, <1>11, <1>12, <1>13 DEF Inv

LEMMA NextAmpStep ==
  ASSUME Inv, NextAmp
  PROVE  Inv'
<1>0. UNCHANGED <<scen, datacube, cubeamps, mode, iscube, fileOpen, threadcount, framen,
                   writing, werror, fmutex, container, wpc, wcube, wimage, disk, given,
                   announced, first, stray, abandoned, nseq, pre, result, rawexpose, frame,
                   parts, raw, ok, current>>
  BY DEF NextAmp, settings, info, fits, threads, stored, place, image, history, Goto, AfterAmp,
     Amp, Counted
<1>b. scen.files \in Nat /\ scen.files <= MaxFiles /\ MaxFiles \in Nat
  BY FitsFileAssumption DEF Inv, Typed
<1>k. (Whole' <=> Whole) /\ (LastKept' <=> LastKept) /\ (Matches' <=> Matches)
      /\ (Empty' <=> Empty) /\ (NoThread' <=> NoThread)
  BY <1>0 DEF Whole, LastKept, Kept, Has, Matches, Empty, NoThread
<1>1. Typed'
  <2>1. Flags'
    BY <1>0 DEF Inv, Typed, Flags
  <2>2. Counters'
    BY <1>0 DEF Inv, Typed, Counters, NextAmp, Goto, AfterAmp, Amp, Counted
  <2>3. Data'
    BY <1>0 DEF Inv, Typed, Counters, Data
  <2>4. pc' \in Places
    BY <1>0 DEF Inv, Typed, Places, NextAmp, Goto, AfterAmp, Amp, Counted
  <2>. QED
    BY <1>0, <2>1, <2>2, <2>3, <2>4 DEF Inv, Typed
<1>2. SettingsInv'
  BY <1>0 DEF Inv, Typed, Flags, SettingsInv, PerFrame, NextAmp, Goto, AfterAmp, Amp, Counted
<1>3. OpenInv'
  BY <1>0 DEF Inv, Typed, Flags, Counters, SettingsInv, OpenInv, PerFrame, Writing, NextAmp,
     Goto, AfterAmp, Amp, Counted
<1>4. ClosedInv'
  BY <1>0 DEF Inv, Typed, Flags, SettingsInv, OpenInv, ClosedInv, PerFrame, Writing, NextAmp,
     Goto, AfterAmp, Amp, Counted
<1>5. PartsInv'
  BY <1>0 DEF Inv, Typed, Flags, Counters, SettingsInv, PartsInv, Writing, Settled, NextAmp,
     Goto, AfterAmp, Amp, Counted
<1>6. BoundInv'
  BY <1>0, <1>b DEF Inv, Typed, Flags, Counters, SettingsInv, OpenInv, BoundInv, PerFrame,
     Settled, NextAmp, Goto, AfterAmp, Amp, Counted
<1>7. ThreadInv'
  BY <1>0, <1>k DEF Inv, ThreadInv, NextAmp, Goto, AfterAmp, Amp, Counted
<1>8. PlaceInv'
  <2>. SUFFICES ASSUME Whole PROVE PlaceInv'
    BY <1>k DEF PlaceInv
  <2>1. pc = "written" /\ parts > 1 /\ Settled(scen) /\ pc' = "write"
    BY DEF NextAmp, Amp, Goto, Whole
  <2>2. iscube
    BY <2>1 DEF Inv, PartsInv, SettingsInv, Settled, Writing
  <2>3. Written
    BY <2>1 DEF Inv, PlaceInv
  <2>4. Empty' /\ Written'
    BY <1>0, <1>k, <2>2, <2>3 DEF Written, Empty
  <2>. QED
    BY <2>1, <2>4 DEF PlaceInv
<1>9. FileInv'
  BY <1>0 DEF Inv, FileInv
<1>10. KeptInv'
  <2>1. (\A k : Kept(k)' <=> Kept(k)) /\ LastKept' = LastKept
    BY <1>0 DEF LastKept, Kept, Has
  <2>2. Has(given[container], frame)' <=> Has(given[container], frame)
    BY <1>0 DEF Has
  <2>. QED
    BY <1>0, <2>1, <2>2 DEF Inv, KeptInv, NextAmp, Goto, Amp
<1>11. ModeInv'
  BY <1>0 DEF Inv, Typed, Flags, ModeInv, Found, Writing, NextAmp, Goto, AfterAmp, Amp, Counted
<1>12. ErrorInv'
  BY <1>0, <1>k DEF Inv, Typed, Flags, SettingsInv, OpenInv, PartsInv, ErrorInv, PerFrame,
     Writing, Settled, Quiet, NextAmp, Goto, AfterAmp, Amp, Counted
<1>13. StepInv'
  <2>. SUFFICES ASSUME Quiet(scen) PROVE StepInv'
    BY <1>0 DEF StepInv
  <2>1. Behind /\ extension' = extension + 1 /\ pc' = "write"
    BY DEF Inv, StepInv, NextAmp, AfterAmp, Counted, Goto
  <2>. QED
    BY <1>0, <2>1 DEF StepInv, Behind, InStep
<1>. QED
  BY <1>1, <1>2, <1>3, <1>4, <1>5, <1>6, <1>7, <1>8, <1>9, <1>10, <1>11, <1>12, <1>13 DEF Inv

LEMMA NotWrittenStep ==
  ASSUME Inv, NotWritten
  PROVE  Inv'
<1>0. UNCHANGED <<scen, datacube, cubeamps, mode, iscube, fileOpen, threadcount, framen,
                   writing, werror, fmutex, container, wpc, wcube, wimage, disk, given,
                   announced, first, stray, abandoned, nseq, pre, result, rawexpose, frame,
                   part, parts, raw, ok, current>>
  BY DEF NotWritten, settings, info, fits, threads, stored, place, image, history, Goto,
     AfterAmp, Amp, Counted
<1>b. scen.files \in Nat /\ scen.files <= MaxFiles /\ MaxFiles \in Nat
  BY FitsFileAssumption DEF Inv, Typed
<1>k. (Whole' <=> Whole) /\ (LastKept' <=> LastKept) /\ (Matches' <=> Matches)
      /\ (Empty' <=> Empty) /\ (NoThread' <=> NoThread)
  BY <1>0 DEF Whole, LastKept, Kept, Has, Matches, Empty, NoThread
<1>1. Typed'
  <2>1. Flags'
    BY <1>0 DEF Inv, Typed, Flags
  <2>2. Counters'
    BY <1>0 DEF Inv, Typed, Counters, NotWritten, Goto, AfterAmp, Amp, Counted
  <2>3. Data'
    BY <1>0 DEF Inv, Typed, Counters, Data
  <2>4. pc' \in Places
    BY <1>0 DEF Inv, Typed, Places, NotWritten, Goto, AfterAmp, Amp, Counted
  <2>. QED
    BY <1>0, <2>1, <2>2, <2>3, <2>4 DEF Inv, Typed
<1>2. SettingsInv'
  BY <1>0 DEF Inv, Typed, Flags, SettingsInv, PerFrame, NotWritten, Goto, AfterAmp, Amp, Counted
<1>3. OpenInv'
  BY <1>0 DEF Inv, Typed, Flags, Counters, SettingsInv, OpenInv, PerFrame, Writing, NotWritten,
     Goto, AfterAmp, Amp, Counted
<1>4. ClosedInv'
  BY <1>0 DEF Inv, Typed, Flags, SettingsInv, OpenInv, ClosedInv, PerFrame, Writing, NotWritten,
     Goto, AfterAmp, Amp, Counted
<1>5. PartsInv'
  BY <1>0 DEF Inv, Typed, Flags, Counters, SettingsInv, PartsInv, Writing, Settled, NotWritten,
     Goto, AfterAmp, Amp, Counted
<1>6. BoundInv'
  BY <1>0, <1>b DEF Inv, Typed, Flags, Counters, SettingsInv, OpenInv, BoundInv, PerFrame,
     Settled, NotWritten, Goto, AfterAmp, Amp, Counted
<1>7. ThreadInv'
  BY <1>0, <1>k DEF Inv, ThreadInv, NotWritten, Goto, AfterAmp, Amp, Counted
<1>8. PlaceInv'
  BY <1>0, <1>k DEF Inv, Typed, Flags, SettingsInv, OpenInv, PartsInv, PlaceInv, PerFrame,
     Ready, Written, Settled, NotWritten, Goto, AfterAmp, Amp, Counted
<1>9. FileInv'
  BY <1>0 DEF Inv, FileInv
<1>10. KeptInv'
  <2>1. (\A k : Kept(k)' <=> Kept(k)) /\ LastKept' = LastKept
    BY <1>0 DEF LastKept, Kept, Has
  <2>2. Has(given[container], frame)' <=> Has(given[container], frame)
    BY <1>0 DEF Has
  <2>. QED
    BY <1>0, <2>1, <2>2 DEF Inv, KeptInv, NotWritten, Goto, Amp
<1>11. ModeInv'
  BY <1>0 DEF Inv, Typed, Flags, ModeInv, Found, Writing, NotWritten, Goto, AfterAmp, Amp, Counted
<1>12. ErrorInv'
  BY <1>0, <1>k DEF Inv, Typed, Flags, SettingsInv, OpenInv, PartsInv, ErrorInv, PerFrame,
     Writing, Settled, Quiet, NotWritten, Goto, AfterAmp, Amp, Counted
<1>13. StepInv'
  BY <1>0, <1>k DEF Inv, Typed, Flags, StepInv, PerFrame, NotWritten, Goto, AfterAmp, Amp, Counted
<1>. QED
  BY <1>1, <1>2, <1>3, <1>4, <1>5, <1>6, <1>7, <1>8, <1>9, <1>10, <1>11, <1>12, <1>13 DEF Inv

LEMMA WrittenWellStep ==
  ASSUME Inv, WrittenWell
  PROVE  Inv'
<1>0. UNCHANGED <<scen, datacube, cubeamps, iscube, fileOpen, threadcount, framen, writing,
                   werror, fmutex, container, wpc, wcube, wimage, disk, given, announced, first,
                   stray, abandoned, nseq, pre, result, rawexpose, frame, part, parts, ok,
                   current>>
  BY DEF WrittenWell, settings, info, fits, threads, stored, place, image, history, Goto,
     AfterAmp, Amp, Counted, OriginalMode
<1>b. scen.files \in Nat /\ scen.files <= MaxFiles /\ MaxFiles \in Nat
  BY FitsFileAssumption DEF Inv, Typed
<1>k. (Whole' <=> Whole) /\ (LastKept' <=> LastKept) /\ (Matches' <=> Matches)
      /\ (Empty' <=> Empty) /\ (NoThread' <=> NoThread)
  BY <1>0 DEF Whole, LastKept, Kept, Has, Matches, Empty, NoThread
<1>1. Typed'
  <2>1. Flags'
    BY ZenonT(40), <1>0 DEF Inv, Typed, Flags, WrittenWell, Goto, AfterAmp, Amp, OriginalMode
  <2>2. Counters'
    BY <1>0 DEF Inv, Typed, Counters, WrittenWell, Goto, AfterAmp, Counted
  <2>3. Data'
    BY <1>0 DEF Inv, Typed, Data
  <2>4. pc' \in Places
    BY <1>0 DEF Inv, Typed, Places, WrittenWell, Goto
  <2>. QED
    BY <1>0, <2>1, <2>2, <2>3, <2>4 DEF Inv, Typed
<1>2. SettingsInv'
  BY <1>0 DEF Inv, Typed, Flags, SettingsInv, PerFrame, WrittenWell, Goto, AfterAmp, Amp,
     Counted, OriginalMode
<1>3. OpenInv'
  BY <1>0 DEF Inv, Typed, Flags, Counters, SettingsInv, OpenInv, PerFrame, Writing, WrittenWell,
     Goto, AfterAmp, Amp, Counted, OriginalMode
<1>4. ClosedInv'
  BY <1>0 DEF Inv, Typed, Flags, SettingsInv, OpenInv, ClosedInv, PerFrame, Writing,
     WrittenWell, Goto, AfterAmp, Amp, Counted, OriginalMode
<1>5. PartsInv'
  BY <1>0 DEF Inv, Typed, Flags, Counters, SettingsInv, PartsInv, Writing, Settled, WrittenWell,
     Goto, AfterAmp, Amp, Counted, OriginalMode
<1>6. BoundInv'
  BY <1>0, <1>b DEF Inv, Typed, Flags, Counters, SettingsInv, OpenInv, BoundInv, PerFrame,
     Settled, WrittenWell, Goto, AfterAmp, Amp, Counted, OriginalMode
<1>7. ThreadInv'
  BY <1>0, <1>k DEF Inv, ThreadInv, WrittenWell, Goto, AfterAmp, Amp, Counted, OriginalMode
<1>8. PlaceInv'
  <2>. SUFFICES ASSUME Whole PROVE PlaceInv'
    BY <1>k DEF PlaceInv
  <2>1. ok /\ pc = "written" /\ Settled(scen)
    BY DEF WrittenWell, Whole
  <2>2. Matches /\ ~werror
    BY <2>1 DEF Inv, PlaceInv, Written
  <2>3. iscube = datacube
    BY <2>1 DEF Inv, SettingsInv, Settled
  <2>4. iscube => Ready'
    BY <1>0, <1>k, <2>2 DEF Ready, Empty
  <2>5. CASE pc' \in {"rawdone", "failed", "stored"}
    <3>1. ~PerFrame' => Ready'
      BY <1>0, <2>3, <2>4 DEF PerFrame
    <3>. QED
      BY <1>k, <2>2, <2>5, <3>1 DEF PlaceInv
  <2>6. CASE pc' = "write" /\ ~rawexpose /\ scen.rawtoo
    <3>1. iscube
      BY <2>1, <2>3, <2>6 DEF Inv, PartsInv
    <3>. QED
      BY <2>4, <2>6, <3>1 DEF PlaceInv, Ready, Written
  <2>. QED
    BY <2>5, <2>6 DEF WrittenWell, Goto
<1>9. FileInv'
  BY <1>0 DEF Inv, FileInv
<1>10. KeptInv'
  <2>1. (\A k : Kept(k)' <=> Kept(k)) /\ LastKept' = LastKept
    BY <1>0 DEF LastKept, Kept, Has
  <2>2. Has(given[container], frame)' <=> Has(given[container], frame)
    BY <1>0 DEF Has
  <2>. QED
    BY <1>0, <2>1, <2>2 DEF Inv, KeptInv, WrittenWell, Goto, Amp
<1>11. ModeInv'
  BY <1>0 DEF Inv, Typed, Flags, ModeInv, Found, Writing, WrittenWell, Goto, AfterAmp, Amp,
     Counted, OriginalMode
<1>12. ErrorInv'
  BY <1>0, <1>k DEF Inv, Typed, Flags, SettingsInv, OpenInv, PartsInv, ErrorInv, PerFrame,
     Writing, Settled, Quiet, WrittenWell, Goto, AfterAmp, Amp, Counted, OriginalMode
<1>13. StepInv'
  <2>. SUFFICES ASSUME Quiet(scen) PROVE StepInv'
    BY <1>0 DEF StepInv
  <2>1. pc = "written" /\ Behind /\ Settled(scen)
    BY DEF Inv, StepInv, WrittenWell, Quiet
  <2>2. iscube = datacube
    BY <2>1 DEF Inv, SettingsInv, Settled
  <2>3. ASSUME iscube, ~cubeamps PROVE InStep'
    <3>1. ~Amp
      BY <2>1, <2>3 DEF Inv, PartsInv, Amp, Writing
    <3>2. extension' = extension + 1
      BY <2>2, <2>3, <3>1 DEF WrittenWell, AfterAmp, Counted
    <3>. QED
      BY <1>0, <2>1, <2>3, <3>2 DEF InStep, Behind
  <2>4. CASE pc' \in {"rawdone", "failed"}
    BY <2>4 DEF StepInv
  <2>5. CASE pc' = "stored"
    BY <1>0, <2>2, <2>3, <2>5 DEF StepInv, PerFrame
  <2>6. CASE pc' = "write" /\ ~rawexpose /\ scen.rawtoo
    <3>1. iscube /\ ~cubeamps
      BY <2>1, <2>2, <2>6 DEF Inv, PartsInv, SettingsInv, Settled, Quiet
    <3>. QED
      BY <2>3, <2>6, <3>1 DEF StepInv
  <2>. QED
    BY <2>4, <2>5, <2>6 DEF WrittenWell, Goto
<1>. QED
  BY <1>1, <1>2, <1>3, <1>4, <1>5, <1>6, <1>7, <1>8, <1>9, <1>10, <1>11, <1>12, <1>13 DEF Inv

LEMMA FailedStep ==
  ASSUME Inv, Failed
  PROVE  Inv'
<1>0. UNCHANGED <<scen, datacube, cubeamps, mode, iscube, extension, threadcount, framen,
                   writing, werror, fmutex, container, wpc, wcube, wimage, disk, given,
                   announced, first, stray, abandoned, nseq, pre, rawexpose, frame, part, parts,
                   raw, ok, current>>
  BY DEF Failed, settings, info, fits, threads, stored, place, image, history, CloseFile,
     Closed, Return
<1>b. scen.files \in Nat /\ scen.files <= MaxFiles /\ MaxFiles \in Nat
  BY FitsFileAssumption DEF Inv, Typed
<1>k. (Whole' <=> Whole) /\ (LastKept' <=> LastKept) /\ (Matches' <=> Matches)
      /\ (InStep' <=> InStep) /\ (Behind' <=> Behind) /\ (Empty' <=> Empty) /\ (NoThread' <=> NoThread)
  BY <1>0 DEF Whole, LastKept, Kept, Has, Matches, InStep, Behind, Empty, NoThread
<1>1. Typed'
  <2>1. Flags'
    BY <1>0 DEF Inv, Typed, Flags, Failed, CloseFile, Closed, Return
  <2>2. Counters'
    BY <1>0 DEF Inv, Typed, Counters
  <2>3. Data'
    BY <1>0 DEF Inv, Typed, Counters, Data
  <2>4. pc' \in Places
    BY <1>0 DEF Inv, Typed, Places, Failed, CloseFile, Closed, Return
  <2>. QED
    BY <1>0, <2>1, <2>2, <2>3, <2>4 DEF Inv, Typed
<1>2. SettingsInv'
  BY <1>0 DEF Inv, Typed, Flags, SettingsInv, PerFrame, Failed, CloseFile, Closed, Return
<1>3. OpenInv'
  BY <1>0 DEF Inv, Typed, Flags, Counters, SettingsInv, OpenInv, PerFrame, Writing, Failed,
     CloseFile, Closed, Return
<1>4. ClosedInv'
  BY <1>0 DEF Inv, Typed, Flags, SettingsInv, OpenInv, ClosedInv, PerFrame, Writing, Failed,
     CloseFile, Closed, Return
<1>5. PartsInv'
  BY <1>0 DEF Inv, Typed, Flags, Counters, SettingsInv, PartsInv, Writing, Settled, Failed,
     CloseFile, Closed, Return
<1>6. BoundInv'
  BY <1>0, <1>b DEF Inv, Typed, Flags, Counters, SettingsInv, OpenInv, BoundInv, PerFrame,
     Settled, Failed, CloseFile, Closed, Return
<1>7. ThreadInv'
  BY <1>0, <1>k DEF Inv, ThreadInv, Failed, CloseFile, Closed, Return
<1>8. PlaceInv'
  BY <1>0, <1>k DEF Inv, Typed, Flags, SettingsInv, OpenInv, PartsInv, PlaceInv, PerFrame,
     Ready, Written, Settled, Failed, CloseFile, Closed, Return
<1>9. FileInv'
  BY <1>0, <1>k DEF Inv, Typed, Counters, FileInv, PlaceInv, OpenInv, PerFrame, Matches,
     Settled, Failed, CloseFile, Closed, Return
<1>10. KeptInv'
  <2>1. (\A k : Kept(k)' <=> Kept(k)) /\ LastKept' = LastKept
    BY <1>0 DEF LastKept, Kept, Has
  <2>2. Has(given[container], frame)' <=> Has(given[container], frame)
    BY <1>0 DEF Has
  <2>. QED
    BY <1>0, <2>1, <2>2 DEF Inv, KeptInv, Failed, Return
<1>11. ModeInv'
  BY <1>0 DEF Inv, Typed, Flags, ModeInv, Found, Writing, Failed, CloseFile, Closed, Return
<1>12. ErrorInv'
  BY <1>0, <1>k DEF Inv, Typed, Flags, SettingsInv, OpenInv, PartsInv, ErrorInv, PerFrame,
     Writing, Settled, Quiet, Failed, CloseFile, Closed, Return
<1>13. StepInv'
  BY <1>0, <1>k DEF Inv, Typed, Flags, StepInv, PerFrame, Failed, CloseFile, Closed, Return
<1>. QED
  BY <1>1, <1>2, <1>3, <1>4, <1>5, <1>6, <1>7, <1>8, <1>9, <1>10, <1>11, <1>12, <1>13 DEF Inv

LEMMA StoredStep ==
  ASSUME Inv, Stored
  PROVE  Inv'
<1>0. UNCHANGED <<scen, datacube, cubeamps, mode, iscube, extension, threadcount, framen,
                   writing, werror, fmutex, container, wpc, wcube, wimage, disk, given, first,
                   stray, abandoned, nseq, pre, result, rawexpose, frame, part, parts, raw, ok,
                   current>>
  BY DEF Stored, settings, info, fits, threads, stored, place, image, history, CloseFile,
     Closed, Announce, Goto
<1>b. scen.files \in Nat /\ scen.files <= MaxFiles /\ MaxFiles \in Nat
  BY FitsFileAssumption DEF Inv, Typed
<1>k. (Whole' <=> Whole) /\ (LastKept' <=> LastKept) /\ (Matches' <=> Matches)
      /\ (InStep' <=> InStep) /\ (Behind' <=> Behind) /\ (Empty' <=> Empty) /\ (NoThread' <=> NoThread)
  BY <1>0 DEF Whole, LastKept, Kept, Has, Matches, InStep, Behind, Empty, NoThread
<1>1. Typed'
  <2>1. Flags'
    BY ZenonT(40), <1>0 DEF Inv, Typed, Flags, Stored, CloseFile, Closed, Announce, Goto, fits, stored
  <2>2. Counters'
    BY <1>0 DEF Inv, Typed, Counters
  <2>3. Data'
    BY <1>0 DEF Inv, Typed, Counters, Data, Stored, CloseFile, Closed, Announce, Goto, fits,
       stored
  <2>4. pc' \in Places
    BY <1>0 DEF Inv, Typed, Places, Stored, CloseFile, Closed, Announce, Goto, fits, stored
  <2>. QED
    BY <1>0, <2>1, <2>2, <2>3, <2>4 DEF Inv, Typed
<1>2. SettingsInv'
  BY <1>0 DEF Inv, Typed, Flags, SettingsInv, PerFrame, Stored, CloseFile, Closed, Announce,
     Goto, fits, stored
<1>3. OpenInv'
  BY <1>0 DEF Inv, Typed, Flags, Counters, SettingsInv, OpenInv, PerFrame, Writing, Stored,
     CloseFile, Closed, Announce, Goto, fits, stored
<1>4. ClosedInv'
  BY <1>0 DEF Inv, Typed, Flags, SettingsInv, OpenInv, ClosedInv, PerFrame, Writing, Stored,
     CloseFile, Closed, Announce, Goto, fits, stored
<1>5. PartsInv'
  BY <1>0 DEF Inv, Typed, Flags, Counters, SettingsInv, PartsInv, Writing, Settled, Stored,
     CloseFile, Closed, Announce, Goto, fits, stored
<1>6. BoundInv'
  BY <1>0, <1>b DEF Inv, Typed, Flags, Counters, SettingsInv, OpenInv, BoundInv, PerFrame,
     Settled, Stored, CloseFile, Closed, Announce, Goto, fits, stored
<1>7. ThreadInv'
  BY <1>0, <1>k DEF Inv, ThreadInv, Stored, CloseFile, Closed, Announce, Goto, fits, stored
<1>8. PlaceInv'
  BY <1>0, <1>k DEF Inv, Typed, Flags, SettingsInv, OpenInv, PartsInv, PlaceInv, PerFrame,
     Ready, Written, Settled, Stored, CloseFile, Closed, Announce, Goto, fits, stored
<1>9. FileInv'
  <2>. SUFFICES ASSUME Settled(scen) PROVE FileInv'
    BY <1>0 DEF FileInv
  <2>0. container \in Nat /\ FileInv
    BY DEF Inv, Typed, Counters
  <2>1. CASE UNCHANGED announced /\ (fileOpen' => fileOpen)
    BY <1>0, <2>0, <2>1 DEF FileInv
  <2>2. CASE announced' = announced \cup {container} /\ ~fileOpen' /\ PerFrame
    <3>1. container \in stray \/ disk[container] = given[container]
      BY <2>2 DEF Inv, PlaceInv, Whole, Matches, Stored
    <3>. QED
      BY <1>0, <2>0, <2>2, <3>1 DEF FileInv
  <2>. QED
    BY <2>1, <2>2 DEF Stored, CloseFile, Closed, Announce, PerFrame, fits, stored
<1>10. KeptInv'
  <2>1. (\A k : Kept(k)' <=> Kept(k)) /\ LastKept' = LastKept
    BY <1>0 DEF LastKept, Kept, Has
  <2>2. Has(given[container], frame)' <=> Has(given[container], frame)
    BY <1>0 DEF Has
  <2>. QED
    BY <1>0, <2>1, <2>2 DEF Inv, KeptInv, Stored, Goto
<1>11. ModeInv'
  BY <1>0 DEF Inv, Typed, Flags, ModeInv, Found, Writing, Stored, CloseFile, Closed, Announce,
     Goto, fits, stored
<1>12. ErrorInv'
  BY <1>0, <1>k DEF Inv, Typed, Flags, SettingsInv, OpenInv, PartsInv, ErrorInv, PerFrame,
     Writing, Settled, Quiet, Stored, CloseFile, Closed, Announce, Goto, fits, stored
<1>13. StepInv'
  BY <1>0, <1>k DEF Inv, Typed, Flags, StepInv, PerFrame, Stored, CloseFile, Closed, Announce,
     Goto, fits, stored
<1>. QED
  BY <1>1, <1>2, <1>3, <1>4, <1>5, <1>6, <1>7, <1>8, <1>9, <1>10, <1>11, <1>12, <1>13 DEF Inv

LEMMA LastStep ==
  ASSUME Inv, Last
  PROVE  Inv'
<1>0. UNCHANGED <<scen, datacube, cubeamps, mode, iscube, extension, threadcount, framen,
                   writing, werror, fmutex, container, wpc, wcube, wimage, disk, given, first,
                   stray, abandoned, nseq, pre, rawexpose, frame, part, parts, raw, ok, current>>
  BY DEF Last, settings, info, fits, threads, stored, place, image, history, CloseFile, Closed,
     Announce, Return
<1>b. scen.files \in Nat /\ scen.files <= MaxFiles /\ MaxFiles \in Nat
  BY FitsFileAssumption DEF Inv, Typed
<1>k. (Whole' <=> Whole) /\ (LastKept' <=> LastKept) /\ (Matches' <=> Matches)
      /\ (InStep' <=> InStep) /\ (Behind' <=> Behind) /\ (Empty' <=> Empty) /\ (NoThread' <=> NoThread)
  BY <1>0 DEF Whole, LastKept, Kept, Has, Matches, InStep, Behind, Empty, NoThread
<1>1. Typed'
  <2>1. Flags'
    BY ZenonT(40), <1>0 DEF Inv, Typed, Flags, Last, CloseFile, Closed, Announce, Return, fits, stored
  <2>2. Counters'
    BY <1>0 DEF Inv, Typed, Counters
  <2>3. Data'
    BY <1>0 DEF Inv, Typed, Counters, Data, Last, CloseFile, Closed, Announce, Return, fits,
       stored
  <2>4. pc' \in Places
    BY <1>0 DEF Inv, Typed, Places, Last, CloseFile, Closed, Announce, Return, fits, stored
  <2>. QED
    BY <1>0, <2>1, <2>2, <2>3, <2>4 DEF Inv, Typed
<1>2. SettingsInv'
  BY <1>0 DEF Inv, Typed, Flags, SettingsInv, PerFrame, Last, CloseFile, Closed, Announce,
     Return, fits, stored
<1>3. OpenInv'
  BY <1>0 DEF Inv, Typed, Flags, Counters, SettingsInv, OpenInv, PerFrame, Writing, Last,
     CloseFile, Closed, Announce, Return, fits, stored
<1>4. ClosedInv'
  BY <1>0 DEF Inv, Typed, Flags, SettingsInv, OpenInv, ClosedInv, PerFrame, Writing, Last,
     CloseFile, Closed, Announce, Return, fits, stored
<1>5. PartsInv'
  BY <1>0 DEF Inv, Typed, Flags, Counters, SettingsInv, PartsInv, Writing, Settled, Last,
     CloseFile, Closed, Announce, Return, fits, stored
<1>6. BoundInv'
  BY <1>0, <1>b DEF Inv, Typed, Flags, Counters, SettingsInv, OpenInv, BoundInv, PerFrame,
     Settled, Last, CloseFile, Closed, Announce, Return, fits, stored
<1>7. ThreadInv'
  BY <1>0, <1>k DEF Inv, ThreadInv, Last, CloseFile, Closed, Announce, Return, fits, stored
<1>8. PlaceInv'
  BY <1>0, <1>k DEF Inv, Typed, Flags, SettingsInv, OpenInv, PartsInv, PlaceInv, PerFrame,
     Ready, Written, Settled, Last, CloseFile, Closed, Announce, Return, fits, stored
<1>9. FileInv'
  <2>. SUFFICES ASSUME Settled(scen) PROVE FileInv'
    BY <1>0 DEF FileInv
  <2>0. container \in Nat /\ FileInv
    BY DEF Inv, Typed, Counters
  <2>1. CASE UNCHANGED announced /\ (fileOpen' => fileOpen)
    BY <1>0, <2>0, <2>1 DEF FileInv
  <2>2. CASE announced' = announced \cup {container} /\ ~fileOpen' /\ ~PerFrame
    <3>1. container \in stray \/ disk[container] = given[container]
      BY <2>2 DEF Inv, PlaceInv, Whole, Matches, Last
    <3>. QED
      BY <1>0, <2>0, <2>2, <3>1 DEF FileInv
  <2>. QED
    BY <2>1, <2>2 DEF Last, CloseFile, Closed, Announce, PerFrame, fits, stored
<1>10. KeptInv'
  <2>1. (\A k : Kept(k)' <=> Kept(k)) /\ LastKept' = LastKept
    BY <1>0 DEF LastKept, Kept, Has
  <2>2. Has(given[container], frame)' <=> Has(given[container], frame)
    BY <1>0 DEF Has
  <2>. QED
    BY <1>0, <2>1, <2>2 DEF Inv, KeptInv, Last, Return
<1>11. ModeInv'
  BY <1>0 DEF Inv, Typed, Flags, ModeInv, Found, Writing, Last, CloseFile, Closed, Announce,
     Return, fits, stored
<1>12. ErrorInv'
  BY <1>0, <1>k DEF Inv, Typed, Flags, SettingsInv, OpenInv, PartsInv, ErrorInv, PerFrame,
     Writing, Settled, Quiet, Last, CloseFile, Closed, Announce, Return, fits, stored
<1>13. StepInv'
  BY <1>0, <1>k DEF Inv, Typed, Flags, StepInv, PerFrame, Last, CloseFile, Closed, Announce,
     Return, fits, stored
<1>. QED
  BY <1>1, <1>2, <1>3, <1>4, <1>5, <1>6, <1>7, <1>8, <1>9, <1>10, <1>11, <1>12, <1>13 DEF Inv

LEMMA OpenRawStep ==
  ASSUME Inv, OpenRaw
  PROVE  Inv'
<1>0. UNCHANGED <<scen, datacube, cubeamps, mode, iscube, extension, fmutex, wpc, wcube, wimage,
                   disk, given, announced, first, nseq, pre, rawexpose, frame, part, parts, raw,
                   ok, current>>
  BY DEF OpenRaw, settings, info, fits, threads, stored, place, image, history, OpenFile, Goto,
     Return
<1>b. scen.files \in Nat /\ scen.files <= MaxFiles /\ MaxFiles \in Nat
  BY FitsFileAssumption DEF Inv, Typed
<1>o. \/ /\ pc' = "idle" /\ result' = "ERROR" /\ (fileOpen \/ scen.create)
         /\ UNCHANGED <<fileOpen, container, stray, threadcount, framen, writing, werror>>
      \/ /\ pc' \in {"readraw"} /\ UNCHANGED result /\ fmutex = Nobody
         /\ fileOpen' /\ container' = container + 1
         /\ threadcount' = 0 /\ framen' = 0 /\ ~writing' /\ ~werror'
         /\ stray' = IF Threads = {} THEN stray ELSE stray \cup {container + 1}
  BY DEF OpenRaw, OpenFile, Goto, Return, fits
<1>s. pc = "openraw" /\ stray \subseteq stray'
  BY <1>o DEF OpenRaw
<1>p. Settled(scen) /\ pc' = "readraw" => PerFrame
  BY <1>s DEF Inv, OpenInv, Settled, OpenRaw, OpenFile, Goto, Return
<1>1. Typed'
  <2>1. Flags'
    BY ZenonT(40), <1>0 DEF Inv, Typed, Flags, OpenRaw, OpenFile, Goto, Return, fits
  <2>2. Counters'
    BY <1>0 DEF Inv, Typed, Counters, OpenRaw, OpenFile, fits
  <2>3. container' \in Nat /\ (stray' = stray \/ stray' = stray \cup {container'})
    BY DEF Inv, Typed, Counters, OpenRaw, OpenFile, fits
  <2>4. Data'
    BY <1>0, <2>3 DEF Inv, Typed, Data
  <2>5. pc' \in Places
    BY <1>0 DEF Inv, Typed, Places, OpenRaw, OpenFile, Goto, Return
  <2>. QED
    BY <1>0, <2>1, <2>2, <2>4, <2>5 DEF Inv, Typed
<1>2. SettingsInv'
  BY <1>0 DEF Inv, Typed, Flags, SettingsInv, PerFrame, OpenRaw, OpenFile, Goto, Return, fits
<1>3. OpenInv'
  BY <1>0 DEF Inv, Typed, Flags, Counters, SettingsInv, OpenInv, PerFrame, Writing, OpenRaw,
     OpenFile, Goto, Return, fits
<1>4. ClosedInv'
  BY <1>0 DEF Inv, Typed, Flags, SettingsInv, OpenInv, ClosedInv, PerFrame, Writing, OpenRaw,
     OpenFile, Goto, Return, fits
<1>5. PartsInv'
  BY <1>0 DEF Inv, Typed, Flags, Counters, SettingsInv, PartsInv, Writing, Settled, OpenRaw,
     OpenFile, Goto, Return, fits
<1>6. BoundInv'
  BY <1>0, <1>b DEF Inv, Typed, Flags, Counters, SettingsInv, OpenInv, BoundInv, PerFrame,
     Settled, OpenRaw, OpenFile, Goto, Return, fits
<1>7. ThreadInv'
  <2>. SUFFICES ASSUME Whole' PROVE NoThread'
    BY <1>o DEF ThreadInv
  <2>1. CASE UNCHANGED <<container, stray, threadcount, writing>>
    BY <1>0, <1>s, <2>1 DEF Inv, ThreadInv, Whole, NoThread
  <2>2. CASE /\ container' = container + 1 /\ threadcount' = 0 /\ ~writing' /\ fmutex = Nobody
             /\ stray' = IF Threads = {} THEN stray ELSE stray \cup {container + 1}
    <3>1. Threads = {}
      BY <2>2 DEF Whole
    <3>. QED
      BY <1>0, <2>2, <3>1 DEF NoThread, Threads
  <2>. QED
    BY <1>o, <2>1, <2>2
<1>8. PlaceInv'
  <2>. SUFFICES ASSUME Whole' PROVE PlaceInv'
    BY DEF PlaceInv
  <2>0. Settled(scen)
    BY <1>0 DEF Whole
  <2>1. CASE pc' = "idle"
    BY <2>1 DEF PlaceInv
  <2>2. CASE pc' \in {"readraw"} /\ container' = container + 1 /\ ~werror'
    <3>1. container + 1 \in Files /\ container + 1 > container
      BY <1>b, <1>s, <2>0, <2>2, <1>p DEF Inv, Typed, Counters, BoundInv, Files
    <3>2. disk[container + 1] = <<>> /\ given[container + 1] = <<>>
      BY <2>0, <3>1 DEF Inv, FileInv
    <3>3. Ready'
      BY <1>0, <2>2, <3>2 DEF Ready, Matches, Empty
    <3>. QED
      BY <2>2, <3>3 DEF PlaceInv, Ready
  <2>. QED
    BY <1>o, <2>1, <2>2
<1>9. FileInv'
  <2>. SUFFICES ASSUME Settled(scen) PROVE FileInv'
    BY <1>0 DEF FileInv
  <2>1. CASE UNCHANGED <<fileOpen, container, stray>>
    BY <1>0, <2>1 DEF Inv, FileInv
  <2>2. CASE container' = container + 1 /\ stray' \subseteq stray \cup {container + 1}
    <3>1. /\ container \in Nat /\ Files \subseteq Nat
          /\ announced \subseteq Nat /\ stray \subseteq Nat
      BY DEF Inv, Typed, Counters, Data, Files
    <3>2. \A f \in Files : f > container => disk[f] = <<>> /\ given[f] = <<>>
      BY DEF Inv, FileInv
    <3>3. \A f \in stray : f <= container
      BY DEF Inv, FileInv
    <3>4. \A f \in announced : f <= container /\ (f \in stray \/ disk[f] = given[f])
      BY DEF Inv, FileInv
    <3>5. \A f \in Files : f > container' => f > container
      BY <2>2, <3>1
    <3>6. \A f \in stray' : f <= container'
      BY <2>2, <3>1, <3>3
    <3>7. \A f \in announced : f <= container' /\ f # container'
      BY <2>2, <3>1, <3>4
    <3>. QED
      BY <1>0, <1>s, <3>2, <3>4, <3>5, <3>6, <3>7 DEF FileInv
  <2>. QED
    BY <1>o, <2>1, <2>2
<1>10. KeptInv'
  <2>1. \A k : Kept(k) => Kept(k)'
    BY <1>0, <1>s DEF Kept, Has
  <2>2. LastKept => LastKept'
    BY <1>0, <2>1 DEF LastKept
  <2>. QED
    BY <1>0, <1>s, <1>o, <2>1, <2>2 DEF Inv, KeptInv
<1>11. ModeInv'
  BY <1>0 DEF Inv, Typed, Flags, ModeInv, Found, Writing, OpenRaw, OpenFile, Goto, Return, fits
<1>12. ErrorInv'
  <2>. SUFFICES ASSUME Quiet(scen) PROVE ErrorInv'
    BY <1>0 DEF ErrorInv
  <2>1. Whole /\ stray = {} /\ ~fileOpen /\ ~scen.create /\ Settled(scen)
    BY <1>s, QuietIsWhole DEF Inv, ErrorInv, Quiet
  <2>2. Threads = {}
    BY <1>s, <2>1 DEF Inv, ThreadInv, NoThread, Threads
  <2>3. stray' = {} /\ ~werror' /\ UNCHANGED result /\ pc' \in {"readraw"}
    BY <1>o, <2>1, <2>2
  <2>4. result' = "NO_ERROR" /\ (~PerFrame => "mode_raw" \notin scen.commands /\ ~rawexpose)
    BY <1>s, <2>3 DEF Inv, ErrorInv
  <2>5. "mode_raw" \notin scen.commands => ~rawexpose /\ mode = "image"
    BY <1>s DEF Inv, ErrorInv, Writing
  <2>. QED
    BY <1>0, <1>s, <2>1, <2>3, <2>4, <2>5 DEF ErrorInv, Inv, SettingsInv, Settled, PerFrame,
       OpenRaw, OpenFile, Goto, Return
<1>13. StepInv'
  <2>. SUFFICES ASSUME Quiet(scen) PROVE StepInv'
    BY <1>0 DEF StepInv
  <2>1. extension' = 0
    BY <1>0, <1>s DEF Inv, StepInv, OpenRaw
  <2>2. pc' = "idle" \/ (pc' \in {"readraw"} /\ framen' = 0)
    BY <1>o
  <2>. QED
    BY <2>1, <2>2 DEF StepInv, InStep
<1>. QED
  BY <1>1, <1>2, <1>3, <1>4, <1>5, <1>6, <1>7, <1>8, <1>9, <1>10, <1>11, <1>12, <1>13 DEF Inv

LEMMA ReadRawStep ==
  ASSUME Inv, ReadRaw
  PROVE  Inv'
<1>0. UNCHANGED <<scen, datacube, cubeamps, mode, iscube, extension, fileOpen, threadcount,
                   framen, writing, werror, fmutex, container, wpc, wcube, wimage, disk, given,
                   announced, first, stray, abandoned, nseq, pre, result, rawexpose, current>>
  BY DEF ReadRaw, settings, info, fits, threads, stored, place, image, history, Goto
<1>b. scen.files \in Nat /\ scen.files <= MaxFiles /\ MaxFiles \in Nat
  BY FitsFileAssumption DEF Inv, Typed
<1>k. (Whole' <=> Whole) /\ (Matches' <=> Matches) /\ (InStep' <=> InStep)
      /\ (Behind' <=> Behind) /\ (Empty' <=> Empty) /\ (NoThread' <=> NoThread)
  BY <1>0 DEF Whole, Matches, InStep, Behind, Empty, NoThread
<1>1. Typed'
  <2>1. Flags'
    <3>1. ok' \in BOOLEAN /\ raw' \in BOOLEAN
      BY ZenonT(40) DEF Inv, Typed, Flags, ReadRaw
    <3>. QED
      BY ZenonT(40), <3>1, <1>0 DEF Inv, Typed, Flags
  <2>2. Counters'
    BY <1>0 DEF Inv, Typed, Counters, ReadRaw, Goto
  <2>3. Data'
    BY <1>0 DEF Inv, Typed, Counters, Data
  <2>4. pc' \in Places
    BY <1>0 DEF Inv, Typed, Places, ReadRaw, Goto
  <2>. QED
    BY <1>0, <2>1, <2>2, <2>3, <2>4 DEF Inv, Typed
<1>2. SettingsInv'
  BY <1>0 DEF Inv, Typed, Flags, SettingsInv, PerFrame, ReadRaw, Goto
<1>3. OpenInv'
  BY <1>0 DEF Inv, Typed, Flags, Counters, SettingsInv, OpenInv, PerFrame, Writing, ReadRaw, Goto
<1>4. ClosedInv'
  BY <1>0 DEF Inv, Typed, Flags, SettingsInv, OpenInv, ClosedInv, PerFrame, Writing, ReadRaw, Goto
<1>5. PartsInv'
  BY <1>0 DEF Inv, Typed, Flags, Counters, SettingsInv, PartsInv, Writing, Settled, ReadRaw, Goto
<1>6. BoundInv'
  BY <1>0, <1>b DEF Inv, Typed, Flags, Counters, SettingsInv, OpenInv, BoundInv, PerFrame,
     Settled, ReadRaw, Goto
<1>7. ThreadInv'
  BY <1>0, <1>k DEF Inv, ThreadInv, ReadRaw, Goto
<1>8. PlaceInv'
  BY <1>0, <1>k DEF Inv, Typed, Flags, SettingsInv, OpenInv, PartsInv, PlaceInv, PerFrame,
     Ready, Written, Settled, ReadRaw, Goto
<1>9. FileInv'
  BY <1>0 DEF Inv, FileInv
<1>10. KeptInv'
  <2>. SUFFICES ASSUME Settled(scen) PROVE KeptInv'
    BY <1>0 DEF KeptInv
  <2>1. first <= frame /\ (\A k \in first + 1 .. frame - 1 : Kept(k)) /\ LastKept
    BY DEF Inv, KeptInv, ReadRaw
  <2>2. \A k : Kept(k)' <=> Kept(k)
    BY <1>0 DEF Kept, Has
  <2>3. first \in Nat /\ frame \in Nat /\ frame' \in Nat /\ frame' <= frame + 1 /\ frame <= frame'
    BY <1>0 DEF Inv, Typed, Counters, ReadRaw
  <2>4. \A k \in first + 1 .. frame : Kept(k)
    BY <2>1, <2>3 DEF LastKept
  <2>5. first' = first /\ first <= frame'
    BY <1>0, <2>1, <2>3
  <2>6. ASSUME NEW a \in Nat, NEW b \in Nat, NEW c \in Nat, c <= b + 1, NEW k \in a + 1 .. c - 1
        PROVE  k \in a + 1 .. b
    <3>1. k \in Int /\ a + 1 <= k /\ k <= c - 1
      OBVIOUS
    <3>. QED
      BY <2>6, <3>1
  <2>7. \A k \in first + 1 .. frame' - 1 : k \in first + 1 .. frame
    BY <2>3, <2>6
  <2>8. \A k \in first' + 1 .. frame' - 1 : Kept(k)'
    BY <2>2, <2>4, <2>5, <2>7
  <2>9. pc' = "write" \/ pc' = "failed" \/ (pc' = "rawdone" /\ ~ok')
    BY DEF ReadRaw, Goto
  <2>. QED
    BY <2>5, <2>8, <2>9 DEF KeptInv
<1>11. ModeInv'
  BY <1>0 DEF Inv, Typed, Flags, ModeInv, Found, Writing, ReadRaw, Goto
<1>12. ErrorInv'
  BY <1>0, <1>k DEF Inv, Typed, Flags, SettingsInv, OpenInv, PartsInv, ErrorInv, PerFrame,
     Writing, Settled, Quiet, ReadRaw, Goto
<1>13. StepInv'
  BY <1>0, <1>k DEF Inv, Typed, Flags, StepInv, PerFrame, ReadRaw, Goto
<1>. QED
  BY <1>1, <1>2, <1>3, <1>4, <1>5, <1>6, <1>7, <1>8, <1>9, <1>10, <1>11, <1>12, <1>13 DEF Inv

LEMMA RawDoneStep ==
  ASSUME Inv, RawDone
  PROVE  Inv'
<1>0. UNCHANGED <<scen, datacube, cubeamps, mode, iscube, extension, threadcount, framen,
                   writing, werror, fmutex, container, wpc, wcube, wimage, disk, given, first,
                   stray, abandoned, nseq, pre, rawexpose, frame, part, parts, raw, ok, current>>
  BY DEF RawDone, settings, info, fits, threads, stored, place, image, history, CloseFile,
     Closed, Announce, Return
<1>b. scen.files \in Nat /\ scen.files <= MaxFiles /\ MaxFiles \in Nat
  BY FitsFileAssumption DEF Inv, Typed
<1>k. (Whole' <=> Whole) /\ (LastKept' <=> LastKept) /\ (Matches' <=> Matches)
      /\ (InStep' <=> InStep) /\ (Behind' <=> Behind) /\ (Empty' <=> Empty) /\ (NoThread' <=> NoThread)
  BY <1>0 DEF Whole, LastKept, Kept, Has, Matches, InStep, Behind, Empty, NoThread
<1>1. Typed'
  <2>1. Flags'
    BY <1>0 DEF Inv, Typed, Flags, RawDone, CloseFile, Closed, Announce, Return, fits, stored
  <2>2. Counters'
    BY <1>0 DEF Inv, Typed, Counters
  <2>3. Data'
    BY <1>0 DEF Inv, Typed, Counters, Data, RawDone, CloseFile, Closed, Announce, Return, fits,
       stored
  <2>4. pc' \in Places
    BY <1>0 DEF Inv, Typed, Places, RawDone, CloseFile, Closed, Announce, Return, fits, stored
  <2>. QED
    BY <1>0, <2>1, <2>2, <2>3, <2>4 DEF Inv, Typed
<1>2. SettingsInv'
  BY <1>0 DEF Inv, Typed, Flags, SettingsInv, PerFrame, RawDone, CloseFile, Closed, Announce,
     Return, fits, stored
<1>3. OpenInv'
  BY <1>0 DEF Inv, Typed, Flags, Counters, SettingsInv, OpenInv, PerFrame, Writing, RawDone,
     CloseFile, Closed, Announce, Return, fits, stored
<1>4. ClosedInv'
  BY <1>0 DEF Inv, Typed, Flags, SettingsInv, OpenInv, ClosedInv, PerFrame, Writing, RawDone,
     CloseFile, Closed, Announce, Return, fits, stored
<1>5. PartsInv'
  BY <1>0 DEF Inv, Typed, Flags, Counters, SettingsInv, PartsInv, Writing, Settled, RawDone,
     CloseFile, Closed, Announce, Return, fits, stored
<1>6. BoundInv'
  BY <1>0, <1>b DEF Inv, Typed, Flags, Counters, SettingsInv, OpenInv, BoundInv, PerFrame,
     Settled, RawDone, CloseFile, Closed, Announce, Return, fits, stored
<1>7. ThreadInv'
  BY <1>0, <1>k DEF Inv, ThreadInv, RawDone, CloseFile, Closed, Announce, Return, fits, stored
<1>8. PlaceInv'
  BY <1>0, <1>k DEF Inv, Typed, Flags, SettingsInv, OpenInv, PartsInv, PlaceInv, PerFrame,
     Ready, Written, Settled, RawDone, CloseFile, Closed, Announce, Return, fits, stored
<1>9. FileInv'
  <2>. SUFFICES ASSUME Settled(scen) PROVE FileInv'
    BY <1>0 DEF FileInv
  <2>0. container \in Nat /\ FileInv
    BY DEF Inv, Typed, Counters
  <2>1. CASE UNCHANGED announced /\ (fileOpen' => fileOpen)
    BY <1>0, <2>0, <2>1 DEF FileInv
  <2>2. CASE announced' = announced \cup {container} /\ ~fileOpen' /\ ok
    <3>1. container \in stray \/ disk[container] = given[container]
      BY <2>2 DEF Inv, PlaceInv, Whole, Matches, RawDone
    <3>. QED
      BY <1>0, <2>0, <2>2, <3>1 DEF FileInv
  <2>. QED
    BY <2>1, <2>2 DEF RawDone, CloseFile, Closed, Announce, PerFrame, fits, stored
<1>10. KeptInv'
  <2>1. (\A k : Kept(k)' <=> Kept(k)) /\ LastKept' = LastKept
    BY <1>0 DEF LastKept, Kept, Has
  <2>2. Has(given[container], frame)' <=> Has(given[container], frame)
    BY <1>0 DEF Has
  <2>. QED
    BY <1>0, <2>1, <2>2 DEF Inv, KeptInv, RawDone, Return
<1>11. ModeInv'
  BY <1>0 DEF Inv, Typed, Flags, ModeInv, Found, Writing, RawDone, CloseFile, Closed, Announce,
     Return, fits, stored
<1>12. ErrorInv'
  BY <1>0, <1>k DEF Inv, Typed, Flags, SettingsInv, OpenInv, PartsInv, ErrorInv, PerFrame,
     Writing, Settled, Quiet, RawDone, CloseFile, Closed, Announce, Return, fits, stored
<1>13. StepInv'
  BY <1>0, <1>k DEF Inv, Typed, Flags, StepInv, PerFrame, RawDone, CloseFile, Closed, Announce,
     Return, fits, stored
<1>. QED
  BY <1>1, <1>2, <1>3, <1>4, <1>5, <1>6, <1>7, <1>8, <1>9, <1>10, <1>11, <1>12, <1>13 DEF Inv

LEMMA BeginStep ==
  ASSUME Inv, NEW w \in Writers, Begin(w)
  PROVE  Inv'
<1>0. UNCHANGED <<scen, datacube, cubeamps, mode, iscube, extension, fileOpen, threadcount,
                   framen, writing, werror, fmutex, container, wimage, disk, given, announced,
                   first, stray, abandoned, pc, nseq, pre, result, rawexpose, frame, part,
                   parts, raw, ok, current>>
  BY DEF Begin, settings, info, fits, threads, stored, place, image, history, At
<1>k. (Whole' <=> Whole) /\ (LastKept' <=> LastKept) /\ (Matches' <=> Matches)
      /\ (InStep' <=> InStep) /\ (Behind' <=> Behind) /\ (Empty' <=> Empty)
  BY <1>0 DEF Whole, LastKept, Kept, Has, Matches, InStep, Behind, Empty
<1>w. ASSUME Whole
      PROVE  /\ pc = "join" /\ current = w /\ OneThread /\ wpc[w] = "start" /\ wpc'[w] = "turn"
             /\ \A v \in Writers : v # w => wpc'[v] = wpc[v]
  <2>1. wpc[w] = "start"
    BY DEF Begin
  <2>2. wpc' = [wpc EXCEPT ![w] = "turn"] /\ "turn" \in WriterPlaces /\ Data
    BY DEF Begin, At, WriterPlaces, Inv, Typed
  <2>. QED
    BY <1>w, <2>1, <2>2, OnlyOne, Moves
<1>1. Typed'
  <2>1. Flags'
    BY <1>0 DEF Inv, Typed, Flags
  <2>2. Counters'
    BY <1>0 DEF Inv, Typed, Counters
  <2>3. Data
    BY DEF Inv, Typed
  <2>4. wpc' = [wpc EXCEPT ![w] = "turn"] /\ "turn" \in WriterPlaces
    BY DEF Begin, At, WriterPlaces
  <2>5. wpc' \in [Writers -> WriterPlaces]
    BY <2>3, <2>4, Moves
  <2>6. wcube' \in [Writers -> BOOLEAN]
    BY <1>0 DEF Data, Inv, Typed, Flags, Begin
  <2>9. Data'
    BY <1>0, <2>3, <2>5, <2>6 DEF Data
  <2>. QED
    BY <1>0, <2>1, <2>2, <2>9 DEF Inv, Typed
<1>2. SettingsInv'
  BY <1>0 DEF Inv, SettingsInv, PerFrame
<1>3. OpenInv'
  BY <1>0 DEF Inv, OpenInv, PerFrame, Writing
<1>4. ClosedInv'
  BY <1>0 DEF Inv, ClosedInv, PerFrame
<1>5. PartsInv'
  BY <1>0 DEF Inv, PartsInv, Writing
<1>6. BoundInv'
  BY <1>0 DEF Inv, BoundInv, PerFrame
<1>7. ThreadInv'
  <2>. SUFFICES ASSUME Whole PROVE OneThread' /\ pc' = "join"
    BY <1>0 DEF ThreadInv, Whole
  <2>1. wcube'[w] = iscube
    BY DEF Begin, Inv, Typed, Data
  <2>. QED
    BY <1>0, <1>w, <2>1 DEF OneThread, ThisImage, Nobody
<1>8. PlaceInv'
  <2>. SUFFICES ASSUME Whole PROVE PlaceInv'
    BY <1>0 DEF PlaceInv, Whole
  <2>1. Pending
    BY <1>w DEF Inv, PlaceInv
  <2>2. Pending'
    BY <1>0, <2>1 DEF Pending, Empty, Unwritten, ThisImage
  <2>. QED
    BY <1>0, <1>w, <2>2 DEF PlaceInv
<1>9. FileInv'
  BY <1>0 DEF Inv, FileInv
<1>10. KeptInv'
  BY <1>0 DEF Inv, KeptInv, LastKept, Kept, Has
<1>11. ModeInv'
  BY <1>0 DEF Inv, ModeInv, Found, Writing
<1>12. ErrorInv'
  BY <1>0 DEF Inv, ErrorInv, PerFrame, Writing
<1>13. StepInv'
  <2>. SUFFICES ASSUME Quiet(scen) PROVE StepInv'
    BY <1>0 DEF StepInv
  <2>1. Whole
    BY QuietIsWhole
  <2>2. InStep
    BY <1>w, <2>1 DEF Inv, StepInv
  <2>. QED
    BY <1>0, <1>w, <1>k, <2>1, <2>2 DEF StepInv
<1>. QED
  BY <1>1, <1>2, <1>3, <1>4, <1>5, <1>6, <1>7, <1>8, <1>9, <1>10, <1>11, <1>12, <1>13 DEF Inv

LEMMA TurnStep ==
  ASSUME Inv, NEW w \in Writers, Turn(w)
  PROVE  Inv'
<1>0. UNCHANGED <<scen, datacube, cubeamps, mode, iscube, extension, fileOpen, threadcount,
                   framen, writing, werror, fmutex, container, wcube, wimage, disk, given,
                   announced, first, stray, abandoned, pc, nseq, pre, result, rawexpose, frame,
                   part, parts, raw, ok, current>>
  BY DEF Turn, settings, info, fits, threads, stored, place, image, history, At
<1>k. (Whole' <=> Whole) /\ (LastKept' <=> LastKept) /\ (Matches' <=> Matches)
      /\ (InStep' <=> InStep) /\ (Behind' <=> Behind) /\ (Empty' <=> Empty)
  BY <1>0 DEF Whole, LastKept, Kept, Has, Matches, InStep, Behind, Empty
<1>w. ASSUME Whole
      PROVE  /\ pc = "join" /\ current = w /\ OneThread /\ wpc[w] = "turn" /\ wpc'[w] = "lock"
             /\ \A v \in Writers : v # w => wpc'[v] = wpc[v]
  <2>1. wpc[w] = "turn"
    BY DEF Turn
  <2>2. wpc' = [wpc EXCEPT ![w] = "lock"] /\ "lock" \in WriterPlaces /\ Data
    BY DEF Turn, At, WriterPlaces, Inv, Typed
  <2>. QED
    BY <1>w, <2>1, <2>2, OnlyOne, Moves
<1>1. Typed'
  <2>1. Flags'
    BY <1>0 DEF Inv, Typed, Flags
  <2>2. Counters'
    BY <1>0 DEF Inv, Typed, Counters
  <2>3. Data
    BY DEF Inv, Typed
  <2>4. wpc' = [wpc EXCEPT ![w] = "lock"] /\ "lock" \in WriterPlaces
    BY DEF Turn, At, WriterPlaces
  <2>5. wpc' \in [Writers -> WriterPlaces]
    BY <2>3, <2>4, Moves
  <2>9. Data'
    BY <1>0, <2>3, <2>5 DEF Data
  <2>. QED
    BY <1>0, <2>1, <2>2, <2>9 DEF Inv, Typed
<1>2. SettingsInv'
  BY <1>0 DEF Inv, SettingsInv, PerFrame
<1>3. OpenInv'
  BY <1>0 DEF Inv, OpenInv, PerFrame, Writing
<1>4. ClosedInv'
  BY <1>0 DEF Inv, ClosedInv, PerFrame
<1>5. PartsInv'
  BY <1>0 DEF Inv, PartsInv, Writing
<1>6. BoundInv'
  BY <1>0 DEF Inv, BoundInv, PerFrame
<1>7. ThreadInv'
  <2>. SUFFICES ASSUME Whole PROVE OneThread' /\ pc' = "join"
    BY <1>0 DEF ThreadInv, Whole
  <2>1. wcube[w] <=> iscube
    BY <1>w DEF OneThread
  <2>. QED
    BY <1>0, <1>w, <2>1 DEF OneThread, ThisImage, Nobody
<1>8. PlaceInv'
  <2>. SUFFICES ASSUME Whole PROVE PlaceInv'
    BY <1>0 DEF PlaceInv, Whole
  <2>1. Pending
    BY <1>w DEF Inv, PlaceInv
  <2>2. Pending'
    BY <1>0, <2>1 DEF Pending, Empty, Unwritten, ThisImage
  <2>. QED
    BY <1>0, <1>w, <2>2 DEF PlaceInv
<1>9. FileInv'
  BY <1>0 DEF Inv, FileInv
<1>10. KeptInv'
  BY <1>0 DEF Inv, KeptInv, LastKept, Kept, Has
<1>11. ModeInv'
  BY <1>0 DEF Inv, ModeInv, Found, Writing
<1>12. ErrorInv'
  BY <1>0 DEF Inv, ErrorInv, PerFrame, Writing
<1>13. StepInv'
  <2>. SUFFICES ASSUME Quiet(scen) PROVE StepInv'
    BY <1>0 DEF StepInv
  <2>1. Whole
    BY QuietIsWhole
  <2>2. InStep
    BY <1>w, <2>1 DEF Inv, StepInv
  <2>. QED
    BY <1>0, <1>w, <1>k, <2>1, <2>2 DEF StepInv
<1>. QED
  BY <1>1, <1>2, <1>3, <1>4, <1>5, <1>6, <1>7, <1>8, <1>9, <1>10, <1>11, <1>12, <1>13 DEF Inv

LEMMA TurnTimeoutStep ==
  ASSUME Inv, NEW w \in Writers, TurnTimeout(w)
  PROVE  Inv'
<1>0. UNCHANGED <<scen, datacube, cubeamps, mode, iscube, extension, fileOpen, threadcount,
                   framen, fmutex, container, wcube, wimage, disk, given, announced, first,
                   stray, abandoned, pc, nseq, pre, result, rawexpose, frame, part, parts, raw,
                   ok, current>>
  BY DEF TurnTimeout, settings, info, fits, threads, stored, place, image, history, At
<1>k. (Whole' <=> Whole) /\ (LastKept' <=> LastKept) /\ (Matches' <=> Matches)
      /\ (InStep' <=> InStep) /\ (Behind' <=> Behind) /\ (Empty' <=> Empty)
  BY <1>0 DEF Whole, LastKept, Kept, Has, Matches, InStep, Behind, Empty
<1>w. ASSUME Whole
      PROVE  /\ pc = "join" /\ current = w /\ OneThread /\ wpc[w] = "turn" /\ wpc'[w] = "count"
             /\ \A v \in Writers : v # w => wpc'[v] = wpc[v]
  <2>1. wpc[w] = "turn"
    BY DEF TurnTimeout
  <2>2. wpc' = [wpc EXCEPT ![w] = "count"] /\ "count" \in WriterPlaces /\ Data
    BY DEF TurnTimeout, At, WriterPlaces, Inv, Typed
  <2>. QED
    BY <1>w, <2>1, <2>2, OnlyOne, Moves
<1>q. ~Quiet(scen)
  <2>. SUFFICES ASSUME Quiet(scen) PROVE FALSE
    OBVIOUS
  <2>1. pc = "join" /\ current = w /\ wpc[w] = "turn"
    BY <1>w, QuietIsWhole
  <2>. QED
    BY <2>1, HasTurn DEF TurnTimeout
<1>1. Typed'
  <2>1. Flags'
    BY <1>0 DEF Inv, Typed, Flags, TurnTimeout
  <2>2. Counters'
    BY <1>0 DEF Inv, Typed, Counters
  <2>3. Data
    BY DEF Inv, Typed
  <2>4. wpc' = [wpc EXCEPT ![w] = "count"] /\ "count" \in WriterPlaces
    BY DEF TurnTimeout, At, WriterPlaces
  <2>5. wpc' \in [Writers -> WriterPlaces]
    BY <2>3, <2>4, Moves
  <2>9. Data'
    BY <1>0, <2>3, <2>5 DEF Data
  <2>. QED
    BY <1>0, <2>1, <2>2, <2>9 DEF Inv, Typed
<1>2. SettingsInv'
  BY <1>0 DEF Inv, SettingsInv, PerFrame
<1>3. OpenInv'
  BY <1>0 DEF Inv, OpenInv, PerFrame, Writing
<1>4. ClosedInv'
  BY <1>0 DEF Inv, ClosedInv, PerFrame
<1>5. PartsInv'
  BY <1>0 DEF Inv, PartsInv, Writing
<1>6. BoundInv'
  BY <1>0 DEF Inv, BoundInv, PerFrame
<1>7. ThreadInv'
  <2>. SUFFICES ASSUME Whole PROVE OneThread' /\ pc' = "join"
    BY <1>0 DEF ThreadInv, Whole
  <2>1. (wcube[w] <=> iscube) /\ ~writing'
    BY <1>w DEF OneThread, TurnTimeout
  <2>. QED
    BY <1>0, <1>w, <2>1 DEF OneThread, ThisImage, Nobody
<1>8. PlaceInv'
  <2>. SUFFICES ASSUME Whole PROVE PlaceInv'
    BY <1>0 DEF PlaceInv, Whole
  <2>1. Written'
    BY DEF TurnTimeout, Written
  <2>. QED
    BY <1>0, <1>w, <2>1 DEF PlaceInv
<1>9. FileInv'
  BY <1>0 DEF Inv, FileInv
<1>10. KeptInv'
  BY <1>0 DEF Inv, KeptInv, LastKept, Kept, Has
<1>11. ModeInv'
  BY <1>0 DEF Inv, ModeInv, Found, Writing
<1>12. ErrorInv'
  BY <1>0, <1>q DEF ErrorInv
<1>13. StepInv'
  BY <1>0, <1>q DEF StepInv
<1>. QED
  BY <1>1, <1>2, <1>3, <1>4, <1>5, <1>6, <1>7, <1>8, <1>9, <1>10, <1>11, <1>12, <1>13 DEF Inv

LEMMA LockStep ==
  ASSUME Inv, NEW w \in Writers, Lock(w)
  PROVE  Inv'
<1>0. UNCHANGED <<scen, datacube, cubeamps, mode, iscube, extension, fileOpen, threadcount,
                   framen, werror, container, wcube, wimage, disk, given, announced, first,
                   stray, abandoned, pc, nseq, pre, result, rawexpose, frame, part, parts, raw,
                   ok, current>>
  BY DEF Lock, settings, info, fits, threads, stored, place, image, history, At
<1>k. (Whole' <=> Whole) /\ (LastKept' <=> LastKept) /\ (Matches' <=> Matches)
      /\ (InStep' <=> InStep) /\ (Behind' <=> Behind) /\ (Empty' <=> Empty)
  BY <1>0 DEF Whole, LastKept, Kept, Has, Matches, InStep, Behind, Empty
<1>w. ASSUME Whole
      PROVE  /\ pc = "join" /\ current = w /\ OneThread /\ wpc[w] = "lock" /\ wpc'[w] = "write"
             /\ \A v \in Writers : v # w => wpc'[v] = wpc[v]
  <2>1. wpc[w] = "lock"
    BY DEF Lock
  <2>2. wpc' = [wpc EXCEPT ![w] = "write"] /\ "write" \in WriterPlaces /\ Data
    BY DEF Lock, At, WriterPlaces, Inv, Typed
  <2>. QED
    BY <1>w, <2>1, <2>2, OnlyOne, Moves
<1>1. Typed'
  <2>1. Flags'
    BY <1>0 DEF Inv, Typed, Flags, Lock
  <2>2. Counters'
    BY <1>0 DEF Inv, Typed, Counters
  <2>3. Data
    BY DEF Inv, Typed
  <2>4. wpc' = [wpc EXCEPT ![w] = "write"] /\ "write" \in WriterPlaces
    BY DEF Lock, At, WriterPlaces
  <2>5. wpc' \in [Writers -> WriterPlaces]
    BY <2>3, <2>4, Moves
  <2>6. fmutex' \in Writers \cup {Nobody}
    BY DEF Lock
  <2>9. Data'
    BY <1>0, <2>3, <2>5, <2>6 DEF Data
  <2>. QED
    BY <1>0, <2>1, <2>2, <2>9 DEF Inv, Typed
<1>2. SettingsInv'
  BY <1>0 DEF Inv, SettingsInv, PerFrame
<1>3. OpenInv'
  BY <1>0 DEF Inv, OpenInv, PerFrame, Writing
<1>4. ClosedInv'
  BY <1>0 DEF Inv, ClosedInv, PerFrame
<1>5. PartsInv'
  BY <1>0 DEF Inv, PartsInv, Writing
<1>6. BoundInv'
  BY <1>0 DEF Inv, BoundInv, PerFrame
<1>7. ThreadInv'
  <2>. SUFFICES ASSUME Whole PROVE OneThread' /\ pc' = "join"
    BY <1>0 DEF ThreadInv, Whole
  <2>1. (wcube[w] <=> iscube) /\ fmutex' = w
    BY <1>w DEF OneThread, Lock
  <2>. QED
    BY <1>0, <1>w, <2>1 DEF OneThread, ThisImage, Nobody
<1>8. PlaceInv'
  <2>. SUFFICES ASSUME Whole PROVE PlaceInv'
    BY <1>0 DEF PlaceInv, Whole
  <2>1. Pending
    BY <1>w DEF Inv, PlaceInv
  <2>2. Pending'
    BY <1>0, <2>1 DEF Pending, Empty, Unwritten, ThisImage
  <2>. QED
    BY <1>0, <1>w, <2>2 DEF PlaceInv
<1>9. FileInv'
  BY <1>0 DEF Inv, FileInv
<1>10. KeptInv'
  BY <1>0 DEF Inv, KeptInv, LastKept, Kept, Has
<1>11. ModeInv'
  BY <1>0 DEF Inv, ModeInv, Found, Writing
<1>12. ErrorInv'
  BY <1>0 DEF Inv, ErrorInv, PerFrame, Writing
<1>13. StepInv'
  <2>. SUFFICES ASSUME Quiet(scen) PROVE StepInv'
    BY <1>0 DEF StepInv
  <2>1. Whole
    BY QuietIsWhole
  <2>2. InStep
    BY <1>w, <2>1 DEF Inv, StepInv
  <2>. QED
    BY <1>0, <1>w, <1>k, <2>1, <2>2 DEF StepInv
<1>. QED
  BY <1>1, <1>2, <1>3, <1>4, <1>5, <1>6, <1>7, <1>8, <1>9, <1>10, <1>11, <1>12, <1>13 DEF Inv

LEMMA SaveStep ==
  ASSUME Inv, NEW w \in Writers, Save(w)
  PROVE  Inv'
<1>0. UNCHANGED <<scen, datacube, cubeamps, mode, iscube, extension, fileOpen, threadcount,
                   container, wcube, wimage, given, announced, first, stray, abandoned, pc,
                   nseq, pre, result, rawexpose, frame, part, parts, raw, ok, current>>
  BY DEF Save, settings, info, fits, threads, stored, place, image, history, At, MutexAfter,
     ErrorNoted
<1>k. (Whole' <=> Whole)
  BY <1>0 DEF Whole
<1>w. ASSUME Whole
      PROVE  /\ pc = "join" /\ current = w /\ OneThread /\ wpc[w] = "write" /\ wpc'[w] = "count"
             /\ \A v \in Writers : v # w => wpc'[v] = wpc[v]
  <2>1. wpc[w] = "write"
    BY DEF Save
  <2>2. wpc' = [wpc EXCEPT ![w] = "count"] /\ "count" \in WriterPlaces /\ Data
    BY DEF Save, At, WriterPlaces, Inv, Typed
  <2>. QED
    BY <1>w, <2>1, <2>2, OnlyOne, Moves
<1>d. Data /\ Settled(scen)' = Settled(scen) /\ (Whole' <=> Whole) /\ (Whole => Settled(scen))
      /\ (Settled(scen) => container \in Files)
  BY <1>0, FitsFileAssumption DEF Inv, Typed, Counters, BoundInv, Files, Whole
<1>e. \A f \in Files : f # container => disk'[f] = disk[f]
  BY <1>d DEF Save, Data
<1>f. ASSUME Whole
      PROVE  \/ UNCHANGED <<disk, framen>> /\ werror' /\ scen.write
             \/ /\ disk'[container] = Append(disk[container], ThisImage)
                /\ UNCHANGED werror /\ framen' = IF iscube THEN framen + 1 ELSE framen
  <2>1. container \in Files /\ wimage[w] = ThisImage /\ (wcube[w] <=> iscube)
    BY <1>d, <1>f, <1>w DEF OneThread
  <2>2. Pixels(w) = ThisImage
    BY <1>f, <1>w, <2>1 DEF Pixels
  <2>3. Empty
    BY <1>f, <1>w DEF Inv, PlaceInv, Pending
  <2>4. CASE disk' = [disk EXCEPT ![container] =
                      IF wcube[w] THEN Append(@, Pixels(w)) ELSE <<Pixels(w)>>]
    <3>1. disk'[container] = IF iscube THEN Append(disk[container], ThisImage) ELSE <<ThisImage>>
      BY <1>d, <2>1, <2>2, <2>4 DEF Data
    <3>2. disk'[container] = Append(disk[container], ThisImage)
      <4>1. Append(<<>>, ThisImage) = <<ThisImage>>
        OBVIOUS
      <4>2. CASE iscube
        BY <3>1, <4>2
      <4>3. CASE disk[container] = <<>> /\ ~iscube
        BY <3>1, <4>1, <4>3
      <4>. QED
        BY <2>3, <4>2, <4>3 DEF Empty
    <3>3. CASE UNCHANGED werror /\ framen' = IF wcube[w] THEN framen + 1 ELSE framen
      BY <2>1, <3>2, <3>3
    <3>4. CASE UNCHANGED <<disk, framen>> /\ werror' /\ scen.write
      BY <3>4
    <3>. QED
      BY <3>3, <3>4 DEF Save, ErrorNoted
  <2>. QED
    BY <2>1, <2>4 DEF Save, ErrorNoted
<1>1. Typed'
  <2>1. Flags' /\ pc' \in Places
    BY ZenonT(40), <1>0 DEF Inv, Typed, Flags, Save, ErrorNoted
  <2>2. Counters'
    BY <1>0 DEF Inv, Typed, Counters, Save
  <2>3. Data
    BY DEF Inv, Typed
  <2>4. wpc' = [wpc EXCEPT ![w] = "count"] /\ "count" \in WriterPlaces
    BY DEF Save, At, WriterPlaces
  <2>5. wpc' \in [Writers -> WriterPlaces]
    BY <2>3, <2>4, Moves
  <2>6. Pixels(w) \in Pieces
    BY <2>3 DEF Pixels, Data, Garbage, Pieces
  <2>7. \A f \in Files :
          (IF wcube[w] THEN Append(disk[f], Pixels(w)) ELSE <<Pixels(w)>>) \in Seq(Pieces)
    BY <2>3, <2>6, AppendProperties DEF Data
  <2>8. disk' \in [Files -> Seq(Pieces)]
    <3>1. disk \in [Files -> Seq(Pieces)]
      BY <2>3 DEF Data
    <3>2. \/ disk' = disk
          \/ disk' = [disk EXCEPT ![container] =
                          IF wcube[w] THEN Append(@, Pixels(w)) ELSE <<Pixels(w)>>]
      BY DEF Save
    <3>. QED
      BY <2>7, <3>1, <3>2
  <2>9. Data'
    BY <1>0, <2>3, <2>5, <2>8 DEF Data, Save, MutexAfter
  <2>. QED
    BY <1>0, <2>1, <2>2, <2>9 DEF Inv, Typed
<1>2. SettingsInv'
  BY <1>0 DEF Inv, SettingsInv, PerFrame
<1>3. OpenInv'
  BY <1>0 DEF Inv, OpenInv, PerFrame, Writing
<1>4. ClosedInv'
  BY <1>0 DEF Inv, ClosedInv, PerFrame
<1>5. PartsInv'
  BY <1>0 DEF Inv, PartsInv, Writing
<1>6. BoundInv'
  BY <1>0 DEF Inv, BoundInv, PerFrame
<1>7. ThreadInv'
  <2>. SUFFICES ASSUME Whole PROVE OneThread' /\ pc' = "join"
    BY <1>0, <1>d DEF ThreadInv
  <2>1. fmutex' = Nobody /\ ~writing' /\ (wcube[w] <=> iscube)
    BY <1>w DEF Save, MutexAfter, OneThread
  <2>. QED
    BY <1>0, <1>w, <2>1 DEF OneThread, ThisImage, Nobody
<1>8. PlaceInv'
  <2>. SUFFICES ASSUME Whole PROVE PlaceInv'
    BY <1>d DEF PlaceInv
  <2>1. werror \/ given[container] = Append(disk[container], ThisImage)
    BY <1>w DEF Inv, PlaceInv, Pending, Unwritten
  <2>2. Written'
    BY SMTT(40), <1>0, <1>f, <2>1 DEF Written, Matches
  <2>. QED
    BY <1>0, <1>w, <2>2 DEF PlaceInv
<1>9. FileInv'
  <2>. SUFFICES ASSUME Settled(scen) PROVE FileInv'
    BY <1>0 DEF FileInv
  <2>1. /\ \A f \in Files : f > container => disk[f] = <<>> /\ given[f] = <<>>
        /\ \A f \in stray : f <= container
        /\ \A f \in announced :
             f <= container /\ ~(fileOpen /\ f = container) /\ (f \in stray \/ disk[f] = given[f])
    BY DEF Inv, FileInv
  <2>2. container \in Nat /\ container <= MaxFiles /\ Files = 0 .. MaxFiles /\ MaxFiles \in Nat
        /\ announced \subseteq Nat
    BY FitsFileAssumption DEF Inv, Typed, Counters, Data, BoundInv, Files
  <2>3. container \in stray \/ container \notin announced
    <3>1. CASE Whole
      BY <1>w, <2>1, <3>1 DEF Inv, OpenInv, Settled
    <3>. QED
      BY <3>1 DEF Whole
  <2>4. \A f \in Files : f > container => disk'[f] = <<>>
    BY <1>e, <2>1, <2>2
  <2>5. \A f \in announced : f \in stray \/ disk'[f] = given[f]
    BY <1>e, <2>1, <2>2, <2>3
  <2>. QED
    BY <1>0, <2>1, <2>4, <2>5 DEF FileInv
<1>10. KeptInv'
  <2>. SUFFICES ASSUME Settled(scen) PROVE KeptInv'
    BY <1>0 DEF KeptInv
  <2>1. ASSUME NEW k, Whole, Has(disk[container], k) PROVE Has(disk'[container], k)
    <3>1. CASE UNCHANGED disk
      BY <2>1, <3>1 DEF Has
    <3>2. CASE disk'[container] = Append(disk[container], ThisImage)
      <4>1. disk[container] \in Seq(Pieces) /\ ThisImage \in Pieces
        BY <1>d DEF Data, Inv, Typed, Counters, ThisImage, Pieces, RawPart
      <4>2. /\ Len(disk'[container]) = Len(disk[container]) + 1
            /\ disk'[container] \in Seq(Pieces) /\ Len(disk[container]) \in Nat
            /\ \A i \in 1 .. Len(disk[container]) : disk'[container][i] = disk[container][i]
        BY <3>2, <4>1, AppendProperties
      <4>3. PICK i \in DOMAIN disk[container] : disk[container][i].frame = k
        BY <2>1 DEF Has
      <4>4. i \in 1 .. Len(disk[container]) /\ i \in DOMAIN disk'[container]
        BY <4>1, <4>2, <4>3
      <4>. QED
        BY <4>2, <4>3, <4>4 DEF Has
    <3>. QED
      BY <1>f, <2>1, <3>1, <3>2
  <2>2. ASSUME NEW k, Kept(k) PROVE Kept(k)'
    <3>1. PICK f \in Files : Has(given[f], k) /\ (f \in stray \/ Has(disk[f], k))
      BY <2>2 DEF Kept
    <3>2. f \in stray \/ Has(disk'[f], k)
      BY <1>e, <2>1, <3>1 DEF Whole, Has
    <3>3. Has(given'[f], k)
      BY <1>0, <3>1
    <3>. QED
      BY <1>0, <3>2, <3>3 DEF Kept
  <2>3. LastKept => LastKept'
    BY <1>0, <2>2 DEF LastKept
  <2>4. Has(given[container], frame)' <=> Has(given[container], frame)
    BY <1>0 DEF Has
  <2>. QED
    BY <1>0, <2>2, <2>3, <2>4 DEF Inv, KeptInv
<1>11. ModeInv'
  BY <1>0 DEF Inv, ModeInv, Found, Writing
<1>12. ErrorInv'
  <2>. SUFFICES ASSUME Quiet(scen) PROVE ErrorInv'
    BY <1>0 DEF ErrorInv
  <2>1. ~werror'
    BY <1>f, QuietIsWhole DEF Quiet
  <2>. QED
    BY <1>0, <2>1 DEF Inv, ErrorInv, PerFrame, Writing
<1>13. StepInv'
  <2>. SUFFICES ASSUME Quiet(scen) PROVE StepInv'
    BY <1>0 DEF StepInv
  <2>1. Whole /\ ~scen.write
    BY QuietIsWhole DEF Quiet
  <2>2. InStep
    BY <1>w, <2>1 DEF Inv, StepInv
  <2>3. framen' = IF iscube THEN framen + 1 ELSE framen
    BY <1>f, <2>1
  <2>4. Behind'
    BY <1>0, <2>2, <2>3 DEF InStep, Behind
  <2>. QED
    BY <1>0, <1>w, <2>1, <2>4 DEF StepInv
<1>. QED
  BY <1>1, <1>2, <1>3, <1>4, <1>5, <1>6, <1>7, <1>8, <1>9, <1>10, <1>11, <1>12, <1>13 DEF Inv

LEMMA EndStep ==
  ASSUME Inv, NEW w \in Writers, End(w)
  PROVE  Inv'
<1>0. UNCHANGED <<scen, datacube, cubeamps, mode, iscube, extension, fileOpen, framen, writing,
                   werror, fmutex, container, disk, given, announced, first, stray, abandoned,
                   pc, nseq, pre, result, rawexpose, frame, part, parts, raw, ok, current>>
  BY DEF End, settings, info, fits, threads, stored, place, image, history, At
<1>k. (Whole' <=> Whole) /\ (LastKept' <=> LastKept) /\ (Matches' <=> Matches)
      /\ (InStep' <=> InStep) /\ (Behind' <=> Behind) /\ (Empty' <=> Empty)
  BY <1>0 DEF Whole, LastKept, Kept, Has, Matches, InStep, Behind, Empty
<1>w. ASSUME Whole
      PROVE  /\ pc = "join" /\ current = w /\ OneThread /\ wpc[w] = "count" /\ wpc'[w] = "none"
             /\ \A v \in Writers : v # w => wpc'[v] = wpc[v]
  <2>1. wpc[w] = "count"
    BY DEF End
  <2>2. wpc' = [wpc EXCEPT ![w] = "none"] /\ "none" \in WriterPlaces /\ Data
    BY DEF End, At, WriterPlaces, Inv, Typed
  <2>. QED
    BY <1>w, <2>1, <2>2, OnlyOne, Moves
<1>1. Typed'
  <2>1. Flags'
    BY <1>0 DEF Inv, Typed, Flags
  <2>2. Counters'
    BY <1>0 DEF Inv, Typed, Counters, End
  <2>3. Data
    BY DEF Inv, Typed
  <2>4. wpc' = [wpc EXCEPT ![w] = "none"] /\ "none" \in WriterPlaces
    BY DEF End, At, WriterPlaces
  <2>5. wpc' \in [Writers -> WriterPlaces]
    BY <2>3, <2>4, Moves
  <2>6. wcube' \in [Writers -> BOOLEAN] /\ wimage' \in [Writers -> Pieces]
    BY <1>0 DEF Data, Inv, Typed, Flags, End, Pieces, Garbage
  <2>9. Data'
    BY <1>0, <2>3, <2>5, <2>6 DEF Data
  <2>. QED
    BY <1>0, <2>1, <2>2, <2>9 DEF Inv, Typed
<1>2. SettingsInv'
  BY <1>0 DEF Inv, SettingsInv, PerFrame
<1>3. OpenInv'
  BY <1>0 DEF Inv, OpenInv, PerFrame, Writing
<1>4. ClosedInv'
  BY <1>0 DEF Inv, ClosedInv, PerFrame
<1>5. PartsInv'
  BY <1>0 DEF Inv, PartsInv, Writing
<1>6. BoundInv'
  BY <1>0 DEF Inv, BoundInv, PerFrame
<1>7. ThreadInv'
  <2>. SUFFICES ASSUME Whole PROVE OneThread' /\ pc' = "join"
    BY <1>0 DEF ThreadInv, Whole
  <2>1. threadcount' = 0
    BY <1>w DEF End, OneThread
  <2>. QED
    BY <1>0, <1>w, <2>1 DEF OneThread, ThisImage, Nobody
<1>8. PlaceInv'
  <2>. SUFFICES ASSUME Whole PROVE PlaceInv'
    BY <1>0 DEF PlaceInv, Whole
  <2>1. Written
    BY <1>w DEF Inv, PlaceInv
  <2>2. Written'
    BY <1>0, <2>1 DEF Written, Matches
  <2>. QED
    BY <1>0, <1>w, <2>2 DEF PlaceInv
<1>9. FileInv'
  BY <1>0 DEF Inv, FileInv
<1>10. KeptInv'
  BY <1>0 DEF Inv, KeptInv, LastKept, Kept, Has
<1>11. ModeInv'
  BY <1>0 DEF Inv, ModeInv, Found, Writing
<1>12. ErrorInv'
  BY <1>0 DEF Inv, ErrorInv, PerFrame, Writing
<1>13. StepInv'
  <2>. SUFFICES ASSUME Quiet(scen) PROVE StepInv'
    BY <1>0 DEF StepInv
  <2>1. Whole
    BY QuietIsWhole
  <2>2. Behind
    BY <1>w, <2>1 DEF Inv, StepInv
  <2>. QED
    BY <1>0, <1>w, <1>k, <2>1, <2>2 DEF StepInv
<1>. QED
  BY <1>1, <1>2, <1>3, <1>4, <1>5, <1>6, <1>7, <1>8, <1>9, <1>10, <1>11, <1>12, <1>13 DEF Inv

LEMMA InitInv == Init => Inv
<1>. SUFFICES ASSUME Init PROVE Inv
  OBVIOUS
<1>1. pc = "idle" /\ result = "NO_ERROR" /\ ~fileOpen /\ ~datacube /\ ~cubeamps /\ mode = "image"
  BY DEF Init
<1>2. Garbage \in Pieces /\ 0 \in Nat /\ 1 \in Nat \ {0}
  BY DEF Garbage, Pieces
<1>3. Flags /\ pc \in Places /\ scen \in Scenarios
  BY DEF Init, Flags, Places
<1>4. Counters
  BY DEF Init, Counters
<1>5. Data
  <2>1. <<>> \in Seq(Pieces)
    OBVIOUS
  <2>2. "none" \in WriterPlaces
    BY DEF WriterPlaces
  <2>. QED
    BY <1>2, <2>1, <2>2 DEF Init, Data
<1>6. SettingsInv /\ OpenInv /\ ClosedInv
  BY DEF Init, SettingsInv, OpenInv, ClosedInv, PerFrame, Writing
<1>7. PartsInv /\ ErrorInv /\ ModeInv /\ StepInv
  BY DEF Init, PartsInv, ErrorInv, ModeInv, StepInv, PerFrame, Writing
<1>8. BoundInv
  BY FitsFileAssumption DEF Init, BoundInv
<1>9. ThreadInv
  BY DEF Init, ThreadInv, NoThread
<1>10. PlaceInv
  BY DEF Init, PlaceInv
<1>11. FileInv
  BY DEF Init, FileInv
<1>12. KeptInv
  <2>1. first = 0 /\ frame = 0 /\ LastKept
    BY DEF Init, LastKept
  <2>2. first + 1 .. frame - 1 = {}
    BY <2>1
  <2>. QED
    BY <1>1, <2>1, <2>2 DEF KeptInv
<1>. QED
  BY <1>3, <1>4, <1>5, <1>6, <1>7, <1>8, <1>9, <1>10, <1>11, <1>12 DEF Inv, Typed

LEMMA StutterStep ==
  ASSUME Inv, UNCHANGED vars
  PROVE  Inv'
<1>0. UNCHANGED <<scen, datacube, cubeamps, mode, iscube, extension, fileOpen, threadcount,
                   framen, writing, werror, fmutex, container, wpc, wcube, wimage, disk, given,
                   announced, first, stray, abandoned, pc, nseq, pre, result, rawexpose, frame,
                   part, parts, raw, ok, current>>
  BY DEF vars, settings, info, fits, threads, stored, history, place, image
<1>1. Typed'
  BY <1>0 DEF Inv, Typed, Flags, Counters, Data
<1>2. SettingsInv' /\ OpenInv' /\ ClosedInv' /\ ModeInv'
  BY <1>0 DEF Inv, SettingsInv, OpenInv, ClosedInv, ModeInv, Found, PerFrame, Writing
<1>3. PartsInv' /\ ErrorInv' /\ BoundInv' /\ StepInv'
  BY <1>0 DEF Inv, PartsInv, ErrorInv, BoundInv, StepInv, InStep, Behind, PerFrame, Writing
<1>4. ThreadInv'
  BY <1>0 DEF Inv, ThreadInv, Whole, NoThread, OneThread, ThisImage
<1>k. /\ (Matches' <=> Matches) /\ (Empty' <=> Empty) /\ ThisImage' = ThisImage
      /\ (Whole' <=> Whole)
  BY <1>0 DEF Matches, Empty, ThisImage, Whole
<1>5. PlaceInv'
  BY <1>0, <1>k DEF Inv, PlaceInv, PerFrame, Ready, Pending, Written, Unwritten
<1>6. FileInv' /\ KeptInv'
  BY <1>0 DEF Inv, FileInv, KeptInv, LastKept, Kept, Has
<1>. QED
  BY <1>1, <1>2, <1>3, <1>4, <1>5, <1>6 DEF Inv

LEMMA NextInv == Inv /\ [Next]_vars => Inv'
<1>. SUFFICES ASSUME Inv, [Next]_vars PROVE Inv'
  OBVIOUS
<1>1. CASE Exposer
  BY <1>1, OpenCubeStep, LoopStep, OpenFrameStep, WaitStep, ReadStep, WriteStep, JoinStep,
     NextAmpStep, NotWrittenStep, WrittenWellStep, FailedStep, StoredStep, LastStep,
     OpenRawStep, ReadRawStep, RawDoneStep DEF Exposer
<1>2. CASE \E n \in 1 .. scen.seq, p \in 0 .. scen.pre : Expose(n, p)
  BY <1>2, ExposeStep
<1>3. CASE \E w \in Writers : Writer(w)
  BY <1>3, BeginStep, TurnStep, TurnTimeoutStep, LockStep, SaveStep, EndStep DEF Writer
<1>4. CASE \E c \in Settings : Set(c)
  BY <1>4, SetStep
<1>5. CASE UNCHANGED vars
  BY <1>5, StutterStep
<1>. QED
  BY <1>1, <1>2, <1>3, <1>4, <1>5 DEF Next

-----------------------------------------------------------------------------
(* The invariant holds always, in every scenario; each part of it says of which
   scenarios it speaks. *)
THEOREM FileInvariant == Spec => []Inv
  BY InitInv, NextInv, PTL DEF Spec

(* When the settings stay as they are during an expose, and amplifiers come
   only in cubes, a file that is announced as COMPLETE by Stored, Last or RawDone
   is closed and holds the images it was given, once and in order, unless a
   writer thread was left behind in its time or before it: whatever fails, and
   however late threads are. *)
THEOREM FilesAreComplete ==
  ASSUME \A s \in Scenarios : Settled(s)
  PROVE  Spec => []CompleteFiles
<1>1. Inv => CompleteFiles
  BY DEF Inv, Typed, FileInv, CompleteFiles
<1>2. Spec => []Inv
  BY FileInvariant
<1>. QED
  BY <1>1, <1>2, PTL

(* In the same scenarios an expose that returns NO_ERROR has closed its file and
   has each of its frames in a file, whatever failed in the threads that wrote
   them; excepted are the frames of files in whose time a thread was left behind. *)
THEOREM ErrorsAreReported ==
  ASSUME \A s \in Scenarios : Settled(s)
  PROVE  Spec => []SavedOrReported
<1>1. Inv => SavedOrReported
  <2>. SUFFICES ASSUME Inv, pc = "idle", result = "NO_ERROR"
                PROVE  ~fileOpen /\ \A k \in first + 1 .. frame : Kept(k)
    BY DEF SavedOrReported
  <2>1. Settled(scen)
    BY DEF Inv, Typed
  <2>2. ~fileOpen
    BY <2>1 DEF Inv, OpenInv, Settled
  <2>3. LastKept /\ \A k \in first + 1 .. frame - 1 : Kept(k)
    BY <2>1 DEF Inv, KeptInv
  <2>4. first \in Nat /\ frame \in Nat
    BY DEF Inv, Typed, Counters
  <2>5. \A k \in first + 1 .. frame : Kept(k)
    BY <2>3, <2>4 DEF LastKept
  <2>. QED
    BY <2>2, <2>5
<1>2. Spec => []Inv
  BY FileInvariant
<1>. QED
  BY <1>1, <1>2, PTL

(* When the settings stay as they are during an expose, it closes the file
   however it ends, unless it returns between open_file and close_file: from
   wait_for_exposure, from a pre-exposure, or from a second open_file. *)
THEOREM FileIsClosed ==
  ASSUME \A s \in Scenarios : ~s.during
  PROVE  Spec => []ClosedAtRest
<1>1. Inv => ClosedAtRest
  BY DEF Inv, Typed, ClosedInv, ClosedAtRest
<1>2. Spec => []Inv
  BY FileInvariant
<1>. QED
  BY <1>1, <1>2, PTL

(* An expose in which nothing fails or is late returns NO_ERROR, and the threads
   of a cube never wait for a count that does not come: provided that the
   settings stay as they are during an expose, that amplifiers come in cubes and
   without raw data, and that the mode RAW comes without either. *)
THEOREM NoErrorWithoutCause ==
  ASSUME \A s \in Scenarios : Quiet(s) \/ s.create \/ s.wait \/ s.read \/ s.write \/ s.slow
  PROVE  Spec => []NoSpuriousError
<1>1. Inv => NoSpuriousError
  BY DEF Inv, Typed, ErrorInv, NoSpuriousError
<1>2. Spec => []Inv
  BY FileInvariant
<1>. QED
  BY <1>1, <1>2, PTL

(* An expose that returns NO_ERROR leaves the observing mode as it found it,
   in any scenario: commands during it, late threads and failures between the
   two switches of a raw frame included. *)
THEOREM ModeIsKept == Spec => ModeKept
<1>1. ASSUME Inv, [Next]_vars, pc # "idle", pc' = "idle", result' = "NO_ERROR"
      PROVE  mode' = IF rawexpose THEN "raw" ELSE "image"
  <2>1. CASE Last \/ RawDone
    <3>1. mode' = mode /\ pc \in {"last", "rawdone"}
      BY <2>1 DEF Last, RawDone, settings
    <3>2. Found
      BY <1>1, <3>1 DEF Inv, ModeInv
    <3>. QED
      BY <3>1, <3>2 DEF Found
  <2>2. CASE OpenCube \/ OpenFrame \/ OpenRaw
    BY <1>1, <2>2 DEF OpenCube, OpenFrame, OpenRaw, OpenFile, Goto, Return
  <2>3. CASE Loop \/ Wait \/ Failed
    BY <1>1, <2>3 DEF Loop, Wait, Failed, Abandon, Goto, Return
  <2>4. CASE Read \/ Write \/ Join \/ NextAmp \/ NotWritten \/ WrittenWell \/ Stored \/ ReadRaw
    BY <1>1, <2>4 DEF Read, Write, Join, NextAmp, NotWritten, WrittenWell, Stored, ReadRaw, Goto
  <2>5. CASE \E w \in Writers : Writer(w)
    BY <1>1, <2>5 DEF Writer, Begin, Turn, TurnTimeout, Lock, Save, End, place
  <2>6. CASE \E c \in Settings : Set(c)
    BY <1>1, <2>6 DEF Set, place
  <2>7. CASE \E n \in 1 .. scen.seq, p \in 0 .. scen.pre : Expose(n, p)
    BY <1>1, <2>7 DEF Expose
  <2>8. CASE UNCHANGED vars
    BY <1>1, <2>8 DEF vars, place
  <2>. QED
    BY <1>1, <2>1, <2>2, <2>3, <2>4, <2>5, <2>6, <2>7, <2>8 DEF Next, Exposer
<1>2. Inv /\ [Next]_vars =>
        [pc # "idle" /\ pc' = "idle" /\ result' = "NO_ERROR" =>
           mode' = IF rawexpose THEN "raw" ELSE "image"]_vars
  BY <1>1
<1>. QED
  BY <1>2, FileInvariant, PTL DEF Spec, ModeKept

=============================================================================
