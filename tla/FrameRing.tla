------------------------------ MODULE FrameRing ------------------------------
(***************************************************************************)
(* The ring of frame buffers in the Archon controller and the host that    *)
(* follows it: Archon::Interface::expose (its sequence of images),         *)
(* get_frame_status, wait_for_readout, read_frame, lock_buffer and fetch   *)
(* (camerad/archon.cpp).  One thread runs expose; another client may send  *)
(* printstatus, which runs get_frame_status on the same frame structure.   *)
(*                                                                         *)
(* The controller is the emulator's dothread_expose                        *)
(* (emulator/emulator-archon.cpp) with the lock of a buffer honoured.      *)
(* The link is reliable here, except that a command may be refused because *)
(* the other client's is in progress; ArchonLink has the link itself.      *)
(***************************************************************************)
EXTENDS Integers, Sequences, FiniteSets

CONSTANTS
  NBufs,        \* Archon::nbufs, buffers in a FRAME report
  Active,       \* camera_info.activebufs, buffers in use: 3, or 2 with BIGBUF
  NumberFirst,  \* the controller numbers a frame when its readout starts
                \* (as get_frame_status expects), not when it ends (emulator)
  Watched,      \* another client sends printstatus
  MayFail,      \* waits may time out, reads and unlocks may fail
  Lead,         \* bound: how far beyond lastframe the controller gets while
                \* the host acquires; the pace of the exposures
  MaxPre,       \* bound: pre-exposures of an expose
  MaxSeq,       \* bound: images of an expose
  MaxFrames     \* bound: frames the controller ever takes

ASSUME FrameRingAssumption ==
  /\ NBufs \in Nat /\ Active \in 2 .. NBufs
  /\ NumberFirst \in BOOLEAN /\ Watched \in BOOLEAN /\ MayFail \in BOOLEAN
  /\ Lead \in Nat /\ MaxPre \in Nat /\ MaxSeq \in Nat /\ MaxFrames \in Nat

Bufs == 0 .. NBufs - 1
Frames == 0 .. MaxFrames
NoBuf == NBufs          \* no buffer is being written
Torn == 0               \* pixels that are not one whole frame

Steps == {"idle", "prep", "wait", "final", "lock", "fetch", "stream", "unlock"}

VARIABLES
  \* controller
  number,       \* frame number of each buffer, as FRAME reports it
  complete,     \* its complete flag
  pixels,       \* the frame whose pixels it holds
  writing,      \* buffer being written
  written,      \* buffer written last
  taken,        \* frames taken so far
  todo,         \* exposures left in the sequence the host asked for
  locked,       \* buffer locked for reading, from 1; 0 for none
  \* host: this->frame, this->lastframe
  bufframen, bufcomplete, index, lastframe,
  \* host: expose and the functions it calls
  pc,
  currentframe, \* local of wait_for_readout
  nseq, expcount, preexp,
  source,       \* buffer being fetched
  data,         \* what has been fetched
  images,       \* frames given to write_frame by this expose
  first,        \* frames taken before this expose triggered the controller
  newest,       \* newest frame ever delivered (history, for the refinement)
  chosen,       \* history: the buffer that the host had locked,
  missed,       \* whether its frame was gone by then, or another is fetched,
  late          \* and the images of this expose that were missed

ring    == <<number, complete, pixels, writing, written, taken>>
device  == <<ring, todo, locked>>
status  == <<bufframen, bufcomplete, index>>
request == <<nseq, expcount, preexp, first>>
reading == <<source, data>>
delivered == <<images, newest, late>>
choice  == <<chosen, missed>>
vars    == <<device, status, lastframe, pc, currentframe, request, reading, choice, delivered>>

Init ==
  /\ number = [b \in Bufs |-> 0] /\ complete = [b \in Bufs |-> FALSE]
  /\ pixels = [b \in Bufs |-> Torn]
  /\ writing = NoBuf /\ written = Active - 1 /\ taken = 0
  /\ todo = 0 /\ locked = 0
  /\ bufframen = number /\ bufcomplete = complete /\ index = 0 /\ lastframe = 0
  /\ pc = "idle" /\ currentframe = 0
  /\ nseq = 0 /\ expcount = 0 /\ preexp = 0 /\ first = 0
  /\ source = 0 /\ data = Torn /\ images = <<>> /\ newest = 0
  /\ chosen = 0 /\ missed = FALSE /\ late = {}

-----------------------------------------------------------------------------
(* The controller. *)

\* The buffer after b in the ring that is not locked.
NextBufOfAll(b) == (b + 1) % NBufs
NextBuf(b) ==
  LET c == (b + 1) % Active IN IF c + 1 = locked THEN (c + 1) % Active ELSE c

\* Pixels of buffer b change: a fetch of b in progress is spoiled.
Spoil(b) == data' = IF pc = "stream" /\ source = b THEN Torn ELSE data

KeepsPace == pc \in {"idle", "prep"} \/ taken + 1 <= lastframe + Lead

StartReadout ==
  /\ todo > 0 /\ writing = NoBuf /\ KeepsPace
  /\ LET b == NextBuf(written)
     IN /\ writing' = b /\ written' = b
        /\ complete' = [complete EXCEPT ![b] = FALSE]
        /\ pixels' = [pixels EXCEPT ![b] = Torn]
        /\ number' = IF NumberFirst THEN [number EXCEPT ![b] = taken + 1] ELSE number
        /\ Spoil(b)
  /\ UNCHANGED <<taken, todo, locked, status, lastframe, pc, currentframe, request,
                 source, choice, delivered>>

EndReadout ==
  /\ writing # NoBuf
  /\ taken' = taken + 1 /\ todo' = todo - 1 /\ writing' = NoBuf
  /\ number' = [number EXCEPT ![writing] = taken + 1]
  /\ complete' = [complete EXCEPT ![writing] = TRUE]
  /\ pixels' = [pixels EXCEPT ![writing] = taken + 1]
  /\ Spoil(writing)
  /\ UNCHANGED <<written, locked, status, lastframe, pc, currentframe, request,
                 source, choice, delivered>>

-----------------------------------------------------------------------------
(* get_frame_status: the newest complete buffer, starting from the current
   one whether that one is complete or not. *)
Newer == {b \in Bufs : number[b] > number[index] /\ complete[b]}

GetFrameStatus ==
  /\ bufframen' = number /\ bufcomplete' = complete
  /\ index' = IF \A b \in Bufs : number[b] = 0 THEN 0
              ELSE IF Newer = {} THEN index
              ELSE CHOOSE b \in Newer : \A c \in Newer : number[c] <= number[b]

\* printstatus of another client.  It is refused while archon_busy is set.
Watch ==
  /\ Watched /\ pc # "stream"
  /\ GetFrameStatus
  /\ UNCHANGED <<device, lastframe, pc, currentframe, request, reading, choice, delivered>>

-----------------------------------------------------------------------------
(* expose.  It notes the frame acquired last, then asks the controller for
   all the images of the sequence at once. *)

Expose(n, p) ==
  /\ pc = "idle" /\ taken + todo + n + p <= MaxFrames
  /\ GetFrameStatus
  /\ lastframe' = bufframen'[index']
  /\ nseq' = n + p /\ preexp' = p /\ expcount' = 0 /\ images' = <<>> /\ late' = {}
  /\ pc' = "prep"
  /\ UNCHANGED <<device, currentframe, first, reading, newest, choice>>

\* The controller refuses while it is still taking an earlier sequence.
Trigger ==
  /\ pc = "prep"
  /\ \/ /\ todo = 0
        /\ todo' = nseq /\ first' = taken
        /\ pc' = "wait"
     \/ /\ todo > 0
        /\ pc' = "idle"
        /\ UNCHANGED <<todo, first>>
  /\ UNCHANGED <<ring, locked, status, lastframe, currentframe, nseq, expcount, preexp,
                 reading, choice, delivered>>

CompleteOnly(n, c, i) == c[i]
NumberOnly(n, c, i) == n[i] # lastframe
NewFrame(n, c, i) == n[i] # lastframe /\ c[i]

(* One turn of wait_for_readout's loop: BUSY is not an error there, the frame
   structure is then examined as it stands. *)
Poll ==
  /\ pc = "wait"
  /\ GetFrameStatus \/ (Watched /\ UNCHANGED status)
  /\ IF NewFrame(bufframen', bufcomplete', index')
     THEN pc' = "final" /\ currentframe' = bufframen'[index']
     ELSE UNCHANGED <<pc, currentframe>>
  /\ UNCHANGED <<device, lastframe, request, reading, choice, delivered>>

\* The loop of expose goes on with the next image, or ends.
WaitsForOneMore ==
  /\ nseq' = nseq - 1
  /\ pc' = IF nseq > 0 THEN "wait" ELSE "idle"
Advance ==
  /\ nseq' = nseq - 1
  /\ pc' = IF nseq > 1 THEN "wait" ELSE "idle"

(* The last FRAME of wait_for_readout, which may move index again.  The frame
   of a pre-exposure is not read. *)
Final ==
  /\ pc = "final"
  /\ GetFrameStatus
  /\ lastframe' = currentframe
  /\ IF expcount < preexp
     THEN expcount' = expcount + 1 /\ Advance
     ELSE pc' = "lock" /\ UNCHANGED <<expcount, nseq>>
  /\ UNCHANGED <<device, currentframe, preexp, first, reading, choice, delivered>>

\* The buffer after the newest one, frame.next_index.
NextLocked == ((index + 1) % Active) + 1
ToLock == index + 1

\* read_frame reads frame.index for the lock, and again for the address.
Lock ==
  /\ pc = "lock"
  /\ IF ToLock \in 1 .. Active
     THEN locked' = ToLock /\ pc' = "fetch"
     ELSE pc' = "idle" /\ UNCHANGED locked
  /\ chosen' = index /\ missed' = ~(complete[index] /\ number[index] = bufframen[index])
  /\ UNCHANGED <<ring, todo, status, lastframe, currentframe, request, reading, delivered>>

Fetch ==
  /\ pc = "fetch"
  /\ source' = index /\ data' = pixels[index]
  /\ missed' = (missed \/ index # chosen)
  /\ pc' = "stream"
  /\ UNCHANGED <<device, status, lastframe, currentframe, request, chosen, delivered>>

StreamEnd ==
  /\ pc = "stream"
  /\ pc' = "unlock"
  /\ UNCHANGED <<device, status, lastframe, currentframe, request, reading, choice, delivered>>

\* LOCK0, and the frame goes to write_frame.
Unlock ==
  /\ pc = "unlock"
  /\ locked' = 0
  /\ images' = Append(images, data) /\ newest' = data
  /\ late' = IF missed THEN late \cup {Len(images')} ELSE late
  /\ Advance
  /\ UNCHANGED <<ring, todo, status, lastframe, currentframe, expcount, preexp, first,
                 reading, choice>>

(* A time limit or a failed command ends the whole expose.  The controller
   goes on with the sequence, and a locked buffer stays locked. *)
GiveUp ==
  /\ MayFail /\ pc \notin {"idle", "prep"}
  /\ pc' = "idle"
  /\ UNCHANGED <<device, status, lastframe, currentframe, request, reading, choice, delivered>>

Controller == StartReadout \/ EndReadout
Host == Trigger \/ Poll \/ Final \/ Lock \/ Fetch \/ StreamEnd \/ Unlock

Next == Controller \/ Host \/ Watch \/ GiveUp
          \/ \E n \in 1 .. MaxSeq, p \in 0 .. MaxPre : Expose(n, p)

Spec == Init /\ [][Next]_vars

\* The controller takes the frames it was asked for; every wait of the host is
\* a loop that polls.
FairSpec == Spec /\ WF_vars(Controller) /\ WF_vars(Host)

-----------------------------------------------------------------------------
(* Properties. *)

TypeOK ==
  /\ number \in [Bufs -> Frames] /\ complete \in [Bufs -> BOOLEAN]
  /\ pixels \in [Bufs -> Frames] /\ writing \in 0 .. NBufs /\ written \in 0 .. Active - 1
  /\ taken \in Frames /\ todo \in Frames /\ locked \in 0 .. Active
  /\ bufframen \in [Bufs -> Frames] /\ bufcomplete \in [Bufs -> BOOLEAN]
  /\ index \in Bufs /\ lastframe \in Frames /\ currentframe \in Frames
  /\ pc \in Steps /\ nseq \in Frames /\ expcount \in Frames /\ preexp \in Frames
  /\ source \in Bufs /\ data \in Frames /\ images \in Seq(Frames) /\ first \in Frames

(* Every image written is one whole frame, which the controller does not rewrite
   until it is transferred, however far ahead it is: except when it had begun to
   rewrite the buffer before the lock came, or when another client's printstatus
   moved the index between the lock and the fetch. *)
WholeFrames == \A i \in DOMAIN images : i \in late \/ images[i] # Torn

(* Images of a sequence come in the order the frames were taken, and no frame
   is written more than twice, the late ones left out. *)
InOrder ==
  \A i, j \in DOMAIN images \ late :
    i < j => images[i] <= images[j] /\ (j > i + 1 => images[i] < images[j])

(* The buffer being fetched is the one that was locked for it. *)
FetchedIsLocked == pc = "stream" => locked = source + 1

(* lastframe, "the last (I.E. previous) frame number acquired", is the frame
   that is read out. *)
LastframeIsRead == pc = "unlock" => data = lastframe

(* An expose only delivers frames it triggered itself. *)
FreshFrames == \A i \in DOMAIN images : images[i] = Torn \/ images[i] > first

(* Without an error an expose ends, having written all its images. *)
SequenceCompletes == pc = "wait" ~> pc = "idle" /\ nseq = 0

\* Images the client is still owed.
Owed == IF pc \in {"idle", "prep"} THEN 0 ELSE nseq - (preexp - expcount)

Abstract == INSTANCE ImageSequence WITH left <- Owed

(* A sequence of exposures delivers consecutive new frames (ImageSequence). *)
DeliversSequence == Abstract!Spec
=============================================================================
