-------------------------- MODULE ArcExposure_proofs --------------------------
(***************************************************************************)
(* Theorems about ArcExposure, for any number of devices, frames and       *)
(* exposures, and any setups.                                              *)
(***************************************************************************)
EXTENDS ArcExposure, FiniteSetTheorems, SequenceTheorems, TLAPS

-----------------------------------------------------------------------------
(* The inductive invariant. *)

Started(d) == pc \in {"join", "count"} \/ (pc = "start" /\ d < next)
Busy(d, f) == fpc[d][f] \in {"start", "wait", "write"}
HasSlot(d, f) == fpc[d][f] \in {"wait", "write", "erase"}

\* Frames of this exposure that came, if its device has not failed, and those
\* of them whose threads have nothing to write any more.
Came(d) == IF api[d] = "running" THEN delivered[d] ELSE sc.frames
Done(d) == {f \in 1 .. Came(d) : ~Busy(d, f)}

(* A device that has not been started is at rest. *)
RestInv(d) ==
  /\ ~Started(d) => /\ api[d] = "off" /\ ~fileOpen[d]
                    /\ \A f \in Frames : ~HasThread(d, f)
  /\ pc = "start" /\ ~Started(d) => framecount[d] = 0
  /\ api[d] # "running" => delivered[d] = 0
  /\ Started(d) /\ d \notin unopened => fileOpen[d]

(* The threads of a device that is not too fast have slots of their own, which
   hold their frames. *)
SlotInv(d) ==
  /\ api[d] = "running" => /\ delivered[d] <= sc.frames
                           /\ \A f \in Frames : HasThread(d, f) => f <= delivered[d]
  /\ \A f \in Frames : HasThread(d, f) => f <= sc.frames
  /\ \A b \in frameinfo[d] : \E f \in Frames : HasSlot(d, f) /\ Slot(f) = b
  /\ d \notin outpaced =>
       /\ \A f \in Frames : HasThread(d, f) => slot[d][Slot(f)] = f
       /\ \A f, g \in Frames : HasThread(d, f) /\ HasThread(d, g) /\ f # g =>
                                 sc.useframes /\ Slot(f) # Slot(g)

(* No frame is counted, and none is written, that is not done with; as long as
   nothing goes wrong every such frame is written. *)
CountInv(d) ==
  /\ framecount[d] <= Cardinality(Done(d))
  /\ fileOpen[d] /\ ~ferror[d] /\ ~abortstate /\ lost = 0 => Len(written[d]) = Cardinality(Done(d))

(* Threads wait for their turn; a frame that could not be written stops those
   that follow. *)
TurnInv(d) ==
  /\ sc.useframes \/ d \notin outpaced =>
       /\ \A f \in Frames : Busy(d, f) => framecount[d] < f
       /\ api[d] = "running" => framecount[d] <= delivered[d]
  /\ sc.useframes => \A f \in Frames : fpc[d][f] = "write" => f = framecount[d] + 1
  /\ sc.useframes /\ fileOpen[d] /\ ferror[d] =>
       /\ \A f \in Frames : Busy(d, f) => framecount[d] + 1 < f
       /\ api[d] = "running" => framecount[d] < delivered[d]

Increasing(s) == \A i, j \in DOMAIN s : i < j => s[i] < s[j]
Counting(s) == \A i \in DOMAIN s : s[i] = i

(* The file has the frames that are done with, in order, if the device is not
   too fast. *)
FileInv(d) ==
  d \notin outpaced =>
    /\ \A f \in Frames : fpc[d][f] = "write" => workbuf[d] = f
    /\ fileOpen[d] /\ ~ferror[d] /\ ~abortstate =>
         /\ Len(written[d]) = framecount[d]
         /\ \A f \in Frames : f <= Came(d) /\ ~Busy(d, f) => f <= framecount[d]
    /\ fileOpen[d] =>
         /\ \A f \in Frames : Busy(d, f) => \A i \in DOMAIN written[d] : written[d][i] < f
         /\ api[d] = "running" => \A i \in DOMAIN written[d] : written[d][i] <= delivered[d]
    /\ Increasing(written[d])
    /\ sc.useframes \/ ~ferror[d] => Counting(written[d])

MainInv ==
  /\ pc = "start" => next <= sc.devices
  /\ pc = "count" => \A d \in Devices : api[d] = "off"
  /\ imnum <= exposes /\ (pc # "idle" => imnum < exposes)
  /\ framethreadcount = Cardinality(Live) + lost
  /\ pc = "idle" => lost = 0
  /\ lost > 0 => \E d \in outpaced : Started(d)

DevInv(d) == RestInv(d) /\ SlotInv(d) /\ CountInv(d) /\ TurnInv(d) /\ FileInv(d)

ThreadInv == TypeOK /\ MainInv /\ \A d \in Devices : DevInv(d)

-----------------------------------------------------------------------------
(* What a setup is. *)
LEMMA Setup ==
  ASSUME TypeOK
  PROVE  /\ sc.devices \in Nat /\ sc.devices >= 1 /\ sc.frames \in 1 .. MaxFrames
         /\ MaxFrames \in Nat /\ sc.useframes \in BOOLEAN
         /\ \A f \in Frames : Slot(f) \in 0 .. MaxFrames - 1
<1>1. sc \in Scenario /\ MaxFrames \in Nat
  BY ArcExposureAssumption DEF TypeOK
<1>2. /\ sc.devices \in 1 .. MaxDev /\ sc.frames \in 1 .. MaxFrames /\ sc.fpb \in 1 .. MaxFrames
      /\ sc.useframes \in BOOLEAN
  BY <1>1 DEF Scenario
<1>3. ASSUME NEW f \in Frames
      PROVE  Slot(f) \in 0 .. MaxFrames - 1
  <2>1. PICK n \in Nat \ {0} : n = sc.fpb
    BY <1>1, <1>2
  <2>2. f - 1 \in Nat
    BY <1>1 DEF Frames
  <2>3. (f - 1) % n \in 0 .. n - 1
    BY <2>2
  <2>. QED
    BY <2>1, <2>3, <1>1, <1>2 DEF Slot
<1>. QED
  BY <1>1, <1>2, <1>3, ArcExposureAssumption

(* Frames done with are frames that came, finitely many. *)
LEMMA DoneIsFinite ==
  ASSUME NEW n \in Nat, NEW D, D \subseteq 1 .. n
  PROVE  IsFiniteSet(D) /\ Cardinality(D) \in Nat /\ Cardinality(D) <= n
<1>1. IsFiniteSet(1 .. n) /\ Cardinality(1 .. n) = n
  BY FS_Interval
<1>2. IsFiniteSet(D) /\ Cardinality(D) <= Cardinality(1 .. n)
  BY <1>1, FS_Subset
<1>. QED
  BY <1>1, <1>2, FS_CardinalityType

-----------------------------------------------------------------------------
(* Threads. *)

LEMMA Moved ==
  ASSUME NEW d \in Devices, NEW f \in Frames, NEW p \in ThreadPlaces,
         fpc \in [Devices -> [Frames -> ThreadPlaces]], Moves(d, f, p)
  PROVE  /\ fpc' \in [Devices -> [Frames -> ThreadPlaces]]
         /\ fpc'[d][f] = p
         /\ \A g \in Frames : g # f => fpc'[d][g] = fpc[d][g]
         /\ \A e \in Devices : e # d => fpc'[e] = fpc[e]
<1>1. PICK r : r = [fpc[d] EXCEPT ![f] = p]
  OBVIOUS
<1>2. r \in [Frames -> ThreadPlaces] /\ r[f] = p /\ \A g \in Frames : g # f => r[g] = fpc[d][g]
  BY <1>1
<1>3. fpc' = [fpc EXCEPT ![d] = r]
  BY <1>1 DEF Moves
<1>. QED
  BY <1>2, <1>3

LEMMA LiveIsFinite ==
  ASSUME TypeOK
  PROVE  IsFiniteSet(Live) /\ Cardinality(Live) \in Nat
<1>1. IsFiniteSet(Devices) /\ IsFiniteSet(Frames)
  <2>1. 1 \in Int /\ sc.devices \in Int /\ MaxFrames \in Int
    BY Setup
  <2>. QED
    BY <2>1, FS_Interval DEF Devices, Frames
<1>2. IsFiniteSet(Devices \X Frames)
  BY <1>1, FS_Product
<1>3. Live \subseteq Devices \X Frames
  BY DEF Live
<1>4. IsFiniteSet(Live)
  BY <1>2, <1>3, FS_Subset
<1>. QED
  BY <1>4, FS_CardinalityType

(* A thread that moves leaves the number of threads, one that starts adds one,
   one that ends takes one away. *)
LEMMA ThreadCount ==
  ASSUME TypeOK, NEW d \in Devices, NEW f \in Frames, NEW p \in ThreadPlaces,
         Moves(d, f, p), UNCHANGED sc
  PROVE  /\ HasThread(d, f) /\ p # "none" => Cardinality(Live') = Cardinality(Live)
         /\ ~HasThread(d, f) /\ p # "none" => Cardinality(Live') = Cardinality(Live) + 1
         /\ HasThread(d, f) /\ p = "none" => Cardinality(Live') = Cardinality(Live) - 1
<1>1. /\ fpc'[d][f] = p
      /\ \A g \in Frames : g # f => fpc'[d][g] = fpc[d][g]
      /\ \A e \in Devices : e # d => fpc'[e] = fpc[e]
  BY Moved DEF TypeOK
<1>2. Live' = {t \in Devices \X Frames : fpc'[t[1]][t[2]] # "none"}
  BY DEF Live, Devices, HasThread
<1>3. \A e \in Devices, g \in Frames : <<e, g>> # <<d, f>> => fpc'[e][g] = fpc[e][g]
  BY <1>1
<1>4. IsFiniteSet(Live) /\ Cardinality(Live) \in Nat
  BY LiveIsFinite
<1>5. CASE HasThread(d, f) /\ p # "none"
  <2>1. Live' = Live
    BY <1>1, <1>2, <1>3, <1>5 DEF Live, HasThread
  <2>. QED
    BY <2>1, <1>4, <1>5
<1>6. CASE ~HasThread(d, f) /\ p # "none"
  <2>1. Live' = Live \cup {<<d, f>>} /\ <<d, f>> \notin Live
    BY <1>1, <1>2, <1>3, <1>6 DEF Live, HasThread
  <2>. QED
    BY <2>1, <1>4, <1>6, FS_AddElement
<1>7. CASE HasThread(d, f) /\ p = "none"
  <2>1. Live' = Live \ {<<d, f>>} /\ <<d, f>> \in Live
    BY <1>1, <1>2, <1>3, <1>7 DEF Live, HasThread
  <2>. QED
    BY <2>1, <1>4, <1>7, FS_RemoveElement
<1>. QED
  BY <1>5, <1>6, <1>7

(* A device that a step leaves alone stays as it was; others may abort it. *)
LEMMA OtherDevice ==
  ASSUME NEW d, DevInv(d), UNCHANGED sc, Started(d)' <=> Started(d), pc' = "start" => pc = "start",
         abortstate => abortstate', lost' = 0 => lost = 0,
         d \in outpaced' <=> d \in outpaced, d \in unopened' <=> d \in unopened,
         framecount'[d] = framecount[d], frameinfo'[d] = frameinfo[d],
         workbuf'[d] = workbuf[d], api'[d] = api[d], delivered'[d] = delivered[d],
         slot'[d] = slot[d], fpc'[d] = fpc[d], fileOpen'[d] = fileOpen[d], ferror'[d] = ferror[d],
         written'[d] = written[d]
  PROVE  DevInv(d)'
<1>1. RestInv(d)'
  BY DEF DevInv, RestInv, HasThread
<1>2. SlotInv(d)'
  BY DEF DevInv, SlotInv, HasThread, HasSlot, Slot
<1>3. Done(d)' = Done(d) /\ Came(d)' = Came(d)
  BY DEF Done, Came, Busy
<1>4. CountInv(d)'
  BY <1>3 DEF DevInv, CountInv
<1>5. TurnInv(d)'
  BY DEF DevInv, TurnInv, Busy
<1>6. FileInv(d)'
  BY <1>3 DEF DevInv, FileInv, Busy
<1>. QED
  BY <1>1, <1>2, <1>4, <1>5, <1>6 DEF DevInv

(* Slots stay taken while threads only move on, and devices only stop. *)
LEMMA SlotsKept ==
  ASSUME NEW d, SlotInv(d), UNCHANGED sc, slot'[d] = slot[d], frameinfo'[d] = frameinfo[d],
         d \in outpaced => d \in outpaced',
         api'[d] = "running" => api[d] = "running" /\ delivered'[d] = delivered[d],
         \A f \in Frames : /\ HasThread(d, f)' => HasThread(d, f)
                           /\ HasSlot(d, f) => HasSlot(d, f)'
  PROVE  SlotInv(d)'
<1>1. api'[d] = "running" => /\ delivered'[d] <= sc.frames
                             /\ \A f \in Frames : HasThread(d, f)' => f <= delivered'[d]
  BY DEF SlotInv
<1>2. \A f \in Frames : HasThread(d, f)' => f <= sc.frames
  BY DEF SlotInv
<1>3. \A b \in frameinfo'[d] : \E f \in Frames : HasSlot(d, f)' /\ Slot(f) = b
  BY DEF SlotInv
<1>4. d \notin outpaced' =>
        /\ \A f \in Frames : HasThread(d, f)' => slot'[d][Slot(f)] = f
        /\ \A f, g \in Frames : HasThread(d, f)' /\ HasThread(d, g)' /\ f # g =>
                                  sc.useframes /\ Slot(f) # Slot(g)
  BY DEF SlotInv
<1>. QED
  BY <1>1, <1>2, <1>3, <1>4 DEF SlotInv, Slot

(* Turns stay as they are while threads only move on. *)
LEMMA TurnsKept ==
  ASSUME NEW d, TurnInv(d), UNCHANGED sc, d \in outpaced => d \in outpaced',
         framecount'[d] = framecount[d], fileOpen'[d] = fileOpen[d], ferror'[d] = ferror[d],
         api'[d] = "running" => api[d] = "running" /\ delivered'[d] = delivered[d],
         \A f \in Frames : /\ Busy(d, f)' => Busy(d, f)
                           /\ fpc'[d][f] = "write" => fpc[d][f] = "write"
  PROVE  TurnInv(d)'
  BY DEF TurnInv

(* So do files. *)
LEMMA FilesKept ==
  ASSUME NEW d, FileInv(d), UNCHANGED sc, d \in outpaced => d \in outpaced',
         framecount'[d] = framecount[d], fileOpen'[d] = fileOpen[d], ferror'[d] = ferror[d],
         written'[d] = written[d], abortstate => abortstate',
         api'[d] = "running" => api[d] = "running" /\ delivered'[d] = delivered[d],
         ~abortstate' => Came(d)' = Came(d),
         \A f \in Frames : /\ Busy(d, f)' => Busy(d, f)
                           /\ ~abortstate' => (Busy(d, f)' <=> Busy(d, f))
                           /\ fpc'[d][f] = "write" => fpc[d][f] = "write" /\ workbuf'[d] = workbuf[d]
  PROVE  FileInv(d)'
<1>. SUFFICES ASSUME d \notin outpaced' PROVE FileInv(d)'
  BY DEF FileInv
<1>1. \A f \in Frames : fpc'[d][f] = "write" => workbuf'[d] = f
  BY DEF FileInv
<1>2. fileOpen'[d] /\ ~ferror'[d] /\ ~abortstate' =>
         /\ Len(written'[d]) = framecount'[d]
         /\ \A f \in Frames : f <= Came(d)' /\ ~Busy(d, f)' => f <= framecount'[d]
  BY DEF FileInv
<1>3. fileOpen'[d] =>
         /\ \A f \in Frames : Busy(d, f)' => \A i \in DOMAIN written'[d] : written'[d][i] < f
         /\ api'[d] = "running" => \A i \in DOMAIN written'[d] : written'[d][i] <= delivered'[d]
  BY DEF FileInv
<1>4. Increasing(written'[d]) /\ (sc'.useframes \/ ~ferror'[d] => Counting(written'[d]))
  BY DEF FileInv
<1>. QED
  BY <1>1, <1>2, <1>3, <1>4 DEF FileInv, Increasing, Counting

(* A thread belongs to a device that was started. *)
LEMMA ThreadsOfStarted ==
  ASSUME ThreadInv, NEW d \in Devices, NEW f \in Frames, HasThread(d, f)
  PROVE  Started(d) /\ pc # "idle"
  BY DEF ThreadInv, DevInv, RestInv, Started

(* What came of a device. *)
LEMMA FramesCame ==
  ASSUME ThreadInv, NEW d \in Devices
  PROVE  /\ Came(d) \in Nat /\ Came(d) <= sc.frames
         /\ IsFiniteSet(Done(d)) /\ Cardinality(Done(d)) \in Nat /\ Cardinality(Done(d)) <= Came(d)
         /\ \A f \in Frames : HasThread(d, f) => f \in 1 .. Came(d)
<1>1. TypeOK /\ SlotInv(d) /\ delivered[d] \in Nat /\ sc.frames \in Nat /\ MaxFrames \in Nat
  <2>1. TypeOK /\ SlotInv(d)
    BY DEF ThreadInv, DevInv
  <2>2. sc.frames \in 1 .. MaxFrames /\ MaxFrames \in Nat
    BY <2>1, Setup
  <2>3. delivered[d] \in 0 .. MaxFrames
    BY <2>1 DEF TypeOK
  <2>. QED
    BY <2>1, <2>2, <2>3
<1>2. Came(d) \in Nat /\ Came(d) <= sc.frames
  BY <1>1 DEF Came, SlotInv
<1>3. \A f \in Frames : HasThread(d, f) => f \in 1 .. Came(d)
  BY <1>1 DEF Came, SlotInv, Frames
<1>4. Done(d) \subseteq 1 .. Came(d)
  BY DEF Done
<1>. QED
  BY <1>2, <1>3, <1>4, DoneIsFinite

(* The thread of a device that is not too fast finds its slot free. *)
LEMMA SlotIsFree ==
  ASSUME ThreadInv, NEW d \in Devices, d \notin outpaced, NEW f \in Frames, fpc[d][f] = "start"
  PROVE  Slot(f) \notin frameinfo[d]
<1>. SUFFICES ASSUME Slot(f) \in frameinfo[d] PROVE FALSE
  OBVIOUS
<1>1. SlotInv(d)
  BY DEF ThreadInv, DevInv
<1>2. PICK g \in Frames : HasSlot(d, g) /\ Slot(g) = Slot(f)
  BY <1>1 DEF SlotInv
<1>3. HasThread(d, f) /\ HasThread(d, g) /\ g # f
  BY <1>2 DEF HasSlot, HasThread
<1>. QED
  BY <1>1, <1>2, <1>3 DEF SlotInv

(* A frame takes its slot. *)
LEMMA TakeStep ==
  ASSUME ThreadInv, NEW d \in Devices, NEW f \in Frames, Claim(d, f), Slot(f) \notin frameinfo[d]
  PROVE  ThreadInv'
<1>1. /\ fpc[d][f] = "start" /\ Moves(d, f, "wait")
      /\ frameinfo' = [frameinfo EXCEPT ![d] = @ \cup {Slot(f)}]
      /\ UNCHANGED <<sc, main, shared, framecount, workbuf, failed, device, files, history>>
  BY DEF Claim, history
<1>2. UNCHANGED <<sc, pc, next, result, imnum, exposes, abortstate, framethreadcount, framecount, workbuf,
                  failed, api, delivered, slot, fileOpen, ferror, written, lost, outpaced, unopened>>
  BY <1>1 DEF main, shared, device, files, history
<1>3. TypeOK /\ MainInv /\ DevInv(d) /\ HasThread(d, f) /\ "wait" \in ThreadPlaces
  BY <1>1 DEF ThreadInv, HasThread, ThreadPlaces
<1>4. /\ fpc' \in [Devices -> [Frames -> ThreadPlaces]] /\ fpc'[d][f] = "wait"
      /\ \A g \in Frames : g # f => fpc'[d][g] = fpc[d][g]
      /\ \A e \in Devices : e # d => fpc'[e] = fpc[e]
  BY <1>1, <1>3, Moved DEF TypeOK
<1>5. frameinfo' \in [Devices -> SUBSET (0 .. MaxFrames - 1)] /\ frameinfo'[d] = frameinfo[d] \cup {Slot(f)}
      /\ \A e \in Devices : e # d => frameinfo'[e] = frameinfo[e]
  BY <1>1, <1>3, Setup DEF TypeOK
<1>6. Cardinality(Live') = Cardinality(Live)
  BY <1>1, <1>2, <1>3, ThreadCount
<1>7. TypeOK'
  BY <1>2, <1>3, <1>4, <1>5 DEF TypeOK, Devices
<1>8. MainInv'
  BY <1>2, <1>3, <1>6 DEF MainInv, Devices, Started
<1>9. \A g \in Frames : /\ HasThread(d, g)' <=> HasThread(d, g)
                        /\ Busy(d, g)' <=> Busy(d, g)
                        /\ fpc'[d][g] = "write" <=> fpc[d][g] = "write"
                        /\ HasSlot(d, g)' <=> HasSlot(d, g) \/ g = f
  BY <1>1, <1>3, <1>4 DEF HasThread, Busy, HasSlot
<1>10. RestInv(d)'
  BY <1>2, <1>3, <1>9 DEF DevInv, RestInv, Started
<1>11. SlotInv(d)'
  <2>1. \A b \in frameinfo'[d] : \E g \in Frames : HasSlot(d, g)' /\ Slot(g) = b
    BY <1>3, <1>5, <1>9 DEF DevInv, SlotInv
  <2>. QED
    BY <2>1, <1>2, <1>3, <1>9 DEF DevInv, SlotInv, Slot
<1>12. Came(d)' = Came(d) /\ Done(d)' = Done(d)
  <2>1. Came(d)' = Came(d)
    BY <1>2 DEF Came
  <2>2. 1 .. Came(d) \subseteq Frames
    BY <1>3, FramesCame, Setup DEF Frames
  <2>. QED
    BY <2>1, <2>2, <1>9 DEF Done
<1>13. CountInv(d)'
  BY <1>2, <1>3, <1>12 DEF DevInv, CountInv
<1>14. TurnInv(d)'
  BY <1>2, <1>3, <1>9, TurnsKept DEF DevInv
<1>15. FileInv(d)'
  BY <1>2, <1>3, <1>9, <1>12, FilesKept DEF DevInv
<1>16. ASSUME NEW e \in Devices, e # d
       PROVE  DevInv(e)'
  BY <1>16, <1>2, <1>4, <1>5, OtherDevice DEF ThreadInv, Started
<1>. QED
  BY <1>2, <1>7, <1>8, <1>10, <1>11, <1>13, <1>14, <1>15, <1>16 DEF ThreadInv, DevInv, Devices

(* A frame finds its slot taken: its device was too fast. *)
LEMMA LoseStep ==
  ASSUME ThreadInv, NEW d \in Devices, NEW f \in Frames, Claim(d, f), Slot(f) \in frameinfo[d]
  PROVE  ThreadInv'
<1>1. /\ fpc[d][f] = "start" /\ Moves(d, f, "none") /\ lost' = lost + 1
      /\ UNCHANGED <<sc, main, shared, control, failed, device, files, outpaced, unopened>>
  BY DEF Claim, control
<1>2. UNCHANGED <<sc, pc, next, result, imnum, exposes, abortstate, framethreadcount, framecount, frameinfo,
                  workbuf, failed, api, delivered, slot, fileOpen, ferror, written, outpaced, unopened>>
  BY <1>1 DEF main, shared, control, device, files
<1>3. /\ TypeOK /\ MainInv /\ DevInv(d) /\ HasThread(d, f) /\ Busy(d, f) /\ "none" \in ThreadPlaces
      /\ d \in outpaced /\ Started(d) /\ pc # "idle"
  <2>1. HasThread(d, f) /\ Busy(d, f) /\ "none" \in ThreadPlaces
    BY <1>1 DEF HasThread, Busy, ThreadPlaces
  <2>. QED
    BY <2>1, <1>1, SlotIsFree, ThreadsOfStarted DEF ThreadInv
<1>4. /\ fpc' \in [Devices -> [Frames -> ThreadPlaces]] /\ fpc'[d][f] = "none"
      /\ \A g \in Frames : g # f => fpc'[d][g] = fpc[d][g]
      /\ \A e \in Devices : e # d => fpc'[e] = fpc[e]
  BY <1>1, <1>3, Moved DEF TypeOK
<1>5. lost \in Nat /\ lost' \in Nat /\ lost' # 0 /\ lost' > 0
  BY <1>1, <1>3 DEF TypeOK
<1>6. Cardinality(Live') = Cardinality(Live) - 1 /\ Cardinality(Live) \in Nat
  BY <1>1, <1>2, <1>3, ThreadCount, LiveIsFinite
<1>7. TypeOK'
  BY <1>2, <1>3, <1>4, <1>5 DEF TypeOK, Devices
<1>8. MainInv'
  <2>1. framethreadcount' = Cardinality(Live') + lost'
    BY <1>1, <1>2, <1>3, <1>5, <1>6 DEF MainInv
  <2>2. \E e \in outpaced' : Started(e)'
    BY <1>2, <1>3 DEF Started
  <2>. QED
    BY <2>1, <2>2, <1>2, <1>3 DEF MainInv, Devices
<1>9. \A g \in Frames : /\ HasThread(d, g)' <=> HasThread(d, g) /\ g # f
                        /\ Busy(d, g)' <=> Busy(d, g) /\ g # f
                        /\ fpc'[d][g] = "write" <=> fpc[d][g] = "write"
                        /\ HasSlot(d, g)' <=> HasSlot(d, g)
  BY <1>1, <1>3, <1>4 DEF HasThread, Busy, HasSlot
<1>10. RestInv(d)'
  BY <1>2, <1>3, <1>9 DEF DevInv, RestInv, Started
<1>11. SlotInv(d)'
  BY <1>2, <1>3, <1>9, SlotsKept DEF DevInv
<1>12. CountInv(d)'
  <2>1. Came(d)' = Came(d)
    BY <1>2 DEF Came
  <2>2. /\ Came(d) \in Nat /\ 1 .. Came(d) \subseteq Frames
        /\ IsFiniteSet(Done(d)) /\ Cardinality(Done(d)) \in Nat
    BY <1>3, FramesCame, Setup DEF Frames
  <2>3. Done(d) \subseteq Done(d)' /\ Done(d)' \subseteq 1 .. Came(d)
    BY <2>1, <2>2, <1>9 DEF Done
  <2>4. IsFiniteSet(Done(d)') /\ Cardinality(Done(d)') \in Nat
    BY <2>2, <2>3, DoneIsFinite
  <2>5. Cardinality(Done(d)) <= Cardinality(Done(d)')
    BY <2>3, <2>4, FS_Subset
  <2>6. framecount[d] \in Nat
    BY <1>3 DEF TypeOK
  <2>. QED
    BY <2>2, <2>4, <2>5, <2>6, <1>2, <1>3, <1>5 DEF DevInv, CountInv
<1>13. TurnInv(d)'
  BY <1>2, <1>3, <1>9, TurnsKept DEF DevInv
<1>14. FileInv(d)'
  BY <1>2, <1>3 DEF FileInv
<1>15. ASSUME NEW e \in Devices, e # d
       PROVE  DevInv(e)'
  BY <1>15, <1>2, <1>4, <1>5, OtherDevice DEF ThreadInv, Started
<1>. QED
  BY <1>2, <1>7, <1>8, <1>10, <1>11, <1>12, <1>13, <1>14, <1>15 DEF ThreadInv, DevInv, Devices

(* A thread writes what the controller put in its slot. *)
LEMMA DeinterlaceStep ==
  ASSUME ThreadInv, NEW d \in Devices, NEW f \in Frames, Deinterlace(d, f)
  PROVE  ThreadInv'
<1>1. /\ fpc[d][f] = "wait" /\ Moves(d, f, "write") /\ NextInLine(d, f)
      /\ workbuf' = [workbuf EXCEPT ![d] = slot[d][Slot(f)]]
      /\ UNCHANGED <<sc, main, shared, framecount, frameinfo, failed, device, files, history>>
  BY DEF Deinterlace
<1>2. UNCHANGED <<sc, pc, next, result, imnum, exposes, abortstate, framethreadcount, framecount, frameinfo,
                  failed, api, delivered, slot, fileOpen, ferror, written, lost, outpaced, unopened>>
  BY <1>1 DEF main, shared, device, files, history
<1>3. /\ TypeOK /\ MainInv /\ DevInv(d) /\ HasThread(d, f) /\ Busy(d, f) /\ "write" \in ThreadPlaces
      /\ sc.useframes \in BOOLEAN
  BY <1>1, Setup DEF ThreadInv, HasThread, Busy, ThreadPlaces
<1>4. /\ fpc' \in [Devices -> [Frames -> ThreadPlaces]] /\ fpc'[d][f] = "write"
      /\ \A g \in Frames : g # f => fpc'[d][g] = fpc[d][g]
      /\ \A e \in Devices : e # d => fpc'[e] = fpc[e]
  BY <1>1, <1>3, Moved DEF TypeOK
<1>5. slot[d][Slot(f)] \in FrameNumber
  <2>1. Slot(f) \in 0 .. MaxFrames - 1
    BY <1>3, Setup
  <2>2. slot[d] \in [0 .. MaxFrames - 1 -> FrameNumber]
    BY <1>3 DEF TypeOK
  <2>. QED
    BY <2>1, <2>2, ZenonT(40)
<1>6. workbuf' \in [Devices -> FrameNumber] /\ workbuf'[d] = slot[d][Slot(f)]
      /\ \A e \in Devices : e # d => workbuf'[e] = workbuf[e]
  BY <1>1, <1>3, <1>5 DEF TypeOK
<1>7. Cardinality(Live') = Cardinality(Live)
  BY <1>1, <1>2, <1>3, ThreadCount
<1>8. TypeOK'
  BY <1>2, <1>3, <1>4, <1>6 DEF TypeOK, Devices
<1>9. MainInv'
  BY <1>2, <1>3, <1>7 DEF MainInv, Devices, Started
<1>10. \A g \in Frames : /\ HasThread(d, g)' <=> HasThread(d, g)
                         /\ Busy(d, g)' <=> Busy(d, g)
                         /\ fpc'[d][g] = "write" <=> fpc[d][g] = "write" \/ g = f
                         /\ HasSlot(d, g)' <=> HasSlot(d, g)
  BY <1>1, <1>3, <1>4 DEF HasThread, Busy, HasSlot
<1>11. RestInv(d)'
  BY <1>2, <1>3, <1>10 DEF DevInv, RestInv, Started
<1>12. SlotInv(d)'
  BY <1>2, <1>3, <1>10, SlotsKept DEF DevInv
<1>13. Came(d)' = Came(d) /\ Done(d)' = Done(d)
  <2>1. Came(d)' = Came(d)
    BY <1>2 DEF Came
  <2>2. 1 .. Came(d) \subseteq Frames
    BY <1>3, FramesCame, Setup DEF Frames
  <2>. QED
    BY <2>1, <2>2, <1>10 DEF Done
<1>14. CountInv(d)'
  BY <1>2, <1>3, <1>13 DEF DevInv, CountInv
<1>15. sc.useframes => f = framecount[d] + 1
  BY <1>1 DEF NextInLine, Fcount
<1>16. TurnInv(d)'
  <2>1. \A g \in Frames : sc.useframes /\ fpc'[d][g] = "write" => g = framecount[d] + 1
    BY <1>3, <1>10, <1>15 DEF DevInv, TurnInv
  <2>. QED
    BY <2>1, <1>2, <1>3, <1>10 DEF DevInv, TurnInv
<1>17. FileInv(d)'
  <2>. SUFFICES ASSUME d \notin outpaced PROVE FileInv(d)'
    BY <1>2 DEF FileInv
  <2>1. \A g \in Frames : fpc'[d][g] = "write" => g = f
    <3>1. ASSUME NEW g \in Frames, fpc[d][g] = "write", g # f
          PROVE  FALSE
      <4>1. HasThread(d, g)
        BY <3>1 DEF HasThread
      <4>2. sc.useframes
        BY <4>1, <3>1, <1>3 DEF DevInv, SlotInv
      <4>3. g = framecount[d] + 1
        BY <4>2, <3>1, <1>3 DEF DevInv, TurnInv
      <4>. QED
        BY <4>2, <4>3, <3>1, <1>15
    <3>. QED
      BY <3>1, <1>10
  <2>2. \A g \in Frames : fpc'[d][g] = "write" => workbuf'[d] = g
    BY <2>1, <1>3, <1>6 DEF DevInv, SlotInv
  <2>. QED
    BY <2>2, <1>2, <1>3, <1>10, <1>13 DEF DevInv, FileInv
<1>18. ASSUME NEW e \in Devices, e # d
       PROVE  DevInv(e)'
  BY <1>18, <1>2, <1>4, <1>6, OtherDevice DEF ThreadInv, Started
<1>. QED
  BY <1>2, <1>8, <1>9, <1>11, <1>12, <1>14, <1>16, <1>17, <1>18 DEF ThreadInv, DevInv, Devices

LEMMA SkipStep ==
  ASSUME ThreadInv, NEW d \in Devices, NEW f \in Frames, Skip(d, f)
  PROVE  ThreadInv'
<1>1. /\ fpc[d][f] = "wait" /\ Moves(d, f, "erase") /\ abortstate
      /\ UNCHANGED <<sc, main, shared, control, failed, device, files, history>>
  BY DEF Skip, Aborted
<1>2. UNCHANGED <<sc, pc, next, result, imnum, exposes, abortstate, framethreadcount, framecount, frameinfo,
                  workbuf, failed, api, delivered, slot, fileOpen, ferror, written,
                  lost, outpaced, unopened>>
  BY <1>1 DEF main, shared, control, device, files, history
<1>3. TypeOK /\ MainInv /\ DevInv(d) /\ HasThread(d, f) /\ "erase" \in ThreadPlaces
  BY <1>1 DEF ThreadInv, HasThread, ThreadPlaces
<1>4. /\ fpc' \in [Devices -> [Frames -> ThreadPlaces]] /\ fpc'[d][f] = "erase"
      /\ \A g \in Frames : g # f => fpc'[d][g] = fpc[d][g]
      /\ \A e \in Devices : e # d => fpc'[e] = fpc[e]
  BY <1>1, <1>3, Moved DEF TypeOK
<1>5. Cardinality(Live') = Cardinality(Live)
  BY <1>1, <1>2, <1>3, ThreadCount
<1>6. TypeOK'
  BY <1>2, <1>3, <1>4 DEF TypeOK, Devices
<1>7. MainInv'
  BY <1>2, <1>3, <1>5 DEF MainInv, Devices, Started
<1>8. \A g \in Frames : /\ HasThread(d, g)' <=> HasThread(d, g)
                        /\ Busy(d, g)' => Busy(d, g)
                        /\ fpc'[d][g] = "write" => fpc[d][g] = "write"
                        /\ HasSlot(d, g)' <=> HasSlot(d, g)
  BY <1>1, <1>3, <1>4 DEF HasThread, Busy, HasSlot
<1>9. RestInv(d)'
  BY <1>2, <1>3, <1>8 DEF DevInv, RestInv, Started
<1>10. SlotInv(d)'
  BY <1>2, <1>3, <1>8, SlotsKept DEF DevInv
<1>11. CountInv(d)'
  <2>1. Came(d)' = Came(d)
    BY <1>2 DEF Came
  <2>2. /\ Came(d) \in Nat /\ 1 .. Came(d) \subseteq Frames
        /\ IsFiniteSet(Done(d)) /\ Cardinality(Done(d)) \in Nat
    BY <1>3, FramesCame, Setup DEF Frames
  <2>3. Done(d) \subseteq Done(d)' /\ Done(d)' \subseteq 1 .. Came(d)
    BY <2>1, <2>2, <1>8 DEF Done
  <2>4. IsFiniteSet(Done(d)') /\ Cardinality(Done(d)') \in Nat
    BY <2>2, <2>3, DoneIsFinite
  <2>5. Cardinality(Done(d)) <= Cardinality(Done(d)')
    BY <2>3, <2>4, FS_Subset
  <2>6. framecount[d] \in Nat
    BY <1>3 DEF TypeOK
  <2>. QED
    BY <2>2, <2>4, <2>5, <2>6, <1>1, <1>2, <1>3 DEF DevInv, CountInv
<1>12. TurnInv(d)'
  BY <1>2, <1>3, <1>8, TurnsKept DEF DevInv
<1>13. FileInv(d)'
  <2>1. ~abortstate' => FALSE
    BY <1>1, <1>2
  <2>. QED
    BY <2>1, <1>1, <1>2, <1>3, <1>8 DEF DevInv, FileInv
<1>14. ASSUME NEW e \in Devices, e # d
       PROVE  DevInv(e)'
  BY <1>14, <1>2, <1>4, OtherDevice DEF ThreadInv, Started
<1>. QED
  BY <1>2, <1>6, <1>7, <1>9, <1>10, <1>11, <1>12, <1>13, <1>14 DEF ThreadInv, DevInv, Devices

(* An image that comes after all others keeps the file in order. *)
LEMMA Appended ==
  ASSUME NEW w \in Seq(FrameNumber), NEW f \in FrameNumber, MaxFrames \in Nat,
         \A k \in DOMAIN w : w[k] < f
  PROVE  /\ Append(w, f) \in Seq(FrameNumber) /\ Len(w) \in Nat /\ Len(Append(w, f)) = Len(w) + 1
         /\ Increasing(w) => Increasing(Append(w, f))
         /\ Counting(w) /\ f = Len(w) + 1 => Counting(Append(w, f))
         /\ \A k \in DOMAIN Append(w, f) : Append(w, f)[k] <= f
<1>1. PICK n \in Nat : n = Len(w)
  OBVIOUS
<1>2. FrameNumber \subseteq Nat
  BY DEF FrameNumber, Frames, NoFrame
<1>3. /\ Append(w, f) \in Seq(FrameNumber) /\ Len(Append(w, f)) = n + 1
      /\ \A k \in 1 .. n : Append(w, f)[k] = w[k]
      /\ Append(w, f)[n + 1] = f
  BY <1>1, AppendProperties
<1>4. DOMAIN w = 1 .. n /\ DOMAIN Append(w, f) = 1 .. n + 1 /\ \A k \in 1 .. n : w[k] \in Nat
  <2>1. DOMAIN w = 1 .. n /\ \A k \in 1 .. n : w[k] \in FrameNumber
    BY <1>1
  <2>2. PICK v \in Seq(FrameNumber) : v = Append(w, f)
    BY <1>3
  <2>3. DOMAIN v = 1 .. n + 1
    BY <2>2, <1>3
  <2>. QED
    BY <2>1, <2>2, <2>3, <1>2
<1>5. \A k \in 1 .. n + 1 : k \in 1 .. n \/ k = n + 1
  BY <1>1
<1>6. ASSUME Increasing(w), NEW i \in 1 .. n + 1, NEW j \in 1 .. n + 1, i < j
      PROVE  Append(w, f)[i] < Append(w, f)[j]
  <2>1. i \in 1 .. n
    BY <1>1, <1>6
  <2>2. CASE j = n + 1
    BY <2>1, <2>2, <1>3, <1>4
  <2>3. CASE j \in 1 .. n
    BY <2>1, <2>3, <1>3, <1>4, <1>6 DEF Increasing
  <2>. QED
    BY <2>2, <2>3, <1>5
<1>7. ASSUME Counting(w), f = n + 1, NEW i \in 1 .. n + 1
      PROVE  Append(w, f)[i] = i
  BY <1>3, <1>4, <1>5, <1>7 DEF Counting
<1>8. \A k \in 1 .. n + 1 : Append(w, f)[k] <= f
  <2>1. \A k \in 1 .. n : Append(w, f)[k] <= f
    BY <1>2, <1>3, <1>4
  <2>2. Append(w, f)[n + 1] <= f
    BY <1>2, <1>3
  <2>. QED
    BY <2>1, <2>2, <1>5
<1>. QED
  BY <1>1, <1>3, <1>4, <1>6, <1>7, <1>8 DEF Increasing, Counting

(* The thread of a device that is not too fast writes its own frame, alone if
   the firmware does not number frames. *)
LEMMA Writers ==
  ASSUME ThreadInv, NEW d \in Devices, NEW f \in Frames, fpc[d][f] = "write"
  PROVE  /\ sc.useframes => /\ f = framecount[d] + 1
                            /\ \A g \in Frames : Busy(d, g) /\ g # f => framecount[d] + 1 < g
                            /\ \A g \in Frames : fpc[d][g] = "write" => g = f
                            /\ ~(fileOpen[d] /\ ferror[d])
         /\ d \notin outpaced => /\ workbuf[d] = f /\ framecount[d] < f
                                 /\ ~sc.useframes => \A g \in Frames : HasThread(d, g) => g = f
<1>1. /\ TypeOK /\ SlotInv(d) /\ TurnInv(d) /\ FileInv(d) /\ HasThread(d, f) /\ Busy(d, f)
      /\ framecount[d] \in Nat /\ \A g \in Frames : g \in Nat
  <2>1. TypeOK /\ SlotInv(d) /\ TurnInv(d) /\ FileInv(d) /\ HasThread(d, f) /\ Busy(d, f)
    BY DEF ThreadInv, DevInv, HasThread, Busy
  <2>2. framecount[d] \in 0 .. MaxFrames /\ MaxFrames \in Nat
    BY <2>1, Setup DEF TypeOK
  <2>3. \A g \in Frames : g \in Nat
    BY <2>2 DEF Frames
  <2>. QED
    BY <2>1, <2>2, <2>3
<1>2. ASSUME sc.useframes
      PROVE  /\ f = framecount[d] + 1
             /\ \A g \in Frames : Busy(d, g) /\ g # f => framecount[d] + 1 < g
             /\ \A g \in Frames : fpc[d][g] = "write" => g = f
             /\ ~(fileOpen[d] /\ ferror[d])
  <2>1. f = framecount[d] + 1 /\ \A g \in Frames : fpc[d][g] = "write" => g = f
    BY <1>1, <1>2 DEF TurnInv
  <2>2. \A g \in Frames : Busy(d, g) => framecount[d] < g
    BY <1>1, <1>2 DEF TurnInv
  <2>3. ~(fileOpen[d] /\ ferror[d])
    <3>1. fileOpen[d] /\ ferror[d] => framecount[d] + 1 < f
      BY <1>1, <1>2 DEF TurnInv
    <3>. QED
      BY <3>1, <2>1, <1>1
  <2>. QED
    BY <2>1, <2>2, <2>3, <1>1
<1>3. ASSUME d \notin outpaced
      PROVE  /\ workbuf[d] = f /\ framecount[d] < f
             /\ ~sc.useframes => \A g \in Frames : HasThread(d, g) => g = f
  <2>1. workbuf[d] = f
    BY <1>1, <1>3 DEF FileInv
  <2>2. framecount[d] < f
    BY <1>1, <1>3 DEF TurnInv
  <2>3. ~sc.useframes => \A g \in Frames : HasThread(d, g) => g = f
    BY <1>1, <1>3 DEF SlotInv
  <2>. QED
    BY <2>1, <2>2, <2>3
<1>. QED
  BY <1>2, <1>3

(* The frame that is written is the next one of its file. *)
LEMMA WriteStep ==
  ASSUME ThreadInv, NEW d \in Devices, NEW f \in Frames, Write(d, f)
  PROVE  ThreadInv'
<1>1. /\ fpc[d][f] = "write" /\ Moves(d, f, "erase")
      /\ UNCHANGED <<sc, main, shared, frameinfo, workbuf, failed, device, fileOpen, history>>
  BY DEF Write
<1>2. UNCHANGED <<sc, pc, next, result, imnum, exposes, abortstate, framethreadcount, frameinfo, workbuf,
                  failed, api, delivered, slot, fileOpen, lost, outpaced, unopened>>
  BY <1>1 DEF main, shared, device, history
<1>3. /\ TypeOK /\ MainInv /\ DevInv(d) /\ HasThread(d, f) /\ Busy(d, f) /\ "erase" \in ThreadPlaces
      /\ sc.frames \in 1 .. MaxFrames /\ MaxFrames \in Nat /\ sc.useframes \in BOOLEAN
      /\ f \in Nat /\ f \in FrameNumber
  BY <1>1, Setup DEF ThreadInv, HasThread, Busy, ThreadPlaces, Frames, FrameNumber
<1>4. /\ fpc' \in [Devices -> [Frames -> ThreadPlaces]] /\ fpc'[d][f] = "erase"
      /\ \A g \in Frames : g # f => fpc'[d][g] = fpc[d][g]
      /\ \A e \in Devices : e # d => fpc'[e] = fpc[e]
  BY <1>1, <1>3, Moved DEF TypeOK
<1>5. PICK n \in Nat : n = framecount[d]
  BY <1>3 DEF TypeOK
<1>6. PICK w \in Seq(FrameNumber) : w = written[d]
  BY <1>3 DEF TypeOK
<1>7. PICK b \in FrameNumber : b = workbuf[d]
  BY <1>3 DEF TypeOK
<1>8. \/ /\ fileOpen[d] /\ ~abortstate /\ ferror' = ferror
         /\ written' = [written EXCEPT ![d] = Append(w, b)]
         /\ framecount' = (IF ferror[d] THEN framecount ELSE [framecount EXCEPT ![d] = n + 1])
      \/ /\ fileOpen[d] /\ ~abortstate /\ ferror' = [ferror EXCEPT ![d] = TRUE]
         /\ written' = written /\ framecount' = framecount
      \/ ~fileOpen[d] /\ ferror' = ferror /\ written' = written /\ framecount' = framecount
      \/ /\ abortstate /\ ferror' = ferror /\ written' = written
         /\ framecount' = [framecount EXCEPT ![d] = n + 1]
  <2>1. \/ ~abortstate /\ write(d)
        \/ /\ abortstate /\ framecount' = increment_framecount(d)
           /\ UNCHANGED <<ferror, written>>
    BY DEF Write
  <2>2. CASE ~abortstate /\ write(d)
    BY <2>2, <1>5, <1>6, <1>7 DEF write, increment_framecount
  <2>3. CASE abortstate /\ framecount' = increment_framecount(d) /\ UNCHANGED <<ferror, written>>
    BY <2>3, <1>5 DEF increment_framecount
  <2>. QED
    BY <2>1, <2>2, <2>3
<1>9. \A g \in Frames : /\ HasThread(d, g)' <=> HasThread(d, g)
                        /\ Busy(d, g)' <=> Busy(d, g) /\ g # f
                        /\ fpc'[d][g] = "write" <=> fpc[d][g] = "write" /\ g # f
                        /\ HasSlot(d, g)' <=> HasSlot(d, g)
  BY <1>1, <1>3, <1>4 DEF HasThread, Busy, HasSlot
<1>10. Came(d)' = Came(d)
  BY <1>2 DEF Came
<1>11. PICK m \in Nat : /\ m = Cardinality(Done(d)) /\ Cardinality(Done(d)') = m + 1
                        /\ m + 1 <= MaxFrames
  <2>1. /\ Came(d) \in Nat /\ Came(d) <= sc.frames /\ 1 .. Came(d) \subseteq Frames /\ f \in 1 .. Came(d)
        /\ IsFiniteSet(Done(d)) /\ Cardinality(Done(d)) \in Nat
    BY <1>3, FramesCame, Setup DEF Frames
  <2>2. Done(d)' = Done(d) \cup {f} /\ f \notin Done(d)
    BY <2>1, <1>3, <1>9, <1>10 DEF Done
  <2>3. Cardinality(Done(d)') = Cardinality(Done(d)) + 1
    BY <2>1, <2>2, FS_AddElement
  <2>4. Done(d)' \subseteq 1 .. Came(d)
    BY <1>10 DEF Done
  <2>5. Cardinality(Done(d)') <= Came(d)
    BY <2>1, <2>4, DoneIsFinite
  <2>6. PICK k \in Nat : k = Cardinality(Done(d))
    BY <2>1
  <2>. QED
    BY <2>1, <2>3, <2>5, <2>6, <1>3
<1>12. n <= m
  BY <1>3, <1>5, <1>11 DEF DevInv, CountInv
<1>13. /\ framecount' \in [Devices -> 0 .. MaxFrames] /\ framecount'[d] \in {n, n + 1}
       /\ \A e \in Devices : e # d => framecount'[e] = framecount[e]
  <2>1. framecount' = framecount \/ framecount' = [framecount EXCEPT ![d] = n + 1]
    BY <1>8
  <2>2. framecount \in [Devices -> 0 .. MaxFrames] /\ n + 1 \in 0 .. MaxFrames
    BY SMTT(40), <1>3, <1>11, <1>12 DEF TypeOK
  <2>. QED
    BY <2>1, <2>2, <1>5
<1>14. /\ ferror' \in [Devices -> BOOLEAN] /\ (ferror[d] => ferror'[d])
       /\ \A e \in Devices : e # d => ferror'[e] = ferror[e]
  <2>1. ferror' = ferror \/ ferror' = [ferror EXCEPT ![d] = TRUE]
    BY <1>8
  <2>. QED
    BY <2>1, <1>3 DEF TypeOK
<1>15. /\ written' \in [Devices -> Seq(FrameNumber)]
       /\ \A e \in Devices : e # d => written'[e] = written[e]
  <2>1. written \in [Devices -> Seq(FrameNumber)] /\ Append(w, b) \in Seq(FrameNumber)
    BY <1>3, AppendProperties DEF TypeOK
  <2>2. written' = written \/ written' = [written EXCEPT ![d] = Append(w, b)]
    BY <1>8
  <2>. QED
    BY <2>1, <2>2
<1>16. \/ fileOpen[d] /\ ~abortstate /\ ferror'[d] = ferror[d] /\ written'[d] = Append(w, b)
          /\ framecount'[d] = (IF ferror[d] THEN n ELSE n + 1)
       \/ fileOpen[d] /\ ~abortstate /\ ferror'[d] /\ written'[d] = w /\ framecount'[d] = n
       \/ ~fileOpen[d] /\ ferror'[d] = ferror[d] /\ written'[d] = w
       \/ fileOpen[d] /\ abortstate /\ ferror'[d] = ferror[d] /\ written'[d] = w
  <2>1. written \in [Devices -> Seq(FrameNumber)] /\ framecount \in [Devices -> 0 .. MaxFrames]
        /\ ferror \in [Devices -> BOOLEAN]
    BY <1>3 DEF TypeOK
  <2>2. CASE ~fileOpen[d]
    BY <2>1, <2>2, <1>5, <1>6, <1>8
  <2>3. CASE fileOpen[d]
    BY <2>1, <2>3, <1>5, <1>6, <1>8
  <2>. QED
    BY <2>2, <2>3
<1>17. TypeOK'
  BY <1>2, <1>3, <1>4, <1>13, <1>14, <1>15 DEF TypeOK, Devices
<1>18. MainInv'
  <2>1. Cardinality(Live') = Cardinality(Live)
    BY <1>1, <1>2, <1>3, ThreadCount
  <2>. QED
    BY <2>1, <1>2, <1>3 DEF MainInv, Devices, Started
<1>19. RestInv(d)'
  <2>1. Started(d) /\ Started(d)' /\ RestInv(d)
    BY <1>2, <1>3, ThreadsOfStarted DEF ThreadInv, Started, DevInv
  <2>. QED
    BY <2>1, <1>2 DEF RestInv
<1>20. SlotInv(d)'
  BY <1>2, <1>3, <1>9, SlotsKept DEF DevInv
<1>21. CountInv(d)'
  <2>1. framecount'[d] <= m + 1
    BY <1>11, <1>12, <1>13
  <2>2. ASSUME fileOpen[d], ~ferror'[d], ~abortstate, lost = 0
        PROVE  Len(written'[d]) = m + 1
    <3>1. ~ferror[d] /\ written'[d] = Append(w, b)
      BY <2>2, <1>14, <1>16
    <3>2. Len(w) = m
      BY <3>1, <2>2, <1>3, <1>6, <1>11 DEF DevInv, CountInv
    <3>3. Len(Append(w, b)) = Len(w) + 1
      BY AppendProperties
    <3>. QED
      BY <3>1, <3>2, <3>3
  <2>. QED
    BY <2>1, <2>2, <1>2, <1>11 DEF CountInv
<1>22. api[d] = "running" => f <= delivered[d] /\ delivered[d] \in Nat
  BY <1>3 DEF DevInv, SlotInv, TypeOK
<1>23. TurnInv(d)'
  <2>1. ASSUME sc.useframes \/ d \notin outpaced
        PROVE  /\ \A g \in Frames : Busy(d, g)' => framecount'[d] < g
               /\ api[d] = "running" => framecount'[d] <= delivered[d]
    <3>1. n < f
      BY <2>1, <1>1, <1>3, <1>5, Writers
    <3>2. ASSUME NEW g \in Frames, Busy(d, g), g # f
          PROVE  n + 1 < g
      <4>1. HasThread(d, g)
        BY <3>2 DEF Busy, HasThread
      <4>. QED
        BY <4>1, <2>1, <3>2, <1>1, <1>5, Writers
    <3>3. \A g \in Frames : g \in Nat
      BY <1>3 DEF Frames
    <3>5. api[d] = "running" => framecount'[d] <= delivered[d]
      BY <3>1, <1>3, <1>13, <1>22
    <3>6. \A g \in Frames : Busy(d, g)' => n + 1 < g
      BY <3>2, <1>9
    <3>. QED
      BY <3>3, <3>5, <3>6, <1>13
  <2>2. sc.useframes => \A g \in Frames : fpc'[d][g] # "write"
    BY <1>1, <1>9, Writers
  <2>3. ASSUME sc.useframes, fileOpen[d], ferror'[d]
        PROVE  /\ \A g \in Frames : Busy(d, g)' => framecount'[d] + 1 < g
               /\ api[d] = "running" => framecount'[d] < delivered[d]
    <3>1. ~ferror[d] /\ f = n + 1 /\ \A g \in Frames : Busy(d, g) /\ g # f => n + 1 < g
      BY <2>3, <1>1, <1>5, Writers
    <3>2. framecount'[d] = n
      BY <3>1, <2>3, <1>16
    <3>3. \A g \in Frames : Busy(d, g)' => n + 1 < g
      BY <3>1, <1>9
    <3>4. api[d] = "running" => n < delivered[d]
      BY <3>1, <1>3, <1>22
    <3>. QED
      BY <3>2, <3>3, <3>4
  <2>. QED
    BY <2>1, <2>2, <2>3, <1>2 DEF TurnInv
<1>24. FileInv(d)'
  <2>. SUFFICES ASSUME d \notin outpaced PROVE FileInv(d)'
    BY <1>2 DEF FileInv
  <2>1. b = f /\ n < f
    BY <1>1, <1>5, <1>7, Writers
  <2>2. \A g \in Frames : Busy(d, g)' => f < g
    <3>1. ASSUME NEW g \in Frames, Busy(d, g), g # f
          PROVE  f < g
      <4>1. HasThread(d, g)
        BY <3>1 DEF Busy, HasThread
      <4>. QED
        BY <4>1, <3>1, <1>1, <1>3, <1>5, Writers
    <3>. QED
      BY <3>1, <1>9
  <2>3. \A g \in Frames : fpc'[d][g] # "write"
    <3>1. ASSUME NEW g \in Frames, fpc[d][g] = "write"
          PROVE  g = f
      <4>1. HasThread(d, g)
        BY <3>1 DEF HasThread
      <4>. QED
        BY <4>1, <3>1, <1>1, <1>3, Writers
    <3>. QED
      BY <3>1, <1>9
  <2>4. fileOpen[d] => \A k \in DOMAIN w : w[k] < f
    BY <1>3, <1>6 DEF DevInv, FileInv
  <2>5. Increasing(w) /\ (sc.useframes \/ ~ferror[d] => Counting(w))
    BY <1>3, <1>6 DEF DevInv, FileInv
  <2>6. \A k \in DOMAIN w : w[k] \in Nat
    BY <1>3, <1>6 DEF FrameNumber, Frames, NoFrame
  <2>7. ASSUME fileOpen[d], ~ferror[d], ~abortstate
        PROVE  /\ f = n + 1 /\ Len(w) = n
               /\ \A g \in Frames : g <= Came(d) /\ ~Busy(d, g) => g <= n
    <3>1. Len(w) = n /\ \A g \in Frames : g <= Came(d) /\ ~Busy(d, g) => g <= n
      BY <2>7, <1>3, <1>5, <1>6 DEF DevInv, FileInv
    <3>2. CASE sc.useframes
      BY <3>1, <3>2, <1>1, <1>5, Writers
    <3>3. CASE ~sc.useframes /\ f > 1
      <4>1. PICK g \in Frames : g = f - 1
        BY <3>3, <1>3 DEF Frames
      <4>2. ~Busy(d, g)
        <5>. SUFFICES ASSUME Busy(d, g) PROVE FALSE
          OBVIOUS
        <5>1. HasThread(d, g)
          BY DEF Busy, HasThread
        <5>. QED
          BY <5>1, <4>1, <3>3, <1>1, <1>3, Writers
      <4>3. g <= Came(d)
        BY <4>1, <1>3, FramesCame
      <4>. QED
        BY <4>1, <4>2, <4>3, <3>1, <2>1, <1>3
    <3>4. CASE f <= 1
      BY <3>1, <3>4, <2>1, <1>3
    <3>. QED
      BY <3>1, <3>2, <3>3, <3>4, <1>3
  <2>8. CASE written'[d] = w /\ (abortstate \/ ferror'[d] \/ ~fileOpen[d])
    <3>1. fileOpen[d] =>
            /\ \A g \in Frames : Busy(d, g)' => \A k \in DOMAIN w : w[k] < g
            /\ api[d] = "running" => \A k \in DOMAIN w : w[k] <= delivered[d]
      BY <2>4, <1>3, <1>6, <1>9 DEF DevInv, FileInv
    <3>2. sc.useframes \/ ~ferror'[d] => Counting(w)
      BY <2>5, <1>14
    <3>. QED
      BY <2>3, <2>5, <2>8, <3>1, <3>2, <1>2 DEF FileInv
  <2>9. CASE /\ fileOpen[d] /\ ~abortstate /\ ferror'[d] = ferror[d] /\ written'[d] = Append(w, f)
             /\ framecount'[d] = (IF ferror[d] THEN n ELSE n + 1)
    <3>1. /\ Len(w) \in Nat /\ Len(Append(w, f)) = Len(w) + 1 /\ Increasing(Append(w, f))
          /\ Counting(w) /\ f = Len(w) + 1 => Counting(Append(w, f))
          /\ \A k \in DOMAIN Append(w, f) : Append(w, f)[k] <= f
      BY <2>4, <2>5, <2>9, <1>3, Appended
    <3>2. \A k \in DOMAIN Append(w, f) : Append(w, f)[k] \in Nat
      <4>1. Append(w, f) \in Seq(FrameNumber)
        BY <1>3, AppendProperties
      <4>. QED
        BY <4>1, <1>3 DEF FrameNumber, Frames, NoFrame
    <3>3. sc.useframes \/ ~ferror[d] => Counting(Append(w, f))
      <4>1. sc.useframes => ~ferror[d]
        BY <2>9, <1>1, Writers
      <4>. QED
        BY <4>1, <2>5, <2>7, <2>9, <3>1
    <3>4. ASSUME ~ferror[d]
          PROVE  /\ Len(Append(w, f)) = framecount'[d]
                 /\ \A g \in Frames : g <= Came(d)' /\ ~Busy(d, g)' => g <= framecount'[d]
      <4>1. f = n + 1 /\ Len(w) = n /\ framecount'[d] = n + 1
            /\ \A g \in Frames : g <= Came(d) /\ ~Busy(d, g) => g <= n
        BY <2>7, <2>9, <3>4
      <4>2. \A g \in Frames : g \in Nat
        BY <1>3 DEF Frames
      <4>3. Len(Append(w, f)) = framecount'[d]
        BY <4>1, <3>1
      <4>4. ASSUME NEW g \in Frames, g <= Came(d)', ~Busy(d, g)'
            PROVE  g <= n + 1
        <5>1. g = f \/ ~Busy(d, g)
          BY <4>4, <1>9
        <5>2. CASE g = f
          BY <5>2, <4>1, <4>2
        <5>3. CASE ~Busy(d, g)
          <6>1. g <= n
            BY <5>3, <4>1, <4>4, <1>10
          <6>. QED
            BY <6>1, <4>2
        <5>. QED
          BY <5>1, <5>2, <5>3
      <4>. QED
        BY <4>1, <4>3, <4>4
    <3>5. \A g \in Frames : Busy(d, g)' => \A k \in DOMAIN Append(w, f) : Append(w, f)[k] < g
      <4>1. \A g \in Frames : g \in Nat
        BY <1>3 DEF Frames
      <4>. QED
        BY <4>1, <2>2, <3>1, <3>2, <1>3
    <3>6. api[d] = "running" => \A k \in DOMAIN Append(w, f) : Append(w, f)[k] <= delivered[d]
      BY <3>1, <3>2, <1>3, <1>22
    <3>. QED
      BY <2>3, <2>9, <3>1, <3>3, <3>4, <3>5, <3>6, <1>2 DEF FileInv
  <2>. QED
    BY <2>1, <2>8, <2>9, <1>16
<1>25. ASSUME NEW e \in Devices, e # d
       PROVE  DevInv(e)'
  BY <1>25, <1>2, <1>4, <1>13, <1>14, <1>15, OtherDevice DEF ThreadInv, Started
<1>. QED
  BY <1>2, <1>17, <1>18, <1>19, <1>20, <1>21, <1>23, <1>24, <1>25 DEF ThreadInv, DevInv, Devices

LEMMA EraseStep ==
  ASSUME ThreadInv, NEW d \in Devices, NEW f \in Frames, Erase(d, f)
  PROVE  ThreadInv'
<1>1. /\ fpc[d][f] = "erase" /\ Moves(d, f, "none")
      /\ frameinfo' = [frameinfo EXCEPT ![d] = @ \ {Slot(f)}]
      /\ framethreadcount' = framethreadcount - 1
      /\ UNCHANGED <<sc, main, abortstate, framecount, workbuf, failed, device, files, history>>
  BY DEF Erase, remove_framethread
<1>2. UNCHANGED <<sc, pc, next, result, imnum, exposes, abortstate, framecount, workbuf, failed,
                  api, delivered, slot, fileOpen, ferror, written, lost, outpaced, unopened>>
  BY <1>1 DEF main, device, files, history
<1>3. TypeOK /\ MainInv /\ DevInv(d) /\ HasThread(d, f) /\ "none" \in ThreadPlaces
  BY <1>1 DEF ThreadInv, HasThread, ThreadPlaces
<1>4. /\ fpc' \in [Devices -> [Frames -> ThreadPlaces]] /\ fpc'[d][f] = "none"
      /\ \A g \in Frames : g # f => fpc'[d][g] = fpc[d][g]
      /\ \A e \in Devices : e # d => fpc'[e] = fpc[e]
  BY <1>1, <1>3, Moved DEF TypeOK
<1>5. frameinfo' \in [Devices -> SUBSET (0 .. MaxFrames - 1)] /\ frameinfo'[d] = frameinfo[d] \ {Slot(f)}
      /\ \A e \in Devices : e # d => frameinfo'[e] = frameinfo[e]
  BY <1>1, <1>3 DEF TypeOK
<1>6. /\ Cardinality(Live') = Cardinality(Live) - 1 /\ Cardinality(Live) \in Nat /\ Cardinality(Live') \in Nat
      /\ framethreadcount = Cardinality(Live) + lost /\ lost \in Nat
  <2>1. Cardinality(Live') = Cardinality(Live) - 1 /\ Cardinality(Live) \in Nat
    BY <1>1, <1>2, <1>3, ThreadCount, LiveIsFinite
  <2>2. IsFiniteSet(Live) /\ <<d, f>> \in Live
    BY <1>3, LiveIsFinite DEF Live
  <2>3. Cardinality(Live) # 0
    BY <2>2, FS_EmptySet
  <2>. QED
    BY <2>1, <2>3, <1>3 DEF MainInv, TypeOK
<1>7. TypeOK'
  <2>1. framethreadcount' \in Nat
    BY <1>1, <1>6
  <2>. QED
    BY <2>1, <1>2, <1>3, <1>4, <1>5 DEF TypeOK, Devices
<1>8. MainInv'
  <2>1. framethreadcount' = Cardinality(Live') + lost
    BY <1>1, <1>6
  <2>. QED
    BY <2>1, <1>2, <1>3 DEF MainInv, Devices, Started
<1>9. \A g \in Frames : /\ HasThread(d, g)' <=> HasThread(d, g) /\ g # f
                        /\ Busy(d, g)' <=> Busy(d, g)
                        /\ fpc'[d][g] = "write" <=> fpc[d][g] = "write"
                        /\ HasSlot(d, g)' <=> HasSlot(d, g) /\ g # f
  BY <1>1, <1>3, <1>4 DEF HasThread, Busy, HasSlot
<1>10. RestInv(d)'
  BY <1>2, <1>3, <1>9 DEF DevInv, RestInv, Started
<1>11. SlotInv(d)'
  <2>1. \A b \in frameinfo'[d] : \E g \in Frames : HasSlot(d, g)' /\ Slot(g) = b
    BY <1>3, <1>5, <1>9 DEF DevInv, SlotInv
  <2>. QED
    BY <2>1, <1>2, <1>3, <1>9 DEF DevInv, SlotInv, Slot
<1>12. Came(d)' = Came(d) /\ Done(d)' = Done(d)
  <2>1. Came(d)' = Came(d)
    BY <1>2 DEF Came
  <2>2. 1 .. Came(d) \subseteq Frames
    BY <1>3, FramesCame, Setup DEF Frames
  <2>. QED
    BY <2>1, <2>2, <1>9 DEF Done
<1>13. CountInv(d)'
  BY <1>2, <1>3, <1>12 DEF DevInv, CountInv
<1>14. TurnInv(d)'
  BY <1>2, <1>3, <1>9, TurnsKept DEF DevInv
<1>15. FileInv(d)'
  BY <1>2, <1>3, <1>9, <1>12, FilesKept DEF DevInv
<1>16. ASSUME NEW e \in Devices, e # d
       PROVE  DevInv(e)'
  BY <1>16, <1>2, <1>4, <1>5, OtherDevice DEF ThreadInv, Started
<1>. QED
  BY <1>2, <1>7, <1>8, <1>10, <1>11, <1>13, <1>14, <1>15, <1>16 DEF ThreadInv, DevInv, Devices

-----------------------------------------------------------------------------
(* The thread of a device. *)

LEMMA Filled ==
  ASSUME NEW d \in Devices, NEW b \in 0 .. MaxFrames - 1, NEW f \in FrameNumber,
         slot \in [Devices -> [0 .. MaxFrames - 1 -> FrameNumber]], slot' = [slot EXCEPT ![d][b] = f]
  PROVE  /\ slot' \in [Devices -> [0 .. MaxFrames - 1 -> FrameNumber]]
         /\ slot'[d][b] = f
         /\ \A c \in 0 .. MaxFrames - 1 : c # b => slot'[d][c] = slot[d][c]
         /\ \A e \in Devices : e # d => slot'[e] = slot[e]
<1>1. PICK r : r = [slot[d] EXCEPT ![b] = f]
  OBVIOUS
<1>2. /\ r \in [0 .. MaxFrames - 1 -> FrameNumber] /\ r[b] = f
      /\ \A c \in 0 .. MaxFrames - 1 : c # b => r[c] = slot[d][c]
  BY <1>1
<1>3. slot' = [slot EXCEPT ![d] = r]
  BY <1>1
<1>. QED
  BY <1>2, <1>3

(* A frame comes into a slot, which another thread may still have: then the
   device is too fast. *)
LEMMA CallbackStep ==
  ASSUME ThreadInv, NEW d \in Devices, frameCallback(d)
  PROVE  ThreadInv'
<1>1. PICK f : f = delivered[d] + 1
  OBVIOUS
<1>2. /\ api[d] = "running" /\ delivered[d] < sc.frames
      /\ delivered' = [delivered EXCEPT ![d] = f] /\ slot' = [slot EXCEPT ![d][Slot(f)] = f]
      /\ Moves(d, f, "start") /\ framethreadcount' = framethreadcount + 1
      /\ outpaced' = (IF Outruns(d, f) THEN outpaced \cup {d} ELSE outpaced)
      /\ UNCHANGED <<sc, main, abortstate, control, failed, api, files, lost, unopened>>
  BY <1>1 DEF frameCallback, add_framethread
<1>3. UNCHANGED <<sc, pc, next, result, imnum, exposes, abortstate, framecount, frameinfo, workbuf,
                  failed, api, fileOpen, ferror, written, lost, unopened>>
  BY <1>2 DEF main, control, files
<1>4. TypeOK /\ MainInv /\ DevInv(d) /\ "start" \in ThreadPlaces /\ sc.useframes \in BOOLEAN
  BY Setup DEF ThreadInv, ThreadPlaces
<1>5. /\ f \in 1 .. MaxFrames /\ f \in Frames /\ f \in FrameNumber /\ f \in Nat /\ f <= sc.frames
      /\ delivered[d] \in Nat /\ framecount[d] \in Nat /\ sc.frames \in Nat
      /\ \A g \in Frames : g \in Nat
  <2>1. delivered[d] \in 0 .. MaxFrames /\ framecount[d] \in 0 .. MaxFrames
    BY <1>4 DEF TypeOK
  <2>2. sc.frames \in 1 .. MaxFrames /\ MaxFrames \in Nat
    BY <1>4, Setup
  <2>. QED
    BY <2>1, <2>2, <1>1, <1>2 DEF Frames, FrameNumber
<1>6. \A g \in Frames : HasThread(d, g) => g <= delivered[d] /\ g # f
  BY <1>1, <1>2, <1>4, <1>5 DEF DevInv, SlotInv
<1>7. ~HasThread(d, f)
  BY <1>5, <1>6
<1>8. /\ fpc' \in [Devices -> [Frames -> ThreadPlaces]] /\ fpc'[d][f] = "start"
      /\ \A g \in Frames : g # f => fpc'[d][g] = fpc[d][g]
      /\ \A e \in Devices : e # d => fpc'[e] = fpc[e]
  BY <1>2, <1>4, <1>5, Moved DEF TypeOK
<1>9. \A g \in Frames : /\ HasThread(d, g)' <=> HasThread(d, g) \/ g = f
                        /\ Busy(d, g)' <=> Busy(d, g) \/ g = f
                        /\ fpc'[d][g] = "write" <=> fpc[d][g] = "write"
                        /\ HasSlot(d, g)' <=> HasSlot(d, g)
  BY <1>7, <1>8, <1>5 DEF HasThread, Busy, HasSlot
<1>10. /\ slot' \in [Devices -> [0 .. MaxFrames - 1 -> FrameNumber]] /\ slot'[d][Slot(f)] = f
       /\ \A c \in 0 .. MaxFrames - 1 : c # Slot(f) => slot'[d][c] = slot[d][c]
       /\ \A e \in Devices : e # d => slot'[e] = slot[e]
  <2>1. Slot(f) \in 0 .. MaxFrames - 1
    BY <1>4, <1>5, Setup
  <2>2. slot \in [Devices -> [0 .. MaxFrames - 1 -> FrameNumber]]
    BY <1>4 DEF TypeOK
  <2>3. PICK b \in 0 .. MaxFrames - 1 : b = Slot(f)
    BY <2>1
  <2>4. slot' = [slot EXCEPT ![d][b] = f]
    BY <2>3, <1>2
  <2>5. /\ slot' \in [Devices -> [0 .. MaxFrames - 1 -> FrameNumber]] /\ slot'[d][b] = f
        /\ \A c \in 0 .. MaxFrames - 1 : c # b => slot'[d][c] = slot[d][c]
        /\ \A e \in Devices : e # d => slot'[e] = slot[e]
    BY ZenonT(40), <2>2, <2>4, <1>5, Filled
  <2>. QED
    BY <2>3, <2>5
<1>11. /\ delivered' \in [Devices -> 0 .. MaxFrames] /\ delivered'[d] = f
       /\ \A e \in Devices : e # d => delivered'[e] = delivered[e]
  BY <1>2, <1>4, <1>5 DEF TypeOK
<1>12. /\ outpaced' \subseteq Devices /\ outpaced \subseteq outpaced'
       /\ \A e \in Devices : e # d => (e \in outpaced' <=> e \in outpaced)
       /\ d \notin outpaced' => d \notin outpaced /\ ~Outruns(d, f)
  BY <1>2, <1>4 DEF TypeOK
<1>13. TypeOK'
  <2>1. framethreadcount' \in Nat
    BY <1>2, <1>4 DEF TypeOK
  <2>. QED
    BY <2>1, <1>3, <1>4, <1>8, <1>10, <1>11, <1>12 DEF TypeOK, Devices
<1>14. MainInv'
  <2>1. Cardinality(Live') = Cardinality(Live) + 1
    BY <1>2, <1>3, <1>4, <1>5, <1>7, ThreadCount
  <2>2. Cardinality(Live) \in Nat /\ lost \in Nat
    BY <1>4, LiveIsFinite DEF TypeOK
  <2>3. framethreadcount' = Cardinality(Live') + lost
    BY <2>1, <2>2, <1>2, <1>4 DEF MainInv
  <2>4. lost > 0 => \E e \in outpaced' : Started(e)
    BY <1>4, <1>12 DEF MainInv
  <2>. QED
    BY <2>3, <2>4, <1>3, <1>4 DEF MainInv, Devices, Started
<1>15. RestInv(d)'
  <2>1. RestInv(d) /\ Started(d)
    BY <1>2, <1>4 DEF DevInv, RestInv
  <2>. QED
    BY <2>1, <1>2, <1>3 DEF RestInv, Started
<1>16. SlotInv(d)'
  <2>1. SlotInv(d)
    BY <1>4 DEF DevInv
  <2>2. \A g \in Frames : HasThread(d, g)' => g <= f /\ g <= sc.frames
    BY <2>1, <1>1, <1>5, <1>6, <1>9 DEF SlotInv
  <2>3. \A b \in frameinfo'[d] : \E g \in Frames : HasSlot(d, g)' /\ Slot(g) = b
    BY <2>1, <1>3, <1>9 DEF SlotInv
  <2>4. ASSUME d \notin outpaced'
        PROVE  /\ \A g \in Frames : HasThread(d, g)' => slot'[d][Slot(g)] = g
               /\ \A g, h \in Frames : HasThread(d, g)' /\ HasThread(d, h)' /\ g # h =>
                                         sc.useframes /\ Slot(g) # Slot(h)
    <3>1. d \notin outpaced /\ ~Outruns(d, f)
      BY <2>4, <1>12
    <3>2. \A g \in Frames : HasThread(d, g) => sc.useframes /\ Slot(g) # Slot(f)
      BY <3>1, <1>4 DEF Outruns
    <3>3. \A g \in Frames : HasThread(d, g) => slot'[d][Slot(g)] = g
      <4>1. ASSUME NEW g \in Frames, HasThread(d, g)
            PROVE  slot'[d][Slot(g)] = g
        <5>1. Slot(g) # Slot(f) /\ Slot(g) \in 0 .. MaxFrames - 1
          BY <4>1, <3>2, <1>4, Setup
        <5>2. slot[d][Slot(g)] = g
          BY <4>1, <3>1, <2>1 DEF SlotInv
        <5>. QED
          BY <5>1, <5>2, <1>10
      <4>. QED
        BY <4>1
    <3>4. \A g, h \in Frames : HasThread(d, g) /\ HasThread(d, h) /\ g # h =>
                                 sc.useframes /\ Slot(g) # Slot(h)
      BY <3>1, <2>1 DEF SlotInv
    <3>. QED
      BY <3>2, <3>3, <3>4, <1>9, <1>10
  <2>. QED
    BY <2>2, <2>3, <2>4, <1>3, <1>5, <1>11 DEF SlotInv, Slot
<1>17. Came(d) = delivered[d] /\ Came(d)' = f /\ Done(d)' = Done(d)
  <2>1. Came(d) = delivered[d] /\ Came(d)' = f
    BY <1>2, <1>3, <1>11 DEF Came
  <2>2. 1 .. f = (1 .. delivered[d]) \cup {f} /\ 1 .. f \subseteq Frames
    BY <1>1, <1>4, <1>5, Setup DEF Frames
  <2>3. Busy(d, f)' /\ \A g \in Frames : g # f => (Busy(d, g)' <=> Busy(d, g))
    BY <1>5, <1>9
  <2>4. f \notin 1 .. delivered[d]
    BY <1>1, <1>5
  <2>. QED
    BY <2>1, <2>2, <2>3, <2>4 DEF Done
<1>18. CountInv(d)'
  BY <1>3, <1>4, <1>17 DEF DevInv, CountInv
<1>19. TurnInv(d)'
  <2>1. ASSUME sc.useframes \/ d \notin outpaced'
        PROVE  /\ \A g \in Frames : Busy(d, g)' => framecount[d] < g
               /\ framecount[d] <= f
    <3>1. sc.useframes \/ d \notin outpaced
      BY <2>1, <1>12
    <3>2. framecount[d] <= delivered[d] /\ \A g \in Frames : Busy(d, g) => framecount[d] < g
      BY <3>1, <1>2, <1>4 DEF DevInv, TurnInv
    <3>. QED
      BY <3>2, <1>1, <1>5, <1>9
  <2>2. sc.useframes => \A g \in Frames : fpc'[d][g] = "write" => g = framecount[d] + 1
    BY <1>4, <1>9 DEF DevInv, TurnInv
  <2>3. ASSUME sc.useframes, fileOpen[d], ferror[d]
        PROVE  /\ \A g \in Frames : Busy(d, g)' => framecount[d] + 1 < g
               /\ framecount[d] < f
    <3>1. framecount[d] < delivered[d] /\ \A g \in Frames : Busy(d, g) => framecount[d] + 1 < g
      BY <2>3, <1>2, <1>4 DEF DevInv, TurnInv
    <3>. QED
      BY <3>1, <1>1, <1>5, <1>9
  <2>. QED
    BY <2>1, <2>2, <2>3, <1>3, <1>11 DEF TurnInv
<1>20. FileInv(d)'
  <2>. SUFFICES ASSUME d \notin outpaced' PROVE FileInv(d)'
    BY DEF FileInv
  <2>1. d \notin outpaced /\ FileInv(d)
    BY <1>4, <1>12 DEF DevInv
  <2>2. \A g \in Frames : fpc'[d][g] = "write" => workbuf[d] = g
    BY <2>1, <1>9 DEF FileInv
  <2>3. ASSUME fileOpen[d], ~ferror[d], ~abortstate
        PROVE  /\ Len(written[d]) = framecount[d]
               /\ \A g \in Frames : g <= f /\ ~Busy(d, g)' => g <= framecount[d]
    <3>1. /\ Len(written[d]) = framecount[d]
          /\ \A g \in Frames : g <= Came(d) /\ ~Busy(d, g) => g <= framecount[d]
      BY <2>1, <2>3 DEF FileInv
    <3>2. ASSUME NEW g \in Frames, g <= f, ~Busy(d, g)'
          PROVE  g <= framecount[d]
      <4>1. g # f /\ ~Busy(d, g)
        BY <3>2, <1>9
      <4>2. g \in Nat /\ delivered[d] \in Nat
        BY <1>5
      <4>3. g <= delivered[d]
        BY <4>1, <4>2, <3>2, <1>1
      <4>4. Came(d) = delivered[d]
        BY <1>17
      <4>. QED
        BY <4>1, <4>3, <4>4, <3>1
    <3>. QED
      BY <3>1, <3>2
  <2>4. \A i \in DOMAIN written[d] : written[d][i] \in Nat
    <3>1. written[d] \in Seq(FrameNumber)
      BY <1>4 DEF TypeOK
    <3>2. FrameNumber \subseteq Nat
      BY <1>4, Setup DEF FrameNumber, Frames, NoFrame
    <3>3. PICK w \in Seq(FrameNumber) : w = written[d]
      BY <3>1
    <3>4. \A i \in DOMAIN w : w[i] \in FrameNumber
      OBVIOUS
    <3>. QED
      BY <3>2, <3>3, <3>4
  <2>5. ASSUME fileOpen[d]
        PROVE  /\ \A g \in Frames : Busy(d, g)' => \A i \in DOMAIN written[d] : written[d][i] < g
               /\ \A i \in DOMAIN written[d] : written[d][i] <= f
    <3>1. /\ \A g \in Frames : Busy(d, g) => \A i \in DOMAIN written[d] : written[d][i] < g
          /\ \A i \in DOMAIN written[d] : written[d][i] <= delivered[d]
      BY <2>1, <2>5, <1>2 DEF FileInv
    <3>2. \A i \in DOMAIN written[d] : written[d][i] < f
      BY <3>1, <2>4, <1>1, <1>5
    <3>3. \A i \in DOMAIN written[d] : written[d][i] <= f
      BY <3>2, <2>4, <1>5
    <3>4. \A g \in Frames : Busy(d, g)' => \A i \in DOMAIN written[d] : written[d][i] < g
      BY <3>1, <3>2, <1>9
    <3>. QED
      BY <3>3, <3>4
  <2>6. Increasing(written[d]) /\ (sc.useframes \/ ~ferror[d] => Counting(written[d]))
    BY <2>1 DEF FileInv
  <2>. QED
    BY <2>2, <2>3, <2>5, <2>6, <1>3, <1>11, <1>17 DEF FileInv
<1>21. ASSUME NEW e \in Devices, e # d
       PROVE  DevInv(e)'
  BY <1>21, <1>3, <1>8, <1>10, <1>11, <1>12, OtherDevice DEF ThreadInv, Started
<1>. QED
  BY <1>3, <1>13, <1>14, <1>15, <1>16, <1>18, <1>19, <1>20, <1>21 DEF ThreadInv, DevInv, Devices

(* The thread of a device ends, with its frames or with an abort. *)
LEMMA ExposureEndStep ==
  ASSUME ThreadInv, NEW d \in Devices, ExposeEnds(d) \/ KeysAdded(d) \/ ExposeThrows(d)
  PROVE  ThreadInv'
<1>1. /\ api[d] # "off" /\ api' = [api EXCEPT ![d] = api'[d]] /\ api'[d] \in {"keys", "off"}
      /\ delivered'[d] = 0 /\ delivered' \in [Devices -> 0 .. MaxFrames]
      /\ \A e \in Devices : e # d => delivered'[e] = delivered[e]
      /\ abortstate \/ (api[d] = "running" /\ ~abortstate' => delivered[d] = sc.frames)
      /\ abortstate => abortstate'
      /\ abortstate' \in BOOLEAN /\ failed' \in [Devices -> BOOLEAN]
      /\ UNCHANGED <<sc, main, framethreadcount, control, slot, fpc, files, history>>
  <2>1. /\ TypeOK /\ RestInv(d) /\ MaxFrames \in Nat
    BY Setup DEF ThreadInv, DevInv
  <2>2. CASE ExposeEnds(d)
    BY <2>1, <2>2 DEF ExposeEnds, TypeOK, shared
  <2>3. CASE KeysAdded(d)
    BY <2>1, <2>3 DEF KeysAdded, TypeOK, RestInv, shared
  <2>4. CASE ExposeThrows(d)
    BY <2>1, <2>4 DEF ExposeThrows, TypeOK
  <2>. QED
    BY <2>2, <2>3, <2>4
<1>2. UNCHANGED <<sc, pc, next, result, imnum, exposes, framethreadcount, framecount, frameinfo, workbuf,
                  slot, fpc, fileOpen, ferror, written, lost, outpaced, unopened>>
  BY <1>1 DEF main, control, files, history
<1>3. TypeOK /\ MainInv /\ DevInv(d) /\ MaxFrames \in Nat /\ sc.frames \in Nat
  BY Setup DEF ThreadInv
<1>4. /\ api' \in [Devices -> {"off", "running", "keys"}] /\ api'[d] # "running"
      /\ \A e \in Devices : e # d => api'[e] = api[e]
  BY ZenonT(40), <1>1, <1>3 DEF TypeOK
<1>5. TypeOK'
  BY <1>1, <1>2, <1>3, <1>4 DEF TypeOK, Devices
<1>6. MainInv'
  <2>1. Live' = Live
    BY <1>2 DEF Live, Devices, HasThread
  <2>2. pc' = "count" => \A e \in Devices : api'[e] = "off"
    BY <1>1, <1>2, <1>3 DEF MainInv
  <2>. QED
    BY <2>1, <2>2, <1>2, <1>3 DEF MainInv, Devices, Started
<1>7. \A g \in Frames : /\ HasThread(d, g)' <=> HasThread(d, g)
                        /\ Busy(d, g)' <=> Busy(d, g)
                        /\ HasSlot(d, g)' <=> HasSlot(d, g)
  BY <1>2 DEF HasThread, Busy, HasSlot
<1>8. RestInv(d)'
  <2>1. RestInv(d) /\ Started(d)
    BY <1>1, <1>3 DEF DevInv, RestInv
  <2>. QED
    BY <2>1, <1>1, <1>2 DEF RestInv, Started
<1>9. SlotInv(d)'
  BY <1>2, <1>3, <1>4, <1>7, SlotsKept DEF DevInv
<1>10. ~abortstate' => Came(d)' = Came(d)
  BY <1>1, <1>2, <1>4 DEF Came
<1>11. CountInv(d)'
  <2>1. /\ Came(d) \in Nat /\ Came(d) <= sc.frames /\ Came(d)' = sc.frames /\ 1 .. Came(d) \subseteq Frames
        /\ 1 .. sc.frames \subseteq Frames
        /\ IsFiniteSet(Done(d)) /\ Cardinality(Done(d)) \in Nat
    BY <1>2, <1>3, <1>4, FramesCame, Setup DEF Frames, Came
  <2>2. Done(d) \subseteq Done(d)' /\ Done(d)' \subseteq 1 .. sc.frames
    BY <2>1, <1>3, <1>7 DEF Done
  <2>3. IsFiniteSet(Done(d)') /\ Cardinality(Done(d)') \in Nat
    BY <2>2, <1>3, DoneIsFinite
  <2>4. Cardinality(Done(d)) <= Cardinality(Done(d)')
    BY <2>2, <2>3, FS_Subset
  <2>5. framecount[d] \in Nat
    BY <1>3 DEF TypeOK
  <2>6. ~abortstate' => Done(d)' = Done(d)
    BY <1>7, <1>10, <2>1 DEF Done
  <2>. QED
    BY <2>1, <2>3, <2>4, <2>5, <2>6, <1>1, <1>2, <1>3 DEF DevInv, CountInv
<1>12. TurnInv(d)'
  BY <1>2, <1>3, <1>4, <1>7, TurnsKept DEF DevInv
<1>13. FileInv(d)'
  BY <1>1, <1>2, <1>3, <1>4, <1>7, <1>10, FilesKept DEF DevInv
<1>14. ASSUME NEW e \in Devices, e # d
       PROVE  DevInv(e)'
  BY <1>14, <1>1, <1>2, <1>4, OtherDevice DEF ThreadInv, Started
<1>. QED
  BY <1>2, <1>5, <1>6, <1>8, <1>9, <1>11, <1>12, <1>13, <1>14 DEF ThreadInv, DevInv, Devices

(* abort only sets a flag that the threads read. *)
LEMMA AbortStep ==
  ASSUME ThreadInv, Abort
  PROVE  ThreadInv'
<1>1. /\ abortstate' = TRUE
      /\ UNCHANGED <<sc, main, framethreadcount, control, failed, device, fpc, files, history>>
  BY DEF Abort
<1>2. UNCHANGED <<sc, pc, next, result, imnum, exposes, framethreadcount, framecount, frameinfo, workbuf,
                  failed, api, delivered, slot, fpc, fileOpen, ferror, written, lost, outpaced, unopened>>
  BY <1>1 DEF main, control, device, files, history
<1>3. TypeOK' /\ MainInv'
  BY SMTT(40), <1>1, <1>2 DEF ThreadInv, TypeOK, MainInv, Live, Devices, HasThread, Started
<1>4. ASSUME NEW e \in Devices
      PROVE  DevInv(e)'
  BY <1>1, <1>2, OtherDevice DEF ThreadInv, Started
<1>. QED
  BY <1>2, <1>3, <1>4 DEF ThreadInv, Devices

-----------------------------------------------------------------------------
(* expose. *)

LEMMA JoinStep ==
  ASSUME ThreadInv, Join
  PROVE  ThreadInv'
<1>1. /\ pc = "join" /\ pc' = "count" /\ \A d \in Devices : api[d] = "off"
      /\ UNCHANGED <<sc, next, result, imnum, exposes, abortstate, framethreadcount, framecount, frameinfo,
                     workbuf, failed, api, delivered, slot, fpc, fileOpen, ferror, written,
                     lost, outpaced, unopened>>
  BY DEF Join, shared, control, device, files, history
<1>2. TypeOK' /\ MainInv'
  BY <1>1 DEF ThreadInv, TypeOK, MainInv, Live, Devices, HasThread, Started
<1>3. ASSUME NEW e \in Devices
      PROVE  DevInv(e)'
  BY <1>1, OtherDevice DEF ThreadInv, Started
<1>. QED
  BY <1>1, <1>2, <1>3 DEF ThreadInv, Devices

(* Every device starts with no threads and no frames, and with a new file if
   it can be created. *)
LEMMA StartStep ==
  ASSUME ThreadInv, Start
  PROVE  ThreadInv'
<1>1. PICK d : d = next
  OBVIOUS
<1>2. /\ pc = "start" /\ d \in Devices /\ TypeOK /\ MainInv /\ DevInv(d) /\ ~Started(d)
      /\ sc.devices \in Nat /\ next \in 1 .. sc.devices /\ MaxFrames \in Nat /\ sc.frames \in Nat
  <2>1. pc = "start" /\ TypeOK /\ MainInv
    BY DEF Start, ThreadInv
  <2>2. sc.devices \in Nat /\ MaxFrames \in Nat /\ sc.frames \in Nat
    BY <2>1, Setup
  <2>3. next \in 1 .. sc.devices
    BY <2>1, <2>2 DEF TypeOK, MainInv
  <2>. QED
    BY <2>1, <2>2, <2>3, <1>1 DEF ThreadInv, Devices, Started
<1>3. /\ ~fileOpen[d] /\ api[d] = "off" /\ framecount[d] = 0 /\ delivered[d] = 0
      /\ \A f \in Frames : fpc[d][f] = "none"
  BY <1>2 DEF DevInv, RestInv, HasThread
<1>4. /\ api' = [api EXCEPT ![d] = "running"]
      /\ slot' = [slot EXCEPT ![d] = [b \in DOMAIN slot[d] |-> NoFrame]]
      /\ workbuf' = [workbuf EXCEPT ![d] = NoFrame]
      /\ next' = next + 1 /\ pc' = (IF next = sc.devices THEN "join" ELSE "start")
      /\ UNCHANGED <<sc, result, imnum, exposes, abortstate, framethreadcount, framecount, frameinfo,
                     failed, delivered, fpc, lost>>
  BY <1>1, <1>2 DEF Start, shared, TypeOK
<1>5. \/ /\ fileOpen' = [fileOpen EXCEPT ![d] = TRUE] /\ ferror' = [ferror EXCEPT ![d] = FALSE]
         /\ written' = [written EXCEPT ![d] = <<>>]
         /\ outpaced' = outpaced \ {d} /\ unopened' = unopened \ {d}
      \/ unopened' = unopened \cup {d} /\ UNCHANGED <<fileOpen, ferror, written, outpaced>>
  <2>1. \/ open_file(d)
        \/ unopened' = unopened \cup {d} /\ UNCHANGED <<files, outpaced>>
    BY <1>1 DEF Start
  <2>. QED
    BY <2>1, <1>3 DEF open_file, files
<1>6. /\ api' \in [Devices -> {"off", "running", "keys"}] /\ api'[d] = "running"
      /\ slot' \in [Devices -> [0 .. MaxFrames - 1 -> FrameNumber]]
      /\ workbuf' \in [Devices -> FrameNumber]
      /\ \A e \in Devices : e # d => api'[e] = api[e] /\ slot'[e] = slot[e] /\ workbuf'[e] = workbuf[e]
  <2>1. [b \in DOMAIN slot[d] |-> NoFrame] \in [0 .. MaxFrames - 1 -> FrameNumber] /\ NoFrame \in FrameNumber
    BY <1>2 DEF TypeOK, FrameNumber
  <2>. QED
    BY <2>1, <1>2, <1>4 DEF TypeOK
<1>7. /\ fileOpen' \in [Devices -> BOOLEAN] /\ ferror' \in [Devices -> BOOLEAN]
      /\ written' \in [Devices -> Seq(FrameNumber)]
      /\ outpaced' \subseteq Devices /\ unopened' \subseteq Devices
      /\ \A e \in Devices : e # d => /\ fileOpen'[e] = fileOpen[e] /\ ferror'[e] = ferror[e]
                                     /\ written'[e] = written[e]
                                     /\ e \in outpaced' <=> e \in outpaced
                                     /\ e \in unopened' <=> e \in unopened
  <2>1. <<>> \in Seq(FrameNumber)
    OBVIOUS
  <2>2. CASE /\ fileOpen' = [fileOpen EXCEPT ![d] = TRUE] /\ ferror' = [ferror EXCEPT ![d] = FALSE]
             /\ written' = [written EXCEPT ![d] = <<>>]
             /\ outpaced' = outpaced \ {d} /\ unopened' = unopened \ {d}
    BY <2>1, <2>2, <1>2 DEF TypeOK
  <2>3. CASE unopened' = unopened \cup {d} /\ UNCHANGED <<fileOpen, ferror, written, outpaced>>
    BY <2>3, <1>2 DEF TypeOK
  <2>. QED
    BY <2>2, <2>3, <1>5
<1>8. Started(d)' /\ \A e \in Devices : e # d => (Started(e)' <=> Started(e))
  BY <1>1, <1>2, <1>4 DEF Started, Devices
<1>9. TypeOK'
  <2>1. next' \in 1 .. sc.devices + 1 /\ pc' \in {"join", "start"}
    BY <1>2, <1>4
  <2>. QED
    BY <2>1, <1>2, <1>4, <1>6, <1>7 DEF TypeOK, Devices
<1>10. MainInv'
  <2>1. Live' = Live
    BY <1>4 DEF Live, Devices, HasThread
  <2>2. lost > 0 => \E e \in outpaced' : Started(e)'
    <3>1. ASSUME NEW e \in outpaced, Started(e)
          PROVE  e \in outpaced' /\ Started(e)'
      <4>1. e # d /\ e \in Devices
        BY <3>1, <1>2 DEF TypeOK
      <4>. QED
        BY <4>1, <3>1, <1>7, <1>8
    <3>. QED
      BY <3>1, <1>2 DEF MainInv
  <2>3. /\ pc' = "start" => next' <= sc.devices
        /\ pc' # "count" /\ pc' # "idle" /\ pc # "idle"
    BY <1>2, <1>4
  <2>. QED
    BY <2>1, <2>2, <2>3, <1>2, <1>4 DEF MainInv
<1>11. RestInv(d)'
  <2>1. d \notin unopened' => fileOpen'[d]
    BY <1>2, <1>5 DEF TypeOK
  <2>. QED
    BY <2>1, <1>6, <1>8 DEF RestInv
<1>12. \A f \in Frames : ~HasThread(d, f)' /\ ~Busy(d, f)' /\ fpc'[d][f] # "write" /\ f >= 1 /\ f \in Nat
  BY <1>2, <1>3, <1>4 DEF HasThread, Busy, Frames
<1>13. SlotInv(d)'
  <2>1. \A b \in frameinfo[d] : FALSE
    BY <1>2, <1>3 DEF DevInv, SlotInv, HasSlot
  <2>. QED
    BY <2>1, <1>2, <1>3, <1>4, <1>12 DEF SlotInv
<1>14. /\ fileOpen'[d] => ~ferror'[d] /\ written'[d] = <<>>
       /\ d \notin outpaced' => \/ written'[d] = <<>>
                                \/ d \notin outpaced /\ written'[d] = written[d] /\ ferror'[d] = ferror[d]
  BY <1>2, <1>3, <1>5 DEF TypeOK
<1>15. Came(d)' = 0 /\ Done(d)' = {}
  BY <1>3, <1>4, <1>6 DEF Came, Done
<1>16. CountInv(d)'
  <2>1. Cardinality(Done(d)') = 0 /\ framecount'[d] = 0 /\ Len(<<>>) = 0
    BY <1>3, <1>4, <1>15, FS_EmptySet
  <2>. QED
    BY <2>1, <1>14 DEF CountInv
<1>17. TurnInv(d)'
  BY <1>3, <1>4, <1>12, <1>14 DEF TurnInv
<1>18. FileInv(d)'
  <2>. SUFFICES ASSUME d \notin outpaced' PROVE FileInv(d)'
    BY DEF FileInv
  <2>1. /\ Increasing(written'[d])
        /\ sc'.useframes \/ ~ferror'[d] => Counting(written'[d])
    <3>1. CASE written'[d] = <<>>
      BY <3>1 DEF Increasing, Counting
    <3>2. CASE d \notin outpaced /\ written'[d] = written[d] /\ ferror'[d] = ferror[d]
      BY <3>2, <1>2, <1>4 DEF DevInv, FileInv
    <3>. QED
      BY <3>1, <3>2, <1>14
  <2>. QED
    BY <2>1, <1>3, <1>4, <1>12, <1>14, <1>15 DEF FileInv
<1>19. ASSUME NEW e \in Devices, e # d
       PROVE  DevInv(e)'
  BY <1>19, <1>2, <1>4, <1>6, <1>7, <1>8, OtherDevice DEF ThreadInv
<1>. QED
  BY <1>4, <1>9, <1>10, <1>11, <1>13, <1>16, <1>17, <1>18, <1>19 DEF ThreadInv, DevInv, Devices

(* expose ends when no thread is left, and closes every file. *)
LEMMA FinishStep ==
  ASSUME ThreadInv, Finish
  PROVE  ThreadInv' /\ SuccessIsComplete'
<1>1. /\ pc = "count" /\ framethreadcount <= 0
      /\ imnum' = (IF AnyFailed THEN imnum ELSE imnum + 1)
      /\ fileOpen' = [d \in Devices |-> FALSE]
      /\ result' = (IF AnyFailed \/ \E d \in Devices : ferror[d] THEN "ERROR" ELSE "NO_ERROR")
      /\ pc' = "idle"
      /\ UNCHANGED <<sc, next, exposes, abortstate, framethreadcount, framecount, frameinfo, workbuf,
                     failed, api, delivered, slot, fpc, ferror, written, lost, outpaced, unopened>>
  BY DEF Finish, AllFramesDone, close_file, shared, control, device, history
<1>2. TypeOK /\ MainInv /\ sc.frames \in Nat /\ MaxFrames \in Nat /\ sc.frames \in Frames
  BY Setup DEF ThreadInv, Frames
<1>3. Live = {} /\ lost = 0 /\ lost \in Nat
  <2>1. /\ IsFiniteSet(Live) /\ Cardinality(Live) \in Nat /\ framethreadcount = Cardinality(Live) + lost
        /\ lost \in Nat
    BY <1>2, LiveIsFinite DEF TypeOK, MainInv
  <2>2. Cardinality(Live) = 0 /\ lost = 0
    BY <2>1, <1>1
  <2>. QED
    BY <2>1, <2>2, FS_EmptySet
<1>4. \A d \in Devices, f \in Frames : fpc[d][f] = "none"
  <2>1. ASSUME NEW d \in Devices, NEW f \in Frames
        PROVE  fpc[d][f] = "none"
    <3>1. <<d, f>> \notin Live
      BY <1>3
    <3>2. <<d, f>> \in Devices \X Frames /\ <<d, f>>[1] = d /\ <<d, f>>[2] = f
      OBVIOUS
    <3>. QED
      BY <3>1, <3>2 DEF Live, HasThread
  <2>. QED
    BY <2>1
<1>5. TypeOK'
  <2>1. imnum' \in 0 .. MaxExposes
    <3>1. imnum \in Nat /\ exposes \in Nat /\ exposes <= MaxExposes /\ imnum < exposes
      BY <1>1, <1>2, ArcExposureAssumption DEF TypeOK, MainInv
    <3>. QED
      BY <3>1, <1>1, ArcExposureAssumption
  <2>2. result' \in {"NO_ERROR", "ERROR"} /\ fileOpen' \in [Devices -> BOOLEAN]
    BY <1>1
  <2>. QED
    BY <2>1, <2>2, <1>1, <1>2 DEF TypeOK, Devices
<1>6. MainInv'
  <2>1. imnum' <= exposes
    BY <1>1, <1>2 DEF MainInv, TypeOK
  <2>2. Live' = Live
    BY <1>1 DEF Live, Devices, HasThread
  <2>3. ~(lost > 0)
    BY <1>3
  <2>. QED
    BY <2>1, <2>2, <2>3, <1>1, <1>2, <1>3 DEF MainInv
<1>7. ASSUME NEW d \in Devices
      PROVE  DevInv(d)'
  <2>1. DevInv(d) /\ api[d] = "off" /\ ~fileOpen'[d] /\ ~Started(d)' /\ Started(d)
    BY <1>1, <1>2 DEF ThreadInv, MainInv, Started
  <2>2. RestInv(d)'
    BY <2>1, <1>1, <1>4 DEF DevInv, RestInv, HasThread
  <2>3. SlotInv(d)'
    BY <2>1, <1>1, SlotsKept DEF DevInv, HasThread, HasSlot
  <2>4. Done(d)' = Done(d)
    BY <1>1 DEF Done, Came, Busy
  <2>5. CountInv(d)'
    BY <2>1, <2>4, <1>1 DEF DevInv, CountInv
  <2>6. TurnInv(d)'
    BY <2>1, <1>1 DEF DevInv, TurnInv, Busy
  <2>7. FileInv(d)'
    BY <2>1, <1>1 DEF DevInv, FileInv
  <2>. QED
    BY <2>2, <2>3, <2>5, <2>6, <2>7 DEF DevInv
<1>8. ASSUME result' = "NO_ERROR", NEW d \in Devices
      PROVE  ~failed[d] /\ ~ferror[d] /\ (abortstate \/ d \in unopened \/ Len(written[d]) = sc.frames)
  <2>1. ~failed[d] /\ ~ferror[d]
    BY <1>1, <1>8 DEF AnyFailed
  <2>2. DevInv(d) /\ api[d] = "off" /\ (d \notin unopened => fileOpen[d])
    BY <1>1, <1>2, <1>8 DEF ThreadInv, MainInv, DevInv, RestInv, Started
  <2>3. ASSUME ~abortstate, d \notin unopened
        PROVE  Len(written[d]) = sc.frames
    <3>1. Len(written[d]) = Cardinality(Done(d))
      BY <2>1, <2>2, <2>3, <1>3 DEF DevInv, CountInv
    <3>2. Came(d) = sc.frames
      BY <2>2 DEF Came
    <3>3. 1 .. sc.frames \subseteq Frames
      BY <1>2 DEF Frames
    <3>4. Done(d) = 1 .. sc.frames
      BY <3>2, <3>3, <1>4 DEF Done, Busy
    <3>5. Cardinality(1 .. sc.frames) = sc.frames
      <4>1. 1 \in Int /\ sc.frames \in Int /\ sc.frames >= 1
        BY <1>2 DEF Frames
      <4>. QED
        BY <4>1, FS_Interval
    <3>. QED
      BY <3>1, <3>4, <3>5
  <2>. QED
    BY <2>1, <2>3
<1>9. SuccessIsComplete'
  BY <1>1, <1>8 DEF SuccessIsComplete, Devices
<1>. QED
  BY <1>1, <1>5, <1>6, <1>7, <1>9 DEF ThreadInv, Devices

LEMMA ExposeStep ==
  ASSUME ThreadInv, Expose
  PROVE  ThreadInv' /\ SuccessIsComplete'
<1>1. /\ pc = "idle" /\ exposes < MaxExposes /\ exposes' = exposes + 1
      /\ \/ pc' = "start" /\ next' = 1 /\ result' = "NO_ERROR"
         \/ pc' = "idle" /\ next' = next /\ result' = "ERROR"
      /\ \/ pc' = "idle" /\ UNCHANGED <<abortstate, framethreadcount, framecount>>
         \/ abortstate' = FALSE /\ framethreadcount' = 0 /\ framecount' = [d \in Devices |-> 0]
      /\ UNCHANGED <<sc, imnum, frameinfo, workbuf, failed, api, delivered, slot, fpc,
                     fileOpen, ferror, written, lost, outpaced, unopened>>
  BY DEF Expose, init_framecount, shared, device, files, history
<1>2. /\ TypeOK /\ MainInv /\ MaxFrames \in Nat /\ MaxExposes \in Nat
      /\ sc.devices \in Nat /\ sc.devices >= 1 /\ sc.frames \in Nat
  BY Setup, ArcExposureAssumption DEF ThreadInv
<1>3. \A d \in Devices : /\ DevInv(d) /\ api[d] = "off" /\ ~fileOpen[d]
                         /\ \A f \in Frames : fpc[d][f] = "none"
  BY <1>1 DEF ThreadInv, DevInv, RestInv, Started, HasThread
<1>4. Cardinality(Live) = 0 /\ Live' = Live
  <2>1. Live = {} /\ Live' = Live
    BY <1>1, <1>3 DEF Live, Devices, HasThread
  <2>. QED
    BY <2>1, FS_EmptySet
<1>5. lost = 0
  BY <1>1, <1>2 DEF MainInv
<1>6. framecount' \in [Devices -> 0 .. MaxFrames] /\ abortstate' \in BOOLEAN /\ framethreadcount' = 0
  <2>1. framecount \in [Devices -> 0 .. MaxFrames] /\ abortstate \in BOOLEAN
    BY <1>2 DEF TypeOK
  <2>2. [d \in Devices |-> 0] \in [Devices -> 0 .. MaxFrames]
    BY <1>2
  <2>3. framecount' = framecount \/ framecount' = [d \in Devices |-> 0]
    BY <1>1
  <2>4. abortstate' = abortstate \/ abortstate' = FALSE
    BY <1>1
  <2>5. framethreadcount = 0
    BY <1>2, <1>4, <1>5 DEF MainInv
  <2>. QED
    BY <2>1, <2>2, <2>3, <2>4, <2>5, <1>1
<1>7. TypeOK'
  <2>1. next' \in 1 .. sc.devices + 1 /\ exposes' \in 0 .. MaxExposes /\ pc' \in {"idle", "start"}
        /\ result' \in {"NO_ERROR", "ERROR"}
    BY <1>1, <1>2 DEF TypeOK
  <2>. QED
    BY <2>1, <1>1, <1>2, <1>6 DEF TypeOK, Devices
<1>8. MainInv'
  BY <1>1, <1>2, <1>4, <1>5, <1>6 DEF MainInv, TypeOK
<1>9. ASSUME NEW d \in Devices
      PROVE  DevInv(d)'
  <2>1. framecount'[d] = 0 \/ (pc' = "idle" /\ framecount'[d] = framecount[d])
    BY <1>1, <1>9
  <2>2. ~Started(d)'
    BY <1>1, <1>2 DEF Started, Devices
  <2>3. RestInv(d)'
    BY <2>1, <2>2, <1>1, <1>3 DEF DevInv, RestInv, HasThread
  <2>4. SlotInv(d)'
    BY <1>1, <1>3, SlotsKept DEF DevInv, HasThread, HasSlot
  <2>5. \A f \in Frames : ~Busy(d, f)' /\ fpc'[d][f] # "write"
    BY <1>1, <1>3 DEF Busy
  <2>6. Done(d)' = Done(d) /\ Cardinality(Done(d)) \in Nat
    BY <1>1, FramesCame DEF Done, Came, Busy
  <2>7. CountInv(d)'
    BY <2>1, <2>6, <1>1, <1>3 DEF DevInv, CountInv
  <2>8. TurnInv(d)'
    BY <2>5, <1>1, <1>3 DEF TurnInv
  <2>9. FileInv(d)'
    BY <2>5, <1>1, <1>3 DEF DevInv, FileInv
  <2>. QED
    BY <2>3, <2>4, <2>7, <2>8, <2>9 DEF DevInv
<1>10. SuccessIsComplete'
  BY <1>1 DEF SuccessIsComplete
<1>. QED
  BY <1>1, <1>7, <1>8, <1>9, <1>10 DEF ThreadInv, Devices

-----------------------------------------------------------------------------
(* The theorems. *)

LEMMA ThreadInit == Init => ThreadInv /\ SuccessIsComplete
<1>. SUFFICES ASSUME Init PROVE ThreadInv /\ SuccessIsComplete
  OBVIOUS
<1>1. /\ sc \in Scenarios /\ pc = "idle" /\ next = 1 /\ result = "NO_ERROR" /\ imnum = 0 /\ exposes = 0
      /\ abortstate = FALSE /\ framethreadcount = 0
      /\ framecount = [d \in Devices |-> 0] /\ frameinfo = [d \in Devices |-> {}]
      /\ workbuf = [d \in Devices |-> NoFrame] /\ failed = [d \in Devices |-> FALSE]
      /\ api = [d \in Devices |-> "off"] /\ delivered = [d \in Devices |-> 0]
      /\ slot = [d \in Devices |-> [b \in 0 .. MaxFrames - 1 |-> NoFrame]]
      /\ fpc = [d \in Devices |-> [f \in Frames |-> "none"]]
      /\ fileOpen = [d \in Devices |-> FALSE] /\ ferror = [d \in Devices |-> FALSE]
      /\ written = [d \in Devices |-> <<>>]
      /\ lost = 0 /\ outpaced = {} /\ unopened = {}
  BY DEF Init
<1>2. /\ sc.devices \in Nat /\ sc.devices >= 1 /\ sc.frames \in Nat /\ MaxFrames \in Nat /\ MaxExposes \in Nat
  BY <1>1, ArcExposureAssumption DEF Scenario
<1>3. TypeOK
  <2>1. /\ NoFrame \in FrameNumber /\ "none" \in ThreadPlaces /\ <<>> \in Seq(FrameNumber)
        /\ 0 \in 0 .. MaxFrames /\ 0 \in 0 .. MaxExposes
    BY <1>2 DEF FrameNumber, ThreadPlaces
  <2>2. /\ framecount \in [Devices -> 0 .. MaxFrames]
        /\ frameinfo \in [Devices -> SUBSET (0 .. MaxFrames - 1)]
        /\ workbuf \in [Devices -> FrameNumber] /\ failed \in [Devices -> BOOLEAN]
        /\ api \in [Devices -> {"off", "running", "keys"}] /\ delivered \in [Devices -> 0 .. MaxFrames]
    BY <2>1, <1>1
  <2>3. /\ slot \in [Devices -> [0 .. MaxFrames - 1 -> FrameNumber]]
        /\ fpc \in [Devices -> [Frames -> ThreadPlaces]]
    BY <2>1, <1>1
  <2>4. /\ fileOpen \in [Devices -> BOOLEAN] /\ ferror \in [Devices -> BOOLEAN]
        /\ written \in [Devices -> Seq(FrameNumber)]
    BY <2>1, <1>1
  <2>5. next \in 1 .. sc.devices + 1 /\ framethreadcount \in Nat
    BY <1>1, <1>2
  <2>. QED
    BY <2>1, <2>2, <2>3, <2>4, <2>5, <1>1 DEF TypeOK
<1>4. MainInv
  <2>1. Live = {}
    BY <1>1 DEF Live, HasThread
  <2>2. Cardinality(Live) = 0
    BY <2>1, FS_EmptySet
  <2>. QED
    BY <2>2, <1>1 DEF MainInv
<1>5. ASSUME NEW d \in Devices
      PROVE  DevInv(d)
  <2>1. /\ ~Started(d) /\ api[d] = "off" /\ ~fileOpen[d] /\ delivered[d] = 0 /\ framecount[d] = 0
        /\ frameinfo[d] = {} /\ written[d] = <<>> /\ \A f \in Frames : fpc[d][f] = "none"
    BY <1>1 DEF Started
  <2>2. RestInv(d) /\ SlotInv(d)
    BY <2>1, <1>1, <1>2 DEF RestInv, SlotInv, HasThread, HasSlot
  <2>3. Cardinality(Done(d)) \in Nat
    <3>1. Done(d) \subseteq 1 .. sc.frames
      BY <2>1 DEF Done, Came
    <3>. QED
      BY <3>1, <1>2, DoneIsFinite
  <2>4. CountInv(d)
    BY <2>1, <2>3 DEF CountInv
  <2>5. TurnInv(d) /\ FileInv(d)
    BY <2>1 DEF TurnInv, FileInv, Busy, Increasing, Counting
  <2>. QED
    BY <2>2, <2>4, <2>5 DEF DevInv
<1>6. SuccessIsComplete
  BY <1>1 DEF SuccessIsComplete
<1>. QED
  BY <1>3, <1>4, <1>5, <1>6 DEF ThreadInv

(* Steps that neither begin nor end an expose take place while one runs. *)
LEMMA WhileExposing ==
  ASSUME ThreadInv, [Next]_vars
  PROVE  ThreadInv' /\ (SuccessIsComplete => SuccessIsComplete')
<1>1. CASE Expose \/ Finish
  BY <1>1, ExposeStep, FinishStep
<1>2. CASE Start \/ Join
  <2>1. pc' # "idle"
    BY <1>2 DEF Start, Join
  <2>. QED
    BY <2>1, <1>2, StartStep, JoinStep DEF SuccessIsComplete
<1>3. CASE Abort
  <2>1. pc' # "idle"
    BY <1>3 DEF Abort, main
  <2>. QED
    BY <2>1, <1>3, AbortStep DEF SuccessIsComplete
<1>4. CASE \E d \in Devices : Driver(d)
  <2>1. PICK d \in Devices : Driver(d)
    BY <1>4
  <2>2. pc' = pc /\ api[d] # "off"
    BY <2>1 DEF Driver, frameCallback, ExposeEnds, KeysAdded, ExposeThrows, main
  <2>3. pc # "idle"
    BY <2>2 DEF ThreadInv, DevInv, RestInv, Started
  <2>. QED
    BY <2>1, <2>2, <2>3, CallbackStep, ExposureEndStep DEF Driver, SuccessIsComplete
<1>5. CASE \E d \in Devices, f \in Frames : Thread(d, f)
  <2>1. PICK d \in Devices, f \in Frames : Thread(d, f)
    BY <1>5
  <2>2. pc' = pc /\ HasThread(d, f)
    BY <2>1 DEF Thread, Claim, Deinterlace, Skip, Write, Erase, main, HasThread
  <2>3. pc # "idle"
    BY <2>2, ThreadsOfStarted
  <2>. QED
    BY <2>1, <2>2, <2>3, TakeStep, LoseStep, DeinterlaceStep, SkipStep, WriteStep, EraseStep
    DEF Thread, SuccessIsComplete
<1>6. CASE UNCHANGED vars
  <2>1. UNCHANGED <<sc, pc, next, result, imnum, exposes, abortstate, framethreadcount, framecount,
                    frameinfo, workbuf, failed, api, delivered, slot, fpc, fileOpen, ferror, written,
                    lost, outpaced, unopened>>
    BY <1>6 DEF vars, main, shared, control, device, files, history
  <2>2. TypeOK' /\ MainInv'
    BY <2>1 DEF ThreadInv, TypeOK, MainInv, Live, Devices, HasThread, Started
  <2>3. ASSUME NEW e \in Devices
        PROVE  DevInv(e)'
    BY <2>1, OtherDevice DEF ThreadInv, Started
  <2>. QED
    BY <2>1, <2>2, <2>3 DEF ThreadInv, Devices, SuccessIsComplete
<1>. QED
  BY <1>1, <1>2, <1>3, <1>4, <1>5, <1>6 DEF Next, Exposer

(* The inductive invariant: the slots of the PCI buffer are shared out among
   the frame threads of every device that is not too fast for them, and the
   threads write in turn. *)
THEOREM ThreadsInStep == Spec => []ThreadInv
<1>1. Init => ThreadInv
  BY ThreadInit
<1>2. ThreadInv /\ [Next]_vars => ThreadInv'
  BY WhileExposing
<1>. QED
  BY <1>1, <1>2, PTL DEF Spec

(* framethreadcount, which expose waits for, is the number of frame threads
   and of those that ended uncounted, and none ends so unless a device was too
   fast for its threads. *)
THEOREM ThreadsAreCounted == Spec => []ThreadsCounted
<1>1. ThreadInv => ThreadsCounted
  BY DEF ThreadInv, MainInv, ThreadsCounted
<1>2. Spec => []ThreadInv
  BY ThreadsInStep
<1>. QED
  BY <1>1, <1>2, PTL

(* The file of a device that is not too fast for its threads has its frames in
   the order they were taken, each one at most once, whichever thread runs
   first, with frame numbers and without; none is left out unless a write
   failed and the frames have no numbers. *)
THEOREM FileHasFramesInOrder == Spec => []FramesInOrder
<1>1. ThreadInv => FramesInOrder
  BY DEF ThreadInv, DevInv, FileInv, FramesInOrder, Increasing, Counting
<1>2. Spec => []ThreadInv
  BY ThreadsInStep
<1>. QED
  BY <1>1, <1>2, PTL

(* After expose has returned nothing of the exposure is left, after an error
   and an abort too. *)
THEOREM NothingLeftAtRest == Spec => []QuietAtRest
<1>1. ThreadInv => QuietAtRest
  <2>. SUFFICES ASSUME ThreadInv, pc = "idle" PROVE QuietAtRest
    BY DEF QuietAtRest
  <2>1. \A d \in Devices : /\ api[d] = "off" /\ ~fileOpen[d]
                           /\ \A f \in Frames : fpc[d][f] = "none"
    BY DEF ThreadInv, DevInv, RestInv, Started, HasThread
  <2>2. Live = {}
    BY <2>1 DEF Live, HasThread
  <2>3. \A d \in Devices : frameinfo[d] = {}
    BY <2>1 DEF ThreadInv, DevInv, SlotInv, HasSlot
  <2>. QED
    BY <2>1, <2>2, <2>3 DEF QuietAtRest
<1>2. Spec => []ThreadInv
  BY ThreadsInStep
<1>. QED
  BY <1>1, <1>2, PTL

(* An exposure that returns NO_ERROR and was not aborted has written an image
   for every frame of every device whose file could be created, however fast
   the devices are, and no device and no file had an error. *)
THEOREM SuccessMeansComplete == Spec => []SuccessIsComplete
<1>1. Init => SuccessIsComplete
  BY ThreadInit
<1>2. ThreadInv /\ SuccessIsComplete /\ [Next]_vars => SuccessIsComplete'
  BY WhileExposing
<1>3. Spec => []ThreadInv
  BY ThreadsInStep
<1>. QED
  BY <1>1, <1>2, <1>3, PTL DEF Spec
=============================================================================
