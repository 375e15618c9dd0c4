------------------------- MODULE FrameRing_proofs -------------------------
(***************************************************************************)
(* Theorems about FrameRing: what reaches write_frame is whole and in      *)
(* order for any number of buffers, any sequences and a controller at any  *)
(* pace; it is the very sequence of frames if the controller stays at most *)
(* one frame ahead of the host and nobody else asks for the status.        *)
(***************************************************************************)
EXTENDS FrameRing, SequenceTheorems, FiniteSetTheorems, TLAPS

-----------------------------------------------------------------------------
(* The inductive invariant, at any pace of the controller. *)

Acquiring == pc \notin {"idle", "prep"}
Reading == pc \in {"lock", "fetch", "stream", "unlock"}

\* The images that are not late.
OnTime == (1 .. Len(images)) \ late

Typed ==
  /\ number \in [Bufs -> Nat] /\ complete \in [Bufs -> BOOLEAN] /\ pixels \in [Bufs -> Nat]
  /\ writing \in Bufs \cup {NoBuf} /\ written \in 0 .. Active - 1
  /\ taken \in Nat /\ todo \in Nat /\ locked \in 0 .. Active
  /\ bufframen \in [Bufs -> Nat] /\ bufcomplete \in [Bufs -> BOOLEAN] /\ index \in Bufs
  /\ lastframe \in Nat /\ currentframe \in Nat /\ pc \in Steps
  /\ nseq \in Int /\ expcount \in Int /\ preexp \in Int
  /\ pc = "prep" => nseq \in Nat
  /\ source \in Bufs /\ data \in Nat /\ images \in Seq(Nat) /\ newest \in Nat
  /\ chosen \in Bufs /\ missed \in BOOLEAN

(* A buffer that is not being written holds the frame whose number it has,
   and no two buffers hold the same one. *)
RingInv ==
  /\ \A b \in Bufs : number[b] <= taken \/ (b = writing /\ number[b] = taken + 1)
  /\ \A b \in Bufs : complete[b] => b # writing /\ number[b] \in 1 .. taken /\ pixels[b] = number[b]
  /\ \A b \in Bufs : b # writing /\ number[b] > 0 => complete[b]
  /\ \A b, c \in Bufs : number[b] = number[c] /\ number[b] > 0 => b = c
  /\ writing # NoBuf => written = writing /\ todo > 0
  /\ writing = NoBuf /\ taken > 0 => number[written] = taken

(* What the host was told is not newer than what is there. *)
StatusInv ==
  /\ \A b \in Bufs : bufframen[b] <= number[b]
  /\ \A b \in Bufs : bufcomplete[b] => bufframen[b] <= taken
  /\ pc # "idle" => lastframe <= bufframen[index]

(* A buffer that was whole when the lock came stays as it is while it is read,
   and is no older than the frame that was noticed. *)
ReadInv ==
  /\ pc = "final" => /\ lastframe < currentframe /\ currentframe <= taken
                     /\ currentframe <= bufframen[index]
  /\ Reading => lastframe > 0
  /\ pc \in {"fetch", "stream"} => locked = chosen + 1
  /\ pc = "fetch" /\ ~missed => /\ complete[chosen]
                                /\ lastframe <= number[chosen] /\ number[chosen] <= bufframen[index]
  /\ pc = "stream" /\ ~missed => source = chosen /\ complete[chosen] /\ data = number[chosen]
  /\ pc \in {"stream", "unlock"} /\ ~missed => lastframe <= data /\ data <= bufframen[index]

(* Images are no newer than what the host was told, and all but the last one
   are older than the next one can be. *)
ImageInv ==
  /\ WholeFrames /\ InOrder
  /\ pc = "prep" => images = <<>>
  /\ Acquiring => \A i \in OnTime : /\ images[i] <= bufframen[index]
                                    /\ i < Len(images) => images[i] <= lastframe
  /\ pc = "final" => \A i \in OnTime : /\ images[i] <= currentframe
                                       /\ i < Len(images) => images[i] < currentframe
  /\ Reading => \A i \in OnTime : /\ images[i] <= lastframe
                                  /\ i < Len(images) => images[i] < lastframe

RingSafe == Typed /\ RingInv /\ StatusInv /\ ReadInv /\ ImageInv

-----------------------------------------------------------------------------
(* The ring. *)

(* Among finitely many numbers there is a largest one. *)
LEMMA Largest ==
  ASSUME NEW f, NEW S, IsFiniteSet(S), S # {}, \A x \in S : f[x] \in Nat
  PROVE  \E x \in S : \A y \in S : f[y] <= f[x]
<1>. DEFINE Above(x) == {y \in S : f[y] > f[x]}
<1>1. /\ {Above(x) : x \in S} \subseteq FiniteSubsetsOf(S)
      /\ {Above(x) : x \in S} # {}
  <2>1. \A x \in S : Above(x) \subseteq S /\ IsFiniteSet(Above(x))
    BY FS_Subset
  <2>. QED
    BY <2>1 DEF FiniteSubsetsOf
<1>2. PICK A \in {Above(x) : x \in S} : \A B \in {Above(x) : x \in S} :
                                          <<B, A>> \notin StrictSubsetOrdering(S)
  <2>. DEFINE T == {Above(x) : x \in S}
  <2>. HIDE DEF T
  <2>1. \E A \in T : \A B \in T : ~(<<B, A>> \in StrictSubsetOrdering(S))
    BY <1>1, FS_StrictSubsetOrderingWellFounded, WFMin DEF T
  <2>. QED
    BY <2>1 DEF T
<1>3. PICK x \in S : A = Above(x)
  BY <1>2
<1>4. ASSUME NEW y \in S, f[y] > f[x]
      PROVE  FALSE
  <2>1. Above(y) \subseteq A /\ y \in A /\ y \notin Above(y)
    BY <1>3, <1>4
  <2>2. <<Above(y), A>> \in StrictSubsetOrdering(S)
    BY <2>1, <1>3 DEF StrictSubsetOrdering
  <2>. QED
    BY <2>2, <1>2
<1>. QED
  BY <1>4

LEMMA NextInRing ==
  ASSUME NEW a \in Nat \ {0}, NEW b \in 0 .. a - 1
  PROVE  (b + 1) % a = IF b + 1 = a THEN 0 ELSE b + 1
<1>1. CASE b + 1 = a
  BY <1>1
<1>2. CASE b + 1 # a
  <2>1. b + 1 \in Nat /\ b + 1 < a
    BY <1>2
  <2>. QED
    BY <1>2, <2>1
<1>. QED
  BY <1>1, <1>2

LEMMA Buffers ==
  /\ NBufs \in Nat /\ Active \in Nat \ {0, 1} /\ Active <= NBufs
  /\ NoBuf \notin Bufs /\ 0 \in Bufs /\ \A b \in 0 .. Active - 1 : b \in Bufs
  /\ \A b \in Bufs : b \in Nat
  BY FrameRingAssumption DEF Bufs, NoBuf

(* The next buffer is never the locked one, and it is another one than b if
   there are three or the locked one is b. *)
LEMMA NextBufIsOther ==
  ASSUME NEW b \in 0 .. Active - 1, locked \in 0 .. Active
  PROVE  /\ NextBuf(b) \in 0 .. Active - 1 /\ NextBuf(b) + 1 # locked
         /\ Active >= 3 \/ locked = 0 \/ locked = b + 1 => NextBuf(b) # b
<1>. DEFINE c == (b + 1) % Active
<1>1. Active \in Nat /\ Active >= 2
  BY Buffers
<1>2. c = IF b + 1 = Active THEN 0 ELSE b + 1
  BY <1>1, NextInRing
<1>. HIDE DEF c
<1>3. c \in 0 .. Active - 1 /\ c # b
  BY <1>1, <1>2
<1>4. (c + 1) % Active = IF c + 1 = Active THEN 0 ELSE c + 1
  BY <1>1, <1>3, NextInRing
<1>5. NextBuf(b) = IF c + 1 = locked THEN (c + 1) % Active ELSE c
  BY DEF NextBuf, c
<1>. DEFINE d == (c + 1) % Active
<1>6. d \in 0 .. Active - 1 /\ d # c /\ (Active >= 3 => d # b)
  <2>1. d = IF c + 1 = Active THEN 0 ELSE c + 1
    BY <1>4
  <2>. HIDE DEF d
  <2>2. d \in 0 .. Active - 1 /\ d # c
    BY <1>1, <1>3, <2>1
  <2>3. Active >= 3 => d # b
    BY <1>1, <1>2, <2>1
  <2>. QED
    BY <2>2, <2>3
<1>. HIDE DEF d
<1>7. NextBuf(b) = IF c + 1 = locked THEN d ELSE c
  BY <1>5 DEF d
<1>8. locked = 0 \/ locked = b + 1 => c + 1 # locked
  BY <1>3
<1>. QED
  BY <1>3, <1>6, <1>7, <1>8

(* A readout that starts leaves the locked buffer alone. *)
LEMMA StartStep ==
  ASSUME RingSafe, StartReadout
  PROVE  RingSafe'
<1>1. PICK b : b = NextBuf(written)
  OBVIOUS
<1>2. b \in Bufs /\ b # NoBuf /\ b \in 0 .. Active - 1 /\ b + 1 # locked
  BY <1>1, NextBufIsOther, Buffers DEF RingSafe, Typed
<1>3. /\ todo > 0 /\ writing = NoBuf /\ writing' = b /\ written' = b
      /\ complete' = [complete EXCEPT ![b] = FALSE] /\ pixels' = [pixels EXCEPT ![b] = Torn]
      /\ number' = (IF NumberFirst THEN [number EXCEPT ![b] = taken + 1] ELSE number)
      /\ data' = (IF pc = "stream" /\ source = b THEN Torn ELSE data)
      /\ UNCHANGED <<taken, todo, locked, status, lastframe, pc, currentframe, request,
                     source, choice, delivered>>
  BY <1>1 DEF StartReadout, Spoil
<1>4. /\ number \in [Bufs -> Nat] /\ complete \in [Bufs -> BOOLEAN] /\ pixels \in [Bufs -> Nat]
      /\ taken \in Nat /\ lastframe \in Nat /\ source \in Bufs /\ index \in Bufs /\ chosen \in Bufs
      /\ \A c \in Bufs : number[c] <= taken /\ number[c] \in Nat /\ c # writing
  BY <1>3, Buffers DEF RingSafe, Typed, RingInv
<1>5. /\ \A c \in Bufs : c # b => /\ number'[c] = number[c] /\ complete'[c] = complete[c]
                                  /\ pixels'[c] = pixels[c]
      /\ number'[b] \in {number[b], taken + 1} /\ complete'[b] = FALSE
  BY <1>2, <1>3, <1>4
<1>6. \A c \in Bufs : number'[c] \in Nat /\ number[c] <= number'[c]
  BY <1>4, <1>5
<1>7. Typed'
  <2>1. /\ number' \in [Bufs -> Nat] /\ complete' \in [Bufs -> BOOLEAN] /\ pixels' \in [Bufs -> Nat]
    BY <1>2, <1>3, <1>4 DEF Torn
  <2>2. data' \in Nat
    BY <1>3 DEF Torn, RingSafe, Typed
  <2>. QED
    BY <2>1, <2>2, <1>2, <1>3 DEF RingSafe, Typed, status, request, choice, delivered
<1>8. RingInv'
  <2>1. \A c \in Bufs : number'[c] <= taken' \/ (c = writing' /\ number'[c] = taken' + 1)
    BY <1>3, <1>4, <1>5
  <2>2. \A c \in Bufs : complete'[c] => c # writing' /\ number'[c] \in 1 .. taken' /\ pixels'[c] = number'[c]
    BY <1>3, <1>5 DEF RingSafe, RingInv
  <2>3. \A c \in Bufs : c # writing' /\ number'[c] > 0 => complete'[c]
    BY <1>3, <1>4, <1>5 DEF RingSafe, RingInv
  <2>4. \A c, d \in Bufs : number'[c] = number'[d] /\ number'[c] > 0 => c = d
    <3>1. ASSUME NEW c \in Bufs, NEW d \in Bufs, number'[c] = number'[d], number'[c] > 0, c # d
          PROVE  FALSE
      <4>1. number'[c] # number[c] => c = b /\ number'[c] = taken + 1
        BY <1>5
      <4>2. number'[d] # number[d] => d = b /\ number'[d] = taken + 1
        BY <1>5
      <4>3. number[c] <= taken /\ number[d] <= taken /\ taken \in Nat
        BY <1>4
      <4>4. number'[c] = number[c] /\ number'[d] = number[d]
        BY <4>1, <4>2, <4>3, <3>1, <1>4, <1>5
      <4>. QED
        BY <3>1, <4>4 DEF RingSafe, RingInv
    <3>. QED
      BY <3>1
  <2>. QED
    BY <2>1, <2>2, <2>3, <2>4, <1>2, <1>3 DEF RingInv
<1>9. StatusInv'
  <2>1. \A c \in Bufs : bufframen[c] <= number[c] /\ bufframen[c] \in Nat
    BY DEF RingSafe, StatusInv, Typed
  <2>2. \A c \in Bufs : bufframen[c] <= number'[c]
    BY <2>1, <1>4, <1>6
  <2>. QED
    BY <2>2, <1>3 DEF RingSafe, StatusInv, status
<1>10. pc \in {"fetch", "stream"} => chosen # b
  BY <1>2 DEF RingSafe, ReadInv
<1>11. pc \in {"fetch", "stream"} =>
        complete'[chosen] = complete[chosen] /\ number'[chosen] = number[chosen]
  BY <1>4, <1>5, <1>10
<1>12. pc = "stream" /\ ~missed => data' = data
  BY <1>3, <1>10 DEF RingSafe, ReadInv
<1>13. pc # "stream" => data' = data
  BY <1>3
<1>14. UNCHANGED <<locked, chosen, missed, source, bufframen, index, taken, lastframe,
                    currentframe, pc>>
  BY <1>3 DEF status, choice
<1>15. ReadInv'
  BY <1>11, <1>12, <1>13, <1>14 DEF RingSafe, ReadInv, Reading
<1>16. ImageInv'
  BY <1>3 DEF RingSafe, ImageInv, WholeFrames, InOrder, Acquiring, Reading, OnTime, status,
     delivered
<1>. QED
  BY <1>7, <1>8, <1>9, <1>15, <1>16 DEF RingSafe

(* A readout that ends changes only the buffer that was being written. *)
LEMMA EndStep ==
  ASSUME RingSafe, EndReadout
  PROVE  RingSafe'
<1>1. PICK b : b = writing
  OBVIOUS
<1>2. /\ b \in Bufs /\ b # NoBuf /\ writing = b /\ written = b /\ written \in 0 .. Active - 1 /\ todo > 0
      /\ ~complete[b] /\ taken \in Nat /\ todo \in Nat /\ NoBuf \notin Bufs
  BY <1>1, Buffers DEF RingSafe, Typed, RingInv, EndReadout
<1>3. /\ taken' = taken + 1 /\ todo' = todo - 1 /\ writing' = NoBuf /\ written' = b
      /\ number' = [number EXCEPT ![b] = taken + 1]
      /\ complete' = [complete EXCEPT ![b] = TRUE]
      /\ pixels' = [pixels EXCEPT ![b] = taken + 1]
      /\ data' = (IF pc = "stream" /\ source = b THEN Torn ELSE data)
      /\ UNCHANGED <<locked, status, lastframe, pc, currentframe, request, source, choice,
                      delivered>>
  BY <1>1, <1>2 DEF EndReadout, Spoil
<1>4. /\ number \in [Bufs -> Nat] /\ complete \in [Bufs -> BOOLEAN] /\ pixels \in [Bufs -> Nat]
      /\ lastframe \in Nat /\ source \in Bufs /\ index \in Bufs /\ chosen \in Bufs
      /\ \A c \in Bufs : number[c] \in Nat /\ (c # b => number[c] <= taken)
      /\ number[b] <= taken + 1
  <2>1. /\ number \in [Bufs -> Nat] /\ complete \in [Bufs -> BOOLEAN] /\ pixels \in [Bufs -> Nat]
        /\ lastframe \in Nat /\ source \in Bufs /\ index \in Bufs /\ chosen \in Bufs
    BY DEF RingSafe, Typed
  <2>2. \A c \in Bufs : number[c] <= taken \/ (c = b /\ number[c] = taken + 1)
    BY <1>2 DEF RingSafe, RingInv
  <2>3. \A c \in Bufs : number[c] \in Nat /\ (c # b => number[c] <= taken)
    BY <2>1, <2>2
  <2>. QED
    BY <2>1, <2>2, <2>3, <1>2
<1>5. /\ \A c \in Bufs : c # b => /\ number'[c] = number[c] /\ complete'[c] = complete[c]
                                  /\ pixels'[c] = pixels[c]
      /\ number'[b] = taken + 1 /\ complete'[b] = TRUE /\ pixels'[b] = taken + 1
  BY <1>2, <1>3, <1>4
<1>6. \A c \in Bufs : number'[c] \in Nat /\ number[c] <= number'[c]
  BY <1>2, <1>4, <1>5
<1>9. Typed'
  <2>1. number' \in [Bufs -> Nat] /\ complete' \in [Bufs -> BOOLEAN] /\ pixels' \in [Bufs -> Nat]
    BY <1>2, <1>3, <1>4
  <2>2. todo' \in Nat /\ taken' \in Nat
    BY <1>2, <1>3
  <2>3. data' \in Nat
    BY <1>3 DEF Torn, RingSafe, Typed
  <2>. QED
    BY <2>1, <2>2, <2>3, <1>2, <1>3 DEF RingSafe, Typed, status, request, choice, delivered
<1>10. RingInv'
  <2>1. \A c \in Bufs : number'[c] <= taken'
    BY <1>2, <1>3, <1>4, <1>5
  <2>2. \A c \in Bufs : complete'[c] => c # writing' /\ number'[c] \in 1 .. taken' /\ pixels'[c] = number'[c]
    BY <1>2, <1>3, <1>5 DEF RingSafe, RingInv
  <2>3. \A c \in Bufs : c # writing' /\ number'[c] > 0 => complete'[c]
    BY <1>2, <1>3, <1>4, <1>5 DEF RingSafe, RingInv
  <2>4. \A c, d \in Bufs : number'[c] = number'[d] /\ number'[c] > 0 => c = d
    <3>1. \A c \in Bufs : c # b => number'[c] # number'[b]
      BY <1>2, <1>4, <1>5
    <3>. QED
      BY <3>1, <1>2, <1>5 DEF RingSafe, RingInv
  <2>. QED
    BY <2>1, <2>2, <2>3, <2>4, <1>2, <1>3, <1>5 DEF RingInv
<1>11. StatusInv'
  <2>1. \A c \in Bufs : bufframen[c] <= number[c] /\ bufframen[c] \in Nat
    BY DEF RingSafe, StatusInv, Typed
  <2>2. \A c \in Bufs : bufframen[c] <= number'[c]
    BY <2>1, <1>4, <1>6
  <2>3. \A c \in Bufs : bufcomplete[c] => bufframen[c] <= taken + 1
    BY <2>1, <1>2 DEF RingSafe, StatusInv
  <2>. QED
    BY <2>2, <2>3, <1>3 DEF RingSafe, StatusInv, status
<1>12. pc \in {"fetch", "stream"} /\ ~missed => chosen # b
  BY <1>2 DEF RingSafe, ReadInv
<1>13. pc \in {"fetch", "stream"} /\ ~missed => 
        complete'[chosen] = complete[chosen] /\ number'[chosen] = number[chosen]
  BY <1>4, <1>5, <1>12
<1>14. pc = "stream" /\ ~missed => data' = data
  BY <1>3, <1>12 DEF RingSafe, ReadInv
<1>15. pc # "stream" => data' = data
  BY <1>3
<1>16. UNCHANGED <<locked, chosen, missed, source, bufframen, index, lastframe, currentframe, pc>>
  BY <1>3 DEF status, choice
<1>17. pc = "final" => currentframe <= taken'
  BY <1>2, <1>3 DEF RingSafe, ReadInv, Typed
<1>18. ReadInv'
  BY <1>13, <1>14, <1>15, <1>16, <1>17 DEF RingSafe, ReadInv, Reading
<1>19. ImageInv'
  BY <1>3 DEF RingSafe, ImageInv, WholeFrames, InOrder, Acquiring, Reading, OnTime, status,
     delivered
<1>. QED
  BY <1>9, <1>10, <1>11, <1>18, <1>19 DEF RingSafe

-----------------------------------------------------------------------------
(* What a FRAME report tells. *)

(* get_frame_status does not go back to an older frame. *)
LEMMA Forward ==
  ASSUME Typed, GetFrameStatus
  PROVE  index' \in Bufs /\ number[index] <= number[index']
<1>1. /\ index \in Bufs /\ 0 \in Bufs /\ \A b \in Bufs : number[b] \in Nat
  BY Buffers DEF Typed
<1>2. CASE \A b \in Bufs : number[b] = 0
  BY <1>1, <1>2 DEF GetFrameStatus
<1>3. CASE (\E b \in Bufs : number[b] # 0) /\ Newer = {}
  BY <1>1, <1>3 DEF GetFrameStatus
<1>4. CASE (\E b \in Bufs : number[b] # 0) /\ Newer # {}
  <2>1. index' = CHOOSE b \in Newer : \A c \in Newer : number[c] <= number[b]
    BY <1>4 DEF GetFrameStatus
  <2>2. IsFiniteSet(Newer)
    <3>1. IsFiniteSet(0 .. NBufs - 1)
      BY Buffers, FS_Interval
    <3>. QED
      BY <3>1, FS_Subset DEF Newer, Bufs
  <2>3. \A b \in Newer : number[b] \in Nat /\ b \in Bufs /\ number[b] > number[index]
    BY <1>1 DEF Newer
  <2>4. \E b \in Newer : \A c \in Newer : number[c] <= number[b]
    BY <1>4, <2>2, <2>3, Largest
  <2>5. index' \in Newer
    BY <2>1, <2>4
  <2>. QED
    BY <2>3, <2>5, <1>1
<1>. QED
  BY <1>2, <1>3, <1>4

(* After a report, or without one, the host's status is no newer than the
   buffers and does not go back. *)
LEMMA Told ==
  ASSUME RingSafe, UNCHANGED device, GetFrameStatus \/ UNCHANGED status
  PROVE  /\ bufframen' \in [Bufs -> Nat] /\ bufcomplete' \in [Bufs -> BOOLEAN] /\ index' \in Bufs
         /\ \A b \in Bufs : bufframen'[b] <= number'[b]
         /\ \A b \in Bufs : bufcomplete'[b] => bufframen'[b] <= taken'
         /\ bufframen[index] <= bufframen'[index']
         /\ RingInv'
<1>1. RingInv'
  BY DEF RingSafe, RingInv, device, ring
<1>2. number' = number /\ taken' = taken
  BY DEF device, ring
<1>3. Typed /\ RingInv /\ StatusInv
  BY DEF RingSafe
<1>4. CASE UNCHANGED status
  BY SMTT(40), <1>1, <1>2, <1>3, <1>4 DEF status, Typed, StatusInv
<1>5. CASE GetFrameStatus
  <2>1. index' \in Bufs /\ number[index] <= number[index']
    BY <1>3, <1>5, Forward
  <2>2. bufframen' = number /\ bufcomplete' = complete
    BY <1>5 DEF GetFrameStatus
  <2>3. /\ bufframen[index] <= number[index] /\ bufframen[index] \in Nat /\ number[index] \in Nat
        /\ number[index'] \in Nat
    BY <1>3, <2>1 DEF Typed, StatusInv
  <2>4. bufframen[index] <= bufframen'[index']
    BY <2>1, <2>2, <2>3
  <2>5. \A b \in Bufs : complete[b] => number[b] <= taken
    BY <1>3 DEF RingInv, Typed
  <2>6. \A b \in Bufs : number[b] <= number[b]
    BY <1>3 DEF Typed
  <2>. QED
    BY <1>1, <1>2, <1>3, <2>1, <2>2, <2>4, <2>5, <2>6 DEF Typed
<1>. QED
  BY <1>4, <1>5

-----------------------------------------------------------------------------
(* The steps of the host. *)

LEMMA ImagesAreNumbers ==
  ASSUME Typed
  PROVE  \A j \in OnTime : images[j] \in Nat
<1>1. images \in Seq(Nat)
  BY DEF Typed
<1>. QED
  BY <1>1, ElementOfSeq DEF OnTime

LEMMA WatchStep ==
  ASSUME RingSafe, Watch
  PROVE  RingSafe'
<1>1. /\ pc # "stream" /\ GetFrameStatus
      /\ UNCHANGED <<device, lastframe, pc, currentframe, request, reading, choice, delivered>>
  BY DEF Watch
<1>2. /\ bufframen' \in [Bufs -> Nat] /\ bufcomplete' \in [Bufs -> BOOLEAN] /\ index' \in Bufs
      /\ \A b \in Bufs : bufframen'[b] <= number'[b]
      /\ \A b \in Bufs : bufcomplete'[b] => bufframen'[b] <= taken'
      /\ bufframen[index] <= bufframen'[index']
      /\ RingInv'
  BY <1>1, Told
<1>3. bufframen[index] \in Nat /\ bufframen'[index'] \in Nat
  BY <1>2 DEF RingSafe, Typed
<1>4. Typed'
  BY <1>1, <1>2 DEF RingSafe, Typed, device, ring, request, reading, choice, delivered
<1>5. StatusInv'
  BY <1>1, <1>2, <1>3 DEF RingSafe, StatusInv, Typed
<1>6. /\ lastframe \in Nat /\ currentframe \in Nat /\ data \in Nat /\ number[chosen] \in Nat
      /\ UNCHANGED <<number, complete, taken, locked, chosen, missed, source, data, lastframe,
                     currentframe, pc, images, late>>
  BY <1>1 DEF RingSafe, Typed, device, ring, reading, choice, delivered
<1>7. ReadInv'
  <2>1. /\ pc = "final" => currentframe <= bufframen'[index']
        /\ pc = "fetch" /\ ~missed => number[chosen] <= bufframen'[index']
        /\ pc \in {"stream", "unlock"} /\ ~missed => data <= bufframen'[index']
    BY SMTT(40), <1>2, <1>3, <1>6 DEF RingSafe, ReadInv
  <2>. QED
    BY <2>1, <1>6 DEF RingSafe, ReadInv, Reading
<1>8. ImageInv'
  <2>1. \A j \in OnTime : images[j] \in Nat
    BY ImagesAreNumbers DEF RingSafe
  <2>2. Acquiring => \A j \in OnTime : images[j] <= bufframen'[index']
    BY <2>1, <1>2, <1>3 DEF RingSafe, ImageInv
  <2>. QED
    BY <2>2, <1>6 DEF RingSafe, ImageInv, Acquiring, Reading, WholeFrames, InOrder, OnTime
<1>. QED
  BY <1>2, <1>4, <1>5, <1>7, <1>8 DEF RingSafe

LEMMA ExposeStep ==
  ASSUME RingSafe, NEW n \in 1 .. MaxSeq, NEW p \in 0 .. MaxPre, Expose(n, p)
  PROVE  RingSafe'
<1>1. /\ pc = "idle" /\ GetFrameStatus /\ lastframe' = bufframen'[index']
      /\ nseq' = n + p /\ preexp' = p /\ expcount' = 0 /\ images' = <<>> /\ late' = {} /\ pc' = "prep"
      /\ UNCHANGED <<device, currentframe, first, reading, newest, choice>>
  BY DEF Expose
<1>2. /\ bufframen' \in [Bufs -> Nat] /\ bufcomplete' \in [Bufs -> BOOLEAN] /\ index' \in Bufs
      /\ \A b \in Bufs : bufframen'[b] <= number'[b]
      /\ \A b \in Bufs : bufcomplete'[b] => bufframen'[b] <= taken'
      /\ RingInv'
  BY <1>1, Told
<1>3. lastframe' \in Nat /\ lastframe' <= number'[index'] /\ number'[index'] \in Nat /\ taken' \in Nat
  BY <1>1, <1>2 DEF RingSafe, Typed, device, ring
<1>4. Typed'
  <2>1. n + p \in Nat /\ p \in Int
    BY FrameRingAssumption
  <2>2. nseq' \in Nat /\ preexp' \in Int /\ expcount' \in Int /\ pc' \in Steps
    BY <1>1, <2>1 DEF Steps
  <2>3. images' \in Seq(Nat)
    BY <1>1
  <2>4. UNCHANGED <<number, complete, pixels, writing, written, taken, todo, locked,
                    currentframe, source, data, newest, chosen, missed>>
    BY <1>1 DEF device, ring, reading, choice
  <2>5. Typed
    BY DEF RingSafe
  <2>6. /\ bufframen' \in [Bufs -> Nat] /\ bufcomplete' \in [Bufs -> BOOLEAN] /\ index' \in Bufs
        /\ lastframe' \in Nat /\ nseq' \in Int
    BY <1>2, <1>3, <2>2
  <2>. QED
    BY <2>2, <2>3, <2>4, <2>5, <2>6 DEF Typed
<1>5. StatusInv'
  BY <1>1, <1>2, <1>3 DEF StatusInv
<1>6. ReadInv'
  BY <1>1 DEF ReadInv, Reading
<1>7. ImageInv'
  BY <1>1 DEF ImageInv, WholeFrames, InOrder, Acquiring, Reading, OnTime
<1>. QED
  BY <1>2, <1>4, <1>5, <1>6, <1>7 DEF RingSafe

LEMMA TriggerStep ==
  ASSUME RingSafe, Trigger
  PROVE  RingSafe'
<1>1. /\ pc = "prep"
      /\ \/ todo = 0 /\ todo' = nseq /\ pc' = "wait"
         \/ todo > 0 /\ pc' = "idle" /\ todo' = todo
      /\ UNCHANGED <<ring, locked, status, lastframe, currentframe, nseq, expcount, preexp,
                     reading, choice, delivered>>
  BY DEF Trigger
<1>2. Typed'
  BY <1>1 DEF RingSafe, Typed, Steps, ring, status, reading, choice, delivered
<1>3. todo' = todo \/ writing = NoBuf
  BY <1>1 DEF RingSafe, RingInv
<1>4. RingInv'
  BY <1>1, <1>3 DEF RingSafe, RingInv, ring
<1>5. StatusInv'
  BY <1>1 DEF RingSafe, StatusInv, ring, status
<1>8. ReadInv'
  BY <1>1 DEF ReadInv, Reading
<1>9. ImageInv'
  BY <1>1 DEF RingSafe, ImageInv, Acquiring, Reading, WholeFrames, InOrder, OnTime, delivered
<1>. QED
  BY <1>2, <1>4, <1>5, <1>8, <1>9 DEF RingSafe

LEMMA PollStep ==
  ASSUME RingSafe, Poll
  PROVE  RingSafe'
<1>1. /\ pc = "wait" /\ (GetFrameStatus \/ UNCHANGED status)
      /\ \/ /\ pc' = "final" /\ currentframe' = bufframen'[index']
            /\ bufframen'[index'] # lastframe /\ bufcomplete'[index']
         \/ pc' = "wait" /\ currentframe' = currentframe
      /\ UNCHANGED <<device, lastframe, request, reading, choice, delivered>>
  BY DEF Poll, NewFrame
<1>2. /\ bufframen' \in [Bufs -> Nat] /\ bufcomplete' \in [Bufs -> BOOLEAN] /\ index' \in Bufs
      /\ \A b \in Bufs : bufframen'[b] <= number'[b]
      /\ \A b \in Bufs : bufcomplete'[b] => bufframen'[b] <= taken'
      /\ bufframen[index] <= bufframen'[index']
      /\ RingInv'
  BY <1>1, Told
<1>3. /\ bufframen[index] \in Nat /\ bufframen'[index'] \in Nat /\ lastframe \in Nat
      /\ lastframe <= bufframen[index] /\ Acquiring /\ Acquiring' /\ ~Reading'
  BY <1>1, <1>2 DEF RingSafe, Typed, StatusInv, Acquiring, Reading
<1>4. Typed'
  BY <1>1, <1>2 DEF RingSafe, Typed, device, ring, request, reading, choice, delivered, Steps
<1>5. StatusInv'
  BY <1>1, <1>2, <1>3 DEF StatusInv
<1>8. pc' = "final" => /\ lastframe < currentframe' /\ currentframe' <= taken'
                       /\ currentframe' = bufframen'[index']
  BY <1>1, <1>2, <1>3
<1>9. ReadInv'
  BY <1>1, <1>2, <1>3, <1>8 DEF ReadInv
<1>10. UNCHANGED <<images, late>> /\ OnTime' = OnTime
  BY <1>1 DEF delivered, OnTime
<1>11. ImageInv'
  <2>1. \A j \in OnTime : /\ images[j] \in Nat /\ images[j] <= bufframen[index]
                          /\ j < Len(images) => images[j] <= lastframe
    <3>1. \A j \in OnTime : images[j] \in Nat
      BY ImagesAreNumbers DEF RingSafe
    <3>. QED
      BY <3>1, <1>3 DEF RingSafe, ImageInv
  <2>2. \A j \in OnTime : images[j] <= bufframen'[index']
    BY <2>1, <1>2, <1>3
  <2>3. pc' = "final" => \A j \in OnTime : j < Len(images) => images[j] < currentframe'
    BY <2>1, <1>2, <1>3, <1>8
  <2>4. WholeFrames' /\ InOrder'
    BY <1>10 DEF RingSafe, ImageInv, WholeFrames, InOrder
  <2>. QED
    BY <2>1, <2>2, <2>3, <2>4, <1>1, <1>3, <1>8, <1>10 DEF ImageInv
<1>. QED
  BY <1>2, <1>4, <1>5, <1>9, <1>11 DEF RingSafe

LEMMA FinalStep ==
  ASSUME RingSafe, Final
  PROVE  RingSafe'
<1>1. /\ pc = "final" /\ GetFrameStatus /\ lastframe' = currentframe
      /\ \/ pc' \in {"wait", "idle"} /\ nseq' = nseq - 1 /\ expcount' = expcount + 1
         \/ pc' = "lock" /\ nseq' = nseq /\ expcount' = expcount
      /\ UNCHANGED <<device, currentframe, preexp, first, reading, choice, delivered>>
  BY DEF Final, Advance
<1>2. /\ bufframen' \in [Bufs -> Nat] /\ bufcomplete' \in [Bufs -> BOOLEAN] /\ index' \in Bufs
      /\ \A b \in Bufs : bufframen'[b] <= number'[b]
      /\ \A b \in Bufs : bufcomplete'[b] => bufframen'[b] <= taken'
      /\ bufframen[index] <= bufframen'[index']
      /\ RingInv'
  BY <1>1, Told
<1>3. UNCHANGED <<number, complete, pixels, writing, written, taken, todo, locked, source, data,
                chosen, missed, images, newest, late>>
  BY <1>1 DEF device, ring, reading, choice, delivered
<1>4. /\ bufframen[index] \in Nat /\ bufframen'[index'] \in Nat /\ currentframe \in Nat /\ taken \in Nat
      /\ lastframe \in Nat
      /\ lastframe < currentframe /\ currentframe <= taken /\ currentframe <= bufframen[index]
  BY <1>1, <1>2 DEF RingSafe, Typed, ReadInv
<1>5. currentframe <= bufframen'[index'] /\ currentframe > 0 /\ taken > 0
  BY <1>2, <1>4
<1>8. Typed'
  <2>1. pc' \in Steps /\ pc' # "prep" /\ nseq' \in Int /\ expcount' \in Int
    <3>1. pc' \in {"wait", "idle", "lock"}
      BY ZenonT(40), <1>1
    <3>2. pc' \in Steps /\ pc' # "prep"
      BY SMTT(40), <3>1 DEF Steps
    <3>3. nseq \in Int /\ expcount \in Int
      BY DEF RingSafe, Typed
    <3>4. nseq' \in {nseq, nseq - 1} /\ expcount' \in {expcount, expcount + 1}
      BY ZenonT(40), <1>1
    <3>. QED
      BY SMTT(40), <3>2, <3>3, <3>4
  <2>2. Typed
    BY DEF RingSafe
  <2>3. bufframen' \in [Bufs -> Nat] /\ bufcomplete' \in [Bufs -> BOOLEAN] /\ index' \in Bufs
    BY <1>2
  <2>. QED
    BY <2>1, <2>2, <2>3, <1>1, <1>3 DEF Typed
<1>9. StatusInv'
  BY <1>1, <1>2, <1>5 DEF StatusInv
<1>10. ReadInv'
  BY <1>1, <1>5 DEF ReadInv, Reading
<1>11. OnTime' = OnTime
  BY <1>3 DEF OnTime
<1>12. ImageInv'
  <2>1. \A j \in OnTime : /\ images[j] \in Nat /\ images[j] <= currentframe
                          /\ j < Len(images) => images[j] < currentframe
    <3>1. \A j \in OnTime : images[j] \in Nat
      BY ImagesAreNumbers DEF RingSafe
    <3>. QED
      BY <3>1, <1>1 DEF RingSafe, ImageInv
  <2>2. \A j \in OnTime : /\ images[j] <= bufframen'[index']
                          /\ j < Len(images) => images[j] <= currentframe
    BY <2>1, <1>4, <1>5, <1>2
  <2>3. WholeFrames' /\ InOrder'
    BY <1>3 DEF RingSafe, ImageInv, WholeFrames, InOrder
  <2>. QED
    BY <2>1, <2>2, <2>3, <1>1, <1>3, <1>11 DEF ImageInv, Reading, Acquiring
<1>. QED
  BY <1>2, <1>8, <1>9, <1>10, <1>12 DEF RingSafe

LEMMA LockStep ==
  ASSUME RingSafe, Lock
  PROVE  RingSafe'
<1>1. /\ pc = "lock"
      /\ \/ locked' = index + 1 /\ pc' = "fetch" /\ index + 1 \in 1 .. Active
         \/ pc' = "idle" /\ locked' = locked
      /\ chosen' = index /\ missed' = ~(complete[index] /\ number[index] = bufframen[index])
      /\ UNCHANGED <<ring, todo, status, lastframe, currentframe, request, reading, delivered>>
  BY DEF Lock, ToLock
<1>2. UNCHANGED <<number, complete, pixels, writing, written, taken, bufframen, bufcomplete,
                   index>>
  BY <1>1 DEF ring, status
<1>3. Typed'
  <2>1. locked' \in 0 .. Active /\ pc' \in Steps
    <3>1. pc' \in {"fetch", "idle"}
      BY ZenonT(40), <1>1
    <3>2. pc' \in Steps
      BY SMTT(40), <3>1 DEF Steps
    <3>3. locked \in 0 .. Active /\ Active \in Nat
      BY Buffers DEF RingSafe, Typed
    <3>4. locked' \in 1 .. Active \/ locked' = locked
      BY ZenonT(40), <1>1
    <3>. QED
      BY SMTT(40), <3>2, <3>3, <3>4
  <2>2. pc' # "prep" /\ UNCHANGED <<nseq, expcount, preexp, source, data, images, newest>>
    BY <1>1 DEF request, reading, delivered
  <2>3. chosen' \in Bufs /\ missed' \in BOOLEAN
    BY <1>1 DEF RingSafe, Typed
  <2>. QED
    BY <2>1, <2>2, <2>3, <1>1, <1>2 DEF RingSafe, Typed
<1>4. RingInv'
  BY <1>1, <1>2 DEF RingSafe, RingInv
<1>5. StatusInv'
  BY <1>1, <1>2 DEF RingSafe, StatusInv
<1>6. ReadInv'
  <2>1. pc' = "fetch" => locked' = chosen' + 1
    BY <1>1
  <2>2. ~missed' => complete[index] /\ number[index] = bufframen[index]
    BY <1>1
  <2>3. lastframe <= bufframen[index] /\ bufframen[index] \in Nat
    BY <1>1 DEF RingSafe, StatusInv, Typed
  <2>4. ~missed' => /\ complete'[chosen'] /\ lastframe' <= number'[chosen']
                   /\ number'[chosen'] <= bufframen'[index']
    BY <2>2, <2>3, <1>1, <1>2
  <2>5. lastframe' > 0
    BY <1>1 DEF RingSafe, ReadInv, Reading
  <2>. QED
    BY <2>1, <2>4, <2>5, <1>1 DEF ReadInv
<1>7. ImageInv'
  BY <1>1, <1>2 DEF RingSafe, ImageInv, Acquiring, Reading, WholeFrames, InOrder, OnTime,
     delivered
<1>. QED
  BY <1>3, <1>4, <1>5, <1>6, <1>7 DEF RingSafe

(* The buffer that is fetched is whole if it is the locked one and was whole
   when the lock came. *)
LEMMA FetchStep ==
  ASSUME RingSafe, Fetch \/ StreamEnd
  PROVE  RingSafe'
<1>1. /\ \/ /\ pc = "fetch" /\ source' = index /\ data' = pixels[index] /\ pc' = "stream"
            /\ missed' = (missed \/ index # chosen)
         \/ pc = "stream" /\ source' = source /\ data' = data /\ pc' = "unlock" /\ missed' = missed
      /\ UNCHANGED <<device, status, lastframe, currentframe, request, chosen, delivered>>
  BY DEF Fetch, StreamEnd, reading, choice
<1>2. UNCHANGED <<number, complete, pixels, writing, written, taken, todo, locked,
                  bufframen, bufcomplete, index, images, newest, late, chosen>>
  BY <1>1 DEF device, ring, status, delivered
<1>3. /\ pixels \in [Bufs -> Nat] /\ index \in Bufs /\ lastframe \in Nat /\ data \in Nat
      /\ bufframen[index] \in Nat
  BY DEF RingSafe, Typed
<1>4. pc = "fetch" /\ ~missed' => /\ ~missed /\ index = chosen /\ complete[chosen]
                                 /\ pixels[index] = number[chosen]
                                 /\ lastframe <= number[chosen] /\ number[chosen] <= bufframen[index]
  <2>1. pc = "fetch" /\ ~missed' => ~missed /\ index = chosen
    BY <1>1
  <2>2. complete[index] => pixels[index] = number[index]
    BY <1>3 DEF RingSafe, RingInv
  <2>. QED
    BY <2>1, <2>2 DEF RingSafe, ReadInv
<1>5. Typed'
  <2>1. source' \in Bufs /\ data' \in Nat /\ pc' \in Steps /\ pc' # "prep" /\ missed' \in BOOLEAN
    BY <1>1, <1>3 DEF Steps, RingSafe, Typed
  <2>2. UNCHANGED <<nseq, expcount, preexp>>
    BY <1>1 DEF request
  <2>. QED
    BY <2>1, <2>2, <1>1, <1>2 DEF RingSafe, Typed
<1>6. RingInv'
  BY <1>1, <1>2 DEF RingSafe, RingInv
<1>7. StatusInv'
  BY <1>1, <1>2 DEF RingSafe, StatusInv
<1>8. ReadInv'
  <2>1. CASE pc = "fetch"
    <3>1. ~missed' => /\ source' = chosen' /\ complete'[chosen'] /\ data' = number'[chosen']
                     /\ lastframe' <= data' /\ data' <= bufframen'[index']
      BY <2>1, <1>1, <1>2, <1>3, <1>4
    <3>2. locked' = chosen' + 1 /\ lastframe' > 0
      BY <2>1, <1>1, <1>2 DEF RingSafe, ReadInv, Reading
    <3>. QED
      BY <3>1, <3>2, <2>1, <1>1 DEF ReadInv
  <2>2. CASE pc = "stream"
    BY <2>2, <1>1, <1>2 DEF RingSafe, ReadInv, Reading
  <2>. QED
    BY <2>1, <2>2, <1>1
<1>9. ImageInv'
  BY <1>1, <1>2 DEF RingSafe, ImageInv, Acquiring, Reading, WholeFrames, InOrder, OnTime
<1>. QED
  BY <1>5, <1>6, <1>7, <1>8, <1>9 DEF RingSafe

LEMMA UnlockStep ==
  ASSUME RingSafe, Unlock
  PROVE  RingSafe'
<1>1. /\ pc = "unlock" /\ locked' = 0 /\ images' = Append(images, data) /\ newest' = data
      /\ late' = (IF missed THEN late \cup {Len(images')} ELSE late)
      /\ nseq' = nseq - 1 /\ pc' \in {"wait", "idle"}
      /\ UNCHANGED <<ring, todo, status, lastframe, currentframe, expcount, preexp, first,
                      reading,
                     choice>>
  BY DEF Unlock, Advance
<1>2. UNCHANGED <<number, complete, pixels, writing, written, taken,
                  bufframen, bufcomplete, index, source, data, chosen, missed>>
  BY <1>1 DEF ring, status, reading, choice
<1>3. /\ images \in Seq(Nat) /\ data \in Nat /\ lastframe \in Nat /\ bufframen[index] \in Nat
      /\ lastframe <= bufframen[index] /\ lastframe > 0 /\ missed \in BOOLEAN
      /\ ~missed => lastframe <= data /\ data <= bufframen[index]
  BY <1>1 DEF RingSafe, Typed, ReadInv, Reading, StatusInv
<1>4. PICK n : n = Len(images)
  OBVIOUS
<1>5. /\ n \in Nat /\ images' \in Seq(Nat) /\ Len(images') = n + 1 /\ DOMAIN images' = 1 .. n + 1
      /\ DOMAIN images = 1 .. n /\ images'[n + 1] = data /\ \A j \in 1 .. n : images'[j] = images[j]
  BY <1>1, <1>3, <1>4, AppendProperties
<1>6. \A j \in (1 .. n) \ late : /\ images[j] # Torn /\ images[j] \in Nat
                                 /\ images[j] <= lastframe /\ (j < n => images[j] < lastframe)
  <2>1. \A j \in 1 .. n : images[j] \in Nat
    BY <1>3, <1>4
  <2>2. \A j \in (1 .. n) \ late : images[j] <= lastframe /\ (j < n => images[j] < lastframe)
    BY <1>1, <1>4 DEF RingSafe, ImageInv, Reading, OnTime
  <2>3. \A j \in (1 .. n) \ late : images[j] # Torn
    BY <1>5 DEF RingSafe, ImageInv, WholeFrames
  <2>. QED
    BY <2>1, <2>2, <2>3
<1>7. /\ OnTime' = (1 .. n + 1) \ late' /\ DOMAIN images' \ late' = (1 .. n + 1) \ late'
      /\ \A j \in (1 .. n + 1) \ late' : \/ (j = n + 1 /\ ~missed)
                                          \/ j \in (1 .. n) \ late
  <2>1. late' = (IF missed THEN late \cup {n + 1} ELSE late)
    BY <1>1, <1>5
  <2>2. \A j \in 1 .. n + 1 : j = n + 1 \/ j \in 1 .. n
    BY <1>5
  <2>. QED
    BY <2>1, <2>2, <1>5 DEF OnTime
<1>8. Typed'
  <2>1. locked' \in 0 .. Active /\ pc' \in Steps /\ pc' # "prep" /\ nseq' \in Int /\ newest' \in Nat
    <3>1. nseq' \in Int /\ newest' \in Nat /\ locked' \in 0 .. Active
      BY <1>1, <1>3, Buffers DEF RingSafe, Typed
    <3>. QED
      BY <3>1, <1>1 DEF Steps
  <2>. QED
    BY <2>1, <1>1, <1>2, <1>5 DEF RingSafe, Typed
<1>9. RingInv'
  BY <1>1, <1>2 DEF RingSafe, RingInv
<1>10. StatusInv'
  BY <1>1, <1>2 DEF RingSafe, StatusInv
<1>11. ReadInv'
  BY <1>1 DEF ReadInv, Reading
<1>12. WholeFrames'
  <2>1. \A j \in (1 .. n + 1) \ late' : images'[j] # Torn
    BY <1>3, <1>5, <1>6, <1>7 DEF Torn
  <2>. QED
    BY <2>1, <1>5 DEF WholeFrames
<1>13. InOrder'
  <2>1. ASSUME NEW j \in (1 .. n + 1) \ late', NEW k \in (1 .. n + 1) \ late', j < k
        PROVE  images'[j] <= images'[k] /\ (k > j + 1 => images'[j] < images'[k])
    <3>1. j \in (1 .. n) \ late
      BY <2>1, <1>5, <1>7
    <3>2. CASE k = n + 1 /\ ~missed
      <4>1. images'[k] = data /\ images'[j] = images[j] /\ images[j] \in Nat
        BY <3>1, <3>2, <1>5, <1>6
      <4>2. images[j] <= lastframe /\ (k > j + 1 => images[j] < lastframe)
        BY <3>1, <3>2, <1>5, <1>6
      <4>. QED
        BY <4>1, <4>2, <3>2, <1>3
    <3>3. CASE k \in (1 .. n) \ late
      BY <3>1, <3>3, <2>1, <1>5 DEF RingSafe, ImageInv, InOrder
    <3>. QED
      BY <3>2, <3>3, <1>7
  <2>. QED
    BY <2>1, <1>7 DEF InOrder
<1>14. \A j \in OnTime' : /\ images'[j] <= bufframen'[index']
                          /\ j < Len(images') => images'[j] <= lastframe'
  <2>1. ASSUME NEW j \in (1 .. n + 1) \ late'
        PROVE  images'[j] <= bufframen[index] /\ (j < n + 1 => images'[j] <= lastframe)
    <3>1. CASE j = n + 1 /\ ~missed
      BY <3>1, <1>3, <1>5
    <3>2. CASE j \in (1 .. n) \ late
      BY <3>2, <1>3, <1>5, <1>6
    <3>. QED
      BY <3>1, <3>2, <1>7
  <2>. QED
    BY <2>1, <1>1, <1>2, <1>5, <1>7
<1>15. ImageInv'
  BY <1>1, <1>12, <1>13, <1>14 DEF ImageInv, Reading
<1>. QED
  BY <1>8, <1>9, <1>10, <1>11, <1>15 DEF RingSafe

LEMMA GiveUpStep ==
  ASSUME RingSafe, GiveUp
  PROVE  RingSafe'
<1>1. /\ pc' = "idle"
      /\ UNCHANGED <<number, complete, pixels, writing, written, taken, todo, locked, lastframe,
                     bufframen, bufcomplete, index, currentframe, nseq, expcount, preexp,
                     source, data, images, newest, late, chosen, missed>>
  BY DEF GiveUp, device, ring, status, request, reading, choice, delivered
<1>2. Typed' /\ RingInv' /\ StatusInv'
  BY <1>1 DEF RingSafe, Typed, RingInv, StatusInv, Steps
<1>3. ReadInv'
  BY <1>1 DEF ReadInv, Reading
<1>4. ImageInv'
  BY <1>1 DEF RingSafe, ImageInv, Acquiring, Reading, WholeFrames, InOrder
<1>. QED
  BY <1>2, <1>3, <1>4 DEF RingSafe

-----------------------------------------------------------------------------
(* The theorems that hold at any pace. *)

LEMMA SafeInit == Init => RingSafe
<1>. SUFFICES ASSUME Init PROVE RingSafe
  OBVIOUS
<1>1. /\ number = [b \in Bufs |-> 0] /\ complete = [b \in Bufs |-> FALSE] /\ pixels = [b \in Bufs |-> 0]
      /\ bufframen = number /\ bufcomplete = complete /\ images = <<>> /\ pc = "idle"
      /\ writing = NoBuf /\ written = Active - 1 /\ taken = 0 /\ todo = 0 /\ locked = 0
      /\ index = 0 /\ lastframe = 0 /\ currentframe = 0 /\ nseq = 0 /\ expcount = 0 /\ preexp = 0
      /\ source = 0 /\ data = 0 /\ newest = 0 /\ chosen = 0 /\ missed = FALSE
  BY DEF Init, Torn
<1>2. Typed
  <2>1. /\ number \in [Bufs -> Nat] /\ complete \in [Bufs -> BOOLEAN] /\ pixels \in [Bufs -> Nat]
        /\ written \in 0 .. Active - 1
    BY <1>1, Buffers
  <2>2. images \in Seq(Nat) /\ 0 \in 0 .. Active
    BY <1>1, Buffers
  <2>. QED
    BY <2>1, <2>2, <1>1, Buffers DEF Typed, Steps
<1>3. RingInv /\ StatusInv
  BY <1>1, Buffers DEF RingInv, StatusInv
<1>4. ReadInv /\ ImageInv
  BY <1>1 DEF ReadInv, ImageInv, Acquiring, Reading, WholeFrames, InOrder
<1>. QED
  BY <1>2, <1>3, <1>4 DEF RingSafe

LEMMA SafeNext == RingSafe /\ [Next]_vars => RingSafe'
<1>. SUFFICES ASSUME RingSafe, [Next]_vars
              PROVE  RingSafe'
  OBVIOUS
<1>1. CASE Controller
  BY <1>1, StartStep, EndStep DEF Controller
<1>2. CASE Host
  BY <1>2, TriggerStep, PollStep, FinalStep, LockStep, FetchStep, UnlockStep DEF Host
<1>3. CASE Watch
  BY <1>3, WatchStep
<1>4. CASE GiveUp
  BY <1>4, GiveUpStep
<1>5. CASE \E n \in 1 .. MaxSeq, p \in 0 .. MaxPre : Expose(n, p)
  BY <1>5, ExposeStep
<1>6. CASE UNCHANGED vars
  <2>1. UNCHANGED <<number, complete, pixels, writing, written, taken, todo, locked, lastframe,
                     pc,
                    bufframen, bufcomplete, index, currentframe, nseq, expcount, preexp,
                    source, data, images, newest, late, chosen, missed>>
    BY <1>6 DEF vars, device, ring, status, request, reading, choice, delivered
  <2>2. Typed' /\ RingInv' /\ StatusInv'
    BY SMTT(40), <2>1 DEF RingSafe, Typed, RingInv, StatusInv
  <2>3. ReadInv' /\ ImageInv'
    BY SMTT(40), <2>1 DEF RingSafe, ReadInv, ImageInv, WholeFrames, InOrder, Acquiring, Reading,
       OnTime
  <2>. QED
    BY <2>2, <2>3 DEF RingSafe
<1>. QED
  BY <1>1, <1>2, <1>3, <1>4, <1>5, <1>6 DEF Next

(* The inductive invariant: at any pace of the controller, a buffer that was
   whole when lock_buffer came is left alone until it is transferred, and what
   the host goes by never gets older. *)
THEOREM RingStaysSafe == Spec => []RingSafe
<1>1. Init => RingSafe
  BY SafeInit
<1>2. RingSafe /\ [Next]_vars => RingSafe'
  BY SafeNext
<1>. QED
  BY <1>1, <1>2, PTL DEF Spec

(* Every image that reaches write_frame is one whole frame, at any pace of the
   controller, with another client asking for the status and any failure of the
   host's commands: except the images that are late, whose buffer was being
   rewritten when the lock came, or is not the one that was locked. *)
THEOREM ImagesAreWhole == Spec => []WholeFrames
<1>1. RingSafe => WholeFrames
  BY DEF RingSafe, ImageInv
<1>2. Spec => []RingSafe
  BY RingStaysSafe
<1>. QED
  BY <1>1, <1>2, PTL

(* The images of a sequence that are not late come in the order the frames were
   taken, none of them more than twice, at any pace of the controller. *)
THEOREM ImagesComeInOrder == Spec => []InOrder
<1>1. RingSafe => InOrder
  BY DEF RingSafe, ImageInv
<1>2. Spec => []RingSafe
  BY RingStaysSafe
<1>. QED
  BY <1>1, <1>2, PTL

-----------------------------------------------------------------------------
(* A controller that keeps pace with the host. *)

(* The controller starts a frame only when the host has noticed the one
   before; all three buffers are in use or nothing fails, so that a buffer
   that stays locked does not take the ring's other half. *)
Steady == Lead <= 1 /\ (Active >= 3 \/ ~MayFail)

(* The newest whole frame is in the ring. *)
NewestInv == taken > 0 => \E b \in Bufs : complete[b] /\ number[b] = taken

(* The controller is at most one frame ahead, and does not write the buffer
   that the host goes by. *)
PaceInv ==
  /\ pc = "prep" => lastframe <= taken + 1 /\ (writing = NoBuf => lastframe <= taken)
  /\ Acquiring => lastframe <= taken
  /\ Acquiring /\ writing # NoBuf => lastframe = taken /\ (taken > 0 => index # writing)

(* A buffer is locked only while its frame is read, unless a command failed. *)
LockInv ==
  ~MayFail => IF pc \in {"fetch", "stream", "unlock"}
              THEN locked # 0 /\ number[locked - 1] >= lastframe
              ELSE locked = 0

(* The buffer that the host is about to lock holds the frame it was told. *)
LockedInv == pc = "lock" => complete[index] /\ number[index] = bufframen[index]

RingInStep == NewestInv /\ PaceInv /\ LockInv /\ LockedInv
RingOrder == RingSafe /\ RingInStep

(* What is left of a sequence; images only come after the pre-exposures. *)
CountInv ==
  /\ taken + todo + (IF pc = "prep" THEN nseq ELSE 0) <= MaxFrames
  /\ pc = "prep" => expcount = 0 /\ nseq - preexp \in 1 .. MaxSeq /\ preexp >= 0
  /\ Acquiring => expcount <= preexp /\ nseq - (preexp - expcount) >= 1
  /\ Reading \/ (Acquiring /\ images # <<>>) => expcount = preexp

(* Without another client the host reads the frame it has noticed, and the
   one it notices after an image is the next one. *)
NextInv ==
  /\ newest <= bufframen[index]
  /\ pc # "idle" /\ images = <<>> => newest <= lastframe
  /\ pc = "wait" /\ images # <<>> => newest = lastframe /\ taken <= lastframe + 1
  /\ pc = "final" => currentframe = taken
  /\ pc = "final" /\ images # <<>> => newest = lastframe /\ taken = lastframe + 1
  /\ Reading => bufframen[index] = lastframe /\ taken <= lastframe + 1
  /\ Reading /\ images = <<>> => newest < lastframe
  /\ Reading /\ images # <<>> => lastframe = newest + 1
  /\ pc \in {"fetch", "stream", "unlock"} => ~missed
  /\ pc = "fetch" => index = chosen

(* A readout that starts overwrites neither the newest frame nor, while the
   host acquires, the buffer it goes by. *)
LEMMA StartsElsewhere ==
  ASSUME Steady, RingOrder, StartReadout
  PROVE  /\ NextBuf(written) \in Bufs /\ NextBuf(written) # NoBuf /\ NextBuf(written) # written
         /\ Acquiring => lastframe = taken
         /\ Acquiring /\ taken > 0 => index = written
<1>1. /\ writing = NoBuf /\ KeepsPace /\ \A b \in Bufs : number[b] <= taken
      /\ written \in 0 .. Active - 1 /\ written \in Bufs /\ locked \in 0 .. Active
      /\ taken \in Nat /\ lastframe \in Nat /\ index \in Bufs /\ number[index] \in Nat
      /\ number \in [Bufs -> Nat]
  BY Buffers DEF StartReadout, RingOrder, RingSafe, RingInv, Typed
<1>2. Acquiring => lastframe = taken
  <2>1. Acquiring => taken + 1 <= lastframe + Lead /\ lastframe <= taken
    BY <1>1 DEF KeepsPace, Acquiring, RingOrder, RingInStep, PaceInv
  <2>. QED
    BY <2>1, <1>1, FrameRingAssumption DEF Steady
<1>3. \A b \in Bufs : number[b] >= taken /\ taken > 0 => b = written
  <2>1. ASSUME NEW b \in Bufs, number[b] >= taken, taken > 0
        PROVE  b = written
    <3>1. number[b] = taken
      <4>1. number[b] \in Nat /\ number[b] <= taken
        BY <1>1
      <4>. QED
        BY <4>1, <1>1, <2>1
    <3>2. number[written] = taken
      BY <1>1, <2>1 DEF RingOrder, RingSafe, RingInv
    <3>. QED
      BY <1>1, <2>1, <3>1, <3>2 DEF RingOrder, RingSafe, RingInv
  <2>. QED
    BY <2>1
<1>4. Acquiring /\ taken > 0 => index = written
  <2>1. ASSUME Acquiring, taken > 0
        PROVE  index = written
    <3>1. lastframe <= bufframen[index] /\ bufframen[index] <= number[index] /\ bufframen[index] \in Nat
      BY <1>1, <2>1 DEF Acquiring, RingOrder, RingSafe, StatusInv, Typed
    <3>2. number[index] >= taken
      BY <3>1, <2>1, <1>1, <1>2
    <3>. QED
      BY <3>2, <2>1, <1>1, <1>3
  <2>. QED
    BY <2>1
<1>5. Active >= 3 \/ locked = 0 \/ locked = written + 1
  <2>1. CASE ~MayFail /\ pc \in {"fetch", "stream", "unlock"}
    <3>1. /\ locked # 0 /\ number[locked - 1] >= lastframe /\ Acquiring /\ lastframe > 0
      BY <2>1 DEF RingOrder, RingSafe, RingInStep, LockInv, ReadInv, Acquiring, Reading
    <3>2. locked - 1 \in Bufs
      BY <3>1, <1>1, Buffers
    <3>3. locked - 1 = written
      BY <3>1, <3>2, <1>1, <1>2, <1>3
    <3>. QED
      BY <3>3, <1>1
  <2>2. CASE ~MayFail /\ pc \notin {"fetch", "stream", "unlock"}
    BY <2>2 DEF RingOrder, RingInStep, LockInv
  <2>. QED
    BY <2>1, <2>2 DEF Steady
<1>. QED
  BY <1>1, <1>2, <1>4, <1>5, NextBufIsOther, Buffers

LEMMA StartInStep ==
  ASSUME Steady, RingOrder, StartReadout
  PROVE  RingInStep'
<1>1. PICK b : b = NextBuf(written)
  OBVIOUS
<1>2. /\ b \in Bufs /\ b # NoBuf /\ b # written
      /\ Acquiring => lastframe = taken
      /\ Acquiring /\ taken > 0 => index = written
  BY <1>1, StartsElsewhere
<1>3. /\ todo > 0 /\ writing = NoBuf /\ writing' = b
      /\ complete' = [complete EXCEPT ![b] = FALSE]
      /\ number' = (IF NumberFirst THEN [number EXCEPT ![b] = taken + 1] ELSE number)
      /\ UNCHANGED <<taken, locked, status, lastframe, pc>>
  BY <1>1 DEF StartReadout
<1>4. /\ number \in [Bufs -> Nat] /\ complete \in [Bufs -> BOOLEAN]
      /\ taken \in Nat /\ lastframe \in Nat /\ index \in Bufs
      /\ \A c \in Bufs : number[c] <= taken /\ number[c] \in Nat
  BY <1>3, Buffers DEF RingOrder, RingSafe, Typed, RingInv
<1>5. /\ \A c \in Bufs : c # b => number'[c] = number[c] /\ complete'[c] = complete[c]
      /\ number'[b] \in {number[b], taken + 1}
  BY <1>2, <1>3, <1>4
<1>6. \A c \in Bufs : number'[c] \in Nat /\ number[c] <= number'[c]
  BY <1>4, <1>5
<1>7. NewestInv'
  <2>1. taken > 0 => number[written] = taken /\ written \in Bufs
    BY <1>3, Buffers DEF RingOrder, RingSafe, RingInv, Typed
  <2>2. taken > 0 => complete[written]
    BY <2>1, <1>3, Buffers DEF RingOrder, RingSafe, RingInv
  <2>. QED
    BY <2>1, <2>2, <1>2, <1>3, <1>5 DEF NewestInv
<1>8. PaceInv'
  BY <1>2, <1>3, <1>4 DEF RingOrder, RingInStep, PaceInv, Acquiring, status
<1>9. LockInv'
  <2>1. \A c \in Bufs : number[c] >= lastframe => number'[c] >= lastframe
    BY <1>4, <1>6
  <2>2. locked # 0 => locked - 1 \in Bufs
    BY Buffers DEF RingOrder, RingSafe, Typed
  <2>. QED
    BY <2>1, <2>2, <1>3 DEF RingOrder, RingInStep, LockInv
<1>10. LockedInv'
  <2>1. pc = "lock" => index # b
    BY <1>2, <1>4 DEF Reading, Acquiring, RingOrder, RingSafe, ReadInv
  <2>. QED
    BY <2>1, <1>3, <1>4, <1>5 DEF RingOrder, RingInStep, LockedInv, status
<1>. QED
  BY <1>7, <1>8, <1>9, <1>10 DEF RingInStep

LEMMA EndInStep ==
  ASSUME RingOrder, EndReadout
  PROVE  RingInStep'
<1>1. PICK b : b = writing
  OBVIOUS
<1>2. b \in Bufs /\ b # NoBuf /\ ~complete[b] /\ taken \in Nat /\ NoBuf \notin Bufs
  BY <1>1, Buffers DEF RingOrder, RingSafe, Typed, RingInv, EndReadout
<1>3. /\ taken' = taken + 1 /\ writing' = NoBuf
      /\ number' = [number EXCEPT ![b] = taken + 1] /\ complete' = [complete EXCEPT ![b] = TRUE]
      /\ UNCHANGED <<locked, status, lastframe, pc>>
  BY <1>1 DEF EndReadout
<1>4. /\ number \in [Bufs -> Nat] /\ complete \in [Bufs -> BOOLEAN]
      /\ lastframe \in Nat /\ index \in Bufs /\ \A c \in Bufs : number[c] \in Nat
      /\ number[b] <= taken + 1
  <2>1. /\ number \in [Bufs -> Nat] /\ complete \in [Bufs -> BOOLEAN]
        /\ lastframe \in Nat /\ index \in Bufs
    BY DEF RingOrder, RingSafe, Typed
  <2>2. number[b] <= taken \/ number[b] = taken + 1
    BY <1>2 DEF RingOrder, RingSafe, RingInv
  <2>. QED
    BY <2>1, <2>2, <1>2
<1>5. /\ \A c \in Bufs : c # b => number'[c] = number[c] /\ complete'[c] = complete[c]
      /\ number'[b] = taken + 1 /\ complete'[b] = TRUE
  BY <1>2, <1>3, <1>4
<1>6. \A c \in Bufs : number'[c] \in Nat /\ number[c] <= number'[c]
  BY <1>2, <1>4, <1>5
<1>7. NewestInv'
  BY <1>2, <1>3, <1>5 DEF NewestInv
<1>8. PaceInv'
  BY <1>1, <1>2, <1>3, <1>4 DEF RingOrder, RingInStep, PaceInv, Acquiring, status
<1>9. LockInv'
  <2>1. \A c \in Bufs : number[c] >= lastframe => number'[c] >= lastframe
    BY <1>4, <1>6
  <2>2. locked # 0 => locked - 1 \in Bufs
    BY Buffers DEF RingOrder, RingSafe, Typed
  <2>. QED
    BY <2>1, <2>2, <1>3 DEF RingOrder, RingInStep, LockInv
<1>10. LockedInv'
  BY <1>2, <1>3, <1>4, <1>5 DEF RingOrder, RingInStep, LockedInv, status
<1>. QED
  BY <1>7, <1>8, <1>9, <1>10 DEF RingInStep

(* Unless the current buffer is being written, a status finds the newest whole
   frame. *)
LEMMA Chosen ==
  ASSUME Typed, RingInv, NewestInv, GetFrameStatus, taken > 0, index # writing
  PROVE  index' \in Bufs /\ complete[index'] /\ number[index'] = taken
<1>1. /\ number \in [Bufs -> Nat] /\ index \in Bufs /\ taken \in Nat
      /\ \A b \in Bufs : number[b] \in Nat /\ (complete[b] => number[b] <= taken)
  BY ZenonT(40), Buffers DEF Typed, RingInv
<1>2. PICK w \in Bufs : complete[w] /\ number[w] = taken
  BY DEF NewestInv
<1>3. CASE Newer = {}
  <2>1. index' = index
    BY <1>1, <1>2, <1>3 DEF GetFrameStatus
  <2>2. number[index] >= taken
    BY <1>1, <1>2, <1>3 DEF Newer
  <2>3. complete[index]
    BY <2>2, <1>1 DEF RingInv
  <2>. QED
    BY <2>1, <2>2, <2>3, <1>1
<1>4. CASE Newer # {}
  <2>1. index' = CHOOSE b \in Newer : \A c \in Newer : number[c] <= number[b]
    BY <1>1, <1>2, <1>4 DEF GetFrameStatus
  <2>2. PICK x \in Newer : TRUE
    BY <1>4
  <2>3. x \in Bufs /\ number[x] > number[index] /\ number[x] <= taken
    BY <2>2, <1>1 DEF Newer
  <2>4. w \in Newer /\ \A c \in Newer : number[c] <= number[w]
    BY <2>3, <1>1, <1>2 DEF Newer
  <2>5. index' \in Newer /\ \A c \in Newer : number[c] <= number[index']
    BY <2>1, <2>4
  <2>6. number[index'] >= taken /\ index' \in Bufs /\ complete[index']
    BY <2>4, <2>5, <1>2 DEF Newer
  <2>. QED
    BY <2>6, <1>1
<1>. QED
  BY <1>3, <1>4

(* The newest whole frame is the one a status finds while the host acquires. *)
LEMMA FindsNewest ==
  ASSUME RingOrder, GetFrameStatus, Acquiring, taken > 0
  PROVE  bufframen'[index'] = taken /\ complete[index'] /\ (writing # NoBuf => index' # writing)
<1>1. index # writing
  BY Buffers DEF RingOrder, RingSafe, RingInStep, PaceInv, Typed
<1>2. index' \in Bufs /\ complete[index'] /\ number[index'] = taken
  BY <1>1, Chosen DEF RingOrder, RingSafe, RingInStep
<1>. QED
  BY <1>2 DEF GetFrameStatus, RingOrder, RingSafe, RingInv

(* A status, without more, leaves the ring in step. *)
LEMMA ToldInStep ==
  ASSUME RingOrder, GetFrameStatus \/ UNCHANGED status,
         UNCHANGED <<number, complete, writing, taken>>
  PROVE  /\ NewestInv'
         /\ Acquiring /\ writing # NoBuf /\ taken > 0 => index' # writing
<1>1. NewestInv'
  BY DEF RingOrder, RingInStep, NewestInv
<1>2. Acquiring /\ writing # NoBuf /\ taken > 0 => index' # writing
  BY FindsNewest DEF RingOrder, RingInStep, PaceInv, status
<1>. QED
  BY <1>1, <1>2

LEMMA WatchInStep ==
  ASSUME RingOrder, Watch
  PROVE  RingInStep'
<1>1. /\ GetFrameStatus /\ UNCHANGED <<number, complete, writing, taken, locked, lastframe, pc>>
  BY DEF Watch, device, ring
<1>2. NewestInv' /\ (Acquiring /\ writing # NoBuf /\ taken > 0 => index' # writing)
  BY <1>1, ToldInStep
<1>3. PaceInv' /\ LockInv'
  BY <1>1, <1>2 DEF RingOrder, RingInStep, PaceInv, LockInv, Acquiring
<1>4. LockedInv'
  <2>1. pc = "lock" => Acquiring /\ taken > 0
    BY DEF RingOrder, RingSafe, RingInStep, LockedInv, RingInv, Typed, Acquiring
  <2>2. pc = "lock" => complete[index'] /\ number[index'] = bufframen'[index']
    BY <2>1, <1>1, FindsNewest DEF GetFrameStatus
  <2>. QED
    BY <2>2, <1>1 DEF LockedInv
<1>. QED
  BY <1>2, <1>3, <1>4 DEF RingInStep

LEMMA ExposeInStep ==
  ASSUME RingOrder, NEW n \in 1 .. MaxSeq, NEW p \in 0 .. MaxPre, Expose(n, p)
  PROVE  RingInStep'
<1>1. /\ pc = "idle" /\ GetFrameStatus /\ lastframe' = bufframen'[index'] /\ pc' = "prep"
      /\ UNCHANGED device /\ UNCHANGED <<number, complete, writing, taken, locked>>
  BY DEF Expose, device, ring
<1>2. NewestInv'
  BY <1>1, ToldInStep
<1>3. /\ index' \in Bufs /\ RingInv' /\ bufframen'[index'] = number'[index']
      /\ number'[index'] \in Nat /\ taken' \in Nat
  BY <1>1, Told DEF RingOrder, RingSafe, Typed, GetFrameStatus
<1>4. PaceInv'
  <2>1. number'[index'] <= taken' \/ (index' = writing' /\ number'[index'] = taken' + 1)
    BY <1>3 DEF RingInv
  <2>2. lastframe' <= taken' + 1
    BY <2>1, <1>1, <1>3
  <2>3. writing' = NoBuf => lastframe' <= taken'
    BY <2>1, <1>1, <1>3, Buffers
  <2>. QED
    BY <2>2, <2>3, <1>1 DEF PaceInv, Acquiring
<1>5. LockInv' /\ LockedInv'
  BY <1>1 DEF RingOrder, RingInStep, LockInv, LockedInv
<1>. QED
  BY <1>2, <1>4, <1>5 DEF RingInStep

LEMMA PollInStep ==
  ASSUME RingOrder, Poll
  PROVE  RingInStep'
<1>1. /\ pc = "wait" /\ (GetFrameStatus \/ UNCHANGED status) /\ pc' \in {"wait", "final"}
      /\ UNCHANGED <<number, complete, writing, taken, locked, lastframe>>
  BY DEF Poll, device, ring
<1>2. NewestInv' /\ (Acquiring /\ writing # NoBuf /\ taken > 0 => index' # writing)
  BY <1>1, ToldInStep
<1>3. PaceInv'
  BY <1>1, <1>2 DEF RingOrder, RingInStep, PaceInv, Acquiring
<1>4. LockInv' /\ LockedInv'
  BY <1>1 DEF RingOrder, RingInStep, LockInv, LockedInv
<1>. QED
  BY <1>2, <1>3, <1>4 DEF RingInStep

LEMMA FinalInStep ==
  ASSUME RingOrder, Final
  PROVE  RingInStep'
<1>1. /\ pc = "final" /\ GetFrameStatus /\ lastframe' = currentframe
      /\ pc' \in {"wait", "idle", "lock"} /\ Acquiring
      /\ UNCHANGED <<number, complete, writing, taken, locked>>
  BY DEF Final, Advance, Acquiring, device, ring
<1>2. NewestInv'
  BY <1>1, ToldInStep
<1>3. /\ lastframe < currentframe /\ currentframe <= taken
      /\ lastframe \in Nat /\ currentframe \in Nat /\ taken \in Nat
  BY <1>1 DEF RingOrder, RingSafe, Typed, ReadInv
<1>4. writing = NoBuf
  BY <1>1, <1>3 DEF RingOrder, RingInStep, PaceInv
<1>5. PaceInv'
  BY <1>1, <1>3, <1>4 DEF PaceInv, Acquiring
<1>6. LockInv'
  BY <1>1 DEF RingOrder, RingInStep, LockInv
<1>7. LockedInv'
  BY <1>1, <1>3, FindsNewest DEF LockedInv, GetFrameStatus
<1>. QED
  BY <1>2, <1>5, <1>6, <1>7 DEF RingInStep

LEMMA LockInStep ==
  ASSUME RingOrder, Lock
  PROVE  RingInStep'
<1>1. /\ pc = "lock"
      /\ \/ locked' = index + 1 /\ pc' = "fetch" /\ index + 1 \in 1 .. Active
         \/ pc' = "idle" /\ locked' = locked
      /\ UNCHANGED <<number, complete, writing, taken, bufframen, index, lastframe>>
  BY DEF Lock, ToLock, ring, status
<1>2. NewestInv' /\ PaceInv' /\ LockedInv'
  BY <1>1 DEF RingOrder, RingInStep, NewestInv, PaceInv, LockedInv, Acquiring
<1>3. LockInv'
  <2>1. /\ number[index] = bufframen[index] /\ lastframe <= bufframen[index] /\ index \in Nat
        /\ lastframe \in Nat /\ number[index] \in Nat
    BY <1>1, Buffers DEF RingOrder, RingSafe, RingInStep, LockedInv, StatusInv, Typed
  <2>2. pc' = "fetch" => locked' # 0 /\ number'[locked' - 1] >= lastframe'
    BY <2>1, <1>1
  <2>3. ~MayFail => locked = 0
    BY <1>1 DEF RingOrder, RingInStep, LockInv
  <2>. QED
    BY <2>2, <2>3, <1>1 DEF LockInv
<1>. QED
  BY <1>2, <1>3 DEF RingInStep

(* The steps that neither look at the ring nor change it. *)
LEMMA OthersInStep ==
  ASSUME RingOrder, Trigger \/ Fetch \/ StreamEnd \/ Unlock \/ GiveUp \/ UNCHANGED vars
  PROVE  RingInStep'
<1>1. UNCHANGED <<number, complete, writing, taken, bufframen, index, lastframe>>
  BY DEF Trigger, Fetch, StreamEnd, Unlock, GiveUp, vars, device, ring, status
<1>2. NewestInv'
  BY <1>1 DEF RingOrder, RingInStep, NewestInv
<1>3. CASE Trigger
  <2>1. pc = "prep" /\ (pc' = "idle" \/ (pc' = "wait" /\ todo = 0)) /\ locked' = locked
    BY <1>3 DEF Trigger
  <2>2. todo = 0 => writing = NoBuf
    BY DEF RingOrder, RingSafe, RingInv
  <2>3. PaceInv'
    BY <2>1, <2>2, <1>1 DEF RingOrder, RingInStep, PaceInv, Acquiring
  <2>. QED
    BY <2>1, <2>3, <1>1, <1>2 DEF RingOrder, RingInStep, LockInv, LockedInv
<1>4. CASE Fetch \/ StreamEnd
  <2>1. /\ pc \in {"fetch", "stream"} /\ pc' \in {"stream", "unlock"} /\ locked' = locked
    BY <1>4 DEF Fetch, StreamEnd, device
  <2>. QED
    BY <2>1, <1>1, <1>2 DEF RingOrder, RingInStep, PaceInv, LockInv, LockedInv, Acquiring
<1>5. CASE Unlock
  <2>1. pc = "unlock" /\ pc' \in {"wait", "idle"} /\ locked' = 0
    BY <1>5 DEF Unlock, Advance
  <2>. QED
    BY <2>1, <1>1, <1>2 DEF RingOrder, RingInStep, PaceInv, LockInv, LockedInv, Acquiring
<1>6. CASE GiveUp
  <2>1. MayFail /\ pc' = "idle"
    BY <1>6 DEF GiveUp
  <2>. QED
    BY <2>1, <1>2 DEF RingInStep, PaceInv, LockInv, LockedInv, Acquiring
<1>7. CASE UNCHANGED vars
  <2>1. pc' = pc /\ locked' = locked
    BY <1>7 DEF vars, device
  <2>. QED
    BY <2>1, <1>1, <1>2 DEF RingOrder, RingInStep, PaceInv, LockInv, LockedInv, Acquiring
<1>. QED
  BY <1>3, <1>4, <1>5, <1>6, <1>7

LEMMA OrderInit == Init => RingOrder
<1>. SUFFICES ASSUME Init PROVE RingOrder
  OBVIOUS
<1>1. pc = "idle" /\ taken = 0 /\ locked = 0
  BY DEF Init
<1>2. RingInStep
  BY <1>1 DEF RingInStep, NewestInv, PaceInv, LockInv, LockedInv, Acquiring
<1>. QED
  BY <1>2, SafeInit DEF RingOrder

LEMMA OrderNext == Steady /\ RingOrder /\ [Next]_vars => RingOrder'
<1>. SUFFICES ASSUME Steady, RingOrder, [Next]_vars
              PROVE  RingOrder'
  OBVIOUS
<1>1. RingSafe'
  BY SafeNext DEF RingOrder
<1>2. RingInStep'
  BY StartInStep, EndInStep, WatchInStep, ExposeInStep, PollInStep, FinalInStep, LockInStep,
     OthersInStep DEF Next, Controller, Host
<1>. QED
  BY <1>1, <1>2 DEF RingOrder

-----------------------------------------------------------------------------
(* The refinement of ImageSequence, when no other client asks for status. *)

LEMMA CountInit == Init => CountInv
  BY FrameRingAssumption DEF Init, CountInv, Acquiring, Reading

LEMMA CountStep ==
  ASSUME RingOrder, CountInv, [Next]_vars
  PROVE  CountInv'
<1>1. /\ taken \in Nat /\ todo \in Nat /\ nseq \in Int /\ expcount \in Int /\ preexp \in Int
      /\ pc = "prep" => nseq \in Nat
      /\ writing # NoBuf => todo > 0
      /\ pc = "prep" => images = <<>>
  BY DEF RingOrder, RingSafe, Typed, RingInv, ImageInv
<1>2. CASE StartReadout \/ Watch \/ UNCHANGED vars
  <2>1. UNCHANGED <<taken, todo, nseq, expcount, preexp, pc, images>>
    BY <1>2 DEF StartReadout, Watch, vars, device, ring, request, delivered
  <2>. QED
    BY <2>1 DEF CountInv, Acquiring, Reading
<1>3. CASE EndReadout
  <2>1. /\ taken' = taken + 1 /\ todo' = todo - 1
        /\ UNCHANGED <<nseq, expcount, preexp, pc, images>>
    BY <1>3 DEF EndReadout, request, delivered
  <2>. QED
    BY <2>1, <1>1 DEF CountInv, Acquiring, Reading
<1>4. CASE Trigger
  <2>1. /\ pc = "prep"
        /\ \/ todo = 0 /\ todo' = nseq /\ pc' = "wait"
           \/ todo > 0 /\ pc' = "idle" /\ todo' = todo
        /\ UNCHANGED <<taken, nseq, expcount, preexp, images>>
    BY <1>4 DEF Trigger, ring, delivered
  <2>2. /\ expcount = 0 /\ nseq - preexp >= 1 /\ preexp >= 0 /\ images = <<>>
        /\ taken + todo + nseq <= MaxFrames /\ nseq >= 0
    BY <2>1, <1>1 DEF CountInv
  <2>3. taken' + todo' <= MaxFrames
    BY <2>1, <2>2, <1>1, FrameRingAssumption
  <2>. QED
    BY <2>1, <2>2, <2>3, <1>1 DEF CountInv, Acquiring, Reading
<1>5. CASE Poll \/ GiveUp \/ Lock \/ Fetch \/ StreamEnd
  <2>1. /\ Acquiring /\ pc' # "prep" /\ (Reading' => Reading)
        /\ UNCHANGED <<taken, todo, nseq, expcount, preexp, images>>
    BY <1>5 DEF Poll, GiveUp, Lock, Fetch, StreamEnd, device, ring, request, delivered,
       Acquiring, Reading
  <2>. QED
    BY <2>1, <1>1 DEF CountInv, Acquiring
<1>6. CASE Final
  <2>1. /\ pc = "final" /\ UNCHANGED <<taken, todo, preexp, images>>
        /\ \/ /\ expcount < preexp /\ expcount' = expcount + 1
              /\ nseq' = nseq - 1 /\ pc' \in {"wait", "idle"}
           \/ /\ ~(expcount < preexp) /\ expcount' = expcount /\ nseq' = nseq /\ pc' = "lock"
    BY <1>6 DEF Final, Advance, device, ring, delivered
  <2>2. expcount < preexp => images = <<>>
    BY <2>1, <1>1 DEF CountInv, Acquiring
  <2>. QED
    BY <2>1, <2>2, <1>1 DEF CountInv, Acquiring, Reading
<1>7. CASE Unlock
  <2>1. /\ pc = "unlock" /\ UNCHANGED <<taken, todo, preexp, expcount>>
        /\ nseq' = nseq - 1 /\ pc' = IF nseq > 1 THEN "wait" ELSE "idle"
    BY <1>7 DEF Unlock, Advance, ring
  <2>. QED
    BY <2>1, <1>1 DEF CountInv, Acquiring, Reading
<1>8. CASE \E n \in 1 .. MaxSeq, p \in 0 .. MaxPre : Expose(n, p)
  <2>1. PICK n \in 1 .. MaxSeq, p \in 0 .. MaxPre : Expose(n, p)
    BY <1>8
  <2>2. /\ taken + todo + n + p <= MaxFrames /\ pc' = "prep"
        /\ nseq' = n + p /\ preexp' = p /\ expcount' = 0 /\ UNCHANGED <<taken, todo>>
    BY <2>1 DEF Expose, device, ring
  <2>3. taken' + todo' + nseq' <= MaxFrames /\ nseq' - preexp' \in 1 .. MaxSeq /\ preexp' >= 0
    BY <2>2, <1>1, FrameRingAssumption
  <2>. QED
    BY <2>2, <2>3 DEF CountInv, Acquiring, Reading
<1>. QED
  BY <1>2, <1>3, <1>4, <1>5, <1>6, <1>7, <1>8 DEF Next, Controller, Host

LEMMA NextStep ==
  ASSUME ~Watched, RingOrder, CountInv, NextInv, [Next]_vars
  PROVE  NextInv'
<1>1. /\ taken \in Nat /\ lastframe \in Nat /\ currentframe \in Nat /\ newest \in Nat /\ data \in Nat
      /\ bufframen[index] \in Nat /\ images \in Seq(Nat)
  BY DEF RingOrder, RingSafe, Typed
<1>2. CASE StartReadout \/ UNCHANGED vars
  <2>1. UNCHANGED <<taken, lastframe, currentframe, newest, bufframen, index, pc, images,
                     chosen, missed>>
    BY <1>2 DEF StartReadout, vars, device, ring, status, choice, delivered
  <2>. QED
    BY <2>1 DEF NextInv, Reading
<1>3. CASE EndReadout
  <2>1. /\ writing # NoBuf /\ taken' = taken + 1
        /\ UNCHANGED <<lastframe, currentframe, newest, bufframen, index, pc, images, chosen,
                        missed>>
    BY <1>3 DEF EndReadout, status, choice, delivered
  <2>2. Acquiring => lastframe = taken
    BY <2>1 DEF RingOrder, RingInStep, PaceInv
  <2>3. pc # "final"
    BY <2>2, <1>1 DEF RingOrder, RingSafe, ReadInv, Acquiring
  <2>. QED
    BY <2>1, <2>2, <2>3, <1>1 DEF NextInv, Reading, Acquiring
<1>4. CASE Trigger \/ GiveUp
  <2>1. /\ pc' \in {"wait", "idle"} /\ (pc' = "wait" => images = <<>> /\ pc = "prep")
        /\ UNCHANGED <<taken, lastframe, currentframe, newest, bufframen, index, images>>
    BY <1>4 DEF Trigger, GiveUp, device, ring, status, delivered, RingOrder, RingSafe, ImageInv
  <2>. QED
    BY <2>1 DEF NextInv, Reading
<1>5. CASE Lock \/ Fetch \/ StreamEnd
  <2>1. /\ Reading /\ (pc' = "idle" \/ Reading') /\ pc' \notin {"wait", "final", "lock"}
        /\ UNCHANGED <<taken, lastframe, currentframe, newest, bufframen, index, images>>
    BY <1>5 DEF Lock, Fetch, StreamEnd, device, ring, status, delivered, Reading
  <2>2. pc # "idle"
    BY <2>1 DEF Reading
  <2>3. pc' \in {"fetch", "stream", "unlock"} => ~missed'
    <3>1. CASE Lock
      BY <3>1 DEF Lock, RingOrder, RingInStep, LockedInv
    <3>2. CASE Fetch
      BY <3>2 DEF Fetch, NextInv
    <3>3. CASE StreamEnd
      BY <3>3 DEF StreamEnd, NextInv, choice
    <3>. QED
      BY <3>1, <3>2, <3>3, <1>5
  <2>4. pc' = "fetch" => index' = chosen'
    BY <1>5, <2>1 DEF Lock, Fetch, StreamEnd
  <2>. QED
    BY <2>1, <2>2, <2>3, <2>4 DEF NextInv
<1>6. CASE Poll
  <2>1. /\ pc = "wait" /\ GetFrameStatus /\ Acquiring
        /\ \/ /\ pc' = "final" /\ currentframe' = bufframen'[index']
              /\ bufframen'[index'] # lastframe /\ bufcomplete'[index']
           \/ pc' = "wait" /\ currentframe' = currentframe
        /\ UNCHANGED <<device, taken, lastframe, newest, images>>
    BY <1>6 DEF Poll, NewFrame, Acquiring, device, ring, delivered
  <2>2. /\ index' \in Bufs /\ bufframen' \in [Bufs -> Nat]
        /\ \A b \in Bufs : bufcomplete'[b] => bufframen'[b] <= taken'
        /\ bufframen[index] <= bufframen'[index'] /\ lastframe <= bufframen[index]
    BY <2>1, Told DEF RingOrder, RingSafe, StatusInv
  <2>3. bufframen'[index'] \in Nat
    BY <2>2
  <2>4. newest <= bufframen'[index']
    BY <2>2, <2>3, <1>1 DEF NextInv
  <2>5. pc' = "final" => currentframe' = taken /\ lastframe < taken
    <3>1. pc' = "final" => lastframe < bufframen'[index'] /\ bufframen'[index'] <= taken /\ taken > 0
      BY <2>1, <2>2, <2>3, <1>1
    <3>. QED
      BY <3>1, <2>1, FindsNewest
  <2>6. ~Reading'
    BY <2>1 DEF Reading
  <2>7. images # <<>> => newest = lastframe /\ taken <= lastframe + 1
    BY <2>1 DEF NextInv
  <2>8. images = <<>> => newest <= lastframe
    BY <2>1 DEF NextInv
  <2>9. pc' = "final" /\ images # <<>> => taken = lastframe + 1
    BY <2>5, <2>7, <1>1
  <2>. QED
    BY <2>1, <2>4, <2>5, <2>6, <2>7, <2>8, <2>9 DEF NextInv
<1>7. CASE Final
  <2>1. /\ pc = "final" /\ GetFrameStatus /\ Acquiring /\ lastframe' = currentframe
        /\ pc' \in {"wait", "idle", "lock"} /\ (pc' = "wait" => expcount < preexp)
        /\ UNCHANGED <<device, taken, currentframe, newest, images>>
    BY <1>7 DEF Final, Advance, Acquiring, device, ring, delivered
  <2>2. currentframe = taken /\ lastframe < taken /\ taken > 0
    BY <2>1, <1>1 DEF NextInv, RingOrder, RingSafe, ReadInv
  <2>3. bufframen'[index'] = taken
    BY <2>1, <2>2, FindsNewest
  <2>4. bufframen[index] <= taken
    BY <2>1, <2>3, Told DEF RingOrder
  <2>5. newest <= taken
    BY <2>4, <1>1 DEF NextInv
  <2>6. pc' = "wait" => images = <<>>
    BY <2>1, <1>1 DEF CountInv, RingOrder, RingSafe, Typed
  <2>7. images = <<>> => newest < taken
    BY <2>1, <2>2, <1>1 DEF NextInv
  <2>8. images # <<>> => taken = newest + 1
    BY <2>1 DEF NextInv
  <2>. QED
    BY <2>1, <2>2, <2>3, <2>5, <2>6, <2>7, <2>8, <1>1 DEF NextInv, Reading
<1>8. CASE Unlock
  <2>1. /\ pc = "unlock" /\ pc' \in {"wait",
                            "idle"} /\ newest' = data /\ images' = Append(images, data)
        /\ UNCHANGED <<taken, lastframe, currentframe, bufframen, index>>
    BY <1>8 DEF Unlock, Advance, ring, status
  <2>2. bufframen[index] = lastframe /\ taken <= lastframe + 1 /\ data = lastframe
    BY <2>1, <1>1 DEF NextInv, Reading, RingOrder, RingSafe, ReadInv
  <2>3. images' # <<>>
    BY <2>1, <1>1
  <2>. QED
    BY <2>1, <2>2, <2>3, <1>1 DEF NextInv, Reading
<1>9. CASE \E n \in 1 .. MaxSeq, p \in 0 .. MaxPre : Expose(n, p)
  <2>1. /\ pc' = "prep" /\ GetFrameStatus /\ lastframe' = bufframen'[index']
        /\ UNCHANGED <<device, newest>>
    BY <1>9 DEF Expose
  <2>2. bufframen[index] <= bufframen'[index'] /\ bufframen' \in [Bufs -> Nat] /\ index' \in Bufs
    BY <2>1, Told DEF RingOrder
  <2>3. newest <= bufframen'[index']
    <3>1. bufframen'[index'] \in Nat
      BY <2>2
    <3>. QED
      BY <3>1, <2>2, <1>1 DEF NextInv
  <2>. QED
    BY <2>1, <2>3 DEF NextInv, Reading
<1>. QED
  BY <1>2, <1>3, <1>4, <1>5, <1>6, <1>7, <1>8, <1>9 DEF Next, Controller, Host, Watch

(* Every step of expose is a step of ImageSequence, or none. *)
LEMMA SequenceStep ==
  ASSUME RingOrder, CountInv, NextInv, [Next]_vars
  PROVE  [Abstract!Next]_(Abstract!vars)
<1>1. /\ taken \in Nat /\ todo \in Nat /\ lastframe \in Nat /\ newest \in Nat /\ data \in Nat
      /\ nseq \in Int /\ expcount \in Int /\ preexp \in Int /\ images \in Seq(Nat)
  BY DEF RingOrder, RingSafe, Typed
<1>2. CASE StartReadout \/ EndReadout \/ Watch \/ Poll \/ Fetch \/ StreamEnd \/ UNCHANGED vars
  <2>1. /\ UNCHANGED <<nseq, expcount, preexp, images, newest>>
        /\ (pc \in {"idle", "prep"}) <=> (pc' \in {"idle", "prep"})
    BY <1>2 DEF StartReadout, EndReadout, Watch, Poll, Fetch, StreamEnd, vars, request, delivered
  <2>. QED
    BY <2>1 DEF Owed, Abstract!vars
<1>3. CASE Trigger
  <2>1. /\ pc = "prep" /\ UNCHANGED <<nseq, expcount, preexp, images, newest>>
        /\ pc' \in {"wait", "idle"} /\ images = <<>>
    BY <1>3 DEF Trigger, delivered, RingOrder, RingSafe, ImageInv
  <2>2. CASE pc' = "idle"
    BY <2>1, <2>2 DEF Owed, Abstract!vars
  <2>3. CASE pc' = "wait"
    <3>1. PICK n \in 1 .. MaxSeq : n = nseq - preexp
      BY <2>1 DEF CountInv
    <3>2. expcount = 0
      BY <2>1 DEF CountInv
    <3>3. Owed = 0 /\ Owed' = n
      BY <2>1, <2>3, <3>1, <3>2, <1>1 DEF Owed
    <3>4. Abstract!Begin(n)
      BY <3>3, <2>1 DEF Abstract!Begin
    <3>. QED
      BY <3>4 DEF Abstract!Next
  <2>. QED
    BY <2>1, <2>2, <2>3
<1>4. CASE (Final \/ Lock) /\ pc' # "idle"
  <2>1. /\ UNCHANGED <<preexp, images, newest>> /\ pc \notin {"idle", "prep"}
        /\ pc' \in {"wait", "lock", "fetch"}
        /\ \/ expcount' = expcount + 1 /\ nseq' = nseq - 1
           \/ expcount' = expcount /\ nseq' = nseq
    BY <1>4 DEF Final, Lock, Advance, request, delivered
  <2>2. Owed' = Owed
    BY <2>1, <1>1 DEF Owed
  <2>. QED
    BY <2>1, <2>2 DEF Abstract!vars
<1>5. CASE (Final \/ Lock \/ GiveUp) /\ pc' = "idle"
  <2>1. UNCHANGED <<images, newest>> /\ Owed' = 0
    BY <1>5 DEF Final, Lock, GiveUp, Owed, delivered
  <2>. QED
    BY <2>1 DEF Abstract!Next, Abstract!GiveUp
<1>6. CASE Unlock
  <2>1. /\ pc = "unlock" /\ images' = Append(images, data) /\ newest' = data
        /\ nseq' = nseq - 1 /\ pc' = (IF nseq > 1 THEN "wait" ELSE "idle")
        /\ UNCHANGED <<expcount, preexp>>
    BY <1>6 DEF Unlock, Advance
  <2>2. expcount = preexp /\ nseq >= 1
    BY <2>1, <1>1 DEF CountInv, Reading, Acquiring
  <2>3. Owed = nseq /\ Owed' = nseq - 1
    BY <2>1, <2>2, <1>1 DEF Owed
  <2>4. data = lastframe /\ lastframe > 0 /\ lastframe <= taken
    BY <2>1, <1>1 DEF NextInv, RingOrder, RingSafe, RingInStep, ReadInv, PaceInv, Reading,
       Acquiring
  <2>5. data \in 1 .. MaxFrames
    BY <2>1, <2>4, <1>1, FrameRingAssumption DEF CountInv
  <2>6. IF images = <<>> THEN data > newest ELSE data = newest + 1
    BY <2>1, <2>4, <1>1 DEF NextInv, Reading
  <2>7. Abstract!Deliver(data)
    BY <2>1, <2>2, <2>3, <2>6, <1>1 DEF Abstract!Deliver
  <2>. QED
    BY <2>5, <2>7 DEF Abstract!Next
<1>7. CASE \E n \in 1 .. MaxSeq, p \in 0 .. MaxPre : Expose(n, p)
  <2>1. PICK n \in 1 .. MaxSeq, p \in 0 .. MaxPre : Expose(n, p)
    BY <1>7
  <2>2. Abstract!Begin(n)
    BY <2>1 DEF Expose, Owed, Abstract!Begin
  <2>. QED
    BY <2>2 DEF Abstract!Next
<1>. QED
  BY <1>2, <1>3, <1>4, <1>5, <1>6, <1>7 DEF Next, Controller, Host, GiveUp

(* A sequence of exposures implements ImageSequence, what it delivers are
   consecutive frames, newer than all that was delivered before: as long as the
   controller stays at most one frame ahead of the host (Lead <= 1, which is a
   matter of how long the exposures last and not of the code), two buffers are
   only in use if no command fails, and no other client asks for the status. *)
THEOREM SequenceDelivered ==
  ASSUME Steady, ~Watched
  PROVE  Spec => DeliversSequence
<1>1. Init => RingOrder /\ CountInv /\ NextInv /\ Abstract!Init
  <2>1. Init => NextInv /\ Abstract!Init
    BY Buffers DEF Init, NextInv, Reading, Owed, Abstract!Init
  <2>. QED
    BY <2>1, CountInit, OrderInit
<1>2. RingOrder /\ CountInv /\ NextInv /\ [Next]_vars => RingOrder' /\ CountInv' /\ NextInv'
  BY OrderNext, CountStep, NextStep
<1>3. RingOrder /\ CountInv /\ NextInv /\ [Next]_vars => [Abstract!Next]_(Abstract!vars)
  BY SequenceStep
<1>. QED
  BY <1>1, <1>2, <1>3, PTL DEF Spec, DeliversSequence, Abstract!Spec
=============================================================================
