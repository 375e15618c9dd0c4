------------------------- MODULE ArchonLink_proofs -------------------------
(***************************************************************************)
(* Theorems about ArchonLink, for any threads, frame size, number of       *)
(* message references and lag of the controller.                           *)
(***************************************************************************)
EXTENDS ArchonLink, SequenceTheorems, TLAPS

-----------------------------------------------------------------------------
(* The messages. *)

(* Marking the messages of a thread as stale keeps a sequence of messages what
   it is: the sequence that archon_cmd's Write leaves behind it. *)
LEMMA StaleItems ==
  ASSUME NEW seq \in Seq(Item), NEW t
  PROVE  Stale(seq, t) \in Seq(Item)
<1>. DEFINE e(i) == IF seq[i].for = t THEN [seq[i] EXCEPT !.for = NoThread] ELSE seq[i]
<1>1. DOMAIN seq = 1 .. Len(seq) /\ Len(seq) \in Nat
  BY LenProperties
<1>2. \A i \in 1 .. Len(seq) : e(i) \in Item
  <2>. SUFFICES ASSUME NEW i \in 1 .. Len(seq)
                PROVE  e(i) \in Item
    OBVIOUS
  <2>1. seq[i] \in Item
    BY ElementOfSeq
  <2>. QED
    BY <2>1 DEF Item
<1>3. Stale(seq, t) = [i \in 1 .. Len(seq) |-> e(i)]
  BY <1>1 DEF Stale
<1>. HIDE DEF e
<1>4. [i \in 1 .. Len(seq) |-> e(i)] \in Seq(Item)
  BY <1>1, <1>2, IsASeq
<1>. QED
  BY <1>3, <1>4

(* The same for the requests on their way to the controller. *)
LEMMA StaleRequests ==
  ASSUME NEW seq \in Seq(Request), NEW t
  PROVE  Stale(seq, t) \in Seq(Request)
<1>. DEFINE e(i) == IF seq[i].for = t THEN [seq[i] EXCEPT !.for = NoThread] ELSE seq[i]
<1>1. DOMAIN seq = 1 .. Len(seq) /\ Len(seq) \in Nat
  BY LenProperties
<1>2. \A i \in 1 .. Len(seq) : e(i) \in Request
  <2>. SUFFICES ASSUME NEW i \in 1 .. Len(seq)
                PROVE  e(i) \in Request
    OBVIOUS
  <2>1. seq[i] \in Request
    BY ElementOfSeq
  <2>. QED
    BY <2>1 DEF Request
<1>3. Stale(seq, t) = [i \in 1 .. Len(seq) |-> e(i)]
  BY <1>1 DEF Stale
<1>. HIDE DEF e
<1>4. [i \in 1 .. Len(seq) |-> e(i)] \in Seq(Request)
  BY <1>1, <1>2, IsASeq
<1>. QED
  BY <1>3, <1>4

(* What a read leaves of the received messages, possibly with the first one
   cut, are messages again. *)
LEMMA ShorterInput ==
  ASSUME NEW seq \in Seq(Item), seq # <<>>,
         NEW first \in Item
  PROVE  /\ Head(seq) \in Item /\ seq[1] \in Item
         /\ Tail(seq) \in Seq(Item)
         /\ <<first>> \o Tail(seq) \in Seq(Item)
<1>1. seq[1] \in Item /\ Head(seq) \in Item /\ Tail(seq) \in Seq(Item)
  BY HeadTailProperties, EmptySeq, ElementOfSeq
<1>2. <<first>> \in Seq(Item)
  OBVIOUS
<1>. QED
  BY <1>1, <1>2, ConcatProperties

(* A message whose first bytes were read is still a message. *)
LEMMA RestIsItem ==
  ASSUME NEW item \in Item
  PROVE  Rest(item) \in Item
BY DEF Rest, Item, Texts

(* The message reference stays in its range when it wraps. *)
LEMMA NextRefInRange ==
  ASSUME msgref \in Refs
  PROVE  NextRef \in Refs
BY BoundsAssumption DEF Refs, NextRef

-----------------------------------------------------------------------------
(* Type correctness.  It is not inductive by itself: the count of blocks stays
   within a frame only because a thread that is to read one has one left. *)

Reading == {"lock", "fetch", "stream", "body"}

BlocksLeft == \A t \in Threads : stage[t] \in Reading => block[t] < Blocks

TypeInv == TypeOK /\ BlocksLeft

PlaceOK == /\ stage \in [Threads -> Stages] /\ pc \in [Threads -> Points]
           /\ ret \in [Threads -> Codes]

\* Moving a thread to a call site, or away from archon_cmd, keeps the types.
LEMMA AtType ==
  ASSUME NEW t \in Threads, NEW s \in Stages, PlaceOK, At(t, s)
  PROVE  /\ stage' \in [Threads -> Stages] /\ pc' \in [Threads -> Points]
         /\ stage' = [stage EXCEPT ![t] = s]
BY DEF PlaceOK, At, Points

(* An operation moves on to one of its call sites, with an error code, and
   only the call of a frame's lock or FETCH leads to reading its blocks. *)
LEMMA ReturnType ==
  ASSUME NEW t \in Threads, NEW code \in Codes, PlaceOK, Return(t, code)
  PROVE  /\ PlaceOK'
         /\ \A u \in Threads : stage'[u] \in Reading => stage[u] \in Reading
<1>1. NextStage(stage[t], code) \in Stages
  BY SMTT(30) DEF NextStage, Stages, Calls
<1>2. Verdict(stage[t], code) \in Codes
  BY SMTT(30) DEF Verdict, Codes
<1>3. stage[t] \notin Reading => NextStage(stage[t], code) \notin Reading
  BY SMTT(30) DEF NextStage, Reading
<1>4. /\ stage' \in [Threads -> Stages] /\ pc' \in [Threads -> Points]
      /\ stage' = [stage EXCEPT ![t] = NextStage(stage[t], code)]
  BY <1>1, AtType DEF Return
<1>5. ret' \in [Threads -> Codes]
  BY <1>2 DEF Return, Code, PlaceOK
<1>. QED
  BY <1>3, <1>4, <1>5 DEF PlaceOK

(* The end of archon_cmd keeps the types, and starts no reading of a frame. *)
LEMMA FinishType ==
  ASSUME TypeInv, NEW t \in Threads, NEW code \in Codes, NEW item,
         Finish(t, code, item), UNCHANGED <<block, clean>>
  PROVE  /\ PlaceOK' /\ BlocksLeft'
         /\ busy' \in BOOLEAN /\ holder' \in Threads \cup {NoThread} /\ msgref' \in Refs
         /\ check' \in [Threads -> Refs] /\ got' \in [Threads -> Item \cup {NoItem}]
<1>1. PlaceOK
  BY DEF TypeInv, TypeOK, PlaceOK
<1>2. /\ busy' \in BOOLEAN /\ holder' \in Threads \cup {NoThread} /\ msgref' \in Refs
      /\ check' \in [Threads -> Refs] /\ got' \in [Threads -> Item \cup {NoItem}]
  <2>1. 0 \in Refs
    BY BoundsAssumption DEF Refs
  <2>2. busy' \in BOOLEAN /\ holder' \in Threads \cup {NoThread} /\ msgref' \in Refs
    BY DEF Finish, BusyAfter, TypeInv, TypeOK
  <2>3. check' \in [Threads -> Refs]
    BY <2>1 DEF Finish, TypeInv, TypeOK
  <2>4. got' \in [Threads -> Item \cup {NoItem}]
    BY DEF Finish, TypeInv, TypeOK
  <2>. QED
    BY <2>2, <2>3, <2>4
<1>3. /\ PlaceOK'
      /\ \A u \in Threads : stage'[u] \in Reading => stage[u] \in Reading
  <2>1. CASE Return(t, code)
    BY <1>1, <2>1, ReturnType
  <2>2. CASE At(t, stage[t]) /\ Code(t, code)
    <3>1. stage[t] \in Stages
      BY <1>1 DEF PlaceOK
    <3>. QED
      BY <1>1, <2>2, <3>1, AtType DEF PlaceOK, Code
  <2>. QED
    BY <2>1, <2>2 DEF Finish
<1>4. BlocksLeft'
  BY <1>3 DEF BlocksLeft, TypeInv
<1>. QED
  BY <1>2, <1>3, <1>4

(* A move of t keeps the types when the block count of t has room for it. *)
LEMMA MoveType ==
  ASSUME TypeInv, NEW t \in Threads, NEW s \in Stages, At(t, s),
         block' \in [Threads -> 0 .. Blocks],
         \A u \in Threads \ {t} : block'[u] = block[u],
         s \in Reading => block'[t] < Blocks
  PROVE  stage' \in [Threads -> Stages] /\ pc' \in [Threads -> Points] /\ BlocksLeft'
<1>1. /\ stage' \in [Threads -> Stages] /\ pc' \in [Threads -> Points]
      /\ stage' = [stage EXCEPT ![t] = s]
  BY AtType DEF TypeInv, TypeOK, PlaceOK
<1>2. ASSUME NEW u \in Threads, stage'[u] \in Reading
      PROVE  block'[u] < Blocks
  <2>1. CASE u = t
    BY <1>1, <1>2, <2>1 DEF TypeInv, TypeOK
  <2>2. CASE u # t
    BY <1>1, <1>2, <2>2 DEF TypeInv, TypeOK, BlocksLeft
  <2>. QED
    BY <2>1, <2>2
<1>. QED
  BY <1>1, <1>2 DEF BlocksLeft

(* A closed socket holds no messages. *)
LEMMA HangUpType ==
  ASSUME HangUp
  PROVE  connected' \in BOOLEAN /\ wire' \in Seq(Request) /\ input' \in Seq(Item)
BY EmptySeq DEF HangUp

(* The operations that clients start. *)
LEMMA StartType ==
  ASSUME TypeInv, NEW t \in Threads, Start(t)
  PROVE  TypeInv'
<1>. USE BoundsAssumption
<1>1. CASE StartCommand(t)
  <2>1. "command" \in Stages \ Reading
    BY DEF Stages, Calls, Reading
  <2>2. stage' \in [Threads -> Stages] /\ pc' \in [Threads -> Points] /\ BlocksLeft'
    BY <1>1, <2>1, MoveType DEF StartCommand, frame, TypeInv, TypeOK
  <2>. QED
    BY <1>1, <2>2 DEF StartCommand, TypeInv, TypeOK, link, sem, frame, locals
<1>2. CASE StartNative(t)
  <2>1. "native" \in Stages \ Reading
    BY DEF Stages, Calls, Reading
  <2>2. stage' \in [Threads -> Stages] /\ pc' \in [Threads -> Points] /\ BlocksLeft'
    BY <1>2, <2>1, MoveType DEF StartNative, frame, TypeInv, TypeOK
  <2>. QED
    BY <1>2, <2>2 DEF StartNative, TypeInv, TypeOK, link, sem, frame, locals
<1>3. CASE StartReadout(t)
  <2>1. "lock" \in Stages
    BY DEF Stages, Calls
  <2>2. /\ block' \in [Threads -> 0 .. Blocks] /\ clean' \in [Threads -> BOOLEAN]
        /\ \A u \in Threads \ {t} : block'[u] = block[u]
        /\ block'[t] < Blocks
    BY <1>3 DEF StartReadout, TypeInv, TypeOK
  <2>3. stage' \in [Threads -> Stages] /\ pc' \in [Threads -> Points] /\ BlocksLeft'
    BY <1>3, <2>1, <2>2, MoveType DEF StartReadout
  <2>. QED
    BY <1>3, <2>2, <2>3 DEF StartReadout, TypeInv, TypeOK, link, sem, locals
<1>4. CASE StartOpen(t)
  <2>1. "system" \in Stages \ Reading
    BY DEF Stages, Calls, Reading
  <2>2. stage' \in [Threads -> Stages] /\ pc' \in [Threads -> Points] /\ BlocksLeft'
    BY <1>4, <2>1, MoveType DEF StartOpen, frame, TypeInv, TypeOK
  <2>. QED
    BY <1>4, <2>2 DEF StartOpen, TypeInv, TypeOK, sem, frame, locals
<1>5. CASE StartClose(t)
  <2>1. connected' \in BOOLEAN /\ wire' \in Seq(Request) /\ input' \in Seq(Item)
    BY <1>5, HangUpType DEF StartClose
  <2>. QED
    BY <1>5, <2>1 DEF StartClose, TypeInv, TypeOK, BlocksLeft, sem, place, frame, locals
<1>. QED
  BY <1>1, <1>2, <1>3, <1>4, <1>5 DEF Start

(* The steps of archon_cmd up to the command it sends. *)
LEMMA CallType ==
  ASSUME TypeInv, NEW t \in Threads, Refuse(t) \/ Pass(t) \/ Acquire(t) \/ Send(t)
  PROVE  TypeInv'
<1>0. PlaceOK
  BY DEF TypeInv, TypeOK, PlaceOK
<1>1. CASE Refuse(t)
  <2>1. /\ PlaceOK'
        /\ \A u \in Threads : stage'[u] \in Reading => stage[u] \in Reading
    BY <1>0, <1>1, ReturnType DEF Refuse, Codes
  <2>. QED
    BY <1>1, <2>1 DEF Refuse, TypeInv, TypeOK, BlocksLeft, PlaceOK, link, sem, frame
<1>2. CASE Pass(t)
  BY <1>2 DEF Pass, TypeInv, TypeOK, BlocksLeft, Points, link, sem, frame, locals
<1>3. CASE Acquire(t)
  BY <1>3 DEF Acquire, TypeInv, TypeOK, BlocksLeft, Points, link, frame, locals
<1>4. CASE Send(t)
  <2>. DEFINE kind == RequestKind(stage[t])
              request == [kind |-> kind, ref |-> NextRef, for |-> t,
                          left |-> IF kind = "fetch" THEN Blocks ELSE 1]
  <2>1. NextRef \in Refs
    BY NextRefInRange DEF TypeInv, TypeOK
  <2>2. request \in Request
    BY <2>1, BoundsAssumption DEF Request, RequestKind
  <2>3. wire' \in Seq(Request)
    <3>1. Stale(wire, t) \in Seq(Request)
      BY StaleRequests DEF TypeInv, TypeOK
    <3>. HIDE DEF request
    <3>2. Append(Stale(wire, t), request) \in Seq(Request)
      BY <2>2, <3>1
    <3>3. wire' = IF connected THEN Append(Stale(wire, t), request) ELSE wire
      BY <1>4 DEF Send, request
    <3>. QED
      BY <3>2, <3>3 DEF TypeInv, TypeOK
  <2>4. input' \in Seq(Item)
    BY <1>4, StaleItems DEF Send, TypeInv, TypeOK
  <2>5. CASE kind = "fetch"
    <3>1. /\ PlaceOK'
          /\ \A u \in Threads : stage'[u] \in Reading => stage[u] \in Reading
      BY <1>0, <1>4, <2>5, ReturnType DEF Send, Codes
    <3>. QED
      BY <1>4, <2>1, <2>3, <2>4, <2>5, <3>1
         DEF Send, TypeInv, TypeOK, BlocksLeft, PlaceOK, frame
  <2>6. CASE kind # "fetch"
    <3>1. PlaceOK' /\ UNCHANGED <<stage, holder>> /\ check' \in [Threads -> Refs]
      BY <1>0, <1>4, <2>1, <2>6 DEF Send, PlaceOK, Points, TypeInv, TypeOK
    <3>. QED
      BY <1>4, <2>1, <2>3, <2>4, <3>1
         DEF Send, TypeInv, TypeOK, BlocksLeft, PlaceOK, frame
  <2>. QED
    BY <2>5, <2>6
<1>. QED
  BY <1>1, <1>2, <1>3, <1>4

(* The reply to the command, or its failure. *)
LEMMA ReplyType ==
  ASSUME TypeInv, NEW t \in Threads, Receive(t) \/ PollTimeout(t) \/ ReadFails(t)
  PROVE  TypeInv'
<1>. USE DEF Codes
<1>1. CASE Receive(t)
  <2>1. PICK n \in 1 .. Len(input), cut \in BOOLEAN, newline \in BOOLEAN :
          LET item == FirstRead(t)
              tail == SubSeq(input, n + 1, Len(input))
          IN  /\ cut => tail # <<>> /\ tail[1].kind = "block"
              /\ input' = IF cut THEN <<Rest(tail[1])>> \o Tail(tail) ELSE tail
              /\ IF newline
                 THEN Finish(t, Judge(t, item), item)
                 ELSE got' = [got EXCEPT ![t] = item] /\ UNCHANGED <<sem, place, check, ret>>
    BY <1>1 DEF Receive
  <2>. DEFINE item == FirstRead(t)
              tail == SubSeq(input, n + 1, Len(input))
  <2>2. input \in Seq(Item) /\ Len(input) \in Nat /\ input[1] \in Item
    BY LenProperties, ElementOfSeq DEF TypeInv, TypeOK
  <2>3. item \in Item
    BY <2>2 DEF FirstRead, TypeInv, TypeOK
  <2>4. tail \in Seq(Item)
    <3>1. \A i \in n + 1 .. Len(input) : input[i] \in Item
      BY <2>2, ElementOfSeq
    <3>. QED
      BY <2>2, <3>1, SubSeqProperties
  <2>5. input' \in Seq(Item)
    <3>. HIDE DEF tail
    <3>1. CASE cut
      <4>1. tail # <<>>
        BY <2>1, <3>1 DEF tail
      <4>2. tail[1] \in Item
        BY <2>4, <4>1, HeadTailProperties, EmptySeq, ElementOfSeq
      <4>. QED
        BY <2>1, <2>4, <3>1, <4>1, <4>2, RestIsItem, ShorterInput DEF tail
    <3>2. CASE ~cut
      BY <2>1, <2>4, <3>2 DEF tail
    <3>. QED
      BY <3>1, <3>2
  <2>6. Judge(t, item) \in Codes
    BY DEF Judge
  <2>7. UNCHANGED <<connected, wire, log, frame, debris>>
    BY <1>1 DEF Receive
  <2>. HIDE DEF item
  <2>8. CASE newline
    <3>1. Finish(t, Judge(t, item), item)
      BY <2>1, <2>8 DEF item
    <3>. QED
      BY <2>5, <2>6, <2>7, <3>1, FinishType DEF frame, TypeInv, TypeOK, PlaceOK
  <2>9. CASE ~newline
    <3>1. got' = [got EXCEPT ![t] = item] /\ UNCHANGED <<sem, place, check, ret>>
      BY <2>1, <2>9 DEF item
    <3>. QED
      BY <2>3, <2>5, <2>7, <3>1 DEF TypeInv, TypeOK, BlocksLeft, sem, place, frame
  <2>. QED
    BY <2>8, <2>9
<1>2. CASE PollTimeout(t)
  BY <1>2, FinishType DEF PollTimeout, link, frame, TypeInv, TypeOK, PlaceOK
<1>3. CASE ReadFails(t)
  <2>1. Judge(t, got[t]) \in Codes
    BY DEF Judge
  <2>. QED
    BY <1>3, <2>1, FinishType, HangUpType DEF ReadFails, frame, TypeInv, TypeOK, PlaceOK
<1>. QED
  BY <1>1, <1>2, <1>3

(* The blocks of a frame. *)
LEMMA FrameType ==
  ASSUME TypeInv, NEW t \in Threads,
         BlockTimeout(t) \/ PollHangUp(t) \/ Header(t) \/ Body(t) \/ Release(t) \/ ReturnFrame(t)
  PROVE  TypeInv'
<1>. USE BoundsAssumption
<1>0. {"release", "body", "log", "unlock", "return", "idle", "stream"} \subseteq Stages
  BY DEF Stages, Calls
<1>1. "release" \notin Reading /\ "log" \notin Reading /\ "unlock" \notin Reading
        /\ "return" \notin Reading /\ "idle" \notin Reading
  BY DEF Reading
<1>2. block \in [Threads -> 0 .. Blocks] /\ input \in Seq(Item) /\ ret \in [Threads -> Codes]
  BY DEF TypeInv, TypeOK
<1>3. CASE BlockTimeout(t)
  <2>1. stage' \in [Threads -> Stages] /\ pc' \in [Threads -> Points] /\ BlocksLeft'
    BY <1>0, <1>1, <1>2, <1>3, MoveType DEF BlockTimeout, frame
  <2>2. ret' \in [Threads -> Codes]
    BY <1>2, <1>3 DEF BlockTimeout, Code, TimeoutCode, Codes
  <2>. QED
    BY <1>3, <2>1, <2>2 DEF BlockTimeout, TypeInv, TypeOK, link, sem, frame
<1>4. CASE PollHangUp(t)
  <2>1. stage' \in [Threads -> Stages] /\ pc' \in [Threads -> Points] /\ BlocksLeft'
    BY <1>0, <1>1, <1>2, <1>4, MoveType DEF PollHangUp, frame
  <2>2. ret' \in [Threads -> Codes]
    BY <1>2, <1>4 DEF PollHangUp, Code, Codes
  <2>. QED
    BY <1>4, <2>1, <2>2, HangUpType DEF PollHangUp, TypeInv, TypeOK, sem, frame
<1>5. CASE Header(t)
  <2>1. input # <<>>
    BY <1>2, <1>5, EmptySeq DEF Header, HasBlock
  <2>2. input[1] \in Item
    BY <1>2, <2>1, ShorterInput
  <2>3. /\ [input[1] EXCEPT !.kind = "payload"] \in Item
        /\ Rest(input[1]) \in Item
    BY <2>2, RestIsItem DEF Item
  <2>4. input' \in Seq(Item)
    <3>1. /\ <<[input[1] EXCEPT !.kind = "payload"]>> \o Tail(input) \in Seq(Item)
          /\ <<Rest(input[1])>> \o Tail(input) \in Seq(Item)
          /\ Tail(input) \in Seq(Item)
      BY <1>2, <2>1, <2>3, ShorterInput
    <3>. QED
      BY <1>5, <3>1 DEF Header
  <2>5. ret' \in [Threads -> Codes]
    BY <1>2, <1>5 DEF Header, Code, Codes
  <2>6. block[t] < Blocks
    BY <1>5 DEF Header, TypeInv, BlocksLeft, Reading
  <2>7. PICK s \in {"body", "log", "release"} : At(t, s)
    BY <1>5 DEF Header
  <2>8. stage' \in [Threads -> Stages] /\ pc' \in [Threads -> Points] /\ BlocksLeft'
    BY <1>0, <1>2, <1>5, <2>6, <2>7, MoveType DEF Header, frame
  <2>. QED
    BY <1>5, <2>4, <2>5, <2>8 DEF Header, TypeInv, TypeOK, sem, frame
<1>6. CASE Body(t)
  <2>1. input' \in Seq(Item)
    <3>1. input[1] \in Item
      BY <1>2, <1>6, ShorterInput DEF Body
    <3>2. <<Rest(input[1])>> \o Tail(input) \in Seq(Item) /\ Tail(input) \in Seq(Item)
      BY <1>2, <1>6, <3>1, RestIsItem, ShorterInput DEF Body
    <3>. QED
      BY <1>6, <3>2 DEF Body
  <2>2. clean' \in [Threads -> BOOLEAN]
    <3>. DEFINE b == clean[t] /\ input[1].kind = "payload" /\ input[1].for = t
    <3>1. clean' = [clean EXCEPT ![t] = b]
      BY <1>6 DEF Body
    <3>2. b \in BOOLEAN
      OBVIOUS
    <3>. HIDE DEF b
    <3>. QED
      BY <3>1, <3>2 DEF TypeInv, TypeOK
  <2>3. BlockDone(t) \/ UNCHANGED <<block, place>>
    BY <1>6 DEF Body
  <2>4. CASE BlockDone(t)
    <3>1. block[t] < Blocks
      BY <1>6 DEF Body, TypeInv, BlocksLeft, Reading
    <3>2. /\ block' \in [Threads -> 0 .. Blocks]
          /\ \A u \in Threads \ {t} : block'[u] = block[u]
          /\ block'[t] = block[t] + 1 /\ block[t] \in 0 .. Blocks
      BY <1>2, <2>4, <3>1 DEF BlockDone
    <3>3. CASE block[t] + 1 = Blocks
      BY <1>0, <1>1, <1>6, <2>1, <2>2, <2>4, <3>2, <3>3, MoveType
         DEF BlockDone, Body, TypeInv, TypeOK, sem, locals
    <3>4. CASE block[t] + 1 # Blocks
      <4>1. block'[t] < Blocks
        BY <3>1, <3>2, <3>4
      <4>2. At(t, "stream")
        BY <2>4, <3>4 DEF BlockDone
      <4>3. stage' \in [Threads -> Stages] /\ pc' \in [Threads -> Points] /\ BlocksLeft'
        BY <1>0, <3>2, <4>1, <4>2, MoveType
      <4>. QED
        BY <1>6, <2>1, <2>2, <3>2, <4>3 DEF Body, TypeInv, TypeOK, sem, locals
    <3>. QED
      BY <3>3, <3>4
  <2>5. CASE UNCHANGED <<block, place>>
    BY <1>6, <2>1, <2>2, <2>5 DEF Body, TypeInv, TypeOK, BlocksLeft, place, sem, locals
  <2>. QED
    BY <2>3, <2>4, <2>5
<1>7. CASE Release(t)
  <2>1. PICK s \in {"unlock", "return"} : At(t, s)
    BY <1>7 DEF Release
  <2>2. stage' \in [Threads -> Stages] /\ pc' \in [Threads -> Points] /\ BlocksLeft'
    BY <1>0, <1>1, <1>2, <1>7, <2>1, MoveType DEF Release, frame
  <2>. QED
    BY <1>7, <2>2 DEF Release, SemaphoreGivenBack, TypeInv, TypeOK, link, frame, locals
<1>8. CASE ReturnFrame(t)
  <2>1. stage' \in [Threads -> Stages] /\ pc' \in [Threads -> Points] /\ BlocksLeft'
    BY <1>0, <1>1, <1>2, <1>8, MoveType DEF ReturnFrame, frame
  <2>. QED
    BY <1>8, <2>1 DEF ReturnFrame, TypeInv, TypeOK, link, frame, locals
<1>. QED
  BY <1>3, <1>4, <1>5, <1>6, <1>7, <1>8

(* The controller's answers. *)
LEMMA AnswerType ==
  ASSUME TypeInv, Answer \/ AnswerError
  PROVE  TypeInv'
<1>. USE BoundsAssumption
<1>. DEFINE r == Head(wire)
<1>1. wire # <<>> /\ wire \in Seq(Request) /\ input \in Seq(Item)
  BY DEF Answer, AnswerError, TypeInv, TypeOK
<1>2. r \in Request /\ Tail(wire) \in Seq(Request)
  BY <1>1, HeadTailProperties
<1>3. \A kind \in Texts \cup {"block"} : Deliver(kind, r) => input' \in Seq(Item)
  <2>. SUFFICES ASSUME NEW kind \in Texts \cup {"block"}, Deliver(kind, r)
                PROVE  input' \in Seq(Item)
    OBVIOUS
  <2>. DEFINE item == [kind |-> kind, ref |-> r.ref, for |-> r.for]
  <2>1. item \in Item
    BY <1>2 DEF Request, Item
  <2>2. input' = Append(input, item)
    BY DEF Deliver
  <2>. HIDE DEF item
  <2>. QED
    BY <1>1, <2>1, <2>2
<1>4. CASE Answer
  <2>1. input' \in Seq(Item)
    BY <1>3, <1>4 DEF Answer, Texts
  <2>2. wire' \in Seq(Request)
    <3>1. CASE wire' = Tail(wire)
      BY <1>2, <3>1
    <3>2. CASE r.left # 1 /\ wire' = <<[r EXCEPT !.left = @ - 1]>> \o Tail(wire)
      <4>. DEFINE q == [r EXCEPT !.left = @ - 1]
      <4>1. q \in Request
        <5>. HIDE DEF r
        <5>1. r.left \in 1 .. Blocks
          BY <1>2 DEF Request
        <5>2. r.left - 1 \in 1 .. Blocks
          BY <3>2, <5>1
        <5>. QED
          BY <1>2, <5>2 DEF Request
      <4>2. wire' = <<q>> \o Tail(wire)
        BY <3>2
      <4>. HIDE DEF q
      <4>3. <<q>> \in Seq(Request)
        BY <4>1
      <4>. QED
        BY <1>2, <4>2, <4>3, ConcatProperties
    <3>. QED
      BY <1>4, <3>1, <3>2 DEF Answer
  <2>3. log' \in 0 .. MaxLog
    BY <1>4 DEF Answer, TypeInv, TypeOK
  <2>. QED
    BY <1>4, <2>1, <2>2, <2>3
       DEF Answer, TypeInv, TypeOK, BlocksLeft, sem, place, frame, locals
<1>5. CASE AnswerError
  <2>1. input' \in Seq(Item)
    BY <1>3, <1>5 DEF AnswerError, Texts
  <2>2. wire' \in Seq(Request) /\ log' \in 0 .. MaxLog
    BY <1>2, <1>5 DEF AnswerError, TypeInv, TypeOK
  <2>. QED
    BY <1>5, <2>1, <2>2
       DEF AnswerError, TypeInv, TypeOK, BlocksLeft, sem, place, frame, locals
<1>. QED
  BY <1>4, <1>5

(* The types, with the blocks that are left, are an invariant. *)
LEMMA TypeInvariant == Spec => []TypeInv
<1>1. Init => TypeInv
  <2>. SUFFICES ASSUME Init
                PROVE  TypeInv
    OBVIOUS
  <2>1. 0 \in Refs /\ 0 \in 0 .. Blocks /\ 0 \in 0 .. MaxLog
    BY BoundsAssumption DEF Refs
  <2>2. "idle" \in Stages \ Reading /\ "out" \in Points /\ "NO_ERROR" \in Codes
    BY DEF Stages, Reading, Points, Codes
  <2>3. wire \in Seq(Request) /\ input \in Seq(Item)
    BY EmptySeq DEF Init
  <2>4. stage \in [Threads -> Stages] /\ pc \in [Threads -> Points] /\ ret \in [Threads -> Codes]
    BY <2>2 DEF Init
  <2>5. check \in [Threads -> Refs] /\ block \in [Threads -> 0 .. Blocks]
    BY <2>1 DEF Init
  <2>6. got \in [Threads -> Item \cup {NoItem}] /\ clean \in [Threads -> BOOLEAN]
    BY DEF Init
  <2>7. BlocksLeft
    BY <2>2 DEF Init, BlocksLeft
  <2>. QED
    BY <2>1, <2>3, <2>4, <2>5, <2>6, <2>7 DEF Init, TypeInv, TypeOK
<1>2. TypeInv /\ [Next]_vars => TypeInv'
  <2>. SUFFICES ASSUME TypeInv, [Next]_vars
                PROVE  TypeInv'
    OBVIOUS
  <2>1. CASE Answer \/ AnswerError
    BY <2>1, AnswerType
  <2>2. ASSUME NEW t \in Threads, Start(t)
        PROVE  TypeInv'
    BY <2>2, StartType
  <2>3. ASSUME NEW t \in Threads, Step(t)
        PROVE  TypeInv'
    BY <2>3, CallType, ReplyType, FrameType DEF Step
  <2>4. ASSUME NEW t \in Threads, Lose(t)
        PROVE  TypeInv'
    BY <2>4, ReplyType, FrameType DEF Lose
  <2>5. CASE UNCHANGED vars
    BY <2>5 DEF TypeInv, TypeOK, BlocksLeft, vars, link, sem, place, frame, locals
  <2>. QED
    BY <2>1, <2>2, <2>3, <2>4, <2>5 DEF Next
<1>. QED
  BY <1>1, <1>2, PTL DEF Spec

(* Every variable keeps its type: message references stay below RefMod when
   they wrap, the blocks of a frame never exceed it, whatever the threads and
   the controller do. *)
THEOREM TypeCorrect == Spec => []TypeOK
<1>1. TypeInv => TypeOK
  BY DEF TypeInv
<1>. QED
  BY <1>1, TypeInvariant, PTL

-----------------------------------------------------------------------------
(* Mutual exclusion.  It is lost to the readout of frames (LinkDoubleUnlock
   shows how), so these theorems are about servers whose
   clients send any commands, open and close the connection, but read no
   frames. *)

NoFrameStages == {"idle", "command", "native", "system", "openlog"}

NoFrames == \A t \in Threads : stage[t] \in NoFrameStages

PlaceTyped == stage \in [Threads -> Stages] /\ pc \in [Threads -> Points]

\* The owner of the mutex is the one thread past it.
Excl == /\ PlaceTyped /\ NoFrames /\ HeldThroughout

(* Without readouts a return from archon_cmd leads to no call of read_frame, and
   takes only its own thread out of archon_cmd. *)
LEMMA ReturnNoFrame ==
  ASSUME NEW t \in Threads, NEW code, Excl, Return(t, code)
  PROVE  /\ PlaceTyped' /\ NoFrames'
         /\ \A u \in Threads : InBody(u)' => u # t /\ InBody(u)
<1>1. stage[t] \in NoFrameStages
  BY DEF Excl, NoFrames
<1>2. NextStage(stage[t], code) \in {"idle", "openlog"}
  BY <1>1, SMTT(30) DEF NextStage, NoFrameStages
<1>3. {"idle", "openlog"} \subseteq Stages
  BY DEF Stages, Calls
<1>4. PICK s \in {"idle", "openlog"} :
        stage' = [stage EXCEPT ![t] = s] /\ pc' = [pc EXCEPT ![t] = IF s \in Calls THEN "call" ELSE "out"]
  BY <1>2 DEF Return, At
<1>. QED
  BY <1>3, <1>4 DEF Excl, PlaceTyped, NoFrames, NoFrameStages, InBody, Points

(* The same for the end of archon_cmd, which also clears archon_busy. *)
LEMMA FinishNoFrame ==
  ASSUME NEW t \in Threads, NEW code, NEW item, Excl, Finish(t, code, item)
  PROVE  /\ PlaceTyped' /\ NoFrames'
         /\ \A u \in Threads : InBody(u)' => u # t /\ InBody(u)
         /\ busy' = FALSE
<1>1. CASE Return(t, code)
  BY <1>1, ReturnNoFrame DEF Finish, BusyAfter
<1>2. CASE stage[t] = "openlog" /\ At(t, stage[t])
  BY <1>2 DEF Finish, BusyAfter, At, Excl, PlaceTyped, NoFrames, InBody, Points, Calls
<1>3. stage[t] # "log"
  BY DEF Excl, NoFrames, NoFrameStages
<1>. QED
  BY <1>1, <1>2, <1>3 DEF Finish

(* Every step of a thread hands the mutex over correctly. *)
LEMMA ExclStep ==
  ASSUME Readers = {}, Excl, NEW t \in Threads, Step(t)
  PROVE  Excl'
<1>. USE DEF Excl
<1>1. stage[t] \in NoFrameStages /\ \A u \in Threads : InBody(u) => holder = u
  BY DEF NoFrames, HeldThroughout
<1>2. CASE Refuse(t)
  <2>1. PICK code \in Codes : Return(t, code)
    BY <1>2 DEF Refuse, Codes
  <2>. QED
    BY <1>1, <1>2, <2>1, ReturnNoFrame DEF Refuse, HeldThroughout, sem
<1>3. CASE Pass(t)
  BY <1>1, <1>3 DEF Pass, HeldThroughout, InBody, PlaceTyped, NoFrames, Points, sem
<1>4. CASE Acquire(t)
  BY <1>1, <1>4, ThreadsAssumption
     DEF Acquire, MutexFree, HeldThroughout, InBody, PlaceTyped, NoFrames, Points
<1>5. CASE Send(t)
  <2>1. pc[t] = "locked" /\ holder = t
    BY <1>1, <1>5 DEF Send, InBody
  <2>2. CASE Return(t, "NO_ERROR")
    BY <1>1, <2>1, <2>2, ReturnNoFrame DEF HeldThroughout
  <2>3. CASE pc' = [pc EXCEPT ![t] = "receive"] /\ UNCHANGED <<holder, stage>>
    BY <1>1, <2>1, <2>3 DEF HeldThroughout, InBody, PlaceTyped, NoFrames, Points
  <2>. QED
    BY <1>5, <2>2, <2>3 DEF Send
<1>6. CASE Receive(t) \/ PollTimeout(t)
  <2>1. pc[t] = "receive" /\ holder = t
    BY <1>1, <1>6 DEF Receive, PollTimeout, InBody
  <2>2. CASE \E code, item : Finish(t, code, item)
    BY <1>1, <2>1, <2>2, FinishNoFrame DEF HeldThroughout
  <2>3. CASE UNCHANGED <<sem, place>>
    BY <2>3 DEF HeldThroughout, InBody, PlaceTyped, NoFrames, sem, place
  <2>. QED
    BY <1>6, <2>2, <2>3 DEF Receive, PollTimeout
<1>7. ~(BlockTimeout(t) \/ Header(t) \/ Body(t) \/ Release(t) \/ ReturnFrame(t))
  BY <1>1 DEF NoFrameStages, BlockTimeout, Header, Body, Release, ReturnFrame
<1>. QED
  BY <1>2, <1>3, <1>4, <1>5, <1>6, <1>7 DEF Step

(* A client that starts an operation does not touch the mutex. *)
LEMMA ExclStart ==
  ASSUME Readers = {}, Excl, NEW t \in Threads, Start(t)
  PROVE  Excl'
<1>1. ~StartReadout(t)
  BY DEF StartReadout
<1>2. CASE \E s \in {"command", "native", "system"} : stage[t] = "idle" /\ At(t,
                                                                           s) /\ UNCHANGED sem
  BY <1>2 DEF Excl, PlaceTyped, NoFrames, NoFrameStages, HeldThroughout, InBody, At,
              Stages, Calls, Points, sem
<1>3. CASE UNCHANGED <<sem, place>>
  BY <1>3 DEF Excl, PlaceTyped, NoFrames, HeldThroughout, InBody, sem, place
<1>. QED
  BY <1>1, <1>2, <1>3 DEF Start, StartCommand, StartNative, StartOpen, StartClose

(* A lost connection ends archon_cmd like a reply does. *)
LEMMA ExclLose ==
  ASSUME Excl, NEW t \in Threads, Lose(t)
  PROVE  Excl'
<1>1. stage[t] \in NoFrameStages /\ \A u \in Threads : InBody(u) => holder = u
  BY DEF Excl, NoFrames, HeldThroughout
<1>2. ReadFails(t)
  BY <1>1 DEF Lose, PollHangUp, NoFrameStages
<1>3. pc[t] = "receive" /\ holder = t /\ \E code, item : Finish(t, code, item)
  BY <1>1, <1>2 DEF ReadFails, InBody
<1>. QED
  BY <1>1, <1>3, FinishNoFrame DEF Excl, HeldThroughout

(* Without readouts, the owner of archon_mutex is the one thread past it. *)
LEMMA ExclInvariant ==
  ASSUME Readers = {}
  PROVE  Spec => []Excl
<1>1. Init => Excl
  BY DEF Init, Excl, PlaceTyped, NoFrames, NoFrameStages, HeldThroughout, InBody, Stages, Points
<1>2. Excl /\ [Next]_vars => Excl'
  <2>1. ASSUME Excl, Answer \/ AnswerError \/ UNCHANGED vars
        PROVE  Excl'
    BY <2>1 DEF Excl, PlaceTyped, NoFrames, HeldThroughout, InBody,
                Answer, AnswerError, vars, sem, place
  <2>. QED
    BY <2>1, ExclStep, ExclStart, ExclLose DEF Next
<1>. QED
  BY <1>1, <1>2, PTL DEF Spec

(* Without readouts archon_cmd holds archon_mutex from the moment it takes it
   until it returns. *)
THEOREM MutexHeld ==
  ASSUME Readers = {}
  PROVE  Spec => []HeldThroughout
<1>1. Excl => HeldThroughout
  BY DEF Excl
<1>. QED
  BY <1>1, ExclInvariant, PTL

(* Without readouts two threads never wait for a reply at the same time,
   although archon_busy is tested before archon_mutex is taken. *)
THEOREM Exclusion ==
  ASSUME Readers = {}
  PROVE  Spec => []OneTransaction
<1>1. Excl => OneTransaction
  BY DEF Excl, HeldThroughout, OneTransaction, Using, InBody, NoFrames, NoFrameStages
<1>. QED
  BY <1>1, ExclInvariant, PTL

-----------------------------------------------------------------------------
(* The semaphore.  A FETCH sent by the command native sets it for good;
   without one it is exact. *)

\* A thread that serves no client is not inside archon_cmd.
IdleIsOut == \A t \in Threads : stage[t] = "idle" => pc[t] = "out"

BusyInv == /\ Excl /\ IdleIsOut
           /\ \A t \in Threads : stage[t] # "native"
           /\ busy <=> \E t \in Threads : pc[t] = "receive"

(* What a step leaves of the threads that wait for a reply. *)
LEMMA BusyStep ==
  ASSUME Readers = {}, Natives = {}, BusyInv, NEW t \in Threads, Step(t) \/ Lose(t) \/ Start(t)
  PROVE  BusyInv'
<1>. USE DEF IdleIsOut
<1>1. Excl'
  BY ExclStep, ExclStart, ExclLose DEF BusyInv
<1>2. /\ stage[t] \in NoFrameStages \ {"native"} /\ PlaceTyped
      /\ \A u \in Threads : InBody(u) => holder = u
  BY DEF BusyInv, Excl, NoFrames, HeldThroughout
<1>3. ASSUME NEW code, Return(t, code), pc[t] # "receive", UNCHANGED busy
      PROVE  BusyInv'
  <2>1. NextStage(stage[t], code) \in {"idle", "openlog"}
    BY <1>2, SMTT(30) DEF NextStage, NoFrameStages
  <2>. QED
    BY <1>1, <1>2, <1>3, <2>1 DEF BusyInv, Return, At, PlaceTyped, Calls
<1>4. ASSUME NEW code, NEW item, Finish(t, code, item), pc[t] = "receive"
      PROVE  BusyInv'
  <2>1. /\ \A u \in Threads : InBody(u)' => u # t /\ InBody(u)
        /\ busy' = FALSE
    BY <1>4, FinishNoFrame DEF BusyInv
  <2>2. \A u \in Threads : ~InBody(u)'
    BY <1>2, <1>4, <2>1 DEF InBody
  <2>3. IdleIsOut' /\ \A u \in Threads : stage'[u] # "native"
    <3>1. CASE stage[t] = "openlog" /\ At(t, stage[t])
      BY <1>2, <3>1 DEF BusyInv, At, PlaceTyped, Calls
    <3>2. CASE Return(t, code)
      <4>1. NextStage(stage[t], code) \in {"idle", "openlog"}
        BY <1>2, SMTT(30) DEF NextStage, NoFrameStages
      <4>. QED
        BY <1>2, <3>2, <4>1 DEF BusyInv, Return, At, PlaceTyped, Calls
    <3>. QED
      BY <1>2, <1>4, <3>1, <3>2 DEF Finish, NoFrameStages
  <2>. QED
    BY <1>1, <2>1, <2>2, <2>3 DEF BusyInv, InBody
<1>5. CASE Refuse(t)
  <2>1. PICK code \in Codes : Return(t, code)
    BY <1>5 DEF Refuse, Codes
  <2>. QED
    BY <1>3, <1>5, <2>1 DEF Refuse, sem
<1>6. CASE Pass(t) \/ Acquire(t)
  BY <1>1, <1>2, <1>6 DEF BusyInv, Pass, Acquire, PlaceTyped, sem
<1>7. CASE Send(t)
  <2>1. RequestKind(stage[t]) # "fetch"
    BY <1>2 DEF RequestKind, NoFrameStages
  <2>2. busy' = TRUE /\ pc' = [pc EXCEPT ![t] = "receive"] /\ UNCHANGED stage
    BY <1>7, <2>1 DEF Send
  <2>3. stage[t] # "idle"
    BY <1>7 DEF Send, BusyInv
  <2>. QED
    BY <1>1, <1>2, <2>2, <2>3 DEF BusyInv, PlaceTyped
<1>8. CASE Receive(t) \/ PollTimeout(t) \/ ReadFails(t)
  <2>1. pc[t] = "receive"
    BY <1>8 DEF Receive, PollTimeout, ReadFails
  <2>2. CASE \E code, item : Finish(t, code, item)
    BY <1>4, <2>1, <2>2
  <2>3. CASE UNCHANGED <<sem, place>>
    BY <1>1, <2>3 DEF BusyInv, sem, place
  <2>. QED
    BY <1>8, <2>2, <2>3 DEF Receive, PollTimeout, ReadFails
<1>9. CASE Start(t)
  <2>1. ~StartReadout(t) /\ ~StartNative(t)
    BY DEF StartReadout, StartNative
  <2>2. CASE \E s \in {"command", "system"} : stage[t] = "idle" /\ At(t, s) /\ UNCHANGED sem
    <3>1. pc' = [pc EXCEPT ![t] = "call"]
      BY <2>2 DEF At, Calls
    <3>2. pc[t] # "receive"
      BY <2>2 DEF BusyInv, IdleIsOut
    <3>. QED
      BY <1>1, <1>2, <2>2, <3>1, <3>2 DEF BusyInv, At, PlaceTyped, sem
  <2>3. CASE UNCHANGED <<sem, place>>
    BY <1>1, <2>3 DEF BusyInv, sem, place
  <2>. QED
    BY <1>9, <2>1, <2>2, <2>3 DEF Start, StartCommand, StartOpen, StartClose
<1>10. ~(BlockTimeout(t) \/ Header(t) \/ Body(t) \/ Release(t) \/ ReturnFrame(t) \/ PollHangUp(t))
  BY <1>2 DEF NoFrameStages, BlockTimeout, Header, Body, Release, ReturnFrame, PollHangUp
<1>. QED
  BY <1>5, <1>6, <1>7, <1>8, <1>9, <1>10 DEF Step, Lose

(* Without readouts and native FETCH, archon_busy goes with the threads that
   wait for a reply. *)
LEMMA BusyInvariant ==
  ASSUME Readers = {}, Natives = {}
  PROVE  Spec => []BusyInv
<1>1. Init => BusyInv
  BY DEF Init, BusyInv, IdleIsOut, Excl, PlaceTyped, NoFrames, NoFrameStages,
         HeldThroughout, InBody, Stages, Points
<1>2. BusyInv /\ [Next]_vars => BusyInv'
  <2>1. ASSUME BusyInv, Answer \/ AnswerError \/ UNCHANGED vars
        PROVE  BusyInv'
    BY <2>1 DEF BusyInv, IdleIsOut, Excl, PlaceTyped, NoFrames, HeldThroughout, InBody,
                Answer, AnswerError, vars, sem, place
  <2>. QED
    BY <2>1, BusyStep DEF Next
<1>. QED
  BY <1>1, <1>2, PTL DEF Spec

(* Without readouts and native FETCH, archon_busy is set exactly while a
   thread waits for a reply: whatever ends archon_cmd, no command is refused
   for nothing. *)
THEOREM BusyIsExact ==
  ASSUME Readers = {}, Natives = {}
  PROVE  Spec => []BusyExact
<1>1. BusyInv => BusyExact
  BY DEF BusyInv, BusyExact, Using, Excl, NoFrames, NoFrameStages
<1>. QED
  BY <1>1, BusyInvariant, PTL

-----------------------------------------------------------------------------
(* Replies.  The age of a message reference is the number of commands sent since
   it was last given out, provided that fewer than RefMod were. *)
Age(m, r) == IF r <= m THEN m - r ELSE m + RefMod - r

Quiet == input = <<>> /\ wire = <<>>

(* Blocks that the controller has still to send for the oldest request. *)
Left(w) == IF w = <<>> THEN 0 ELSE w[1].left

(* Messages that are on their way, when m was the last reference given out: each
   is as old as the commands behind it are many, at most. *)
Waiting(m, w, q) ==
  /\ \A j \in 1 .. Len(w) : Age(m, w[j].ref) = Len(w) - j
  /\ \A i \in 1 .. Len(q) : Age(m, q[i].ref) <= Len(q) - i + Len(w)

(* The settings of the theorems: any clients that send text commands, or one
   client with readouts. *)
TextOnly == Readers = {} /\ Natives = {}
OneThread == \E t \in Threads : Threads = {t}

(* Threads in archon_cmd exclude one another, and a thread that reads a frame is
   the only one. *)
Apart ==
  /\ \A t, u \in Threads : InBody(t) /\ InBody(u) => t = u
  /\ TextOnly => \A t \in Threads : stage[t] \in NoFrameStages \ {"native"}
  /\ ~TextOnly => OneThread

(* Where a thread is in archon_cmd goes with its operation. *)
CallInv ==
  \A t \in Threads :
    /\ pc[t] = "out" <=> stage[t] \notin Calls
    /\ pc[t] = "receive" => RequestKind(stage[t]) # "fetch"

GotInv == \A t \in Threads : pc[t] # "receive" => got[t] = NoItem

(* After a native FETCH archon_busy stays set, and every command is refused. *)
Refused == {"idle", "command", "native", "system", "openlog", "lock"}
Dead == busy /\ \A t \in Threads : stage[t] \in Refused /\ pc[t] \in {"out", "call"}

QueueInv == Waiting(msgref, wire, input) /\ (~connected => Quiet)

Streaming(t) == stage[t] \in {"stream", "body", "release"}

(* While no frame is read: a command adds a message, and takes at least one
   before the next command. *)
Few ==
  /\ \A j \in 1 .. Len(wire) : wire[j].kind # "fetch"
  /\ Len(input) + Len(wire) <= MaxLag + 1
  /\ (\A t \in Threads : pc[t] # "receive") => Len(input) + Len(wire) <= MaxLag

(* While t reads a frame: no more blocks are on their way than it has to read,
   however many there are. *)
Counted(t) == Len(wire) <= 1 /\ Len(input) + Left(wire) + block[t] <= Blocks

RoomInv ==
  /\ (\A t \in Threads : ~Streaming(t)) => Few
  /\ \A t \in Threads : Streaming(t) /\ ret[t] = "NO_ERROR" => Counted(t)

FetchInv == \A t \in Threads : stage[t] = "fetch" => Quiet

(* In front of a thread that waits for its reply: what is of age 0 answers its
   command, and nothing comes after that. *)
Replied(t) ==
  /\ check[t] = msgref
  /\ wire # <<>> => wire[Len(wire)].kind # "fetch" /\ wire[Len(wire)].for = t
  /\ \A i \in 1 .. Len(input) :
       Age(msgref, input[i].ref) = 0 => input[i].for = t /\ i = Len(input) /\ wire = <<>>
  /\ got[t] # NoItem /\ Age(msgref, got[t].ref) = 0 => got[t].for = t /\ Quiet

ReplyInv == \A t \in Threads : IF pc[t] = "receive" THEN Replied(t) ELSE got[t] = NoItem

Live == QueueInv /\ RoomInv /\ FetchInv /\ ReplyInv

LinkInv == CallInv /\ GotInv /\ (Dead \/ debris \/ Live)

(* A thread that reads a frame has only its own messages in front of it: it sent
   its FETCH when nothing was on its way. *)
Ours(t) ==
  /\ \A i \in 1 .. Len(input) : input[i].for = t
  /\ \A j \in 1 .. Len(wire) : wire[j].for = t

Fresh(t) ==
  /\ stage[t] \in {"lock", "fetch"} => block[t] = 0 /\ clean[t]
  /\ stage[t] = "fetch" => ~busy

Framed(t) ==
  /\ stage[t] \in {"stream", "body"} => clean[t] /\ ret[t] = "NO_ERROR" /\ Ours(t)
  /\ stage[t] = "body" => input # <<>> /\ input[1].kind = "payload"
  /\ stage[t] = "release" /\ ret[t] = "NO_ERROR" => clean[t] /\ block[t] = Blocks

FrameInv == \A t \in Threads : Fresh(t) /\ (debris \/ Framed(t))

LEMMA AgeIs ==
  ASSUME NEW m \in Refs, NEW r \in Refs
  PROVE  /\ Age(m, r) \in 0 .. RefMod - 1
         /\ Age(m, m) = 0
         /\ Age(m, r) = 0 => r = m
BY BoundsAssumption DEF Age, Refs

(* The next reference ages those that it does not come upon again. *)
Follows(m, n) ==
  n \in Refs /\ \A r \in Refs : Age(m, r) < RefMod - 1 => Age(n, r) = Age(m, r) + 1

LEMMA NextFollows ==
  ASSUME NEW m \in Refs
  PROVE  Follows(m, (m + 1) % RefMod)
<1>0. (m + 1) % RefMod \in Refs
  BY BoundsAssumption DEF Refs
<1>. USE BoundsAssumption DEF Refs
<1>. SUFFICES ASSUME NEW r \in Refs, Age(m, r) < RefMod - 1
              PROVE  Age((m + 1) % RefMod, r) = Age(m, r) + 1
  BY <1>0 DEF Follows
<1>1. CASE m + 1 < RefMod
  <2>1. (m + 1) % RefMod = m + 1
    BY <1>1
  <2>. QED
    BY <2>1 DEF Age
<1>2. CASE m + 1 = RefMod
  <2>1. (m + 1) % RefMod = 0
    BY <1>2
  <2>. QED
    BY <1>2, <2>1 DEF Age
<1>. QED
  BY <1>1, <1>2

LEMMA RefsOf ==
  ASSUME NEW w \in Seq(Request), NEW q \in Seq(Item)
  PROVE  /\ Len(w) \in Nat /\ Len(q) \in Nat
         /\ \A j \in 1 .. Len(w) : w[j] \in Request /\ w[j].ref \in Refs /\ w[j].left \in 1 .. Blocks
         /\ \A i \in 1 .. Len(q) : q[i] \in Item /\ q[i].ref \in Refs
<1>1. Len(w) \in Nat /\ Len(q) \in Nat
  BY LenProperties
<1>2. \A j \in 1 .. Len(w) : w[j] \in Request
  BY ElementOfSeq
<1>3. \A i \in 1 .. Len(q) : q[i] \in Item
  BY ElementOfSeq
<1>. QED
  BY <1>1, <1>2, <1>3 DEF Request, Item

LEMMA NothingWaiting ==
  ASSUME NEW m
  PROVE  Waiting(m, <<>>, <<>>)
BY DEF Waiting

(* Marking messages as stale leaves them as they are otherwise. *)
Same(s, u) ==
  /\ Len(u) = Len(s)
  /\ \A i \in 1 .. Len(s) : u[i].ref = s[i].ref /\ u[i].kind = s[i].kind

LEMMA StaleSame ==
  ASSUME NEW w \in Seq(Request), NEW q \in Seq(Item), NEW t
  PROVE  Same(w, Stale(w, t)) /\ Same(q, Stale(q, t))
<1>1. /\ DOMAIN w = 1 .. Len(w) /\ DOMAIN q = 1 .. Len(q)
      /\ Len(w) \in Nat /\ Len(q) \in Nat
  BY LenProperties
<1>2. /\ \A j \in 1 .. Len(w) : w[j] \in Request
      /\ \A i \in 1 .. Len(q) : q[i] \in Item
  BY RefsOf
<1>3. Len(Stale(w, t)) = Len(w) /\ Len(Stale(q, t)) = Len(q)
  <2>1. /\ Stale(w, t) \in Seq(Request) /\ Stale(q, t) \in Seq(Item)
    BY StaleItems, StaleRequests
  <2>2. /\ DOMAIN Stale(w, t) = 1 .. Len(Stale(w, t)) /\ Len(Stale(w, t)) \in Nat
        /\ DOMAIN Stale(q, t) = 1 .. Len(Stale(q, t)) /\ Len(Stale(q, t)) \in Nat
    BY <2>1, LenProperties
  <2>3. DOMAIN Stale(w, t) = DOMAIN w /\ DOMAIN Stale(q, t) = DOMAIN q
    BY DEF Stale
  <2>4. \A m, n \in Nat : 1 .. m = 1 .. n => m = n
    <3>1. \A m, n \in Nat : 1 .. m = 1 .. n /\ m # 0 => m \in 1 .. n
      OBVIOUS
    <3>2. \A m, n \in Nat : 1 .. m = 1 .. n => m <= n /\ n <= m
      BY <3>1
    <3>. QED
      BY <3>2
  <2>5. Len(Stale(w, t)) = Len(w)
    BY <1>1, <2>2, <2>3, <2>4
  <2>6. Len(Stale(q, t)) = Len(q)
    BY <1>1, <2>2, <2>3, <2>4
  <2>. QED
    BY <2>5, <2>6
<1>4. \A j \in 1 .. Len(w) : /\ Stale(w, t)[j].ref = w[j].ref /\ Stale(w, t)[j].kind = w[j].kind
                             /\ Stale(w, t)[j].left = w[j].left
  <2>. SUFFICES ASSUME NEW j \in 1 .. Len(w)
                PROVE  /\ Stale(w, t)[j].ref = w[j].ref /\ Stale(w, t)[j].kind = w[j].kind
                       /\ Stale(w, t)[j].left = w[j].left
    OBVIOUS
  <2>1. Stale(w, t)[j] = IF w[j].for = t THEN [w[j] EXCEPT !.for = NoThread] ELSE w[j]
    BY <1>1 DEF Stale
  <2>2. w[j] \in Request
    BY <1>2
  <2>. QED
    BY <2>1, <2>2 DEF Request
<1>5. \A i \in 1 .. Len(q) : Stale(q, t)[i].ref = q[i].ref /\ Stale(q, t)[i].kind = q[i].kind
  <2>. SUFFICES ASSUME NEW i \in 1 .. Len(q)
                PROVE  Stale(q, t)[i].ref = q[i].ref /\ Stale(q, t)[i].kind = q[i].kind
    OBVIOUS
  <2>1. Stale(q, t)[i] = IF q[i].for = t THEN [q[i] EXCEPT !.for = NoThread] ELSE q[i]
    BY <1>1 DEF Stale
  <2>2. q[i] \in Item
    BY <1>2
  <2>. QED
    BY <2>1, <2>2 DEF Item
<1>6. Same(w, Stale(w, t)) /\ Same(q, Stale(q, t))
  BY <1>3, <1>4, <1>5 DEF Same
<1>. QED
  BY <1>6

(* A command is sent behind the messages that are on their way. *)
LEMMA WaitingSend ==
  ASSUME NEW m \in Refs, NEW w \in Seq(Request), NEW q \in Seq(Item),
         NEW w2, NEW q2 \in Seq(Item), NEW r,
         Waiting(m, w, q), Len(w) + Len(q) < RefMod,
         Same(w, w2), Same(q, q2), w2 \in Seq(Request), r \in Request, Follows(m, r.ref)
  PROVE  /\ Waiting(r.ref, Append(w2, r), q2)
         /\ \A i \in 1 .. Len(q2) : Age(r.ref, q2[i].ref) # 0
<1>. USE BoundsAssumption
<1>1. /\ Len(Append(w2, r)) = Len(w) + 1
      /\ \A j \in 1 .. Len(w) : Append(w2, r)[j] = w2[j]
      /\ Append(w2, r)[Len(w) + 1] = r
  BY AppendProperties DEF Same
<1>2. /\ Len(w) \in Nat /\ Len(q) \in Nat
      /\ \A j \in 1 .. Len(w) : w[j].ref \in Refs
      /\ \A i \in 1 .. Len(q) : q[i].ref \in Refs
  BY RefsOf
<1>3. \A j \in 1 .. Len(w) : Age(r.ref, w2[j].ref) = Len(w) - j + 1
  <2>. SUFFICES ASSUME NEW j \in 1 .. Len(w)
                PROVE  Age(r.ref, w2[j].ref) = Len(w) - j + 1
    OBVIOUS
  <2>1. Age(m, w[j].ref) = Len(w) - j
    BY DEF Waiting
  <2>2. w2[j].ref = w[j].ref /\ w[j].ref \in Refs
    BY <1>2 DEF Same
  <2>3. Age(m, w[j].ref) < RefMod - 1
    BY <1>2, <2>1
  <2>. QED
    BY <2>1, <2>2, <2>3 DEF Follows
<1>4. \A i \in 1 .. Len(q) : /\ Age(r.ref, q2[i].ref) \in Nat \ {0}
                             /\ Age(r.ref, q2[i].ref) <= Len(q) - i + Len(w) + 1
  <2>. SUFFICES ASSUME NEW i \in 1 .. Len(q)
                PROVE  /\ Age(r.ref, q2[i].ref) \in Nat \ {0}
                       /\ Age(r.ref, q2[i].ref) <= Len(q) - i + Len(w) + 1
    OBVIOUS
  <2>1. Age(m, q[i].ref) <= Len(q) - i + Len(w)
    BY DEF Waiting
  <2>2. q2[i].ref = q[i].ref /\ q[i].ref \in Refs
    BY <1>2 DEF Same
  <2>3. Age(m, q[i].ref) \in 0 .. RefMod - 1
    BY <2>2, AgeIs
  <2>4. Age(m, q[i].ref) < RefMod - 1
    BY <1>2, <2>1, <2>3
  <2>5. Age(r.ref, q[i].ref) = Age(m, q[i].ref) + 1
    BY <2>2, <2>4 DEF Follows
  <2>6. Age(m, q[i].ref) + 1 \in Nat \ {0}
    BY <2>3
  <2>7. Len(q) \in Nat /\ Len(w) \in Nat /\ i \in Nat
    OBVIOUS
  <2>8. Age(m, q[i].ref) + 1 <= Len(q) - i + Len(w) + 1
    BY <2>1, <2>3, <2>7
  <2>. QED
    BY <2>2, <2>5, <2>6, <2>8
<1>5. r.ref \in Refs /\ Age(r.ref, r.ref) = 0
  <2>1. r.ref \in Refs
    BY DEF Request
  <2>. QED
    BY <2>1, AgeIs
<1>6. Len(q2) = Len(q)
  BY DEF Same
<1>. QED
  <2>. DEFINE v == Append(w2, r)
  <2>1. \A j \in 1 .. Len(w) + 1 : Age(r.ref, v[j].ref) = Len(w) + 1 - j
    <3>. SUFFICES ASSUME NEW j \in 1 .. Len(w) + 1
                  PROVE  Age(r.ref, v[j].ref) = Len(w) + 1 - j
      OBVIOUS
    <3>1. CASE j = Len(w) + 1
      BY <1>1, <1>2, <1>5, <3>1
    <3>2. CASE j \in 1 .. Len(w)
      BY <1>1, <1>2, <1>3, <3>2
    <3>3. j = Len(w) + 1 \/ j \in 1 .. Len(w)
      BY <1>2
    <3>. QED
      BY <3>1, <3>2, <3>3
  <2>2. \A i \in 1 .. Len(q2) : Age(r.ref, q2[i].ref) <= Len(q2) - i + (Len(w) + 1)
    <3>. SUFFICES ASSUME NEW i \in 1 .. Len(q)
                  PROVE  Age(r.ref, q2[i].ref) <= Len(q) - i + (Len(w) + 1)
      BY <1>6
    <3>. QED
      BY <1>2, <1>4
  <2>3. Len(v) = Len(w) + 1
    BY <1>1
  <2>. HIDE DEF v
  <2>4. Waiting(r.ref, v, q2)
    BY <2>1, <2>2, <2>3 DEF Waiting
  <2>. QED
    BY <1>4, <1>6, <2>4 DEF v

(* q2 is q without its first n messages, of which bytes may be lost. *)
Taken(q, q2, n) ==
  /\ n \in 0 .. Len(q) /\ Len(q2) = Len(q) - n
  /\ \A i \in 1 .. Len(q2) : q2[i].ref = q[i + n].ref /\ q2[i].for = q[i + n].for

LEMMA WaitingTaken ==
  ASSUME NEW m, NEW w \in Seq(Request), NEW q \in Seq(Item), NEW q2, NEW n \in Nat,
         Waiting(m, w, q), Taken(q, q2, n)
  PROVE  Waiting(m, w, q2)
<1>1. Len(w) \in Nat /\ Len(q) \in Nat
  BY RefsOf
<1>2. ASSUME NEW i \in 1 .. Len(q2)
      PROVE  Age(m, q2[i].ref) <= Len(q2) - i + Len(w)
  <2>1. i + n \in 1 .. Len(q) /\ Len(q2) - i = Len(q) - (i + n)
    BY <1>1, <1>2 DEF Taken
  <2>2. Age(m, q[i + n].ref) <= Len(q) - (i + n) + Len(w)
    BY <2>1 DEF Waiting
  <2>3. q2[i].ref = q[i + n].ref
    BY DEF Taken
  <2>. QED
    BY <2>1, <2>2, <2>3
<1>. QED
  BY <1>2 DEF Waiting

(* The controller answers the first request, and keeps it while it owes blocks. *)
Answered(w, w2, q, q2) ==
  /\ Len(q2) = Len(q) + 1 /\ \A i \in 1 .. Len(q) : q2[i] = q[i]
  /\ q2[Len(q) + 1].ref = w[1].ref /\ q2[Len(q) + 1].for = w[1].for
  /\ \/ Len(w2) = Len(w) - 1 /\ \A j \in 1 .. Len(w2) : w2[j] = w[j + 1]
     \/ /\ w[1].kind = "fetch" /\ w[1].left # 1 /\ Len(w2) = Len(w)
        /\ w2[1].kind = "fetch" /\ w2[1].left = w[1].left - 1
        /\ w2[1].ref = w[1].ref /\ w2[1].for = w[1].for
        /\ \A j \in 2 .. Len(w) : w2[j] = w[j]

LEMMA WaitingAnswer ==
  ASSUME NEW m \in Refs, NEW w \in Seq(Request), NEW q \in Seq(Item), NEW w2, NEW q2,
         w # <<>>, Waiting(m, w, q), Answered(w, w2, q, q2)
  PROVE  Waiting(m, w2, q2)
<1>1. Len(w) \in Nat /\ Len(q) \in Nat /\ Len(w) >= 1
  BY RefsOf, EmptySeq
<1>2. Age(m, w[1].ref) = Len(w) - 1 /\ Age(m, q2[Len(q) + 1].ref) = Len(w) - 1
  BY <1>1 DEF Waiting, Answered
<1>3. \A i \in 1 .. Len(q) : Age(m, q2[i].ref) <= Len(q) - i + Len(w)
  BY DEF Waiting, Answered
<1>4. CASE Len(w2) = Len(w) - 1 /\ \A j \in 1 .. Len(w2) : w2[j] = w[j + 1]
  <2>1. \A j \in 1 .. Len(w2) : Age(m, w2[j].ref) = Len(w2) - j
    <3>. SUFFICES ASSUME NEW j \in 1 .. Len(w2)
                  PROVE  Age(m, w2[j].ref) = Len(w2) - j
      OBVIOUS
    <3>1. j + 1 \in 1 .. Len(w) /\ w2[j] = w[j + 1]
      BY <1>1, <1>4
    <3>2. Age(m, w[j + 1].ref) = Len(w) - (j + 1)
      BY <3>1 DEF Waiting
    <3>. QED
      BY <1>1, <1>4, <3>1, <3>2
  <2>2. \A i \in 1 .. Len(q) + 1 : Age(m, q2[i].ref) <= Len(q) + 1 - i + Len(w2)
    <3>. SUFFICES ASSUME NEW i \in 1 .. Len(q) + 1
                  PROVE  Age(m, q2[i].ref) <= Len(q) + 1 - i + Len(w2)
      OBVIOUS
    <3>1. CASE i = Len(q) + 1
      BY <1>1, <1>2, <1>4, <3>1
    <3>2. CASE i \in 1 .. Len(q)
      <4>1. Len(q) + 1 - i + Len(w2) = Len(q) - i + Len(w)
        BY <1>1, <1>4
      <4>. QED
        BY <1>3, <3>2, <4>1
    <3>. QED
      BY <1>1, <3>1, <3>2
  <2>. QED
    BY <2>1, <2>2 DEF Waiting, Answered
<1>5. CASE /\ Len(w2) = Len(w) /\ w2[1].ref = w[1].ref
           /\ \A j \in 2 .. Len(w) : w2[j] = w[j]
  <2>1. \A j \in 1 .. Len(w) : w2[j].ref = w[j].ref
    BY <1>1, <1>5
  <2>2. \A j \in 1 .. Len(w2) : Age(m, w2[j].ref) = Len(w2) - j
    BY <1>5, <2>1 DEF Waiting
  <2>3. \A i \in 1 .. Len(q) + 1 : Age(m, q2[i].ref) <= Len(q) + 1 - i + Len(w2)
    <3>. SUFFICES ASSUME NEW i \in 1 .. Len(q) + 1
                  PROVE  Age(m, q2[i].ref) <= Len(q) + 1 - i + Len(w2)
      OBVIOUS
    <3>1. CASE i = Len(q) + 1
      BY <1>1, <1>2, <1>5, <3>1
    <3>2. CASE i \in 1 .. Len(q)
      <4>1. q2[i] = q[i] /\ q[i].ref \in Refs
        BY <3>2, RefsOf DEF Answered
      <4>2. Age(m, q2[i].ref) \in 0 .. RefMod - 1
        BY <4>1, AgeIs
      <4>. QED
        BY <1>1, <1>3, <1>5, <3>2, <4>2
    <3>. QED
      BY <1>1, <3>1, <3>2
  <2>. QED
    BY <1>5, <2>2, <2>3 DEF Waiting, Answered
<1>. QED
  BY <1>4, <1>5 DEF Answered



LEMMA LeftType ==
  ASSUME NEW w \in Seq(Request)
  PROVE  Left(w) \in Nat /\ (w # <<>> => Left(w) >= 1)
<1>1. CASE w # <<>>
  <2>1. 1 \in 1 .. Len(w)
    BY <1>1, EmptySeq
  <2>2. w[1] \in Request
    BY <2>1
  <2>3. w[1].left \in 1 .. Blocks /\ Blocks \in Nat
    BY <2>2, BoundsAssumption DEF Request
  <2>4. w[1].left \in Nat /\ w[1].left >= 1
    BY <2>3
  <2>. QED
    BY <1>1, <2>4 DEF Left
<1>. QED
  BY <1>1 DEF Left

(* A thread that is inside archon_cmd leaves nobody to read a frame. *)
LEMMA CallStreams ==
  ASSUME Apart, CallInv, NEW t \in Threads, pc[t] # "out"
  PROVE  \A u \in Threads : ~Streaming(u)
<1>1. stage[t] \in Calls
  BY DEF CallInv
<1>2. CASE TextOnly
  BY <1>2 DEF Apart, NoFrameStages, Streaming
<1>3. CASE ~TextOnly
  <2>0. OneThread
    BY <1>3 DEF Apart
  <2>1. \A u \in Threads : u = t
    BY <2>0 DEF OneThread
  <2>. QED
    BY <1>1, <2>1 DEF Streaming, Calls
<1>. QED
  BY <1>2, <1>3

(* A step that reads no frame, and at most closes the connection. *)
LEMMA RoomMove ==
  ASSUME TypeInv, TypeInv', RoomInv,
         \A u \in Threads : pc'[u] = "receive" <=> pc[u] = "receive",
         (\A u \in Threads : ~Streaming(u)') => (\A u \in Threads : ~Streaming(u)),
         \A u \in Threads : Streaming(u)' /\ ret'[u] = "NO_ERROR" =>
           Streaming(u) /\ ret[u] = "NO_ERROR" /\ block'[u] = block[u],
         UNCHANGED <<wire, input>> \/ HangUp
  PROVE  RoomInv'
<1>1. CASE UNCHANGED <<wire, input>>
  <2>1. ASSUME \A u \in Threads : ~Streaming(u)'
        PROVE  Few'
    <3>1. Few
      BY <2>1 DEF RoomInv
    <3>. QED
      BY <1>1, <3>1 DEF Few
  <2>2. ASSUME NEW u \in Threads, Streaming(u)', ret'[u] = "NO_ERROR"
        PROVE  Counted(u)'
    <3>1. Counted(u) /\ block'[u] = block[u]
      BY <2>2 DEF RoomInv
    <3>. QED
      BY <1>1, <3>1 DEF Counted
  <2>. QED
    BY <2>1, <2>2 DEF RoomInv
<1>2. CASE HangUp
  <2>1. wire' = <<>> /\ input' = <<>> /\ Len(wire') = 0 /\ Len(input') = 0 /\ Left(wire') = 0
    BY <1>2 DEF HangUp, Left
  <2>2. Few'
    BY <2>1, BoundsAssumption DEF Few
  <2>3. ASSUME NEW u \in Threads
        PROVE  Counted(u)'
    <3>1. block'[u] \in 0 .. Blocks
      BY DEF TypeInv, TypeOK
    <3>. QED
      BY <2>1, <3>1, BoundsAssumption DEF Counted
  <2>. QED
    BY <2>2, <2>3 DEF RoomInv
<1>. QED
  BY <1>1, <1>2

LEMMA TakenLeaves ==
  ASSUME NEW q \in Seq(Item), NEW q2 \in Seq(Item), NEW n \in Nat, Taken(q, q2, n)
  PROVE  /\ Len(q2) \in Nat /\ Len(q2) <= Len(q) /\ (n >= 1 => Len(q2) <= Len(q) - 1)
         /\ q = <<>> => q2 = <<>>
<1>1. Len(q) \in Nat /\ Len(q2) \in Nat
  BY LenProperties
<1>2. Len(q2) = Len(q) - n
  BY DEF Taken
<1>3. ASSUME q = <<>>
      PROVE  q2 = <<>>
  <2>1. Len(q2) = 0
    BY <1>1, <1>2, <1>3, EmptySeq
  <2>. QED
    BY <2>1, EmptySeq
<1>. QED
  BY <1>1, <1>2, <1>3

(* Outside archon_cmd messages are at most taken. *)
LEMMA LiveMove ==
  ASSUME TypeInv, TypeInv', Live, RoomInv', UNCHANGED <<check, got, msgref>>,
         \A u \in Threads : /\ pc'[u] = "receive" <=> pc[u] = "receive"
                            /\ stage'[u] = "fetch" => stage[u] = "fetch",
         \/ UNCHANGED <<wire, input>> /\ (connected' \/ connected' = connected)
         \/ HangUp
         \/ UNCHANGED <<wire, connected>> /\ \E n \in Nat : Taken(input, input', n)
  PROVE  Live'
<1>0. /\ wire \in Seq(Request) /\ input \in Seq(Item) /\ msgref \in Refs
      /\ wire' \in Seq(Request) /\ input' \in Seq(Item)
      /\ connected \in BOOLEAN /\ connected' \in BOOLEAN
  BY DEF TypeInv, TypeOK
<1>1. CASE UNCHANGED <<wire, input>> /\ (connected' \/ connected' = connected)
  <2>1. QueueInv'
    BY <1>0, <1>1 DEF Live, QueueInv, Quiet
  <2>3. FetchInv'
    BY <1>1 DEF Live, FetchInv, Quiet
  <2>4. ReplyInv'
    BY <1>1 DEF Live, ReplyInv, Replied, Quiet
  <2>. QED
    BY <2>1, <2>3, <2>4 DEF Live
<1>2. CASE HangUp
  <2>0. wire' = <<>> /\ input' = <<>> /\ Len(wire') = 0 /\ Len(input') = 0 /\ Quiet'
    BY <1>2 DEF HangUp, Quiet
  <2>1. QueueInv'
    BY <2>0, NothingWaiting DEF QueueInv
  <2>3. FetchInv'
    BY <2>0 DEF FetchInv
  <2>4. ReplyInv'
    BY <2>0 DEF Live, ReplyInv, Replied
  <2>. QED
    BY <2>1, <2>3, <2>4 DEF Live
<1>3. ASSUME UNCHANGED <<wire, connected>>, NEW n \in Nat, Taken(input, input', n)
      PROVE  Live'
  <2>0. /\ Len(input) \in Nat /\ Len(wire) \in Nat /\ Len(input') \in Nat /\ Len(input') <= Len(input)
        /\ Quiet => Quiet'
    BY <1>0, <1>3, TakenLeaves, RefsOf DEF Quiet
  <2>1. QueueInv'
    BY <1>0, <1>3, <2>0, WaitingTaken DEF Live, QueueInv
  <2>3. FetchInv'
    BY <2>0 DEF Live, FetchInv
  <2>4. ReplyInv'
    <3>. SUFFICES ASSUME NEW t \in Threads
                  PROVE  IF pc[t] = "receive" THEN Replied(t)' ELSE got[t] = NoItem
      BY DEF ReplyInv
    <3>1. CASE pc[t] # "receive"
      BY <3>1 DEF Live, ReplyInv
    <3>2. CASE pc[t] = "receive"
      <4>1. Replied(t)
        BY <3>2 DEF Live, ReplyInv
      <4>2. ASSUME NEW i \in 1 .. Len(input'), Age(msgref, input'[i].ref) = 0
            PROVE  input'[i].for = t /\ i = Len(input') /\ wire = <<>>
        <5>1. /\ i + n \in 1 .. Len(input) /\ Len(input') = Len(input) - n
              /\ input'[i].ref = input[i + n].ref /\ input'[i].for = input[i + n].for
          BY <1>3, <2>0 DEF Taken
        <5>2. input[i + n].for = t /\ i + n = Len(input) /\ wire = <<>>
          BY <4>1, <4>2, <5>1 DEF Replied
        <5>3. i \in Nat /\ n \in Nat /\ i + n = Len(input') + n
          BY <1>3, <2>0, <5>1, <5>2
        <5>4. i = Len(input')
          BY <2>0, <5>3
        <5>. QED
          BY <5>1, <5>2, <5>4
      <4>3. got[t] # NoItem /\ Age(msgref, got[t].ref) = 0 => got[t].for = t /\ Quiet'
        BY <2>0, <4>1 DEF Replied
      <4>. QED
        BY <1>3, <3>2, <4>1, <4>2, <4>3 DEF Replied
    <3>. QED
      BY <3>1, <3>2
  <2>. QED
    BY <2>1, <2>3, <2>4 DEF Live
<1>. QED
  BY <1>1, <1>2, <1>3

(* The end of archon_cmd. *)
LEMMA FinishPlace ==
  ASSUME TypeInv, CallInv, NEW t \in Threads, NEW code, NEW item, Finish(t, code, item),
         pc[t] = "receive"
  PROVE  /\ \A u \in Threads \ {t} : pc'[u] = pc[u] /\ stage'[u] = stage[u] /\ got'[u] = got[u]
         /\ pc'[t] # "receive" /\ got'[t] = NoItem /\ msgref' = msgref /\ ~busy'
         /\ stage'[t] = "fetch" => stage[t] = "lock" /\ code = "NO_ERROR"
         /\ Streaming(t)' => ret'[t] = "ERROR"
<1>0. /\ stage \in [Threads -> Stages] /\ pc \in [Threads -> Points]
      /\ got \in [Threads -> Item \cup {NoItem}] /\ ret \in [Threads -> Codes]
  BY DEF TypeInv, TypeOK
<1>1. got' = [got EXCEPT ![t] = NoItem] /\ msgref' = msgref /\ ~busy'
  BY DEF Finish, BusyAfter
<1>2. CASE Return(t, code)
  <2>. DEFINE s == NextStage(stage[t], code)
              v == Verdict(stage[t], code)
  <2>0. stage[t] \in Calls /\ stage[t] # "fetch"
    BY DEF CallInv, RequestKind
  <2>1. s = "fetch" => stage[t] = "lock" /\ code = "NO_ERROR"
    BY SMTT(30) DEF NextStage
  <2>2. s \in {"stream", "body", "release"} => stage[t] = "log"
    BY <2>0, SMTT(30) DEF NextStage, Calls
  <2>3. stage[t] = "log" => v = "ERROR"
    BY SMTT(30) DEF Verdict
  <2>. HIDE DEF s, v
  <2>4. /\ stage' = [stage EXCEPT ![t] = s] /\ pc' = [pc EXCEPT ![t] = IF s \in Calls THEN "call" ELSE "out"]
        /\ ret' = [ret EXCEPT ![t] = v]
    BY <1>2 DEF Return, At, Code, s, v
  <2>5. stage'[t] = s /\ ret'[t] = v
    BY <1>0, <2>4
  <2>6. Streaming(t)' => ret'[t] = "ERROR"
    BY <2>2, <2>3, <2>5 DEF Streaming
  <2>7. stage'[t] = "fetch" => stage[t] = "lock" /\ code = "NO_ERROR"
    BY <2>1, <2>5
  <2>8. pc'[t] # "receive" /\ \A u \in Threads \ {t} : pc'[u] = pc[u] /\ stage'[u] = stage[u]
    BY <1>0, <2>4
  <2>. QED
    BY <1>0, <1>1, <2>6, <2>7, <2>8
<1>3. CASE At(t, stage[t]) /\ stage[t] \in {"log", "openlog"}
  BY <1>0, <1>1, <1>3 DEF At, Streaming
<1>. QED
  BY <1>2, <1>3 DEF Finish

LEMMA FinishLive ==
  ASSUME TypeInv, Apart, CallInv, Live, NEW t \in Threads, NEW code, NEW item, pc[t] = "receive",
         Finish(t, code, item), QueueInv', Quiet => Quiet',
         stage[t] = "lock" /\ code = "NO_ERROR" => Quiet',
         \A j \in 1 .. Len(wire') : wire'[j].kind # "fetch",
         Len(input') + Len(wire') <= MaxLag,
         wire' \in Seq(Request), input' \in Seq(Item)
  PROVE  Live'
<1>1. /\ \A u \in Threads \ {t} : pc'[u] = pc[u] /\ stage'[u] = stage[u] /\ got'[u] = got[u]
      /\ pc'[t] # "receive" /\ got'[t] = NoItem
      /\ stage'[t] = "fetch" => stage[t] = "lock" /\ code = "NO_ERROR"
      /\ Streaming(t)' => ret'[t] = "ERROR"
  BY FinishPlace
<1>2. \A u \in Threads : pc'[u] # "receive"
  BY <1>1 DEF Apart, InBody
<1>3. RoomInv'
  <2>1. Few'
    BY RefsOf, BoundsAssumption DEF Few
  <2>2. \A u \in Threads : Streaming(u)' => u = t
    <3>1. \A u \in Threads : ~Streaming(u)
      BY CallStreams
    <3>. QED
      BY <1>1, <3>1 DEF Streaming
  <2>3. \A u \in Threads : ~(Streaming(u)' /\ ret'[u] = "NO_ERROR")
    BY <1>1, <2>2
  <2>. QED
    BY <2>1, <2>3 DEF RoomInv
<1>4. FetchInv'
  BY <1>1 DEF Live, FetchInv
<1>5. ReplyInv'
  BY <1>1, <1>2 DEF Live, ReplyInv
<1>. QED
  BY <1>3, <1>4, <1>5 DEF Live

(* A reply that is judged well answers the command. *)
LEMMA JudgedIsOwn ==
  ASSUME TypeInv, NEW t \in Threads, Replied(t), Judge(t, FirstRead(t)) = "NO_ERROR",
         Len(input) >= 1 \/ got[t] # NoItem
  PROVE  FirstRead(t).for = t /\ (Quiet \/ (got[t] = NoItem /\ Len(input) = 1 /\ wire = <<>>))
<1>0. msgref \in Refs /\ check[t] = msgref /\ input \in Seq(Item)
  BY DEF TypeInv, TypeOK, Replied
<1>1. FirstRead(t) # NoItem /\ FirstRead(t).ref = msgref
  BY <1>0 DEF Judge
<1>2. Age(msgref, FirstRead(t).ref) = 0
  BY <1>0, <1>1, AgeIs
<1>3. CASE got[t] = NoItem
  <2>1. 1 \in 1 .. Len(input) /\ FirstRead(t) = input[1]
    BY <1>0, <1>3, LenProperties DEF FirstRead
  <2>. QED
    BY <1>2, <1>3, <2>1 DEF Replied
<1>4. CASE got[t] # NoItem
  BY <1>2, <1>4 DEF Replied, FirstRead
<1>. QED
  BY <1>3, <1>4

LEMMA PutFirst ==
  ASSUME NEW S, NEW x \in S, NEW s \in Seq(S)
  PROVE  /\ Len(<<x>> \o s) = Len(s) + 1 /\ (<<x>> \o s)[1] = x
         /\ \A i \in 1 .. Len(s) : (<<x>> \o s)[i + 1] = s[i]
OBVIOUS

(* What a Read leaves of the received messages. *)
LEMMA ReadTakes ==
  ASSUME NEW q \in Seq(Item), NEW n \in 1 .. Len(q), NEW cut \in BOOLEAN, NEW q2,
         LET tail == SubSeq(q, n + 1, Len(q))
         IN  /\ cut => tail # <<>>
             /\ q2 = IF cut THEN <<Rest(tail[1])>> \o Tail(tail) ELSE tail
  PROVE  Taken(q, q2, n)
<1>. DEFINE tail == SubSeq(q, n + 1, Len(q))
<1>1. Len(q) \in Nat /\ \A i \in 1 .. Len(q) : q[i] \in Item
  BY LenProperties, ElementOfSeq
<1>2. /\ tail \in Seq(Item) /\ Len(tail) = Len(q) - n
      /\ \A i \in 1 .. Len(q) - n : tail[i] = q[i + n]
  <2>1. \A i \in n + 1 .. Len(q) : q[i] \in Item
    BY <1>1
  <2>2. /\ tail \in Seq(Item)
        /\ Len(tail) = IF n + 1 <= Len(q) THEN Len(q) - (n + 1) + 1 ELSE 0
        /\ \A i \in 1 .. Len(q) - (n + 1) + 1 : tail[i] = q[n + 1 + i - 1]
    BY <1>1, <2>1, SubSeqProperties
  <2>3. Len(tail) = Len(q) - n
    BY <1>1, <2>2
  <2>4. \A i \in 1 .. Len(q) - n : tail[i] = q[i + n]
    <3>. SUFFICES ASSUME NEW i \in 1 .. Len(q) - n
                  PROVE  tail[i] = q[i + n]
      OBVIOUS
    <3>1. n + 1 + i - 1 = i + n /\ i \in 1 .. Len(q) - (n + 1) + 1
      BY <1>1
    <3>2. tail[i] = q[n + 1 + i - 1]
      BY <2>2, <3>1
    <3>. QED
      BY <3>1, <3>2
  <2>. QED
    BY <2>2, <2>3, <2>4
<1>3. q2 = IF cut THEN <<Rest(tail[1])>> \o Tail(tail) ELSE tail
  OBVIOUS
<1>4. cut => tail # <<>>
  OBVIOUS
<1>. HIDE DEF tail
<1>5. CASE ~cut
  BY <1>1, <1>2, <1>3, <1>5 DEF Taken
<1>6. CASE cut
  <2>1. /\ 1 \in 1 .. Len(tail) /\ tail[1] \in Item /\ Tail(tail) \in Seq(Item)
        /\ Len(Tail(tail)) = Len(tail) - 1 /\ Len(tail) \in Nat
        /\ \A i \in 1 .. Len(Tail(tail)) : Tail(tail)[i] = tail[i + 1]
    BY <1>2, <1>4, <1>6, HeadTailProperties, EmptySeq, ElementOfSeq
  <2>2. Rest(tail[1]) \in Item /\ Rest(tail[1]).ref = tail[1].ref /\ Rest(tail[1]).for = tail[1].for
    BY <2>1 DEF Rest, Item, Texts
  <2>. DEFINE x == Rest(tail[1])
  <2>3. q2 = <<x>> \o Tail(tail) /\ x \in Item
    BY <1>3, <1>6, <2>2
  <2>4. x.ref = tail[1].ref /\ x.for = tail[1].for
    BY <2>2
  <2>. HIDE DEF x
  <2>5. /\ Len(q2) = Len(Tail(tail)) + 1 /\ q2[1] = x
        /\ \A i \in 1 .. Len(Tail(tail)) : q2[i + 1] = Tail(tail)[i]
    <3>. DEFINE y == Tail(tail)
    <3>1. y \in Seq(Item) /\ q2 = <<x>> \o y
      BY <2>1, <2>3
    <3>. HIDE DEF y
    <3>2. /\ Len(<<x>> \o y) = Len(y) + 1 /\ (<<x>> \o y)[1] = x
          /\ \A i \in 1 .. Len(y) : (<<x>> \o y)[i + 1] = y[i]
      BY <2>3, <3>1, PutFirst
    <3>. QED
      BY <3>1, <3>2 DEF y
  <2>6. Len(q2) = Len(tail) /\ Len(q2) = Len(q) - n
    BY <1>1, <1>2, <2>1, <2>5
  <2>7. ASSUME NEW i \in 1 .. Len(q2)
        PROVE  q2[i].ref = q[i + n].ref /\ q2[i].for = q[i + n].for
    <3>1. tail[i] = q[i + n]
      BY <1>2, <2>6
    <3>2. CASE i = 1
      BY <2>4, <2>5, <3>1, <3>2
    <3>3. CASE i # 1
      <4>1. i - 1 \in 1 .. Len(Tail(tail)) /\ (i - 1) + 1 = i
        BY SMTT(40), <2>1, <2>6, <3>3
      <4>2. q2[i] = Tail(tail)[i - 1] /\ Tail(tail)[i - 1] = tail[i]
        BY <2>1, <2>5, <4>1
      <4>. QED
        BY <3>1, <4>2
    <3>. QED
      BY <3>2, <3>3
  <2>8. n \in 0 .. Len(q)
    BY <1>1
  <2>. QED
    BY <2>6, <2>7, <2>8 DEF Taken
<1>. QED
  BY <1>5, <1>6

LEMMA ReceiveLive ==
  ASSUME TypeInv, TypeInv', Apart, CallInv, Live, NEW t \in Threads, Receive(t)
  PROVE  Live'
<1>. DEFINE item == FirstRead(t)
<1>1. PICK n \in 1 .. Len(input), cut \in BOOLEAN, newline \in BOOLEAN :
        /\ LET tail == SubSeq(input, n + 1, Len(input))
           IN  /\ cut => tail # <<>>
               /\ input' = IF cut THEN <<Rest(tail[1])>> \o Tail(tail) ELSE tail
        /\ IF newline
           THEN Finish(t, Judge(t, item), item)
           ELSE got' = [got EXCEPT ![t] = item] /\ UNCHANGED <<sem, place, check, ret>>
  BY DEF Receive
<1>2. pc[t] = "receive" /\ UNCHANGED <<connected, wire>>
  BY DEF Receive
<1>3. /\ wire \in Seq(Request) /\ input \in Seq(Item) /\ input' \in Seq(Item)
      /\ got \in [Threads -> Item \cup {NoItem}] /\ msgref \in Refs
  BY DEF TypeInv, TypeOK
<1>4. Taken(input, input', n) /\ n \in Nat /\ n >= 1
  <2>1. Taken(input, input', n)
    BY <1>1, <1>3, ReadTakes
  <2>. QED
    BY <2>1, <1>3, LenProperties
<1>5. /\ Len(input) \in Nat /\ Len(wire) \in Nat /\ Len(input') \in Nat
      /\ Len(input') <= Len(input) - 1 /\ (Quiet => Quiet')
  BY <1>2, <1>3, <1>4, TakenLeaves, RefsOf DEF Quiet
<1>6. Replied(t)
  BY <1>2 DEF Live, ReplyInv
<1>7. Waiting(msgref, wire, input') /\ (~connected' => Quiet')
  BY <1>2, <1>3, <1>4, <1>5, WaitingTaken DEF Live, QueueInv
<1>8. /\ \A j \in 1 .. Len(wire') : wire'[j].kind # "fetch"
      /\ Len(input') + Len(wire') <= MaxLag
  <2>1. Few
    BY <1>2, CallStreams DEF Live, RoomInv
  <2>. QED
    BY <1>2, <1>5, <2>1, BoundsAssumption DEF Few
<1>9. ASSUME Judge(t, item) = "NO_ERROR"
      PROVE  Quiet'
  <2>1. Quiet \/ (Len(input) = 1 /\ wire = <<>>)
    BY <1>3, <1>5, <1>6, <1>9, JudgedIsOwn
  <2>2. CASE Len(input) = 1 /\ wire = <<>>
    <3>1. Len(input') = 0
      BY <1>5, <2>2
    <3>. QED
      BY <1>2, <1>3, <2>2, <3>1, EmptySeq DEF Quiet
  <2>. QED
    BY <1>5, <2>1, <2>2
<1>10. CASE newline
  <2>1. Finish(t, Judge(t, item), item)
    BY <1>1, <1>10
  <2>2. QueueInv'
    BY <1>2, <1>7, <2>1 DEF Finish, QueueInv
  <2>. HIDE DEF item
  <2>. QED
    BY <1>2, <1>3, <1>5, <1>8, <1>9, <2>1, <2>2, FinishLive
<1>11. CASE ~newline
  <2>1. got' = [got EXCEPT ![t] = item] /\ UNCHANGED <<busy, holder, msgref, stage, pc, check,
                                                        ret>>
    BY <1>1, <1>11 DEF sem, place
  <2>2. QueueInv'
    BY <1>2, <1>7, <2>1 DEF QueueInv
  <2>3. RoomInv'
    <3>1. Few'
      BY <1>2, <1>5, <1>8, BoundsAssumption DEF Few
    <3>2. \A u \in Threads : ~Streaming(u)'
      BY <1>2, <2>1, CallStreams DEF Streaming
    <3>. QED
      BY <3>1, <3>2 DEF RoomInv
  <2>4. FetchInv'
    BY <1>5, <2>1 DEF Live, FetchInv
  <2>5. Replied(t)'
    <3>1. ASSUME NEW i \in 1 .. Len(input'), Age(msgref, input'[i].ref) = 0
          PROVE  input'[i].for = t /\ i = Len(input') /\ wire = <<>>
      <4>1. /\ i + n \in 1 .. Len(input) /\ Len(input') = Len(input) - n
            /\ input'[i].ref = input[i + n].ref /\ input'[i].for = input[i + n].for
        BY <1>4, <1>5 DEF Taken
      <4>2. input[i + n].for = t /\ i + n = Len(input) /\ wire = <<>>
        BY <1>6, <3>1, <4>1 DEF Replied
      <4>. QED
        BY <1>5, <4>1, <4>2
    <3>2. ASSUME item # NoItem, Age(msgref, item.ref) = 0
          PROVE  item.for = t /\ Quiet'
      <4>1. CASE got[t] # NoItem
        BY <1>5, <1>6, <3>2, <4>1 DEF Replied, FirstRead
      <4>2. CASE got[t] = NoItem
        <5>1. 1 \in 1 .. Len(input) /\ item = input[1]
          BY <1>5, <4>2 DEF FirstRead
        <5>2. item.for = t /\ Len(input) = 1 /\ wire = <<>>
          BY <1>6, <3>2, <5>1 DEF Replied
        <5>3. Len(input') = 0
          BY <1>5, <5>2
        <5>. QED
          BY <1>2, <1>3, <5>2, <5>3, EmptySeq DEF Quiet
      <4>. QED
        BY <4>1, <4>2
    <3>3. got'[t] = item
      BY <1>3, <2>1
    <3>. HIDE DEF item
    <3>. QED
      BY <1>2, <1>6, <2>1, <3>1, <3>2, <3>3 DEF Replied
  <2>6. ReplyInv'
    <3>1. \A u \in Threads \ {t} : pc[u] # "receive" /\ got'[u] = got[u]
      BY <1>2, <1>3, <2>1 DEF Apart, InBody
    <3>. QED
      BY <1>2, <2>1, <2>5, <3>1 DEF Live, ReplyInv
  <2>. QED
    BY <2>2, <2>3, <2>4, <2>6 DEF Live
<1>. QED
  BY <1>10, <1>11

LEMMA TimeoutLive ==
  ASSUME TypeInv, TypeInv', Apart, CallInv, Live, NEW t \in Threads, PollTimeout(t)
  PROVE  Live'
<1>1. /\ pc[t] = "receive" /\ input = <<>> /\ MayTimeOut
      /\ Finish(t, "TIMEOUT", got[t]) /\ UNCHANGED <<connected, wire, input>>
  BY DEF PollTimeout, link
<1>2. wire \in Seq(Request) /\ input \in Seq(Item)
  BY DEF TypeInv, TypeOK
<1>3. QueueInv' /\ (Quiet => Quiet')
  BY <1>1 DEF Finish, Live, QueueInv, Quiet
<1>4. Len(wire) \in Nat /\ Len(wire) <= MaxLag /\ Len(input) = 0
  <2>1. CASE ~connected
    <3>1. wire = <<>> /\ Len(wire) = 0 /\ Len(input) = 0
      BY <1>1, <2>1 DEF Live, QueueInv, Quiet
    <3>. QED
      BY <3>1, BoundsAssumption
  <2>2. CASE connected
    BY <1>1, <1>2, <2>2, EmptySeq, RefsOf DEF MayTimeOut
  <2>. QED
    BY <2>1, <2>2
<1>5. /\ \A j \in 1 .. Len(wire') : wire'[j].kind # "fetch"
      /\ Len(input') + Len(wire') <= MaxLag
  <2>1. Few
    BY <1>1, CallStreams DEF Live, RoomInv
  <2>. QED
    BY <1>1, <1>4, <2>1, BoundsAssumption DEF Few
<1>. QED
  BY <1>1, <1>2, <1>3, <1>5, FinishLive

LEMMA ReadFailsLive ==
  ASSUME TypeInv, TypeInv', Apart, CallInv, Live, NEW t \in Threads, ReadFails(t)
  PROVE  Live'
<1>1. /\ pc[t] = "receive" /\ wire' = <<>> /\ input' = <<>>
      /\ Finish(t, Judge(t, got[t]), got[t])
  BY DEF ReadFails, HangUp
<1>2. Quiet' /\ Len(wire') = 0 /\ Len(input') = 0
  BY <1>1 DEF Quiet
<1>3. QueueInv'
  BY <1>1, <1>2, NothingWaiting DEF QueueInv
<1>4. wire' \in Seq(Request) /\ input' \in Seq(Item)
  BY DEF TypeInv, TypeOK
<1>5. /\ \A j \in 1 .. Len(wire') : wire'[j].kind # "fetch"
      /\ Len(input') + Len(wire') <= MaxLag
  BY <1>2, BoundsAssumption
<1>. QED
  BY <1>1, <1>2, <1>3, <1>4, <1>5, FinishLive



LEMMA StaleEmpty ==
  ASSUME NEW q \in Seq(Item), NEW w \in Seq(Request), NEW t
  PROVE  (q = <<>> => Stale(q, t) = <<>>) /\ (w = <<>> <=> Stale(w, t) = <<>>)
<1>1. /\ Len(Stale(q, t)) = Len(q) /\ Len(Stale(w, t)) = Len(w)
      /\ Stale(q, t) \in Seq(Item) /\ Stale(w, t) \in Seq(Request)
  BY StaleSame, StaleItems, StaleRequests DEF Same
<1>. QED
  BY <1>1, EmptySeq

(* A command is sent: its reply is the last message on its way. *)
LEMMA SendLive ==
  ASSUME RefMod > MaxLag, TypeInv, TypeInv', Apart, CallInv, Live, NEW t \in Threads,
         Fresh(t), Send(t)
  PROVE  Dead' \/ Live'
<1>. DEFINE request == [kind |-> RequestKind(stage[t]), ref |-> NextRef, for |-> t,
                        left |-> IF RequestKind(stage[t]) = "fetch" THEN Blocks ELSE 1]
<1>1. /\ pc[t] = "locked" /\ busy' /\ msgref' = NextRef
      /\ wire' = IF connected THEN Append(Stale(wire, t), request) ELSE wire
      /\ input' = Stale(input, t)
      /\ IF RequestKind(stage[t]) = "fetch"
         THEN Return(t, "NO_ERROR") /\ holder' = NoThread /\ UNCHANGED check
         ELSE /\ pc' = [pc EXCEPT ![t] = "receive"]
              /\ check' = [check EXCEPT ![t] = NextRef]
              /\ UNCHANGED <<holder, stage, ret>>
      /\ UNCHANGED <<connected, got, block>>
  BY DEF Send, frame
<1>2. /\ wire \in Seq(Request) /\ input \in Seq(Item) /\ msgref \in Refs /\ NextRef \in Refs
      /\ wire' \in Seq(Request) /\ input' \in Seq(Item)
      /\ stage \in [Threads -> Stages] /\ pc \in [Threads -> Points] /\ check \in [Threads -> Refs]
  BY NextRefInRange DEF TypeInv, TypeOK
<1>3. \A u \in Threads : pc[u] # "receive" /\ got[u] = NoItem
  <2>1. \A u \in Threads : pc[u] # "receive"
    BY <1>1 DEF Apart, InBody
  <2>. QED
    BY <2>1 DEF Live, ReplyInv
<1>4. /\ Len(wire) \in Nat /\ Len(input) \in Nat
      /\ Len(input) + Len(wire) <= MaxLag /\ Few
      /\ Len(wire) + Len(input) < RefMod
      /\ \A u \in Threads : ~Streaming(u)
  <2>1. Len(wire) \in Nat /\ Len(input) \in Nat
    BY <1>2, RefsOf
  <2>2. \A u \in Threads : ~Streaming(u)
    BY <1>1, CallStreams
  <2>3. Few
    BY <2>2 DEF Live, RoomInv
  <2>4. Len(input) + Len(wire) <= MaxLag
    BY <1>3, <2>3 DEF Few
  <2>. QED
    BY <2>1, <2>2, <2>3, <2>4, BoundsAssumption
<1>5. request \in Request /\ request.ref = NextRef /\ request.for = t
      /\ request.kind = RequestKind(stage[t]) /\ (request.kind = "fetch" => request.left = Blocks)
  BY <1>2, BoundsAssumption DEF Request, RequestKind
<1>6. /\ Stale(wire, t) \in Seq(Request) /\ Same(wire, Stale(wire, t)) /\ Same(input, input')
  BY <1>1, <1>2, StaleRequests, StaleSame
<1>7. Follows(msgref, request.ref)
  BY <1>2, <1>5, NextFollows DEF NextRef
<1>8. (input = <<>> => Stale(input, t) = <<>>) /\ (wire = <<>> => Stale(wire, t) = <<>>)
  BY <1>2, StaleEmpty
<1>. HIDE DEF request
<1>9. QueueInv' /\ \A i \in 1 .. Len(input') : Age(msgref', input'[i].ref) # 0
  <2>1. CASE connected
    <3>1. wire' = Append(Stale(wire, t), request) /\ msgref' = request.ref /\ connected'
      BY <1>1, <1>5, <2>1
    <3>2. /\ Waiting(request.ref, Append(Stale(wire, t), request), input')
          /\ \A i \in 1 .. Len(input') : Age(request.ref, input'[i].ref) # 0
      BY <1>2, <1>4, <1>5, <1>6, <1>7, WaitingSend DEF Live, QueueInv
    <3>. QED
      BY <3>1, <3>2 DEF QueueInv
  <2>2. CASE ~connected
    <3>1. wire' = <<>> /\ input' = <<>> /\ Len(input') = 0
      BY <1>1, <1>8, <2>2 DEF Live, QueueInv, Quiet
    <3>. QED
      BY <3>1, NothingWaiting DEF QueueInv, Quiet
  <2>. QED
    BY <2>1, <2>2
<1>10. CASE RequestKind(stage[t]) # "fetch"
  <2>1. /\ pc' = [pc EXCEPT ![t] = "receive"] /\ check' = [check EXCEPT ![t] = NextRef]
        /\ UNCHANGED stage
    BY <1>1, <1>10
  <2>2. RoomInv'
    <3>0. ~(\A u \in Threads : pc'[u] # "receive")
      BY <1>2, <2>1
    <3>1. \A u \in Threads : ~Streaming(u)'
      BY <1>4, <2>1 DEF Streaming
    <3>2. Len(input') = Len(input)
      BY <1>6 DEF Same
    <3>3. Len(wire') <= Len(wire) + 1 /\ \A j \in 1 .. Len(wire') : wire'[j].kind # "fetch"
      <4>1. CASE connected
        <5>1. /\ Len(wire') = Len(wire) + 1
              /\ \A j \in 1 .. Len(wire) : wire'[j].kind = wire[j].kind
              /\ wire'[Len(wire) + 1] = request
          BY <1>1, <1>5, <1>6, <4>1, AppendProperties DEF Same
        <5>2. ASSUME NEW j \in 1 .. Len(wire')
              PROVE  wire'[j].kind # "fetch"
          <6>1. j \in 1 .. Len(wire) \/ j = Len(wire) + 1
            BY <1>4, <5>1
          <6>2. CASE j \in 1 .. Len(wire)
            BY <1>4, <5>1, <6>2 DEF Few
          <6>3. CASE j = Len(wire) + 1
            BY <1>5, <1>10, <5>1, <6>3
          <6>. QED
            BY <6>1, <6>2, <6>3
        <5>. QED
          BY <1>4, <5>1, <5>2
      <4>2. CASE ~connected
        <5>1. wire' = wire
          BY <1>1, <4>2
        <5>. QED
          BY <1>4, <5>1 DEF Few
      <4>. QED
        BY <4>1, <4>2
    <3>4. Len(wire') \in Nat
      BY <1>2, RefsOf
    <3>5. Few'
      BY SMTT(40), <1>4, <3>0, <3>2, <3>3, <3>4, BoundsAssumption DEF Few
    <3>. QED
      BY <3>1, <3>5 DEF RoomInv
  <2>3. FetchInv'
    <3>1. ASSUME NEW u \in Threads, stage[u] = "fetch"
          PROVE  FALSE
      <4>1. CASE TextOnly
        BY <3>1, <4>1 DEF Apart, NoFrameStages
      <4>2. CASE ~TextOnly
        <5>1. u = t
          BY <4>2 DEF Apart, OneThread
        <5>. QED
          BY <1>10, <3>1, <5>1 DEF RequestKind
      <4>. QED
        BY <4>1, <4>2
    <3>. QED
      BY <2>1, <3>1 DEF FetchInv
  <2>4. Replied(t)'
    <3>1. check'[t] = msgref'
      BY <1>1, <1>2, <2>1
    <3>2. wire' # <<>> => wire'[Len(wire')].kind # "fetch" /\ wire'[Len(wire')].for = t
      <4>1. CASE connected
        <5>1. Len(wire') = Len(wire) + 1 /\ wire'[Len(wire) + 1] = request
          BY <1>1, <1>5, <1>6, <4>1, AppendProperties DEF Same
        <5>. QED
          BY <1>5, <1>10, <5>1
      <4>2. CASE ~connected
        BY <1>1, <4>2 DEF Live, QueueInv, Quiet
      <4>. QED
        BY <4>1, <4>2
    <3>3. got'[t] = NoItem
      BY <1>1, <1>3
    <3>. QED
      BY <1>9, <3>1, <3>2, <3>3 DEF Replied
  <2>5. ReplyInv'
    <3>1. \A u \in Threads \ {t} : pc'[u] # "receive" /\ got'[u] = NoItem
      BY <1>1, <1>2, <1>3, <2>1
    <3>. QED
      BY <1>2, <2>1, <2>4, <3>1 DEF ReplyInv
  <2>. QED
    BY <1>9, <2>2, <2>3, <2>5 DEF Live
<1>11. CASE RequestKind(stage[t]) = "fetch"
  <2>1. stage[t] \in {"fetch", "native"} /\ Return(t, "NO_ERROR")
    BY <1>1, <1>11 DEF RequestKind
  <2>2. ~TextOnly
    BY <2>1 DEF Apart, NoFrameStages
  <2>3. Threads = {t}
    BY <2>2 DEF Apart, OneThread
  <2>4. CASE stage[t] = "native"
    <3>1. NextStage(stage[t], "NO_ERROR") = "idle"
      BY <2>4, SMTT(30) DEF NextStage
    <3>2. stage'[t] = "idle" /\ pc'[t] = "out"
      BY <1>2, <2>1, <3>1 DEF Return, At, Calls
    <3>. QED
      BY <1>1, <2>3, <3>2 DEF Dead, Refused
  <2>5. CASE stage[t] = "fetch"
    <3>1. NextStage(stage[t], "NO_ERROR") = "stream"
      BY <2>5, SMTT(30) DEF NextStage
    <3>2. stage'[t] = "stream" /\ pc'[t] = "out"
      BY <1>2, <2>1, <3>1 DEF Return, At, Calls
    <3>3. wire = <<>> /\ input = <<>>
      BY <2>5 DEF Live, FetchInv, Quiet
    <3>4. Stale(wire, t) = <<>> /\ input' = <<>> /\ Len(input') = 0 /\ Len(wire) = 0
      BY <1>1, <1>8, <3>3
    <3>5. Len(wire') <= 1 /\ Left(wire') <= Blocks /\ Left(wire') \in Nat
      <4>1. CASE connected
        <5>1. wire' = Append(<<>>, request)
          BY <1>1, <3>4, <4>1
        <5>2. Len(wire') = 1 /\ wire'[1] = request /\ wire' # <<>>
          BY <5>1
        <5>3. wire'[1].left = Blocks
          BY <1>5, <1>11, <5>2
        <5>. QED
          BY <5>2, <5>3, BoundsAssumption DEF Left
      <4>2. CASE ~connected
        <5>1. wire' = <<>> /\ Len(wire') = 0
          BY <1>1, <3>3, <3>4, <4>2
        <5>. QED
          BY <5>1, BoundsAssumption DEF Left
      <4>. QED
        BY <4>1, <4>2
    <3>6. block'[t] = 0
      BY <1>1, <2>5 DEF Fresh
    <3>7. RoomInv'
      <4>1. Streaming(t)'
        BY <3>2 DEF Streaming
      <4>2. Counted(t)'
        BY <3>4, <3>5, <3>6, BoundsAssumption DEF Counted
      <4>. QED
        BY <2>3, <4>1, <4>2 DEF RoomInv
    <3>8. FetchInv' /\ ReplyInv'
      BY <1>1, <1>3, <2>3, <3>2 DEF FetchInv, ReplyInv
    <3>. QED
      BY <1>9, <3>7, <3>8 DEF Live
  <2>. QED
    BY <2>1, <2>4, <2>5
<1>. QED
  BY <1>10, <1>11

(* The controller answers a request. *)
LEMMA AnswerIs ==
  ASSUME TypeInv, Answer \/ AnswerError
  PROVE  /\ wire # <<>> /\ Answered(wire, wire', input, input')
         /\ UNCHANGED <<connected, busy, msgref, stage, pc, block, clean, check, got, ret>>
<1>. DEFINE r == Head(wire)
<1>1. wire # <<>> /\ wire \in Seq(Request) /\ input \in Seq(Item)
  BY DEF Answer, AnswerError, TypeInv, TypeOK
<1>2. /\ r \in Request /\ r = wire[1] /\ Len(wire) \in Nat /\ Len(input) \in Nat
      /\ Tail(wire) \in Seq(Request) /\ Len(Tail(wire)) = Len(wire) - 1 /\ Len(wire) >= 1
      /\ \A i \in 1 .. Len(Tail(wire)) : Tail(wire)[i] = wire[i + 1]
  BY <1>1, HeadTailProperties, LenProperties, EmptySeq
<1>3. PICK kind \in Texts \cup {"block"} : Deliver(kind, r)
  BY DEF Answer, AnswerError, Texts
<1>4. /\ Len(input') = Len(input) + 1 /\ \A i \in 1 .. Len(input) : input'[i] = input[i]
      /\ input'[Len(input) + 1].ref = wire[1].ref /\ input'[Len(input) + 1].for = wire[1].for
  <2>. DEFINE item == [kind |-> kind, ref |-> r.ref, for |-> r.for]
  <2>1. item \in Item /\ item.ref = wire[1].ref /\ item.for = wire[1].for
    BY <1>2 DEF Request, Item
  <2>2. input' = Append(input, item)
    BY <1>3 DEF Deliver
  <2>. HIDE DEF item, r
  <2>3. /\ Len(input') = Len(input) + 1 /\ \A i \in 1 .. Len(input) : input'[i] = input[i]
        /\ input'[Len(input) + 1] = item
    BY <1>1, <2>1, <2>2, AppendProperties
  <2>. QED
    BY <2>1, <2>3
<1>5. UNCHANGED <<connected, busy, msgref, stage, pc, block, clean, check, got, ret>>
  BY DEF Answer, AnswerError, sem, place, frame, locals
<1>6. CASE wire' = Tail(wire)
  BY <1>1, <1>2, <1>4, <1>5, <1>6 DEF Answered
<1>7. CASE r.kind = "fetch" /\ r.left # 1 /\ wire' = <<[r EXCEPT !.left = @ - 1]>> \o Tail(wire)
  <2>. DEFINE p == [r EXCEPT !.left = @ - 1]
              y == Tail(wire)
  <2>1. /\ p.kind = "fetch" /\ p.left = wire[1].left - 1
        /\ p.ref = wire[1].ref /\ p.for = wire[1].for
    BY <1>2, <1>7 DEF Request
  <2>2. p \in Request
    <3>1. r.left \in 1 .. Blocks /\ r.left - 1 \in 1 .. Blocks
      BY <1>2, <1>7, BoundsAssumption DEF Request
    <3>. QED
      BY <1>2, <3>1 DEF Request
  <2>3. /\ wire' = <<p>> \o y /\ y \in Seq(Request) /\ Len(y) = Len(wire) - 1
        /\ \A i \in 1 .. Len(y) : y[i] = wire[i + 1]
    BY <1>2, <1>7
  <2>. HIDE DEF p, y
  <2>4. /\ Len(<<p>> \o y) = Len(y) + 1 /\ (<<p>> \o y)[1] = p
        /\ \A i \in 1 .. Len(y) : (<<p>> \o y)[i + 1] = y[i]
    BY <2>2, <2>3, PutFirst
  <2>5. Len(wire') = Len(wire) /\ wire'[1] = p
    <3>1. Len(wire') = Len(y) + 1 /\ wire'[1] = p
      BY <2>3, <2>4
    <3>2. Len(y) + 1 = Len(wire)
      BY <1>2, <2>3
    <3>. QED
      BY <3>1, <3>2
  <2>6. \A j \in 2 .. Len(wire) : wire'[j] = wire[j]
    <3>. SUFFICES ASSUME NEW j \in 2 .. Len(wire)
                  PROVE  wire'[j] = wire[j]
      OBVIOUS
    <3>1. j - 1 \in 1 .. Len(y) /\ (j - 1) + 1 = j
      BY <1>2, <2>3
    <3>2. (<<p>> \o y)[j] = y[j - 1] /\ y[j - 1] = wire[j]
      BY <2>3, <2>4, <3>1
    <3>. QED
      BY <2>3, <3>2
  <2>. QED
    BY <1>1, <1>2, <1>4, <1>5, <1>7, <2>1, <2>5, <2>6 DEF Answered
<1>. QED
  BY <1>6, <1>7 DEF Answer, AnswerError

LEMMA AnswerLive ==
  ASSUME TypeInv, TypeInv', Live, Answer \/ AnswerError
  PROVE  Live'
<1>1. /\ wire # <<>> /\ Answered(wire, wire', input, input')
      /\ UNCHANGED <<connected, busy, msgref, stage, pc, block, clean, check, got, ret>>
  BY AnswerIs
<1>2. /\ wire \in Seq(Request) /\ input \in Seq(Item) /\ msgref \in Refs
      /\ wire' \in Seq(Request) /\ input' \in Seq(Item)
  BY DEF TypeInv, TypeOK
<1>3. /\ Len(wire) \in Nat /\ Len(wire) >= 1 /\ Len(input) \in Nat /\ Len(wire') \in Nat
      /\ Len(input') = Len(input) + 1
  BY <1>1, <1>2, RefsOf, EmptySeq DEF Answered
<1>4. QueueInv'
  <2>1. Waiting(msgref, wire', input')
    BY <1>1, <1>2, WaitingAnswer DEF Live, QueueInv
  <2>2. connected
    BY <1>1 DEF Live, QueueInv, Quiet
  <2>. QED
    BY <1>1, <2>1, <2>2 DEF QueueInv
<1>5. ASSUME Few
      PROVE  Few'
  <2>1. \A j \in 1 .. Len(wire) : wire[j].kind # "fetch"
    BY <1>5 DEF Few
  <2>2. wire[1].kind # "fetch"
    BY <1>3, <2>1
  <2>3. Len(wire') = Len(wire) - 1 /\ \A j \in 1 .. Len(wire') : wire'[j] = wire[j + 1]
    BY <1>1, <2>2 DEF Answered
  <2>4. \A j \in 1 .. Len(wire') : wire'[j].kind # "fetch"
    <3>. SUFFICES ASSUME NEW j \in 1 .. Len(wire')
                  PROVE  wire'[j].kind # "fetch"
      OBVIOUS
    <3>1. j + 1 \in 1 .. Len(wire)
      BY <1>3, <2>3
    <3>. QED
      BY <2>1, <2>3, <3>1
  <2>5. Len(input') + Len(wire') = Len(input) + Len(wire)
    BY <1>3, <2>3
  <2>. QED
    BY <1>1, <1>5, <2>4, <2>5 DEF Few
<1>6. RoomInv'
  <2>1. ASSUME NEW t \in Threads, Counted(t)
        PROVE  Counted(t)'
    <3>0. block[t] \in Nat /\ Blocks \in Nat
      BY BoundsAssumption DEF TypeInv, TypeOK
    <3>1. wire # <<>> /\ Left(wire) = wire[1].left /\ Left(wire) \in Nat /\ Left(wire) >= 1
      BY <1>1, <1>2, LeftType DEF Left
    <3>2. Left(wire') \in Nat
      BY <1>2, LeftType
    <3>3. Len(wire') <= 1 /\ Left(wire') <= Left(wire) - 1
      <4>1. CASE Len(wire') = Len(wire) - 1
        <5>1. Len(wire') = 0
          BY <1>3, <2>1, <4>1 DEF Counted
        <5>2. wire' = <<>>
          BY <1>2, <5>1, EmptySeq
        <5>. QED
          BY <3>1, <5>1, <5>2 DEF Left
      <4>2. CASE Len(wire') = Len(wire) /\ wire'[1].left = wire[1].left - 1
        <5>1. wire' # <<>>
          BY <1>2, <1>3, <4>2, EmptySeq
        <5>2. Left(wire') = wire[1].left - 1
          BY <4>2, <5>1 DEF Left
        <5>. QED
          BY <1>3, <2>1, <3>1, <4>2, <5>2 DEF Counted
      <4>. QED
        BY <1>1, <4>1, <4>2 DEF Answered
    <3>4. Len(input) + Left(wire) + block[t] <= Blocks
      BY <2>1 DEF Counted
    <3>5. Len(input') + Left(wire') + block[t] <= Blocks
      BY SMTT(40), <1>3, <3>0, <3>1, <3>2, <3>3, <3>4
    <3>. QED
      BY <1>1, <3>3, <3>5 DEF Counted
  <2>2. ASSUME \A t \in Threads : ~Streaming(t)'
        PROVE  Few'
    <3>1. \A t \in Threads : ~Streaming(t)
      BY <1>1, <2>2 DEF Streaming
    <3>. QED
      BY <1>5, <3>1 DEF Live, RoomInv
  <2>3. ASSUME NEW t \in Threads, Streaming(t)', ret'[t] = "NO_ERROR"
        PROVE  Counted(t)'
    <3>1. Streaming(t) /\ ret[t] = "NO_ERROR"
      BY <1>1, <2>3 DEF Streaming
    <3>2. Counted(t)
      BY <3>1 DEF Live, RoomInv
    <3>. QED
      BY <2>1, <3>2
  <2>. QED
    BY <2>2, <2>3 DEF RoomInv
<1>7. FetchInv'
  BY <1>1 DEF Live, FetchInv, Quiet
<1>8. ReplyInv'
  <2>. SUFFICES ASSUME NEW t \in Threads
                PROVE  IF pc[t] = "receive" THEN Replied(t)' ELSE got[t] = NoItem
    BY <1>1 DEF ReplyInv
  <2>1. CASE pc[t] # "receive"
    BY <2>1 DEF Live, ReplyInv
  <2>2. CASE pc[t] = "receive"
    <3>0. Len(wire) \in Nat /\ Len(wire) >= 1
      BY <1>3
    <3>1. Replied(t)
      BY <2>2 DEF Live, ReplyInv
    <3>2. ~(got[t] # NoItem /\ Age(msgref, got[t].ref) = 0)
      BY <1>1, <3>1 DEF Replied, Quiet
    <3>3. wire[Len(wire)].kind # "fetch" /\ wire[Len(wire)].for = t
      BY <1>1, <3>1 DEF Replied
    <3>4. wire' # <<>> => wire'[Len(wire')] = wire[Len(wire)] /\ Len(wire) # 1
      <4>1. CASE Len(wire') = Len(wire) - 1 /\ \A j \in 1 .. Len(wire') : wire'[j] = wire[j + 1]
        <5>1. ASSUME wire' # <<>>
              PROVE  Len(wire') \in 1 .. Len(wire') /\ Len(wire') + 1 = Len(wire) /\ Len(wire) # 1
          BY <1>2, <1>3, <4>1, <5>1, EmptySeq
        <5>. QED
          BY <4>1, <5>1
      <4>2. CASE /\ wire[1].kind = "fetch" /\ Len(wire') = Len(wire)
                 /\ \A j \in 2 .. Len(wire) : wire'[j] = wire[j]
        <5>1. Len(wire) # 1
          BY <3>3, <4>2
        <5>2. Len(wire) \in 2 .. Len(wire)
          <6>1. \A k \in Nat : k >= 1 /\ k # 1 => k \in 2 .. k
            OBVIOUS
          <6>. QED
            BY <3>0, <5>1, <6>1
        <5>. QED
          BY <4>2, <5>1, <5>2
      <4>. QED
        BY <1>1, <4>1, <4>2 DEF Answered
    <3>5. ASSUME NEW i \in 1 .. Len(input'), Age(msgref, input'[i].ref) = 0
          PROVE  input'[i].for = t /\ i = Len(input') /\ wire' = <<>>
      <4>1. CASE i \in 1 .. Len(input)
        <5>1. input'[i] = input[i]
          BY <1>1, <4>1 DEF Answered
        <5>. QED
          BY <1>1, <3>1, <3>5, <4>1, <5>1 DEF Replied
      <4>2. CASE i = Len(input) + 1
        <5>1. input'[i].ref = wire[1].ref /\ input'[i].for = wire[1].for
          BY <1>1, <4>2 DEF Answered
        <5>2. Age(msgref, wire[1].ref) = Len(wire) - 1
          BY <1>3 DEF Live, QueueInv, Waiting
        <5>3. Len(wire) - 1 = 0
          BY <1>1, <3>5, <5>1, <5>2
        <5>4. Len(wire) = 1
          BY <3>0, <5>3
        <5>. QED
          BY <1>3, <3>3, <3>4, <4>2, <5>1, <5>4
      <4>. QED
        BY <1>3, <4>1, <4>2
    <3>. QED
      BY <1>1, <2>2, <3>1, <3>2, <3>3, <3>4, <3>5 DEF Replied
  <2>. QED
    BY <2>1, <2>2
<1>. QED
  BY <1>4, <1>6, <1>7, <1>8 DEF Live

(* What a read of the header or of a block takes. *)
LEMMA TakeFirst ==
  ASSUME NEW q \in Seq(Item), q # <<>>
  PROVE  /\ Taken(q, Tail(q), 1)
         /\ \A x \in Item : x.ref = q[1].ref /\ x.for = q[1].for => Taken(q, <<x>> \o Tail(q), 0)
<1>. DEFINE y == Tail(q)
<1>1. /\ y \in Seq(Item) /\ Len(y) = Len(q) - 1 /\ Len(q) \in Nat /\ Len(q) >= 1
      /\ \A i \in 1 .. Len(y) : y[i] = q[i + 1]
  BY HeadTailProperties, LenProperties, EmptySeq
<1>. HIDE DEF y
<1>2. Taken(q, y, 1)
  BY <1>1 DEF Taken
<1>3. ASSUME NEW x \in Item, x.ref = q[1].ref, x.for = q[1].for
      PROVE  Taken(q, <<x>> \o y, 0)
  <2>1. /\ Len(<<x>> \o y) = Len(y) + 1 /\ (<<x>> \o y)[1] = x
        /\ \A i \in 1 .. Len(y) : (<<x>> \o y)[i + 1] = y[i]
    BY <1>1, PutFirst
  <2>2. PICK q2 : q2 = <<x>> \o y
    OBVIOUS
  <2>3. Len(q2) = Len(q)
    <3>1. Len(y) + 1 = Len(q)
      BY <1>1
    <3>. QED
      BY <2>1, <2>2, <3>1
  <2>4. ASSUME NEW i \in 1 .. Len(q2)
        PROVE  q2[i].ref = q[i + 0].ref /\ q2[i].for = q[i + 0].for
    <3>0. i + 0 = i
      BY <1>1, <2>3
    <3>1. CASE i = 1
      BY <1>3, <2>1, <2>2, <3>0, <3>1
    <3>2. CASE i # 1
      <4>1. i - 1 \in 1 .. Len(y) /\ (i - 1) + 1 = i
        BY <1>1, <2>3, <3>2
      <4>2. q2[i] = y[i - 1] /\ y[i - 1] = q[i]
        BY <1>1, <2>1, <2>2, <4>1
      <4>. QED
        BY <3>0, <4>2
    <3>. QED
      BY <3>1, <3>2
  <2>5. Taken(q, q2, 0)
    BY <1>1, <2>3, <2>4 DEF Taken
  <2>. QED
    BY <2>2, <2>5
<1>. QED
  BY <1>2, <1>3 DEF y

LEMMA FrameTakes ==
  ASSUME TypeInv, NEW t \in Threads, Header(t) \/ Body(t)
  PROVE  \E n \in Nat : Taken(input, input', n)
<1>1. input \in Seq(Item)
  BY DEF TypeInv, TypeOK
<1>2. input # <<>>
  <2>1. CASE Header(t)
    <3>1. PICK i \in DOMAIN input : input[i].kind = "block"
      BY <2>1 DEF Header, HasBlock
    <3>2. DOMAIN input = 1 .. Len(input) /\ Len(input) \in Nat
      BY <1>1, LenProperties
    <3>. QED
      BY <3>1, <3>2
  <2>2. CASE Body(t)
    BY <2>2 DEF Body
  <2>. QED
    BY <2>1, <2>2
<1>3. input[1] \in Item
  BY <1>1, <1>2, EmptySeq, ElementOfSeq
<1>. DEFINE x == [input[1] EXCEPT !.kind = "payload"]
            z == Rest(input[1])
<1>4. /\ x \in Item /\ x.ref = input[1].ref /\ x.for = input[1].for
      /\ z \in Item /\ z.ref = input[1].ref /\ z.for = input[1].for
  BY <1>3 DEF Item, Rest, Texts
<1>5. input' = Tail(input) \/ input' = <<x>> \o Tail(input) \/ input' = <<z>> \o Tail(input)
  BY DEF Header, Body
<1>. HIDE DEF x, z
<1>6. Taken(input, input', 0) \/ Taken(input, input', 1)
  BY <1>1, <1>2, <1>4, <1>5, TakeFirst
<1>. QED
  BY <1>6

(* Where threads are in archon_cmd. *)
LEMMA AtCall ==
  ASSUME TypeInv, CallInv, NEW t \in Threads, NEW s, At(t, s)
  PROVE  /\ CallInv' /\ stage'[t] = s /\ pc'[t] \in {"call", "out"}
         /\ \A u \in Threads \ {t} : pc'[u] = pc[u] /\ stage'[u] = stage[u]
<1>1. stage \in [Threads -> Stages] /\ pc \in [Threads -> Points]
  BY DEF TypeInv, TypeOK
<1>. QED
  BY <1>1 DEF At, CallInv

LEMMA CallStep ==
  ASSUME TypeInv, CallInv, [Next]_vars
  PROVE  CallInv'
<1>0. stage \in [Threads -> Stages] /\ pc \in [Threads -> Points]
  BY DEF TypeInv, TypeOK
<1>1. CASE UNCHANGED <<stage, pc>>
  BY <1>1 DEF CallInv
<1>2. CASE \E t \in Threads : \E s : At(t, s)
  BY <1>2, AtCall
<1>3. CASE \E t \in Threads : Pass(t) \/ Acquire(t)
  BY <1>0, <1>3 DEF Pass, Acquire, CallInv
<1>4. ASSUME NEW t \in Threads, Send(t)
      PROVE  CallInv'
  <2>1. CASE \E s : At(t, s)
    BY <2>1, AtCall
  <2>2. CASE RequestKind(stage[t]) # "fetch" /\ pc' = [pc EXCEPT ![t] = "receive"] /\ UNCHANGED stage
    <3>1. pc[t] = "locked"
      BY <1>4 DEF Send
    <3>. QED
      BY <1>0, <2>2, <3>1 DEF CallInv
  <2>. QED
    BY <1>4, <2>1, <2>2 DEF Send, Return
<1>5. ASSUME NEW t \in Threads, Refuse(t) \/ Receive(t) \/ PollTimeout(t) \/ ReadFails(t)
      PROVE  UNCHANGED <<stage, pc>> \/ \E s : At(t, s)
  BY <1>5 DEF Refuse, Receive, PollTimeout, ReadFails, Finish, Return, place
<1>6. ASSUME NEW t \in Threads, Start(t)
      PROVE  UNCHANGED <<stage, pc>> \/ \E s : At(t, s)
  BY <1>6 DEF Start, StartCommand, StartNative, StartReadout, StartOpen, StartClose, place
<1>7. ASSUME NEW t \in Threads,
             BlockTimeout(t) \/ PollHangUp(t) \/ Header(t) \/ Body(t) \/ Release(t) \/ ReturnFrame(t)
      PROVE  UNCHANGED <<stage, pc>> \/ \E s : At(t, s)
  BY <1>7 DEF BlockTimeout, PollHangUp, Header, Body, BlockDone, Release, ReturnFrame, place
<1>8. Answer \/ AnswerError \/ UNCHANGED vars => UNCHANGED <<stage, pc>>
  BY DEF Answer, AnswerError, vars, place
<1>. QED
  BY <1>1, <1>2, <1>3, <1>4, <1>5, <1>6, <1>7, <1>8 DEF Next, Step, Lose

LEMMA GotStep ==
  ASSUME TypeInv, CallInv, GotInv, [Next]_vars
  PROVE  GotInv'
<1>0. /\ stage \in [Threads -> Stages] /\ pc \in [Threads -> Points]
      /\ got \in [Threads -> Item \cup {NoItem}]
  BY DEF TypeInv, TypeOK
<1>1. CASE UNCHANGED <<pc, got>>
  BY <1>1 DEF GotInv
<1>2. ASSUME NEW t \in Threads, pc[t] # "receive", UNCHANGED got,
             \A u \in Threads \ {t} : pc'[u] = pc[u]
      PROVE  GotInv'
  BY <1>2 DEF GotInv
<1>3. ASSUME NEW t \in Threads, Start(t)
      PROVE  GotInv'
  <2>1. stage[t] = "idle" /\ UNCHANGED got
    BY <1>3 DEF Start, StartCommand, StartNative, StartReadout, StartOpen, StartClose, locals
  <2>2. pc[t] = "out"
    BY <2>1 DEF CallInv, Calls
  <2>3. (\E s : At(t, s)) \/ UNCHANGED pc
    BY <1>3 DEF Start, StartCommand, StartNative, StartReadout, StartOpen, StartClose, place
  <2>4. \A u \in Threads \ {t} : pc'[u] = pc[u]
    BY <2>3, AtCall
  <2>. QED
    BY <1>2, <2>1, <2>2, <2>4
<1>4. ASSUME NEW t \in Threads, Refuse(t) \/ Pass(t) \/ Acquire(t) \/ Send(t)
      PROVE  GotInv'
  <2>1. pc[t] # "receive" /\ UNCHANGED got
    BY <1>4 DEF Refuse, Pass, Acquire, Send, locals
  <2>2. (\E s : At(t, s)) \/ (\E p : pc' = [pc EXCEPT ![t] = p])
    BY <1>4 DEF Refuse, Pass, Acquire, Send, Return
  <2>3. \A u \in Threads \ {t} : pc'[u] = pc[u]
    BY <1>0, <2>2, AtCall
  <2>. QED
    BY <1>2, <2>1, <2>3
<1>5. ASSUME NEW t \in Threads,
             BlockTimeout(t) \/ PollHangUp(t) \/ Header(t) \/ Body(t) \/ Release(t) \/ ReturnFrame(t)
      PROVE  GotInv'
  <2>1. stage[t] \in {"stream", "body", "release", "return"} /\ UNCHANGED got
    BY <1>5 DEF BlockTimeout, PollHangUp, Header, Body, Release, ReturnFrame, locals
  <2>2. pc[t] = "out"
    BY <2>1 DEF CallInv, Calls
  <2>3. (\E s : At(t, s)) \/ UNCHANGED pc
    BY <1>5 DEF BlockTimeout, PollHangUp, Header, Body, BlockDone, Release, ReturnFrame, place
  <2>4. \A u \in Threads \ {t} : pc'[u] = pc[u]
    BY <2>3, AtCall
  <2>. QED
    BY <1>2, <2>1, <2>2, <2>4
<1>6. ASSUME NEW t \in Threads, Receive(t) \/ PollTimeout(t) \/ ReadFails(t)
      PROVE  GotInv'
  <2>1. pc[t] = "receive"
    BY <1>6 DEF Receive, PollTimeout, ReadFails
  <2>2. CASE \E code, item : Finish(t, code, item)
    <3>1. PICK code, item : Finish(t, code, item)
      BY <2>2
    <3>2. /\ \A u \in Threads \ {t} : pc'[u] = pc[u] /\ got'[u] = got[u]
          /\ got'[t] = NoItem
      BY <2>1, <3>1, FinishPlace
    <3>. QED
      BY <3>2 DEF GotInv
  <2>3. CASE (\E item : got' = [got EXCEPT ![t] = item]) /\ UNCHANGED pc
    BY <1>0, <2>1, <2>3 DEF GotInv
  <2>. QED
    BY <1>6, <2>2, <2>3 DEF Receive, PollTimeout, ReadFails, place
<1>7. Answer \/ AnswerError \/ UNCHANGED vars => UNCHANGED <<pc, got>>
  BY DEF Answer, AnswerError, vars, place, locals
<1>. QED
  BY <1>1, <1>3, <1>4, <1>5, <1>6, <1>7 DEF Next, Step, Lose

(* Nothing clears archon_busy once a native FETCH has set it. *)
LEMMA DeadStep ==
  ASSUME TypeInv, CallInv, Dead, [Next]_vars
  PROVE  Dead'
<1>0. stage \in [Threads -> Stages] /\ pc \in [Threads -> Points]
  BY DEF TypeInv, TypeOK
<1>1. CASE UNCHANGED <<busy, stage, pc>>
  BY <1>1 DEF Dead
<1>2. ASSUME NEW t \in Threads, NEW s \in Refused, At(t, s), UNCHANGED busy
      PROVE  Dead'
  BY <1>0, <1>2 DEF At, Dead
<1>3. ASSUME NEW t \in Threads, Refuse(t)
      PROVE  Dead'
  <2>1. PICK code \in {"ERROR", "BUSY"} : Return(t, code)
    BY <1>3 DEF Refuse
  <2>2. stage[t] \in Refused
    BY DEF Dead
  <2>3. NextStage(stage[t], code) \in Refused
    BY <2>2, SMTT(30) DEF NextStage, Refused
  <2>4. At(t, NextStage(stage[t], code)) /\ UNCHANGED busy
    BY <1>3, <2>1 DEF Refuse, Return, sem
  <2>. QED
    BY <1>2, <2>3, <2>4
<1>4. ASSUME NEW t \in Threads, Start(t)
      PROVE  Dead'
  <2>1. (\E s \in Refused : At(t, s) /\ UNCHANGED busy) \/ UNCHANGED <<busy, stage, pc>>
    BY <1>4 DEF Start, StartCommand, StartNative, StartReadout, StartOpen, StartClose,
                sem, place, Refused
  <2>. QED
    BY <1>1, <1>2, <2>1
<1>5. ASSUME NEW t \in Threads,
             Pass(t) \/ Acquire(t) \/ Send(t) \/ Receive(t) \/ PollTimeout(t) \/ ReadFails(t)
      PROVE  FALSE
  BY <1>5 DEF Dead, Pass, Acquire, Send, Receive, PollTimeout, ReadFails
<1>6. ASSUME NEW t \in Threads, BlockTimeout(t) \/ PollHangUp(t) \/ Header(t) \/ Body(t)
      PROVE  FALSE
  BY <1>6 DEF Dead, Refused, BlockTimeout, PollHangUp, Header, Body
<1>7. ASSUME NEW t \in Threads, Release(t) \/ ReturnFrame(t)
      PROVE  FALSE
  BY <1>7 DEF Dead, Refused, Release, ReturnFrame
<1>8. Answer \/ AnswerError \/ UNCHANGED vars => UNCHANGED <<busy, stage, pc>>
  BY DEF Answer, AnswerError, vars, sem, place
<1>. QED
  BY <1>1, <1>3, <1>4, <1>5, <1>6, <1>7, <1>8 DEF Next, Step, Lose

(* The steps that send nothing and read no reply. *)
LEMMA StartLive ==
  ASSUME TypeInv, TypeInv', CallInv, Live, NEW t \in Threads, Start(t)
  PROVE  Live'
<1>1. stage[t] = "idle" /\ UNCHANGED <<check, got, msgref>>
  BY DEF Start, StartCommand, StartNative, StartReadout, StartOpen, StartClose, sem, locals
<1>2. pc[t] = "out"
  BY <1>1 DEF CallInv, Calls
<1>3. \A u \in Threads : /\ pc'[u] = "receive" <=> pc[u] = "receive"
                         /\ stage'[u] = "fetch" => stage[u] = "fetch"
  <2>1. CASE \E s \in {"command", "native", "lock", "system"} : At(t, s)
    <3>1. PICK s \in {"command", "native", "lock", "system"} : At(t, s)
      BY <2>1
    <3>2. /\ stage'[t] = s /\ pc'[t] \in {"call", "out"}
          /\ \A u \in Threads \ {t} : pc'[u] = pc[u] /\ stage'[u] = stage[u]
      BY <3>1, AtCall
    <3>. QED
      BY <1>2, <3>2
  <2>2. CASE UNCHANGED place
    BY <2>2 DEF place
  <2>. QED
    BY <2>1, <2>2 DEF Start, StartCommand, StartNative, StartReadout, StartOpen, StartClose
<1>4. \/ UNCHANGED <<wire, input>> /\ (connected' \/ connected' = connected)
      \/ HangUp
  BY DEF Start, StartCommand, StartNative, StartReadout, StartOpen, StartClose, link
<1>5. \A u \in Threads : Streaming(u)' <=> Streaming(u)
  <2>1. CASE \E s \in {"command", "native", "lock", "system"} : At(t, s)
    <3>1. PICK s \in {"command", "native", "lock", "system"} : At(t, s)
      BY <2>1
    <3>2. stage'[t] = s /\ \A u \in Threads \ {t} : stage'[u] = stage[u]
      BY <3>1, AtCall
    <3>. QED
      BY <1>1, <3>2 DEF Streaming
  <2>2. CASE UNCHANGED place
    BY <2>2 DEF place, Streaming
  <2>. QED
    BY <2>1, <2>2 DEF Start, StartCommand, StartNative, StartReadout, StartOpen, StartClose
<1>6. \A u \in Threads : Streaming(u) => ret'[u] = ret[u] /\ block'[u] = block[u]
  <2>1. ret' = ret /\ (block' = block \/ block' = [block EXCEPT ![t] = 0])
    BY DEF Start, StartCommand, StartNative, StartReadout, StartOpen, StartClose, frame, locals
  <2>2. block \in [Threads -> 0 .. Blocks] /\ ~Streaming(t)
    BY <1>1 DEF TypeInv, TypeOK, Streaming
  <2>. QED
    BY <2>1, <2>2
<1>7. UNCHANGED <<wire, input>> \/ HangUp
  BY <1>4
<1>8. RoomInv'
  BY <1>3, <1>5, <1>6, <1>7, RoomMove DEF Live
<1>. QED
  BY <1>1, <1>3, <1>4, <1>8, LiveMove

LEMMA CallLive ==
  ASSUME TypeInv, TypeInv', CallInv, Live, NEW t \in Threads, Fresh(t),
         Refuse(t) \/ Pass(t) \/ Acquire(t)
  PROVE  Live'
<1>0. /\ stage \in [Threads -> Stages] /\ pc \in [Threads -> Points] /\ ret \in [Threads -> Codes]
  BY DEF TypeInv, TypeOK
<1>1. UNCHANGED <<connected, wire, input, check, got, msgref, block>>
  BY DEF Refuse, Pass, Acquire, link, sem, locals, frame
<1>2. pc[t] # "receive" /\ stage[t] \in Calls
  BY DEF Refuse, Pass, Acquire, CallInv
<1>3. /\ pc'[t] # "receive"
      /\ stage'[t] = "fetch" => stage[t] = "fetch"
      /\ Streaming(t)' => ret'[t] = "ERROR"
      /\ \A u \in Threads \ {t} : pc'[u] = pc[u] /\ stage'[u] = stage[u] /\ ret'[u] = ret[u]
  <2>1. CASE Refuse(t)
    <3>1. PICK code \in {"ERROR", "BUSY"} : Return(t, code) /\ (code = "BUSY" => busy)
      BY <2>1 DEF Refuse
    <3>. DEFINE s == NextStage(stage[t], code)
                v == Verdict(stage[t], code)
    <3>2. s # "fetch"
      BY SMTT(30) DEF NextStage
    <3>3. stage[t] = "fetch" => code = "ERROR"
      BY <3>1 DEF Fresh
    <3>4. s \in {"stream", "body", "release"} => stage[t] = "log"
      BY <1>2, <3>3, SMTT(30) DEF NextStage, Calls
    <3>5. stage[t] = "log" => v = "ERROR"
      BY SMTT(30) DEF Verdict
    <3>. HIDE DEF s, v
    <3>6. At(t, s) /\ ret' = [ret EXCEPT ![t] = v]
      BY <3>1 DEF Return, Code, s, v
    <3>7. /\ stage'[t] = s /\ pc'[t] \in {"call", "out"} /\ ret'[t] = v
          /\ \A u \in Threads \ {t} : pc'[u] = pc[u] /\ stage'[u] = stage[u] /\ ret'[u] = ret[u]
      BY <1>0, <3>6, AtCall
    <3>8. Streaming(t)' => ret'[t] = "ERROR"
      BY <3>4, <3>5, <3>7 DEF Streaming
    <3>. QED
      BY <3>2, <3>7, <3>8
  <2>2. CASE Pass(t) \/ Acquire(t)
    <3>1. UNCHANGED <<stage, ret>>
      BY <2>2 DEF Pass, Acquire, locals
    <3>2. pc'[t] # "receive" /\ \A u \in Threads \ {t} : pc'[u] = pc[u]
      BY <1>0, <2>2 DEF Pass, Acquire
    <3>3. ~Streaming(t)'
      BY <1>2, <3>1 DEF Streaming, Calls
    <3>. QED
      BY <3>1, <3>2, <3>3
  <2>. QED
    BY <2>1, <2>2
<1>4. \A u \in Threads : /\ pc'[u] = "receive" <=> pc[u] = "receive"
                         /\ stage'[u] = "fetch" => stage[u] = "fetch"
  BY <1>2, <1>3
<1>5. ~Streaming(t)
  BY <1>2 DEF Streaming, Calls
<1>6. (\A u \in Threads : ~Streaming(u)') => (\A u \in Threads : ~Streaming(u))
  BY <1>3, <1>5 DEF Streaming
<1>7. \A u \in Threads : Streaming(u)' /\ ret'[u] = "NO_ERROR" =>
           Streaming(u) /\ ret[u] = "NO_ERROR" /\ block'[u] = block[u]
  <2>. SUFFICES ASSUME NEW u \in Threads, Streaming(u)', ret'[u] = "NO_ERROR"
                PROVE  Streaming(u) /\ ret[u] = "NO_ERROR" /\ block'[u] = block[u]
    OBVIOUS
  <2>1. u # t
    BY <1>3
  <2>. QED
    BY <1>1, <1>3, <2>1 DEF Streaming
<1>8. RoomInv'
  BY <1>1, <1>4, <1>6, <1>7, RoomMove DEF Live
<1>. QED
  BY <1>1, <1>4, <1>8, LiveMove

(* A thread that reads a frame is the only one. *)
LEMMA StreamsAlone ==
  ASSUME Apart, NEW t \in Threads, stage[t] \notin NoFrameStages
  PROVE  Threads = {t}
BY DEF Apart, OneThread

(* The blocks of a frame: what is on its way gets less, and is nothing after the
   last block. *)
LEMMA FrameRoom ==
  ASSUME TypeInv, TypeInv', Apart, CallInv, Live, NEW t \in Threads, Framed(t),
         BlockTimeout(t) \/ PollHangUp(t) \/ Header(t) \/ Body(t) \/ Release(t) \/ ReturnFrame(t)
  PROVE  debris' \/ RoomInv'
<1>0. /\ stage \in [Threads -> Stages] /\ ret \in [Threads -> Codes]
      /\ block \in [Threads -> 0 .. Blocks] /\ input \in Seq(Item) /\ wire \in Seq(Request)
      /\ input' \in Seq(Item) /\ wire' \in Seq(Request) /\ pc \in [Threads -> Points]
  BY DEF TypeInv, TypeOK
<1>1. stage[t] \in {"stream", "body", "release", "return"}
  BY DEF BlockTimeout, PollHangUp, Header, Body, Release, ReturnFrame
<1>2. Threads = {t}
  BY <1>1, StreamsAlone DEF NoFrameStages
<1>3. ASSUME NEW s, At(t, s)
      PROVE  stage'[t] = s
  BY <1>3, AtCall
<1>4. ASSUME Streaming(t)', ret'[t] = "NO_ERROR" => Counted(t)'
      PROVE  RoomInv'
  BY <1>2, <1>4 DEF RoomInv
<1>5. ASSUME stage'[t] = "release", ret'[t] = "ERROR"
      PROVE  RoomInv'
  BY <1>4, <1>5 DEF Streaming
<1>6. Len(input) \in Nat /\ Len(wire) \in Nat /\ block[t] \in Nat /\ Left(wire) \in Nat
  BY <1>0, RefsOf, LeftType, BoundsAssumption
<1>7. CASE BlockTimeout(t) \/ PollHangUp(t)
  <2>1. stage'[t] = "release" /\ ret'[t] = "ERROR"
    BY <1>0, <1>3, <1>7 DEF BlockTimeout, PollHangUp, Code, TimeoutCode
  <2>. QED
    BY <1>5, <2>1
<1>8. ASSUME Header(t) \/ Body(t)
      PROVE  input # <<>>
  <2>1. CASE Header(t)
    <3>1. PICK i \in DOMAIN input : input[i].kind = "block"
      BY <2>1 DEF Header, HasBlock
    <3>2. DOMAIN input = 1 .. Len(input) /\ Len(input) \in Nat
      BY <1>0, LenProperties
    <3>. QED
      BY <3>1, <3>2
  <2>2. CASE Body(t)
    BY <2>2 DEF Body
  <2>. QED
    BY <1>8, <2>1, <2>2
<1>9. CASE Header(t)
  <2>0. stage[t] = "stream" /\ UNCHANGED <<wire, block>>
    BY <1>9 DEF Header, frame
  <2>1. CASE /\ input' = <<[input[1] EXCEPT !.kind = "payload"]>> \o Tail(input)
             /\ At(t, "body") /\ UNCHANGED ret
    <3>. DEFINE x == [input[1] EXCEPT !.kind = "payload"]
    <3>1. input[1] \in Item
      BY <1>0, <1>8, <1>9, EmptySeq, ElementOfSeq
    <3>2. x \in Item /\ x.ref = input[1].ref /\ x.for = input[1].for
      BY <3>1 DEF Item
    <3>3. input' = <<x>> \o Tail(input)
      BY <2>1
    <3>. HIDE DEF x
    <3>4. Taken(input, input', 0)
      BY <1>0, <1>8, <1>9, <3>2, <3>3, TakeFirst
    <3>5. Len(input') = Len(input)
      BY <1>6, <3>4 DEF Taken
    <3>6. stage'[t] = "body"
      BY <1>3, <2>1
    <3>7. ret[t] = "NO_ERROR"
      BY <2>0 DEF Framed
    <3>8. Counted(t)
      BY <2>0, <3>7 DEF Live, RoomInv, Streaming
    <3>9. Counted(t)'
      BY <2>0, <3>5, <3>8 DEF Counted
    <3>10. Streaming(t)'
      BY <3>6 DEF Streaming
    <3>. QED
      BY <1>4, <3>9, <3>10
  <2>2. CASE debris' = TRUE
    BY <2>2
  <2>3. CASE At(t, "release") /\ Code(t, "ERROR")
    <3>1. stage'[t] = "release" /\ ret'[t] = "ERROR"
      BY <1>0, <1>3, <2>3 DEF Code
    <3>. QED
      BY <1>5, <3>1
  <2>. QED
    BY <1>9, <2>1, <2>2, <2>3 DEF Header
<1>10. CASE Body(t)
  <2>0. stage[t] = "body" /\ UNCHANGED <<wire, ret>>
    BY <1>10 DEF Body, locals
  <2>1. input[1].kind = "payload" /\ ret[t] = "NO_ERROR"
    BY <2>0 DEF Framed
  <2>2. input' = Tail(input) /\ BlockDone(t)
    BY <1>10, <2>1 DEF Body, Texts
  <2>3. Len(input') = Len(input) - 1
    <3>1. Taken(input, Tail(input), 1)
      BY <1>0, <1>8, <1>10, TakeFirst
    <3>. QED
      BY <2>2, <3>1 DEF Taken
  <2>4. block'[t] = block[t] + 1
    BY <1>0, <2>2 DEF BlockDone
  <2>5. stage'[t] \in {"release", "stream"}
    BY <1>3, <2>2 DEF BlockDone
  <2>6. Counted(t)
    BY <2>0, <2>1 DEF Live, RoomInv, Streaming
  <2>7. Counted(t)'
    <3>1. Len(input') + Left(wire) + block'[t] = Len(input) + Left(wire) + block[t]
      BY <1>6, <2>3, <2>4
    <3>. QED
      BY <2>0, <2>6, <3>1 DEF Counted
  <2>8. Streaming(t)'
    BY <2>5 DEF Streaming
  <2>. QED
    BY <1>4, <2>7, <2>8
<1>11. CASE Release(t)
  <2>1. /\ stage[t] = "release" /\ UNCHANGED <<wire, input, block>>
        /\ debris' = (debris \/ ret[t] # "NO_ERROR")
    BY <1>11 DEF Release, frame, link
  <2>2. CASE ret[t] # "NO_ERROR"
    BY <2>1, <2>2
  <2>3. CASE ret[t] = "NO_ERROR"
    <3>1. At(t, "unlock")
      BY <1>11, <2>3 DEF Release
    <3>2. stage'[t] = "unlock"
      BY <1>3, <3>1
    <3>3. Counted(t) /\ block[t] = Blocks
      BY <2>1, <2>3 DEF Framed, Live, RoomInv, Streaming
    <3>4. Len(input) = 0 /\ Left(wire) = 0
      BY <1>6, <3>3, BoundsAssumption DEF Counted
    <3>5. wire = <<>>
      BY <1>0, <3>4, LeftType
    <3>6. Len(wire') = 0 /\ Len(input') = 0
      BY <2>1, <3>4, <3>5
    <3>7. Few'
      BY <3>6, BoundsAssumption DEF Few
    <3>8. ~Streaming(t)'
      BY <3>2 DEF Streaming
    <3>. QED
      BY <1>2, <3>7, <3>8 DEF RoomInv
  <2>. QED
    BY <2>2, <2>3
<1>12. CASE ReturnFrame(t)
  <2>1. stage[t] = "return" /\ At(t, "idle") /\ UNCHANGED <<wire, input>>
    BY <1>12 DEF ReturnFrame, link
  <2>2. stage'[t] = "idle" /\ pc'[t] # "receive" /\ pc[t] # "receive"
    BY <2>1, AtCall DEF CallInv, Calls
  <2>3. \A u \in Threads : ~Streaming(u) /\ ~Streaming(u)'
    BY <1>2, <2>1, <2>2 DEF Streaming
  <2>4. \A u \in Threads : pc'[u] = "receive" <=> pc[u] = "receive"
    BY <1>2, <2>2
  <2>. QED
    BY <2>1, <2>3, <2>4, RoomMove DEF Live
<1>. QED
  BY <1>7, <1>9, <1>10, <1>11, <1>12

LEMMA FrameLive ==
  ASSUME TypeInv, TypeInv', Apart, CallInv, Live, NEW t \in Threads, Framed(t),
         BlockTimeout(t) \/ PollHangUp(t) \/ Header(t) \/ Body(t) \/ Release(t) \/ ReturnFrame(t)
  PROVE  debris' \/ Live'
<1>1. stage[t] \in {"stream", "body", "release", "return"} /\ UNCHANGED <<check, got, msgref>>
  BY DEF BlockTimeout, PollHangUp, Header, Body, Release, ReturnFrame, sem, locals
<1>2. pc[t] = "out"
  BY <1>1 DEF CallInv, Calls
<1>3. \A u \in Threads : /\ pc'[u] = "receive" <=> pc[u] = "receive"
                         /\ stage'[u] = "fetch" => stage[u] = "fetch"
  <2>1. CASE \E s \in {"release", "body", "log", "stream", "unlock", "return", "idle"} : At(t, s)
    <3>1. PICK s \in {"release", "body", "log", "stream", "unlock", "return", "idle"} : At(t, s)
      BY <2>1
    <3>2. /\ stage'[t] = s /\ pc'[t] \in {"call", "out"}
          /\ \A u \in Threads \ {t} : pc'[u] = pc[u] /\ stage'[u] = stage[u]
      BY <3>1, AtCall
    <3>. QED
      BY <1>2, <3>2
  <2>2. CASE UNCHANGED place
    BY <2>2 DEF place
  <2>. QED
    BY <2>1, <2>2 DEF BlockTimeout, PollHangUp, Header, Body, BlockDone, Release, ReturnFrame
<1>4. \/ UNCHANGED <<wire, input>> /\ (connected' \/ connected' = connected)
      \/ HangUp
      \/ UNCHANGED <<wire, connected>> /\ \E n \in Nat : Taken(input, input', n)
  <2>1. CASE Header(t) \/ Body(t)
    BY <2>1, FrameTakes DEF Header, Body
  <2>2. CASE BlockTimeout(t) \/ PollHangUp(t) \/ Release(t) \/ ReturnFrame(t)
    BY <2>2 DEF BlockTimeout, PollHangUp, Release, ReturnFrame, link
  <2>. QED
    BY <2>1, <2>2
<1>5. debris' \/ RoomInv'
  BY FrameRoom
<1>. QED
  BY <1>1, <1>3, <1>4, <1>5, LiveMove

-----------------------------------------------------------------------------
(* Frames. *)

(* Where archon_cmd returns to. *)
LEMMA ReturnStage ==
  ASSUME TypeInv, CallInv, NEW t \in Threads, NEW code, Return(t, code),
         UNCHANGED <<block, clean>>, Fresh(t), pc[t] # "out", stage[t] # "fetch",
         stage[t] = "lock" /\ code = "NO_ERROR" => ~busy'
  PROVE  Fresh(t)' /\ Framed(t)'
<1>0. stage \in [Threads -> Stages] /\ ret \in [Threads -> Codes] /\ stage[t] \in Calls
  BY DEF TypeInv, TypeOK, CallInv
<1>1. stage'[t] = NextStage(stage[t], code) /\ ret'[t] = Verdict(stage[t], code)
  BY <1>0, AtCall DEF Return, Code
<1>2. CASE stage[t] = "lock" /\ code = "NO_ERROR"
  <2>1. stage'[t] = "fetch"
    BY <1>1, <1>2, SMTT(30) DEF NextStage
  <2>. QED
    BY <1>2, <2>1 DEF Fresh, Framed
<1>3. CASE stage[t] = "log"
  <2>1. stage'[t] = "release" /\ ret'[t] = "ERROR"
    BY <1>1, <1>3, SMTT(30) DEF NextStage, Verdict
  <2>. QED
    BY <2>1 DEF Fresh, Framed
<1>4. CASE stage[t] # "log" /\ ~(stage[t] = "lock" /\ code = "NO_ERROR")
  <2>1. stage'[t] \in {"openlog", "return", "idle"}
    BY <1>1, <1>4, SMTT(30) DEF NextStage
  <2>. QED
    BY <2>1 DEF Fresh, Framed
<1>. QED
  BY <1>2, <1>3, <1>4

LEMMA FinishFramed ==
  ASSUME TypeInv, CallInv, NEW t \in Threads, NEW code, NEW item, Finish(t, code, item),
         UNCHANGED <<block, clean>>, Fresh(t), pc[t] = "receive"
  PROVE  Fresh(t)' /\ Framed(t)'
<1>1. ~busy' /\ stage[t] # "fetch"
  BY DEF Finish, BusyAfter, CallInv, RequestKind
<1>2. CASE Return(t, code)
  BY <1>1, <1>2, ReturnStage
<1>3. CASE At(t, stage[t]) /\ stage[t] \in {"log", "openlog"}
  <2>1. stage'[t] \in {"log", "openlog"}
    BY <1>3, AtCall
  <2>. QED
    BY <2>1 DEF Fresh, Framed
<1>. QED
  BY <1>2, <1>3 DEF Finish

LEMMA CallFramed ==
  ASSUME TypeInv, LinkInv, NEW t \in Threads, Fresh(t),
         Refuse(t) \/ Pass(t) \/ Acquire(t) \/ Send(t)
  PROVE  Fresh(t)' /\ (debris' \/ Framed(t)')
<1>0. /\ stage \in [Threads -> Stages] /\ pc \in [Threads -> Points] /\ CallInv
      /\ input \in Seq(Item) /\ wire \in Seq(Request) /\ ret \in [Threads -> Codes]
  BY DEF TypeInv, TypeOK, LinkInv
<1>1. UNCHANGED <<block, clean>>
  BY DEF Refuse, Pass, Acquire, Send, frame
<1>2. CASE Refuse(t)
  <2>1. pc[t] = "call" /\ UNCHANGED busy
    BY <1>2 DEF Refuse, sem
  <2>2. PICK code \in {"ERROR", "BUSY"} : Return(t, code) /\ (code = "BUSY" => busy)
    BY <1>2 DEF Refuse
  <2>3. CASE stage[t] = "fetch"
    <3>1. code = "ERROR"
      BY <2>2, <2>3 DEF Fresh
    <3>2. stage'[t] = NextStage("fetch", "ERROR")
      BY <1>0, <2>2, <2>3, <3>1, AtCall DEF Return
    <3>3. stage'[t] = "abort"
      BY <3>2, SMTT(30) DEF NextStage
    <3>. QED
      BY <3>3 DEF Fresh, Framed
  <2>4. CASE stage[t] # "fetch"
    BY <1>0, <1>1, <2>1, <2>2, <2>4, ReturnStage
  <2>. QED
    BY <2>3, <2>4
<1>3. CASE Pass(t) \/ Acquire(t)
  <2>1. UNCHANGED <<stage, busy>> /\ pc[t] # "out"
    BY <1>3 DEF Pass, Acquire, sem
  <2>2. stage[t] \in Calls
    BY <1>0, <2>1 DEF CallInv
  <2>. QED
    BY <1>1, <2>1, <2>2 DEF Fresh, Framed, Calls
<1>4. CASE Send(t) /\ RequestKind(stage[t]) # "fetch"
  <2>1. UNCHANGED stage /\ pc[t] = "locked"
    BY <1>4 DEF Send
  <2>2. stage[t] \in Calls \ {"fetch"}
    BY <1>0, <1>4, <2>1 DEF CallInv, RequestKind
  <2>. QED
    BY <1>1, <2>1, <2>2 DEF Fresh, Framed, Calls
<1>5. CASE Send(t) /\ RequestKind(stage[t]) = "fetch"
  <2>1. stage[t] \in {"fetch", "native"} /\ Return(t, "NO_ERROR")
    BY <1>5 DEF RequestKind, Send
  <2>2. stage'[t] = NextStage(stage[t], "NO_ERROR") /\ ret'[t] = Verdict(stage[t], "NO_ERROR")
    BY <1>0, <2>1, AtCall DEF Return, Code
  <2>3. CASE stage[t] = "native"
    <3>1. stage'[t] = "idle"
      BY <2>2, <2>3, SMTT(30) DEF NextStage
    <3>. QED
      BY <3>1 DEF Fresh, Framed
  <2>4. CASE stage[t] = "fetch"
    <3>1. stage'[t] = "stream" /\ ret'[t] = "NO_ERROR"
      BY <2>2, <2>4, SMTT(30) DEF NextStage, Verdict
    <3>2. debris' \/ (input = <<>> /\ wire = <<>>)
      <4>1. debris' = (debris /\ ~(wire = <<>> /\ input = <<>>))
        BY <1>5 DEF Send
      <4>2. ~Dead
        BY <2>4 DEF Dead, Refused
      <4>3. Live => input = <<>> /\ wire = <<>>
        BY <2>4 DEF Live, FetchInv, Quiet
      <4>. QED
        BY <4>1, <4>2, <4>3 DEF LinkInv
    <3>3. CASE input = <<>> /\ wire = <<>>
      <4>1. Stale(input, t) = <<>> /\ Stale(wire, t) = <<>>
        BY <1>0, <3>3, StaleEmpty
      <4>. DEFINE request == [kind |-> RequestKind(stage[t]), ref |-> NextRef, for |-> t,
                              left |-> IF RequestKind(stage[t]) = "fetch" THEN Blocks ELSE 1]
      <4>2. /\ input' = <<>>
            /\ wire' = IF connected THEN Append(<<>>, request) ELSE <<>>
        BY <1>5, <3>3, <4>1 DEF Send
      <4>3. request.for = t
        OBVIOUS
      <4>. HIDE DEF request
      <4>4. Ours(t)'
        BY <4>2, <4>3 DEF Ours
      <4>5. clean[t]
        BY <2>4 DEF Fresh
      <4>. QED
        BY <1>1, <3>1, <4>4, <4>5 DEF Fresh, Framed
    <3>4. Fresh(t)'
      BY <3>1 DEF Fresh
    <3>. QED
      BY <3>2, <3>3, <3>4
  <2>. QED
    BY <2>1, <2>3, <2>4
<1>. QED
  BY <1>2, <1>3, <1>4, <1>5

LEMMA ReplyFramed ==
  ASSUME TypeInv, CallInv, NEW t \in Threads, Fresh(t),
         Receive(t) \/ PollTimeout(t) \/ ReadFails(t)
  PROVE  Fresh(t)' /\ Framed(t)'
<1>1. pc[t] = "receive" /\ UNCHANGED <<block, clean>>
  BY DEF Receive, PollTimeout, ReadFails, frame
<1>2. CASE \E code, item : Finish(t, code, item)
  BY <1>1, <1>2, FinishFramed
<1>3. CASE UNCHANGED <<busy, stage, ret>>
  <2>1. stage[t] \in Calls \ {"fetch"}
    BY <1>1 DEF CallInv, RequestKind
  <2>. QED
    BY <1>1, <1>3, <2>1 DEF Fresh, Framed, Calls
<1>. QED
  BY <1>2, <1>3 DEF Receive, PollTimeout, ReadFails, sem, place

LEMMA ReadFramed ==
  ASSUME TypeInv, TypeInv', CallInv, NEW t \in Threads, Framed(t),
         BlockTimeout(t) \/ PollHangUp(t) \/ Header(t) \/ Body(t) \/ Release(t) \/ ReturnFrame(t)
  PROVE  Framed(t)'
<1>0. /\ stage \in [Threads -> Stages] /\ ret \in [Threads -> Codes]
      /\ block \in [Threads -> 0 .. Blocks] /\ clean \in [Threads -> BOOLEAN]
      /\ input \in Seq(Item) /\ wire \in Seq(Request) /\ input' \in Seq(Item)
  BY DEF TypeInv, TypeOK
<1>1. ASSUME NEW s, At(t, s)
      PROVE  stage'[t] = s
  BY <1>1, AtCall
<1>2. CASE BlockTimeout(t) \/ PollHangUp(t)
  <2>1. stage'[t] = "release" /\ ret'[t] = "ERROR"
    BY <1>0, <1>1, <1>2 DEF BlockTimeout, PollHangUp, Code, TimeoutCode
  <2>. QED
    BY <2>1 DEF Framed
<1>3. ASSUME Ours(t), UNCHANGED wire, NEW n \in Nat, Taken(input, input', n)
      PROVE  Ours(t)'
  <2>1. ASSUME NEW i \in 1 .. Len(input')
        PROVE  input'[i].for = t
    <3>1. i + n \in 1 .. Len(input) /\ input'[i].for = input[i + n].for
      BY <1>0, <1>3, LenProperties DEF Taken
    <3>. QED
      BY <1>3, <3>1 DEF Ours
  <2>. QED
    BY <1>3, <2>1 DEF Ours
<1>4. CASE Header(t)
  <2>0. stage[t] = "stream" /\ UNCHANGED <<wire, block, clean>>
    BY <1>4 DEF Header, frame
  <2>1. Ours(t)'
    BY <1>3, <1>4, <2>0, FrameTakes DEF Framed
  <2>2. CASE /\ input' = <<[input[1] EXCEPT !.kind = "payload"]>> \o Tail(input)
             /\ At(t, "body") /\ UNCHANGED ret
    <3>. DEFINE x == [input[1] EXCEPT !.kind = "payload"]
                y == Tail(input)
    <3>1. input # <<>>
      <4>1. PICK i \in DOMAIN input : input[i].kind = "block"
        BY <1>4 DEF Header, HasBlock
      <4>2. DOMAIN input = 1 .. Len(input) /\ Len(input) \in Nat
        BY <1>0, LenProperties
      <4>. QED
        BY <4>1, <4>2
    <3>2. input[1] \in Item /\ y \in Seq(Item)
      BY <1>0, <3>1, EmptySeq, ElementOfSeq, HeadTailProperties
    <3>3. x \in Item /\ x.kind = "payload" /\ input' = <<x>> \o y
      BY <2>2, <3>2 DEF Item
    <3>. HIDE DEF x, y
    <3>4. Len(<<x>> \o y) = Len(y) + 1 /\ (<<x>> \o y)[1] = x
      BY <3>2, <3>3, PutFirst
    <3>5. Len(y) \in Nat
      BY <3>2, LenProperties
    <3>6. input'[1].kind = "payload" /\ Len(input') # 0
      BY <3>3, <3>4, <3>5
    <3>7. input' # <<>>
      BY <3>6, EmptySeq
    <3>8. stage'[t] = "body"
      BY <1>1, <2>2
    <3>. QED
      BY <2>0, <2>1, <2>2, <3>6, <3>7, <3>8 DEF Framed
  <2>3. CASE At(t, "log")
    BY <1>1, <2>3 DEF Framed
  <2>4. CASE At(t, "release") /\ Code(t, "ERROR")
    <3>1. stage'[t] = "release" /\ ret'[t] = "ERROR"
      BY <1>0, <1>1, <2>4 DEF Code
    <3>. QED
      BY <3>1 DEF Framed
  <2>. QED
    BY <1>4, <2>2, <2>3, <2>4 DEF Header
<1>5. CASE Body(t)
  <2>1. /\ stage[t] = "body" /\ UNCHANGED <<wire, ret>>
        /\ clean' = [clean EXCEPT ![t] = @ /\ input[1].kind = "payload" /\ input[1].for = t]
    BY <1>5 DEF Body, locals
  <2>2. input[1].kind = "payload" /\ input # <<>> /\ Ours(t) /\ clean[t] /\ ret[t] = "NO_ERROR"
    BY <2>1 DEF Framed
  <2>3. 1 \in 1 .. Len(input)
    BY <1>0, <2>2, EmptySeq
  <2>4. clean'[t]
    BY <1>0, <2>1, <2>2, <2>3 DEF Ours
  <2>5. BlockDone(t)
    BY <1>5, <2>2 DEF Body, Texts
  <2>6. Ours(t)'
    BY <1>3, <1>5, <2>1, <2>2, FrameTakes
  <2>7. stage'[t] = IF block[t] + 1 = Blocks THEN "release" ELSE "stream"
    BY <1>1, <2>5 DEF BlockDone
  <2>8. block'[t] = block[t] + 1
    BY <1>0, <2>5 DEF BlockDone
  <2>. QED
    BY <2>1, <2>2, <2>4, <2>6, <2>7, <2>8 DEF Framed
<1>6. CASE Release(t)
  <2>1. /\ stage[t] = "release" /\ UNCHANGED <<block, clean>>
        /\ stage'[t] = IF ret[t] = "NO_ERROR" THEN "unlock" ELSE "return"
    BY <1>1, <1>6 DEF Release, frame
  <2>. QED
    BY <2>1 DEF Framed
<1>7. CASE ReturnFrame(t)
  <2>1. stage'[t] = "idle"
    BY <1>1, <1>7 DEF ReturnFrame
  <2>. QED
    BY <2>1 DEF Framed
<1>. QED
  BY <1>2, <1>4, <1>5, <1>6, <1>7

LEMMA ReadFresh ==
  ASSUME TypeInv, CallInv, NEW t \in Threads,
         BlockTimeout(t) \/ PollHangUp(t) \/ Header(t) \/ Body(t) \/ Release(t) \/ ReturnFrame(t)
  PROVE  Fresh(t)'
<1>1. CASE \E s \in {"release", "body", "log", "stream", "unlock", "return", "idle"} : At(t, s)
  <2>1. PICK s \in {"release", "body", "log", "stream", "unlock", "return", "idle"} : At(t, s)
    BY <1>1
  <2>2. stage'[t] = s
    BY <2>1, AtCall
  <2>. QED
    BY <2>2 DEF Fresh
<1>2. CASE Body(t) /\ UNCHANGED place
  BY <1>2 DEF Body, place, Fresh
<1>. QED
  BY <1>1, <1>2 DEF BlockTimeout, PollHangUp, Header, Body, BlockDone, Release, ReturnFrame

LEMMA StartFramed ==
  ASSUME TypeInv, CallInv, NEW t \in Threads, Start(t)
  PROVE  Fresh(t)' /\ Framed(t)'
<1>0. block \in [Threads -> 0 .. Blocks] /\ clean \in [Threads -> BOOLEAN]
  BY DEF TypeInv, TypeOK
<1>1. CASE StartReadout(t)
  <2>1. stage'[t] = "lock" /\ block'[t] = 0 /\ clean'[t]
    BY <1>0, <1>1, AtCall DEF StartReadout
  <2>. QED
    BY <2>1 DEF Fresh, Framed
<1>2. CASE StartCommand(t) \/ StartNative(t) \/ StartOpen(t)
  <2>1. stage'[t] \in {"command", "native", "system"}
    BY <1>2, AtCall DEF StartCommand, StartNative, StartOpen
  <2>. QED
    BY <2>1 DEF Fresh, Framed
<1>3. CASE StartClose(t)
  <2>1. stage'[t] = "idle"
    BY <1>3 DEF StartClose, place
  <2>. QED
    BY <2>1 DEF Fresh, Framed
<1>. QED
  BY <1>1, <1>2, <1>3 DEF Start

LEMMA AnswerFramed ==
  ASSUME TypeInv, TypeInv', NEW t \in Threads, Framed(t), Answer \/ AnswerError
  PROVE  Framed(t)'
<1>1. /\ wire # <<>> /\ Answered(wire, wire', input, input')
      /\ UNCHANGED <<connected, busy, msgref, stage, pc, block, clean, check, got, ret>>
  BY AnswerIs
<1>2. /\ wire \in Seq(Request) /\ input \in Seq(Item) /\ input' \in Seq(Item)
      /\ Len(wire) \in Nat /\ Len(wire) >= 1 /\ Len(input) \in Nat
  <2>1. wire \in Seq(Request) /\ input \in Seq(Item)
    BY DEF TypeInv, TypeOK
  <2>2. input' \in Seq(Item)
    BY DEF TypeInv, TypeOK
  <2>3. Len(wire) \in Nat /\ Len(input) \in Nat
    BY <2>1
  <2>4. Len(wire) # 0
    BY <1>1, <2>1, EmptySeq
  <2>. QED
    BY <2>1, <2>2, <2>3, <2>4
<1>3. Ours(t) => Ours(t)'
  <2>. SUFFICES ASSUME Ours(t)
                PROVE  Ours(t)'
    OBVIOUS
  <2>1. wire[1].for = t
    BY <1>2 DEF Ours
  <2>2. \A i \in 1 .. Len(input') : input'[i].for = t
    <3>. SUFFICES ASSUME NEW i \in 1 .. Len(input) + 1
                  PROVE  input'[i].for = t
      BY <1>1 DEF Answered
    <3>1. CASE i = Len(input) + 1
      BY <1>1, <2>1, <3>1 DEF Answered
    <3>2. CASE i \in 1 .. Len(input)
      BY <1>1, <3>2 DEF Answered, Ours
    <3>. QED
      BY <1>2, <3>1, <3>2
  <2>3. \A j \in 1 .. Len(wire') : wire'[j].for = t
    <3>1. CASE Len(wire') = Len(wire) - 1 /\ \A j \in 1 .. Len(wire') : wire'[j] = wire[j + 1]
      <4>. SUFFICES ASSUME NEW j \in 1 .. Len(wire')
                    PROVE  wire'[j].for = t
        OBVIOUS
      <4>1. j + 1 \in 1 .. Len(wire)
        BY <1>2, <3>1
      <4>. QED
        BY <3>1, <4>1 DEF Ours
    <3>2. CASE /\ Len(wire') = Len(wire) /\ wire'[1].for = wire[1].for
               /\ \A j \in 2 .. Len(wire) : wire'[j] = wire[j]
      <4>. SUFFICES ASSUME NEW j \in 1 .. Len(wire)
                    PROVE  wire'[j].for = t
        BY <3>2
      <4>1. CASE j = 1
        BY <2>1, <3>2, <4>1
      <4>2. CASE j \in 2 .. Len(wire)
        BY <3>2, <4>2 DEF Ours
      <4>. QED
        BY <1>2, <4>1, <4>2
    <3>. QED
      BY <1>1, <3>1, <3>2 DEF Answered
  <2>. QED
    BY <2>2, <2>3 DEF Ours
<1>4. input # <<>> => input'[1] = input[1] /\ input' # <<>>
  <2>. SUFFICES ASSUME input # <<>>
                PROVE  input'[1] = input[1] /\ input' # <<>>
    OBVIOUS
  <2>1. 1 \in 1 .. Len(input) /\ Len(input) + 1 # 0
    BY <1>2, EmptySeq
  <2>2. input'[1] = input[1] /\ Len(input') # 0
    BY <1>1, <2>1 DEF Answered
  <2>. QED
    BY <2>2, EmptySeq
<1>. QED
  BY <1>1, <1>3, <1>4 DEF Framed

-----------------------------------------------------------------------------
(* What a broken-off readout left behind is forgotten only when a command is
   sent with nothing on its way. *)
LEMMA DebrisStep ==
  ASSUME debris, [Next]_vars
  PROVE  debris' \/ \E t \in Threads : Send(t) /\ Quiet
<1>1. CASE Answer \/ AnswerError \/ UNCHANGED vars
  BY <1>1 DEF Answer, AnswerError, vars
<1>2. ASSUME NEW t \in Threads, Start(t)
      PROVE  debris'
  BY <1>2 DEF Start, StartCommand, StartNative, StartReadout, StartOpen, StartClose
<1>3. ASSUME NEW t \in Threads, Refuse(t) \/ Pass(t) \/ Acquire(t)
      PROVE  debris'
  BY <1>3 DEF Refuse, Pass, Acquire
<1>4. ASSUME NEW t \in Threads, Receive(t) \/ PollTimeout(t) \/ ReadFails(t)
      PROVE  debris'
  BY <1>4 DEF Receive, PollTimeout, ReadFails
<1>5. ASSUME NEW t \in Threads,
             BlockTimeout(t) \/ PollHangUp(t) \/ Header(t) \/ Body(t) \/ Release(t) \/ ReturnFrame(t)
      PROVE  debris'
  BY <1>5 DEF BlockTimeout, PollHangUp, Header, Body, Release, ReturnFrame
<1>6. ASSUME NEW t \in Threads, Send(t)
      PROVE  debris' \/ Quiet
  BY <1>6 DEF Send, Quiet
<1>. QED
  BY <1>1, <1>2, <1>3, <1>4, <1>5, <1>6 DEF Next, Step, Lose

LEMMA SendQuiet ==
  ASSUME TypeInv, Apart, CallInv, GotInv, NEW t \in Threads, Send(t), Quiet
  PROVE  Live
<1>1. /\ wire = <<>> /\ input = <<>> /\ Len(wire) = 0 /\ Len(input) = 0 /\ pc[t] = "locked"
  BY DEF Quiet, Send
<1>2. QueueInv
  BY <1>1, NothingWaiting DEF QueueInv
<1>3. RoomInv
  <2>1. Few
    BY <1>1, BoundsAssumption DEF Few
  <2>2. \A u \in Threads : ~Streaming(u)
    BY <1>1, CallStreams
  <2>. QED
    BY <2>1, <2>2 DEF RoomInv
<1>4. FetchInv
  BY DEF FetchInv
<1>5. ReplyInv
  BY <1>1 DEF Apart, InBody, GotInv, ReplyInv
<1>. QED
  BY <1>2, <1>3, <1>4, <1>5 DEF Live

(* A reply has age 0 only if it is the one to the last command. *)
LEMMA LinkStep ==
  ASSUME RefMod > MaxLag, TypeInv, TypeInv', Apart, LinkInv, FrameInv, [Next]_vars
  PROVE  LinkInv'
<1>1. CallInv' /\ GotInv'
  BY CallStep, GotStep DEF LinkInv
<1>2. CASE Dead
  BY <1>1, <1>2, DeadStep DEF LinkInv
<1>3. ASSUME NEW t \in Threads, Send(t), Live
      PROVE  Dead' \/ Live'
  BY <1>3, SendLive DEF LinkInv, FrameInv
<1>4. CASE debris
  <2>1. debris' \/ \E t \in Threads : Send(t) /\ Quiet
    BY <1>4, DebrisStep
  <2>2. ASSUME NEW t \in Threads, Send(t), Quiet
        PROVE  Dead' \/ Live'
    BY <1>3, <2>2, SendQuiet DEF LinkInv
  <2>. QED
    BY <1>1, <2>1, <2>2 DEF LinkInv
<1>5. CASE Live /\ ~debris
  <2>0. CallInv /\ \A t \in Threads : Fresh(t) /\ Framed(t)
    BY <1>5 DEF LinkInv, FrameInv
  <2>1. ASSUME Answer \/ AnswerError
        PROVE  Live'
    BY <1>5, <2>1, AnswerLive
  <2>2. ASSUME NEW t \in Threads, Start(t)
        PROVE  Live'
    BY <1>5, <2>0, <2>2, StartLive
  <2>3. ASSUME NEW t \in Threads, Step(t)
        PROVE  debris' \/ Dead' \/ Live'
    <3>1. CASE Refuse(t) \/ Pass(t) \/ Acquire(t)
      BY <1>5, <2>0, <3>1, CallLive
    <3>2. CASE Send(t)
      BY <1>3, <1>5, <3>2
    <3>3. CASE Receive(t)
      BY <1>5, <2>0, <3>3, ReceiveLive
    <3>4. CASE PollTimeout(t)
      BY <1>5, <2>0, <3>4, TimeoutLive
    <3>5. CASE BlockTimeout(t) \/ Header(t) \/ Body(t) \/ Release(t) \/ ReturnFrame(t)
      BY <1>5, <2>0, <3>5, FrameLive
    <3>. QED
      BY <2>3, <3>1, <3>2, <3>3, <3>4, <3>5 DEF Step
  <2>4. ASSUME NEW t \in Threads, Lose(t)
        PROVE  debris' \/ Live'
    BY <1>5, <2>0, <2>4, ReadFailsLive, FrameLive DEF Lose
  <2>5. ASSUME UNCHANGED vars
        PROVE  Live'
    <3>1. UNCHANGED <<connected, wire, input, msgref, stage, pc, check, got, ret, block>>
      BY <2>5 DEF vars, link, sem, place, locals, frame
    <3>2. RoomInv'
      BY <1>5, <3>1 DEF Live, RoomInv, Few, Counted, Streaming
    <3>. QED
      BY <1>5, <3>1, <3>2, LiveMove
  <2>6. debris' \/ Dead' \/ Live'
    BY <2>1, <2>2, <2>3, <2>4, <2>5 DEF Next
  <2>. QED
    BY <1>1, <2>6 DEF LinkInv
<1>. QED
  BY <1>2, <1>4, <1>5 DEF LinkInv

LEMMA FrameStep ==
  ASSUME TypeInv, TypeInv', Apart, Apart', LinkInv, FrameInv, [Next]_vars
  PROVE  FrameInv'
<1>1. CASE TextOnly
  <2>1. \A t \in Threads : stage'[t] \in NoFrameStages \ {"native"}
    BY <1>1 DEF Apart, TextOnly
  <2>. QED
    BY <2>1 DEF FrameInv, Fresh, Framed, NoFrameStages
<1>2. CASE ~TextOnly
  <2>1. PICK t \in Threads : Threads = {t}
    BY <1>2 DEF Apart, OneThread
  <2>2. CallInv /\ Fresh(t) /\ (debris \/ Framed(t))
    BY DEF LinkInv, FrameInv
  <2>3. CASE Answer \/ AnswerError
    <3>1. UNCHANGED <<debris, stage, busy, block, clean>>
      BY <2>3 DEF Answer, AnswerError, sem, place, frame
    <3>2. Fresh(t)'
      BY <2>2, <3>1 DEF Fresh
    <3>3. Framed(t) => Framed(t)'
      BY <2>1, <2>3, AnswerFramed
    <3>. QED
      BY <2>1, <2>2, <3>1, <3>2, <3>3 DEF FrameInv
  <2>4. CASE Start(t)
    BY <2>1, <2>2, <2>4, StartFramed DEF FrameInv
  <2>5. CASE Refuse(t) \/ Pass(t) \/ Acquire(t) \/ Send(t)
    BY <2>1, <2>2, <2>5, CallFramed DEF FrameInv
  <2>6. CASE Receive(t) \/ PollTimeout(t) \/ ReadFails(t)
    BY <2>1, <2>2, <2>6, ReplyFramed DEF FrameInv
  <2>7. CASE BlockTimeout(t) \/ PollHangUp(t) \/ Header(t) \/ Body(t) \/ Release(t) \/ ReturnFrame(t)
    <3>1. Fresh(t)'
      BY <2>2, <2>7, ReadFresh
    <3>2. Framed(t) => Framed(t)'
      BY <2>2, <2>7, ReadFramed
    <3>3. debris => debris'
      BY <2>7 DEF BlockTimeout, PollHangUp, Header, Body, Release, ReturnFrame
    <3>. QED
      BY <2>1, <2>2, <3>1, <3>2, <3>3 DEF FrameInv
  <2>8. CASE UNCHANGED vars
    <3>1. UNCHANGED <<wire, input, busy, stage, ret, block, clean, debris>>
      BY <2>8 DEF vars, link, sem, place, frame, locals
    <3>. QED
      BY <2>1, <2>2, <3>1 DEF FrameInv, Fresh, Framed, Ours
  <2>. QED
    BY <2>1, <2>3, <2>4, <2>5, <2>6, <2>7, <2>8 DEF Next, Step, Lose
<1>. QED
  BY <1>1, <1>2

LEMMA ApartInvariant ==
  ASSUME TextOnly \/ OneThread
  PROVE  Spec => []Apart
<1>1. CASE TextOnly
  <2>1. BusyInv => Apart
    BY <1>1 DEF BusyInv, Excl, HeldThroughout, NoFrames, Apart
  <2>2. Spec => []BusyInv
    BY <1>1, BusyInvariant DEF TextOnly
  <2>. QED
    BY <2>1, <2>2, PTL
<1>2. CASE ~TextOnly
  <2>1. Apart
    BY <1>2 DEF Apart, OneThread
  <2>. QED
    BY <2>1, PTL
<1>. QED
  BY <1>1, <1>2

LEMMA LinkInvariant ==
  ASSUME TextOnly \/ OneThread, RefMod > MaxLag
  PROVE  Spec => [](LinkInv /\ FrameInv)
<1>1. Init => LinkInv /\ FrameInv
  <2>. SUFFICES ASSUME Init
                PROVE  LinkInv /\ FrameInv
    OBVIOUS
  <2>1. /\ wire = <<>> /\ input = <<>> /\ Len(wire) = 0 /\ Len(input) = 0
        /\ \A t \in Threads : stage[t] = "idle" /\ pc[t] = "out" /\ got[t] = NoItem
    BY DEF Init
  <2>2. QueueInv
    BY <2>1, NothingWaiting DEF QueueInv, Quiet
  <2>3. RoomInv
    BY <2>1, BoundsAssumption DEF RoomInv, Few, Streaming
  <2>4. FetchInv /\ ReplyInv /\ CallInv /\ GotInv
    BY <2>1 DEF FetchInv, ReplyInv, CallInv, GotInv, Calls
  <2>5. FrameInv
    BY <2>1 DEF FrameInv, Fresh, Framed
  <2>. QED
    BY <2>2, <2>3, <2>4, <2>5 DEF LinkInv, Live
<1>2. /\ TypeInv /\ TypeInv' /\ Apart /\ Apart' /\ (LinkInv /\ FrameInv) /\ [Next]_vars
      => (LinkInv /\ FrameInv)'
  BY LinkStep, FrameStep
<1>3. Spec => []TypeInv
  BY TypeInvariant
<1>4. Spec => []Apart
  BY ApartInvariant
<1>. QED
  BY <1>1, <1>2, <1>3, <1>4, PTL DEF Spec

(* The end of archon_cmd with NO_ERROR. *)
LEMMA FinishWell ==
  ASSUME TypeInv, CallInv, NEW t \in Threads, pc[t] = "receive",
         NEW code, NEW item, Finish(t, code, item), ret'[t] = "NO_ERROR"
  PROVE  code = "NO_ERROR"
<1>0. ret \in [Threads -> Codes]
  BY DEF TypeInv, TypeOK
<1>1. stage[t] # "fetch"
  BY DEF CallInv, RequestKind
<1>2. CASE Return(t, code)
  <2>1. Verdict(stage[t], code) = "NO_ERROR"
    BY <1>0, <1>2 DEF Return, Code
  <2>. QED
    BY <1>1, <2>1, SMTT(30) DEF Verdict
<1>3. CASE Code(t, code)
  BY <1>0, <1>3 DEF Code
<1>. QED
  BY <1>2, <1>3 DEF Finish

LEMMA OwnStep ==
  ASSUME TypeInv, LinkInv, [Next]_vars, ~debris,
         NEW t \in Threads, pc[t] = "receive", pc'[t] # "receive", ret'[t] = "NO_ERROR"
  PROVE  FirstRead(t).for = t
<1>0. /\ stage \in [Threads -> Stages] /\ pc \in [Threads -> Points]
      /\ input \in Seq(Item) /\ CallInv
  BY DEF TypeInv, TypeOK, LinkInv
<1>1. Live /\ Replied(t)
  <2>1. ~Dead
    BY DEF Dead
  <2>. QED
    BY <2>1 DEF LinkInv, Live, ReplyInv
<1>2. stage[t] \in Calls
  BY <1>0 DEF CallInv
<1>3. Step(t) \/ Lose(t)
  <2>1. ASSUME NEW u \in Threads, u # t, Start(u) \/ Step(u) \/ Lose(u)
        PROVE  FALSE
    <3>1. CASE \E s : At(u, s)
      BY <1>0, <2>1, <3>1, AtCall
    <3>2. CASE UNCHANGED pc
      BY <3>2
    <3>3. CASE \E p : pc' = [pc EXCEPT ![u] = p]
      BY <1>0, <2>1, <3>3
    <3>. QED
      BY <2>1, <3>1, <3>2, <3>3
         DEF Start, StartCommand, StartNative, StartReadout, StartOpen, StartClose,
             Step, Lose, Refuse, Pass, Acquire, Send, Receive, PollTimeout, ReadFails, Finish,
             Return, BlockTimeout, PollHangUp, Header, Body, BlockDone, Release, ReturnFrame,
                place
  <2>2. ASSUME Start(t)
        PROVE  FALSE
    BY <1>2, <2>2 DEF Start, StartCommand, StartNative, StartReadout, StartOpen, StartClose, Calls
  <2>3. ~(Answer \/ AnswerError \/ UNCHANGED vars)
    BY DEF Answer, AnswerError, vars, place
  <2>. QED
    BY <2>1, <2>2, <2>3 DEF Next
<1>4. Receive(t) \/ PollTimeout(t) \/ ReadFails(t)
  <2>1. ~(BlockTimeout(t) \/ PollHangUp(t) \/ Header(t) \/ Body(t) \/ Release(t) \/ ReturnFrame(t))
    BY <1>2 DEF BlockTimeout, PollHangUp, Header, Body, Release, ReturnFrame, Calls
  <2>2. ~(Refuse(t) \/ Pass(t) \/ Acquire(t) \/ Send(t))
    BY DEF Refuse, Pass, Acquire, Send
  <2>. QED
    BY <1>3, <2>1, <2>2 DEF Step, Lose
<1>5. CASE Receive(t)
  <2>1. PICK n \in 1 .. Len(input) : Finish(t, Judge(t, FirstRead(t)), FirstRead(t))
    BY <1>0, <1>5 DEF Receive, place
  <2>2. Judge(t, FirstRead(t)) = "NO_ERROR"
    BY <1>0, <2>1, FinishWell
  <2>3. Len(input) >= 1
    BY <1>0, <2>1, LenProperties
  <2>. QED
    BY <1>1, <2>2, <2>3, JudgedIsOwn
<1>6. CASE PollTimeout(t)
  <2>1. Finish(t, "TIMEOUT", got[t])
    BY <1>6 DEF PollTimeout
  <2>2. "TIMEOUT" = "NO_ERROR"
    BY <1>0, <2>1, FinishWell
  <2>. QED
    BY <2>2
<1>7. CASE ReadFails(t)
  <2>1. Finish(t, Judge(t, got[t]), got[t])
    BY <1>7 DEF ReadFails
  <2>2. Judge(t, got[t]) = "NO_ERROR"
    BY <1>0, <2>1, FinishWell
  <2>3. got[t] # NoItem /\ FirstRead(t) = got[t]
    BY <2>2 DEF Judge, FirstRead
  <2>. QED
    BY <1>1, <2>2, <2>3, JudgedIsOwn
<1>. QED
  BY <1>4, <1>5, <1>6, <1>7

(* archon_cmd returns NO_ERROR only with the answer to its own command, although
   answers come late and message references are used again: for any clients that
   send text commands, or one client with readouts of any size, while the
   controller is late with fewer commands than there are references.  From a
   readout that breaks off, until a command is sent with nothing on its way,
   OwnReply says nothing. *)
THEOREM RepliesAreOwn ==
  ASSUME TextOnly \/ OneThread, RefMod > MaxLag
  PROVE  Spec => OwnReply
<1>1. TypeInv /\ LinkInv /\ [Next]_vars =>
        [\A t \in Threads :
           /\ pc[t] = "receive" /\ pc'[t] # "receive" /\ ret'[t] = "NO_ERROR"
           => FirstRead(t).for = t \/ debris]_vars
  BY OwnStep
<1>2. Spec => []TypeInv
  BY TypeInvariant
<1>3. Spec => [](LinkInv /\ FrameInv)
  BY LinkInvariant
<1>. QED
  BY <1>1, <1>2, <1>3, PTL DEF Spec, OwnReply

(* read_frame(frame_type) leaves its loop without an error only with a complete
   frame that is made of the blocks which its own FETCH asked for: for one client
   and frames of any size, while the controller is late with fewer commands than
   there are references, and from a readout that breaks off only once a command
   has been sent with nothing on its way. *)
THEOREM FramesAreClean ==
  ASSUME OneThread, RefMod > MaxLag
  PROVE  Spec => []CleanFrame
<1>1. FrameInv => CleanFrame
  BY DEF FrameInv, Framed, CleanFrame
<1>2. Spec => [](LinkInv /\ FrameInv)
  BY LinkInvariant
<1>. QED
  BY <1>1, <1>2, PTL

=============================================================================
