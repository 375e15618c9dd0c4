---------------------------- MODULE Server_proofs ----------------------------
(***************************************************************************)
(* Theorems about Server, for any threads, connections and lines.          *)
(***************************************************************************)
EXTENDS Server, SequenceTheorems, FiniteSetTheorems, TLAPS

-----------------------------------------------------------------------------
(* The inductive invariant. *)

Items == Kinds \cup {"part"}

(* Types of what Server's TypeOK leaves out. *)
Typed ==
  /\ scen \in Scenarios /\ TypeOK
  /\ lines \in [Conns -> Nat] /\ inbox \in [Conns -> Seq(Items)]
  /\ \A c \in Conns : lines[c] <= Len(scen.script[c])
  /\ hurt \subseteq Conns
  /\ message_queue \in Seq(Nat) /\ sent \in Seq(Nat) /\ queued \in Seq(Nat)

(* A connection is in one place: it was not made yet, it waits for accept, or
   it has one descriptor. *)
OnePlace ==
  /\ \A c \in Conns : client[c] = "away" => c \notin backlog
  /\ \A n \in Fds : table[n] # NoConn => table[n] \notin backlog /\ client[table[n]] # "away"
  /\ \A m, n \in Fds : table[m] # NoConn /\ table[m] = table[n] => m = n

(* Thread t serves connection c, which is not hurt. *)
Serving(t, c) == copy[t] \in Fds /\ c \in Conns \ hurt /\ table[copy[t]] = c

(* The number of a connection that is not hurt is no other thread's. *)
Alone ==
  \A t, u \in Threads : \A c \in Conns :
    Serving(t, c) /\ t # u => copy[t] # fd[u] /\ copy[t] # copy[u]

(* The first k lines of a client were read, the rest is in its inbox, maybe
   with the first part of one more. *)
Unread(c, k) ==
  /\ k <= lines[c]
  /\ \A i \in 1 .. lines[c] - k : inbox[c][i] = scen.script[c][k + i]
  /\ \/ Len(inbox[c]) = lines[c] - k
     \/ /\ Len(inbox[c]) = lines[c] - k + 1 /\ inbox[c][Len(inbox[c])] = "part"
        /\ lines[c] < Len(scen.script[c]) /\ scen.script[c][lines[c] + 1] = "late"

Answer(c, i) == [of |-> c, kind |-> scen.script[c][i]]

(* A client that was not served yet. *)
Fresh ==
  \A c \in Conns : client[c] = "away" \/ c \in backlog =>
    received[c] = <<>> /\ (client[c] # "gone" => Unread(c, 0))

(* What a thread read and did not answer yet is the next line of its client. *)
Due(t, c) ==
  Serving(t, c) /\ client[c] = "here" /\ pc[t] # "exit" =>
    IF pc[t] = "reply"
    THEN Unread(c, Len(received[c]) + 1) /\ line[t] = Answer(c, Len(received[c]) + 1)
    ELSE Unread(c, Len(received[c]))
InStep == \A t \in Threads : \A c \in Conns : Due(t, c)

AnswerInv == OnePlace /\ Alone /\ Fresh /\ InStep /\ OwnAnswers

-----------------------------------------------------------------------------
(* Descriptors. *)

(* A nonempty set of numbers has a least one. *)
LEMMA LeastNumber ==
  ASSUME NEW S \in SUBSET Nat, S # {}
  PROVE  Min(S) \in S
<1>1. \E x \in S : \A y \in S : ~(<<y, x>> \in OpToRel(<, Nat))
  BY NatLessThanWellFounded, WFMin
<1>2. PICK x \in S : \A y \in S : ~(y < x)
  BY <1>1 DEF OpToRel
<1>3. \A y \in S : x =< y
  BY <1>2
<1>. QED
  BY <1>3 DEF Min

LEMMA ThreadsFinite ==
  /\ IsFiniteSet(Threads) /\ Cardinality(Threads) \in Nat
  /\ IsFiniteSet(Fds) /\ Cardinality(Fds) = Cardinality(Threads) + 1
  /\ Fds \subseteq Nat /\ NoFd \notin Fds
<1>1. IsFiniteSet(Threads) /\ Cardinality(Threads) \in Nat
  BY ServerAssumption, FS_CardinalityType
<1>2. IsFiniteSet(Fds) /\ Cardinality(Fds) = Cardinality(Threads) + 1
  BY <1>1, FS_Interval DEF Fds
<1>. QED
  BY <1>1, <1>2 DEF Fds, NoFd

(* There is a descriptor for every thread and one more: accept finds a free
   one as long as every open one is the copy of a thread. *)
LEMMA FreeFdIsFree ==
  ASSUME NoLeak
  PROVE  FreeFd \in Fds /\ table[FreeFd] = NoConn
<1>. DEFINE free == {n \in Fds : table[n] = NoConn}
<1>1. free # {}
  <2>1. SUFFICES ASSUME free = {}
                 PROVE  FALSE
    OBVIOUS
  <2>2. \A n \in Fds : \E t \in Threads : copy[t] = n
    BY <2>1 DEF NoLeak
  <2>. DEFINE f == [n \in Fds |-> CHOOSE t \in Threads : copy[t] = n]
  <2>3. \A n \in Fds : f[n] \in Threads /\ copy[f[n]] = n
    BY <2>2
  <2>4. f \in [Fds -> Threads]
    BY <2>3
  <2>. HIDE DEF f
  <2>5. Cardinality(Threads) < Cardinality(Fds)
    BY ThreadsFinite
  <2>6. PICK m, n \in Fds : m # n /\ f[m] = f[n]
    BY <2>4, <2>5, ThreadsFinite, FS_PigeonHole
  <2>. QED
    BY <2>3, <2>6
<1>2. free \in SUBSET Nat
  BY ThreadsFinite
<1>3. FreeFd \in free
  <2>. HIDE DEF free
  <2>1. Min(free) \in free
    BY <1>1, <1>2, LeastNumber
  <2>. QED
    BY <2>1 DEF FreeFd, free
<1>. QED
  BY <1>3

-----------------------------------------------------------------------------
(* Types. *)

(* What the clients of a scenario send. *)
LEMMA ScriptTypes ==
  ASSUME scen \in Scenarios
  PROVE  scen.script \in [Conns -> Seq(Kinds)] /\ scen.async \in BOOLEAN
  BY ServerAssumption

(* A thread that does not take conn_mutex and does not release it. *)
LEMMA PlaceChanges ==
  ASSUME Typed, NEW t \in Threads, NEW p \in Places, pc' = [pc EXCEPT ![t] = p],
         pc[t] # "accept" \/ t = Blocker, p # "accept" \/ t = Blocker, UNCHANGED conn_mutex
  PROVE  /\ pc' \in [Threads -> Places]
         /\ \A u \in Workers : conn_mutex' = u <=> pc'[u] = "accept"
<1>1. pc \in [Threads -> Places] /\ Blocker \notin Workers /\ Workers \subseteq Threads
  BY ServerAssumption DEF Typed, TypeOK, Threads
<1>2. pc' \in [Threads -> Places]
  BY <1>1
<1>3. ASSUME NEW u \in Workers
      PROVE  conn_mutex' = u <=> pc'[u] = "accept"
  <2>1. (conn_mutex = u) <=> (pc[u] = "accept")
    BY DEF Typed, TypeOK
  <2>2. CASE u = t
    BY <1>1, <2>1, <2>2
  <2>3. CASE u # t
    BY <1>1, <2>1, <2>3
  <2>. QED
    BY <2>2, <2>3
<1>. QED
  BY <1>2, <1>3

(* A step of a thread that moves no line, answer or message. *)
Moves(t, p) ==
  /\ pc' = [pc EXCEPT ![t] = p] /\ p \in Places
  /\ UNCHANGED <<scen, clients, line, async, hurt, ending>>

LEMMA MovesTyped ==
  ASSUME Typed, NEW t \in Threads, NEW p, Moves(t, p),
         table' \in [Fds -> Conns \cup {NoConn}],
         fd' \in [Threads -> Fds \cup {NoFd}], copy' \in [Threads -> Fds \cup {NoFd}],
         held' \in [Threads -> Conns \cup {NoConn}],
         \A u \in Workers : conn_mutex' = u <=> pc'[u] = "accept"
  PROVE  Typed'
<1>1. pc' \in [Threads -> Places]
  BY DEF Moves, Typed, TypeOK
<1>. QED
  BY <1>1 DEF Typed, TypeOK, Moves, clients, async

LEMMA ReleasedTyped ==
  ASSUME Typed, NEW n
  PROVE  Released(n) \in [Fds -> Conns \cup {NoConn}]
  BY DEF Typed, TypeOK, Released

-----------------------------------------------------------------------------
(* Each step keeps the types. *)

LEMMA ClientStepTyped ==
  ASSUME Typed, NEW c \in Conns, Dial(c) \/ Say(c) \/ HangUp(c)
  PROVE  Typed'
<1>1. CASE Dial(c)
  BY <1>1 DEF Typed, TypeOK, Dial, threads, async
<1>2. CASE Say(c)
  <2>. DEFINE script == scen.script[c]
  <2>1. /\ script \in Seq(Kinds) /\ inbox[c] \in Seq(Items) /\ lines[c] \in Nat
        /\ lines[c] < Len(script) /\ Len(script) \in Nat
    <3>1. script \in Seq(Kinds) /\ inbox[c] \in Seq(Items) /\ lines[c] \in Nat
      BY ScriptTypes DEF Typed
    <3>2. lines[c] # Len(script) /\ lines[c] <= Len(script) /\ Len(script) \in Nat
      BY <1>2, <3>1, LenProperties DEF Say, Finished, Typed
    <3>. QED
      BY <3>1, <3>2
  <2>. HIDE DEF script
  <2>2. PICK item, rest :
          /\ Says(c, item, rest) /\ item \in Items /\ rest \in Seq(Items)
          /\ lines' = lines \/ lines' = [lines EXCEPT ![c] = @ + 1]
    <3>1. CASE /\ NextLine(c) # "late" /\ Says(c, NextLine(c), inbox[c])
               /\ lines' = [lines EXCEPT ![c] = @ + 1]
      <4>1. script[lines[c] + 1] \in Kinds
        BY <2>1, ElementOfSeq
      <4>2. NextLine(c) \in Items
        BY <4>1 DEF NextLine, Items, script
      <4>. QED
        BY <3>1, <4>2, <2>1
    <3>2. CASE Says(c, "part", inbox[c]) /\ UNCHANGED lines
      BY <3>2, <2>1 DEF Items
    <3>3. CASE Half(c) /\ Says(c, "late", Front(inbox[c])) /\ lines' = [lines EXCEPT ![c] = @ + 1]
      <4>1. Front(inbox[c]) \in Seq(Items)
        <5>1. Len(inbox[c]) \in Nat /\ \A i \in 1 .. Len(inbox[c]) - 1 : inbox[c][i] \in Items
          BY <2>1, LenProperties, ElementOfSeq
        <5>. QED
          BY <5>1, SubSeqProperties DEF Front
      <4>. QED
        BY <3>3, <4>1 DEF Items, Kinds
    <3>. QED
      BY <1>2, <3>1, <3>2, <3>3 DEF Say
  <2>3. Append(rest, item) \in Seq(Items)
    BY <2>2
  <2>4. inbox' \in [Conns -> Seq(Items)]
    BY <2>2, <2>3 DEF Says, Typed
  <2>5. lines' \in [Conns -> Nat] /\ \A d \in Conns : lines'[d] <= Len(scen.script[d])
    <3>1. lines' \in [Conns -> Nat]
      <4>1. lines \in [Conns -> Nat] /\ lines[c] + 1 \in Nat
        BY <2>1 DEF Typed
      <4>2. lines' = lines \/ lines' = [lines EXCEPT ![c] = lines[c] + 1]
        BY <2>2
      <4>. QED
        BY <4>1, <4>2
    <3>2. \A d \in Conns : d # c => lines'[d] = lines[d]
      BY <2>2 DEF Typed
    <3>3. lines'[c] <= Len(script)
      BY <2>2, <2>1 DEF Typed
    <3>. QED
      BY <3>1, <3>2, <3>3 DEF Typed, script
  <2>6. UNCHANGED <<scen, client, backlog, received, table, threads, async, hurt, ending>>
    BY <2>2 DEF Says
  <2>. QED
    BY <2>4, <2>5, <2>6 DEF Typed, TypeOK, threads, async
<1>3. CASE HangUp(c)
  BY <1>3 DEF Typed, TypeOK, HangUp, threads, async
<1>. QED
  BY <1>1, <1>2, <1>3

(* Steps of a thread that concern its descriptor. *)
LEMMA LockTyped ==
  ASSUME Typed, NEW t \in Threads, Lock(t)
  PROVE  Typed'
<1>1. Moves(t, "accept")
  BY DEF Lock, Moves, Places
<1>2. \A u \in Workers : conn_mutex' = u <=> pc'[u] = "accept"
  <2>1. \A u \in Workers : NoConn # u
    BY ServerAssumption DEF Threads
  <2>2. \A u \in Workers : pc[u] # "accept"
    BY <2>1 DEF Lock, Typed, TypeOK
  <2>3. \A u \in Workers : pc'[u] = "accept" <=> u = t
    BY <2>2 DEF Lock, Typed, TypeOK, Threads
  <2>. QED
    BY <2>3 DEF Lock
<1>. QED
  BY <1>1, <1>2, MovesTyped DEF Lock, Typed, TypeOK

LEMMA AcceptTyped ==
  ASSUME Typed, NoLeak, NEW t \in Threads, Accept(t)
  PROVE  Typed'
<1>1. FreeFd \in Fds
  BY FreeFdIsFree
<1>2. PICK c \in backlog : 
        /\ backlog' = backlog \ {c} /\ table' = [table EXCEPT ![FreeFd] = c]
        /\ fd' = [fd EXCEPT ![t] = FreeFd] /\ copy' = [copy EXCEPT ![t] = FreeFd]
        /\ hurt' = IF InUse(t, FreeFd) THEN hurt \cup {c} ELSE hurt
  BY DEF Accept, CopyOf
<1>3. c \in Conns
  BY DEF Typed, TypeOK
<1>4. table' \in [Fds -> Conns \cup {NoConn}] /\ fd' \in [Threads -> Fds \cup {NoFd}]
        /\ copy' \in [Threads -> Fds \cup {NoFd}] /\ hurt' \subseteq Conns /\ backlog' \subseteq Conns
  BY <1>1, <1>2, <1>3 DEF Typed, TypeOK
<1>5. pc' \in [Threads -> Places]
  BY DEF Accept, Typed, TypeOK, Places
<1>6. \A u \in Workers : conn_mutex' = u <=> pc'[u] = "accept"
  <2>1. \A u \in Workers : NoConn # u /\ Blocker # u /\ u \in Threads
    BY ServerAssumption DEF Threads
  <2>2. \A u \in Workers : (conn_mutex = u) <=> (pc[u] = "accept")
    BY DEF Typed, TypeOK
  <2>3. pc[t] = "accept" /\ conn_mutex' = Unlocked(t) /\ pc' = [pc EXCEPT ![t] = "doit"]
    BY DEF Accept
  <2>4. \A u \in Workers : pc'[u] = "accept" <=> pc[u] = "accept" /\ u # t
    BY <2>1, <2>3 DEF Typed, TypeOK
  <2>5. CASE t = Blocker
    BY <2>1, <2>2, <2>3, <2>4, <2>5 DEF Unlocked
  <2>6. CASE t # Blocker
    <3>1. t \in Workers
      BY <2>6 DEF Threads
    <3>2. conn_mutex = t
      BY <3>1, <2>2, <2>3
    <3>. QED
      BY <2>1, <2>2, <2>3, <2>4, <2>6, <3>2 DEF Unlocked
  <2>. QED
    BY <2>5, <2>6
<1>. QED
  BY <1>4, <1>5, <1>6 DEF Accept, Typed, TypeOK, async

LEMMA CloseTyped ==
  ASSUME Typed, NEW t \in Threads, CloseCopy(t) \/ Close(t)
  PROVE  Typed'
<1>1. CASE CloseCopy(t)
  <2>1. Moves(t, "close") /\ table' \in [Fds -> Conns \cup {NoConn}]
    BY <1>1, ReleasedTyped DEF CloseCopy, Moves, Places
  <2>2. copy' \in [Threads -> Fds \cup {NoFd}]
    BY <1>1 DEF CloseCopy, Typed, TypeOK
  <2>3. \A u \in Workers : conn_mutex' = u <=> pc'[u] = "accept"
    BY <1>1, PlaceChanges DEF CloseCopy, Places
  <2>. QED
    BY <1>1, <2>1, <2>2, <2>3, MovesTyped DEF CloseCopy, Typed, TypeOK
<1>2. CASE Close(t)
  <2>1. Moves(t, Start(t)) /\ table' \in [Fds -> Conns \cup {NoConn}]
    BY <1>2, ReleasedTyped DEF Close, Moves, Places, Start
  <2>2. fd' \in [Threads -> Fds \cup {NoFd}]
    BY <1>2 DEF Close, Typed, TypeOK
  <2>3. \A u \in Workers : conn_mutex' = u <=> pc'[u] = "accept"
    BY <1>2, PlaceChanges DEF Close, Places, Start
  <2>. QED
    BY <1>2, <2>1, <2>2, <2>3, MovesTyped DEF Close, Typed, TypeOK
<1>. QED
  BY <1>1, <1>2

(* What the copy of a thread names is a connection, or nothing. *)
LEMMA NamedType ==
  ASSUME Typed, NEW t \in Threads
  PROVE  /\ Named(t) \in Conns \cup {NoConn}
         /\ Named(t) # NoConn => Named(t) \in Conns /\ copy[t] \in Fds /\ Named(t) = table[copy[t]]
  BY ThreadsFinite, ServerAssumption DEF Typed, TypeOK, Named

LEMMA PollTyped ==
  ASSUME Typed, NEW t \in Threads, Poll(t) \/ PollReady(t) \/ PollTimeout(t) \/ ReadNothing(t)
  PROVE  Typed'
<1>1. PICK p \in {"done", "poll", "read"} : Moves(t, p)
  BY DEF Poll, PollReady, PollTimeout, ReadNothing, Goto, Moves, clients, Places
<1>2. pc[t] \in {"doit", "poll", "read"} /\ UNCHANGED conn_mutex
  BY DEF Poll, PollReady, PollTimeout, ReadNothing
<1>3. \A u \in Workers : conn_mutex' = u <=> pc'[u] = "accept"
  BY <1>1, <1>2, PlaceChanges DEF Moves, Places
<1>4. table' \in [Fds -> Conns \cup {NoConn}] /\ copy' \in [Threads -> Fds \cup {NoFd}]
  <2>1. UNCHANGED <<table, copy>> \/ (table' = Released(copy[t]) /\ copy' = [copy EXCEPT ![t] = NoFd])
    BY DEF Poll, PollReady, PollTimeout, ReadNothing
  <2>2. Released(copy[t]) \in [Fds -> Conns \cup {NoConn}]
    BY ReleasedTyped
  <2>3. [copy EXCEPT ![t] = NoFd] \in [Threads -> Fds \cup {NoFd}]
    BY DEF Typed, TypeOK
  <2>4. table \in [Fds -> Conns \cup {NoConn}] /\ copy \in [Threads -> Fds \cup {NoFd}]
    BY DEF Typed, TypeOK
  <2>. QED
    BY <2>1, <2>2, <2>3, <2>4
<1>5. held' \in [Threads -> Conns \cup {NoConn}]
  BY NamedType DEF Poll, PollReady, PollTimeout, ReadNothing, Typed, TypeOK
<1>6. UNCHANGED fd
  BY DEF Poll, PollReady, PollTimeout, ReadNothing
<1>. QED
  BY <1>1, <1>3, <1>4, <1>5, <1>6, MovesTyped DEF Typed, TypeOK

(* enqueue of a number. *)
LEMMA EnqueueTyped ==
  ASSUME Typed, NEW m \in Nat, Enqueue(m)
  PROVE  /\ message_queue' \in Seq(Nat) /\ queued' \in Seq(Nat) /\ sent' \in Seq(Nat)
         /\ apc' \in {"get", "wait", "ended"}
         /\ message_queue' = Append(message_queue, m) /\ queued' = Append(queued, m)
         /\ sent' = sent
  BY DEF Typed, TypeOK, Enqueue, Queued, Notified

(* What a line asks for. *)
LEMMA ObeyTyped ==
  ASSUME Typed, NEW t \in Threads, Obey(t), line' \in [Threads -> Lines]
  PROVE  /\ message_queue' \in Seq(Nat) /\ queued' \in Seq(Nat) /\ sent' \in Seq(Nat)
         /\ apc' \in {"get", "wait", "ended"} /\ received' \in [Conns -> Seq(Lines)]
         /\ \E p \in {"reply", "exit", "doit"} : pc' = [pc EXCEPT ![t] = p]
<1>1. Len(queued) + 1 \in Nat
  BY LenProperties DEF Typed
<1>2. CASE Enqueue(Len(queued) + 1) /\ Goto(t, "reply") /\ UNCHANGED received
  BY <1>1, <1>2, EnqueueTyped DEF Goto, Typed, TypeOK
<1>3. CASE Goto(t, "reply") /\ UNCHANGED <<received, async>>
  BY <1>3 DEF Goto, Typed, TypeOK, async
<1>4. CASE Enqueue(EXIT) /\ Goto(t, "exit") /\ UNCHANGED received
  BY <1>4, EnqueueTyped DEF Goto, Typed, TypeOK, EXIT
<1>5. CASE /\ received' = Reached(line'[t].of, line'[t])
           /\ Goto(t, "doit") /\ UNCHANGED async
  <2>1. line'[t] \in Lines
    OBVIOUS
  <2>2. received' \in [Conns -> Seq(Lines)]
    <3>1. CASE received' = received
      BY <3>1 DEF Typed, TypeOK
    <3>2. CASE received' = [received EXCEPT ![line'[t].of] = Append(@, line'[t])]
      <4>1. \A c \in Conns : Append(received[c], line'[t]) \in Seq(Lines)
        BY <2>1 DEF Typed, TypeOK
      <4>. QED
        BY <3>2, <4>1 DEF Typed, TypeOK
    <3>. QED
      BY <1>5, <3>1, <3>2 DEF Reached
  <2>. QED
    BY <1>5, <2>2 DEF Goto, Typed, TypeOK, async
<1>. QED
  BY <1>2, <1>3, <1>4, <1>5 DEF Obey

(* A line of the inbox that is read, cut or not. *)
LEMMA CutType ==
  ASSUME NEW item \in Kinds, NEW got \in Cut(item)
  PROVE  /\ got[1] \in Kinds /\ got[2] \in Seq(Items) 
         /\ got[2] = <<>> => got[1] = item
         /\ got[2] # <<>> => item = "late" /\ got[2] = <<"fail">>
<1>1. CASE item = "late"
  <2>1. got = <<"late", <<>>>> \/ got = <<"fail", <<"fail">>>>
    BY <1>1 DEF Cut
  <2>2. <<>> \in Seq(Items) /\ <<"fail">> \in Seq(Items) /\ <<"fail">> # <<>>
    BY DEF Items, Kinds
  <2>3. CASE got = <<"late", <<>>>>
    <3>1. got[1] = "late" /\ got[2] = <<>>
      BY <2>3
    <3>. QED
      BY <3>1, <1>1, <2>2 DEF Kinds
  <2>4. CASE got = <<"fail", <<"fail">>>>
    <3>1. got[1] = "fail" /\ got[2] = <<"fail">>
      BY <2>4
    <3>. QED
      BY <3>1, <1>1, <2>2 DEF Kinds
  <2>. QED
    BY <2>1, <2>3, <2>4
<1>2. CASE item # "late"
  <2>1. got = <<item, <<>>>>
    BY <1>2 DEF Cut
  <2>. QED
    BY <2>1
<1>. QED
  BY <1>1, <1>2

LEMMA ReadTyped ==
  ASSUME Typed, NEW t \in Threads, Read(t)
  PROVE  Typed'
<1>. DEFINE c == Named(t)
<1>1. c \in Conns /\ inbox[c] \in Seq(Items) /\ inbox[c] # <<>> /\ Head(inbox[c]) # "part"
  BY NamedType DEF Read, Typed
<1>2. Head(inbox[c]) \in Kinds /\ Tail(inbox[c]) \in Seq(Items)
  BY <1>1, HeadTailProperties DEF Items
<1>3. PICK got \in Cut(Head(inbox[c])) :
        /\ inbox' = [inbox EXCEPT ![c] = got[2] \o Tail(@)]
        /\ hurt' = IF got[2] # <<>> THEN hurt \cup {c} ELSE hurt
        /\ line' = [line EXCEPT ![t] = [of |-> c, kind |-> got[1]]]
  BY DEF Read
<1>. HIDE DEF c
<1>4. got[1] \in Kinds /\ got[2] \in Seq(Items)
  BY <1>2, <1>3, CutType
<1>5. inbox' \in [Conns -> Seq(Items)] /\ hurt' \subseteq Conns
  <2>1. got[2] \o Tail(inbox[c]) \in Seq(Items)
    BY <1>2, <1>4, ConcatProperties
  <2>. QED
    BY <1>1, <1>3, <2>1 DEF Typed
<1>6. line' \in [Threads -> Lines]
  <2>1. [of |-> c, kind |-> got[1]] \in Lines
    BY <1>1, <1>4 DEF Lines
  <2>. QED
    BY <1>3, <2>1 DEF Typed, TypeOK
<1>7. Obey(t)
  BY DEF Read
<1>8. pc' \in [Threads -> Places] /\ \A u \in Workers : conn_mutex' = u <=> pc'[u] = "accept"
  <2>1. PICK p \in {"reply", "exit", "doit"} : pc' = [pc EXCEPT ![t] = p]
    BY <1>6, <1>7, ObeyTyped
  <2>. QED
    BY <2>1, PlaceChanges DEF Read, Places
<1>9. UNCHANGED <<scen, client, backlog, lines, table, fd, copy, held>>
  BY DEF Read
<1>. QED
  BY <1>5, <1>6, <1>7, <1>8, <1>9, ObeyTyped DEF Typed, TypeOK

LEMMA ReplyTyped ==
  ASSUME Typed, NEW t \in Threads, Reply(t)
  PROVE  Typed'
<1>1. received' \in [Conns -> Seq(Lines)]
  <2>1. CASE received' = [received EXCEPT ![Named(t)] = Append(@, line[t])]
    <3>1. \A c \in Conns : Append(received[c], line[t]) \in Seq(Lines)
      BY DEF Typed, TypeOK
    <3>. QED
      BY <2>1, <3>1 DEF Typed, TypeOK
  <2>2. CASE UNCHANGED received
    BY <2>2 DEF Typed, TypeOK
  <2>. QED
    BY <2>1, <2>2 DEF Reply, Reached
<1>2. line' \in [Threads -> Lines]
  <2>1. NoLine \in Lines
    BY DEF NoLine, Lines, Kinds
  <2>. QED
    BY <2>1 DEF Reply, Typed, TypeOK
<1>3. PICK p \in {"doit", "done"} : pc' = [pc EXCEPT ![t] = p]
  BY DEF Reply, Goto
<1>4. pc' \in [Threads -> Places] /\ \A u \in Workers : conn_mutex' = u <=> pc'[u] = "accept"
  BY <1>3, PlaceChanges DEF Reply, Places
<1>5. UNCHANGED <<scen, client, backlog, lines, inbox, table, fd, copy, held, async, hurt>>
  BY DEF Reply
<1>. QED
  BY <1>1, <1>2, <1>4, <1>5 DEF Typed, TypeOK, async

LEMMA AsyncTyped ==
  ASSUME Typed, Dequeue \/ AsyncWait \/ Signal \/ Exit
  PROVE  Typed'
<1>1. CASE Dequeue
  <2>1. /\ Head(message_queue) \in Nat /\ Tail(message_queue) \in Seq(Nat)
    BY <1>1, HeadTailProperties DEF Dequeue, Typed
  <2>2. sent' \in Seq(Nat) /\ message_queue' \in Seq(Nat) /\ queued' \in Seq(Nat)
    BY <1>1, <2>1 DEF Dequeue, Typed
  <2>. QED
    BY <1>1, <2>2 DEF Dequeue, Typed, TypeOK, clients, threads
<1>2. CASE AsyncWait
  BY <1>2 DEF AsyncWait, Typed, TypeOK, clients, threads
<1>3. CASE Signal
  <2>1. /\ message_queue' \in Seq(Nat) /\ queued' \in Seq(Nat) /\ sent' \in Seq(Nat)
        /\ apc' \in {"get", "wait", "ended"}
    BY <1>3, EnqueueTyped DEF Signal, EXIT
  <2>. QED
    BY <1>3, <2>1 DEF Signal, Typed, TypeOK, clients, threads
<1>4. CASE Exit
  <2>1. \A u \in Workers : NoConn # u /\ u \in Threads
    BY ServerAssumption DEF Threads
  <2>2. \A u \in Workers : conn_mutex' = u <=> pc'[u] = "accept"
    BY <1>4, <2>1 DEF Exit
  <2>3. pc' \in [Threads -> Places]
    BY <1>4 DEF Exit, Places
  <2>. QED
    BY <1>4, <2>2, <2>3 DEF Exit, Typed, TypeOK
<1>. QED
  BY <1>1, <1>2, <1>3, <1>4

-----------------------------------------------------------------------------
(* No descriptor is lost. *)

(* A thread that is in doit, and stays there, with or without its copy. *)
LEMMA StillNoLeak ==
  ASSUME Typed, NoLeak, NEW t \in Threads, NEW p,
         pc' = [pc EXCEPT ![t] = p], pc[t] \notin {"idle", "accept", "close"} => p \notin {"idle", "accept", "close"},
         UNCHANGED <<table, copy>>
  PROVE  NoLeak'
<1>1. pc \in [Threads -> Places]
  BY DEF Typed, TypeOK
<1>. QED
  BY <1>1 DEF NoLeak

LEMMA ReleasedNoLeak ==
  ASSUME Typed, NoLeak, NEW t \in Threads, NEW p,
         pc' = [pc EXCEPT ![t] = p], table' = Released(copy[t]), copy' = [copy EXCEPT ![t] = NoFd]
  PROVE  NoLeak'
<1>1. /\ pc \in [Threads -> Places] /\ table \in [Fds -> Conns \cup {NoConn}]
      /\ copy \in [Threads -> Fds \cup {NoFd}] /\ NoFd \notin Fds
  BY ThreadsFinite DEF Typed, TypeOK
<1>2. ASSUME NEW n \in Fds, table'[n] # NoConn
      PROVE  table[n] # NoConn /\ copy[t] # n
  BY <1>1, <1>2 DEF Released
<1>3. ASSUME NEW n \in Fds, table'[n] # NoConn
      PROVE  \E u \in Threads : copy'[u] = n /\ pc'[u] \notin {"idle", "accept", "close"}
  <2>1. PICK u \in Threads : copy[u] = n /\ pc[u] \notin {"idle", "accept", "close"}
    BY <1>2, <1>3 DEF NoLeak
  <2>2. u # t
    BY <1>2, <1>3, <2>1
  <2>. QED
    BY <1>1, <2>1, <2>2
<1>. QED
  BY <1>3 DEF NoLeak

LEMMA NoLeakStep ==
  ASSUME Typed, NoLeak, [Next]_vars
  PROVE  NoLeak'
<1>1. ASSUME NEW c \in Conns, Dial(c) \/ Say(c) \/ HangUp(c)
      PROVE  NoLeak'
  <2>1. UNCHANGED <<table, copy, pc>>
    BY <1>1 DEF Dial, Say, Says, HangUp, threads
  <2>. QED
    BY <2>1 DEF NoLeak
<1>2. ASSUME NEW t \in Threads, Serves(t)
      PROVE  NoLeak'
  <2>1. CASE Lock(t)
    BY <2>1, StillNoLeak DEF Lock
  <2>2. CASE Accept(t)
    <3>1. /\ pc \in [Threads -> Places] /\ table \in [Fds -> Conns \cup {NoConn}]
          /\ copy \in [Threads -> Fds \cup {NoFd}] /\ pc[t] = "accept"
      BY <2>2 DEF Typed, TypeOK, Accept
    <3>2. PICK c : table' = [table EXCEPT ![FreeFd] = c]
      BY <2>2 DEF Accept
    <3>3. copy' = [copy EXCEPT ![t] = FreeFd] /\ pc' = [pc EXCEPT ![t] = "doit"]
      BY <2>2 DEF Accept, CopyOf
    <3>4. ASSUME NEW n \in Fds, table'[n] # NoConn
          PROVE  \E u \in Threads : copy'[u] = n /\ pc'[u] \notin {"idle", "accept", "close"}
      <4>1. CASE n = FreeFd
        BY <3>1, <3>3, <4>1
      <4>2. CASE n # FreeFd
        <5>1. table[n] # NoConn
          BY <3>1, <3>2, <3>4, <4>2
        <5>2. PICK u \in Threads : copy[u] = n /\ pc[u] \notin {"idle", "accept", "close"}
          BY <5>1 DEF NoLeak
        <5>3. u # t
          BY <5>2, <3>1
        <5>. QED
          BY <3>1, <3>3, <5>2, <5>3
      <4>. QED
        BY <4>1, <4>2
    <3>. QED
      BY <3>4 DEF NoLeak
  <2>3. CASE Poll(t) \/ PollReady(t) \/ PollTimeout(t) \/ ReadNothing(t)
    <3>1. PICK p \in {"done", "poll", "read"} : pc' = [pc EXCEPT ![t] = p]
      BY <2>3 DEF Poll, PollReady, PollTimeout, ReadNothing, Goto
    <3>2. UNCHANGED <<table, copy>> \/ (table' = Released(copy[t]) /\ copy' = [copy EXCEPT ![t] = NoFd])
      BY <2>3 DEF Poll, PollReady, PollTimeout, ReadNothing
    <3>. QED
      BY <3>1, <3>2, StillNoLeak, ReleasedNoLeak
  <2>4. CASE Read(t)
    <3>1. PICK p \in {"reply", "exit", "doit"} : pc' = [pc EXCEPT ![t] = p]
      BY <2>4 DEF Read, Obey, Goto
    <3>2. UNCHANGED <<table, copy>>
      BY <2>4 DEF Read
    <3>. QED
      BY <3>1, <3>2, StillNoLeak
  <2>5. CASE Reply(t)
    <3>1. PICK p \in {"doit", "done"} : pc' = [pc EXCEPT ![t] = p]
      BY <2>5 DEF Reply, Goto
    <3>2. UNCHANGED <<table, copy>>
      BY <2>5 DEF Reply
    <3>. QED
      BY <3>1, <3>2, StillNoLeak
  <2>6. CASE CloseCopy(t)
    BY <2>6, ReleasedNoLeak DEF CloseCopy
  <2>7. CASE Close(t)
    <3>1. /\ pc \in [Threads -> Places] /\ table \in [Fds -> Conns \cup {NoConn}]
          /\ pc[t] = "close" /\ pc' = [pc EXCEPT ![t] = Start(t)]
          /\ table' = Released(fd[t]) /\ UNCHANGED copy
      BY <2>7 DEF Close, Typed, TypeOK
    <3>2. \A n \in Fds : table'[n] # NoConn => table[n] # NoConn
      BY <3>1 DEF Released
    <3>3. \A u \in Threads : pc[u] \notin {"idle", "accept", "close"} =>
            pc'[u] \notin {"idle", "accept", "close"}
      BY <3>1
    <3>. QED
      BY <3>1, <3>2, <3>3 DEF NoLeak
  <2>. QED
    BY <1>2, <2>1, <2>2, <2>3, <2>4, <2>5, <2>6, <2>7 DEF Serves
<1>3. CASE Dequeue \/ AsyncWait \/ Signal
  <2>1. UNCHANGED <<table, copy, pc>>
    BY <1>3 DEF Dequeue, AsyncWait, Signal, threads
  <2>. QED
    BY <2>1 DEF NoLeak
<1>4. CASE Exit
  BY <1>4 DEF Exit, NoLeak
<1>5. CASE UNCHANGED vars
  BY <1>5 DEF NoLeak, vars, threads
<1>. QED
  BY <1>1, <1>2, <1>3, <1>4, <1>5 DEF Next

LEMMA TypedStep ==
  ASSUME Typed, NoLeak, [Next]_vars
  PROVE  Typed'
<1>1. ASSUME NEW t \in Threads, Serves(t)
      PROVE  Typed'
  BY <1>1, LockTyped, AcceptTyped, PollTyped, ReadTyped, ReplyTyped, CloseTyped DEF Serves
<1>2. CASE UNCHANGED vars
  BY <1>2 DEF vars, clients, threads, async, Typed, TypeOK
<1>. QED
  BY <1>1, <1>2, ClientStepTyped, AsyncTyped DEF Next

LEMMA FirstState ==
  ASSUME Init
  PROVE  Typed /\ NoLeak
<1>1. NoLine \in Lines /\ \A t \in Threads : Start(t) \in Places
  BY DEF NoLine, Lines, Kinds, Start, Places
<1>2. \A t \in Workers : Start(t) # "accept" /\ NoConn # t
  BY ServerAssumption DEF Start, Threads
<1>3. \A c \in Conns : Len(scen.script[c]) \in Nat
  BY ScriptTypes, LenProperties DEF Init
<1>4. TypeOK
  BY <1>1, <1>2 DEF Init, TypeOK, Threads
<1>. QED
  BY <1>3, <1>4 DEF Init, Typed, NoLeak

(* The types of the server's state; conn_mutex is held exactly by the worker
   that accepts; a descriptor that is open is the copy of a thread in doit,
   which closes it whichever way the connection ends. *)
THEOREM NoDescriptorLost == Spec => []NoLeak
<1>1. Init => Typed /\ NoLeak
  BY FirstState
<1>2. Typed /\ NoLeak /\ [Next]_vars => (Typed /\ NoLeak)'
  BY TypedStep, NoLeakStep
<1>. QED
  BY <1>1, <1>2, PTL DEF Spec

-----------------------------------------------------------------------------
(* Messages. *)

LEMMA AppendConcat ==
  ASSUME NEW s \in Seq(Nat), NEW m \in Nat
  PROVE  Append(s, m) = s \o <<m>> /\ <<m>> \in Seq(Nat)
<1>1. <<m>> \in Seq(Nat) /\ Len(<<m>>) = 1 /\ <<m>>[1] = m
  OBVIOUS
<1>2. /\ s \o <<m>> \in Seq(Nat) /\ Len(s \o <<m>>) = Len(s) + 1 /\ Len(s) \in Nat
      /\ \A i \in 1 .. Len(s) + 1 : (s \o <<m>>)[i] = IF i <= Len(s) THEN s[i] ELSE <<m>>[i - Len(s)]
  BY <1>1, ConcatProperties, LenProperties
<1>3. /\ Append(s, m) \in Seq(Nat) /\ Len(Append(s, m)) = Len(s) + 1
      /\ \A i \in 1 .. Len(s) + 1 : Append(s, m)[i] = IF i <= Len(s) THEN s[i] ELSE m
  BY LenProperties
<1>4. \A i \in 1 .. Len(s) + 1 : (s \o <<m>>)[i] = Append(s, m)[i]
  <2>1. \A i \in 1 .. Len(s) + 1 : i > Len(s) => i - Len(s) = 1
    BY <1>2
  <2>. QED
    BY <1>1, <1>2, <1>3, <2>1
<1>. QED
  BY <1>1, <1>2, <1>3, <1>4, SeqEqual

(* A message moves from the head of the queue to what was sent. *)
LEMMA HeadMoves ==
  ASSUME NEW s \in Seq(Nat), NEW q \in Seq(Nat), q # <<>>
  PROVE  Append(s, Head(q)) \o Tail(q) = s \o q
<1>1. Head(q) \in Nat /\ Tail(q) \in Seq(Nat) /\ Head(q) = q[1]
  BY HeadTailProperties
<1>2. Len(q) \in Nat /\ Len(q) > 0
  BY LenProperties, EmptySeq
<1>3. q = <<Head(q)>> \o Tail(q)
  <2>1. SubSeq(q, 1, Len(q)) = <<q[1]>> \o SubSeq(q, 2, Len(q))
    BY <1>2, SubSeqRecursiveFirst
  <2>. QED
    BY <1>1, <2>1, SubSeqFull, TailIsSubSeq
<1>4. Append(s, Head(q)) = s \o <<Head(q)>> /\ <<Head(q)>> \in Seq(Nat)
  BY <1>1, AppendConcat
<1>5. (s \o <<Head(q)>>) \o Tail(q) = s \o (<<Head(q)>> \o Tail(q))
  BY SMTT(40), <1>1, <1>4, ConcatAssociative
<1>. QED
  BY <1>3, <1>4, <1>5

LEMMA QueueGrows ==
  ASSUME NEW s \in Seq(Nat), NEW q \in Seq(Nat), NEW m \in Nat
  PROVE  s \o Append(q, m) = Append(s \o q, m)
<1>1. s \o q \in Seq(Nat)
  BY ConcatProperties
<1>2. Append(q, m) = q \o <<m>> /\ Append(s \o q, m) = (s \o q) \o <<m>> /\ <<m>> \in Seq(Nat)
  BY <1>1, AppendConcat
<1>. QED
  BY <1>2, ConcatAssociative

LEMMA EnqueueInOrder ==
  ASSUME Typed, MessagesInOrder, UNCHANGED scen, NEW m \in Nat, Enqueue(m)
  PROVE  MessagesInOrder'
<1>1. message_queue' = Append(message_queue, m) /\ queued' = Append(queued, m) /\ sent' = sent
  BY EnqueueTyped
<1>2. sent \o Append(message_queue, m) = Append(sent \o message_queue, m)
  BY QueueGrows DEF Typed
<1>. QED
  BY <1>1, <1>2 DEF MessagesInOrder

LEMMA MessagesStep ==
  ASSUME Typed, MessagesInOrder, [Next]_vars
  PROVE  MessagesInOrder'
<1>1. CASE UNCHANGED <<scen, async>>
  BY <1>1 DEF MessagesInOrder, async
<1>2. ASSUME NEW t \in Threads, Read(t)
      PROVE  MessagesInOrder'
  <2>1. Len(queued) + 1 \in Nat /\ EXIT \in Nat
    BY LenProperties DEF Typed, EXIT
  <2>2. UNCHANGED scen
    BY <1>2 DEF Read
  <2>3. UNCHANGED async \/ Enqueue(Len(queued) + 1) \/ Enqueue(EXIT)
    BY <1>2 DEF Read, Obey
  <2>. QED
    BY <2>1, <2>2, <2>3, <1>1, EnqueueInOrder
<1>3. CASE Dequeue
  <2>1. /\ message_queue # <<>> /\ UNCHANGED <<scen, queued>>
        /\ message_queue' = Tail(message_queue)
        /\ scen.async => sent' = Append(sent, Head(message_queue))
    BY <1>3 DEF Dequeue
  <2>2. Append(sent, Head(message_queue)) \o Tail(message_queue) = sent \o message_queue
    BY <2>1, HeadMoves DEF Typed
  <2>. QED
    BY <2>1, <2>2 DEF MessagesInOrder
<1>4. CASE AsyncWait \/ Exit
  BY <1>4 DEF AsyncWait, Exit, MessagesInOrder
<1>5. CASE Signal
  BY <1>5, EnqueueInOrder DEF Signal, EXIT
<1>6. ASSUME NEW t \in Threads, Serves(t)
      PROVE  Read(t) \/ UNCHANGED <<scen, async>>
  BY <1>6 DEF Serves, Lock, Accept, Poll, PollReady, PollTimeout, ReadNothing, Reply, CloseCopy, Close
<1>7. ASSUME NEW c \in Conns, Dial(c) \/ Say(c) \/ HangUp(c)
      PROVE  UNCHANGED <<scen, async>>
  BY <1>7 DEF Dial, Say, Says, HangUp
<1>8. UNCHANGED vars => UNCHANGED <<scen, async>>
  BY DEF vars
<1>. QED
  BY <1>1, <1>2, <1>3, <1>4, <1>5, <1>6, <1>7, <1>8 DEF Next

(* async_main sends what enqueue was given in that order, no message lost and
   none twice, whatever threads enqueue at the same time: what was sent and
   what is still queued are together what was ever queued. *)
THEOREM MessagesKeepOrder == Spec => []MessagesInOrder
<1>1. Init => Typed /\ NoLeak /\ MessagesInOrder
  <2>1. Init => MessagesInOrder
    BY DEF Init, MessagesInOrder
  <2>. QED
    BY <2>1, FirstState
<1>2. Typed /\ NoLeak /\ MessagesInOrder /\ [Next]_vars => (Typed /\ NoLeak /\ MessagesInOrder)'
  BY TypedStep, NoLeakStep, MessagesStep
<1>. QED
  BY <1>1, <1>2, PTL DEF Spec

-----------------------------------------------------------------------------
(* Answers. *)

(* A step that does not touch what answers depend on. *)
LEMMA SameAnswers ==
  ASSUME AnswerInv,
         UNCHANGED <<scen, client, backlog, lines, inbox, received, table, pc, fd, copy, line, hurt>>
  PROVE  AnswerInv'
<1>1. OnePlace' /\ Alone'
  BY DEF AnswerInv, OnePlace, Alone, Serving
<1>2. Fresh' /\ InStep'
  BY DEF AnswerInv, Fresh, InStep, Due, Serving, Unread, Answer
<1>3. OwnAnswers'
  BY DEF AnswerInv, OwnAnswers
<1>. QED
  BY <1>1, <1>2, <1>3 DEF AnswerInv

(* What is due stays so while nothing of its thread and its client changes. *)
LEMMA DueKept ==
  ASSUME NEW t \in Threads, NEW c \in Conns, Due(t, c), Serving(t, c)' => Serving(t, c),
         client'[c] = "here" => client[c] = "here",
         pc'[t] = pc[t] \/ (pc[t] \notin {"reply", "exit"} /\ pc'[t] # "reply"),
         line'[t] = line[t], scen' = scen, lines'[c] = lines[c], inbox'[c] = inbox[c],
         received'[c] = received[c]
  PROVE  Due(t, c)'
<1>1. /\ Unread(c, Len(received[c]))' <=> Unread(c, Len(received[c]))
      /\ Unread(c, Len(received[c]) + 1)' <=> Unread(c, Len(received[c]) + 1)
      /\ Answer(c, Len(received[c]) + 1)' = Answer(c, Len(received[c]) + 1)
  BY DEF Unread, Answer
<1>. QED
  BY <1>1 DEF Due

(* A thread that goes on, and at most closes descriptors of its own. *)
LEMMA ThreadGoesOn ==
  ASSUME Typed, AnswerInv, NEW t \in Threads, NEW p,
         UNCHANGED <<scen, client, backlog, lines, inbox, received, line, hurt>>,
         pc' = [pc EXCEPT ![t] = p], p # "reply", pc[t] \notin {"reply", "exit"},
         \A n \in Fds : table'[n] \in {table[n], NoConn},
         \A u \in Threads : copy'[u] \in {copy[u], NoFd} /\ fd'[u] \in {fd[u], NoFd}
  PROVE  AnswerInv'
<1>1. OnePlace'
  BY DEF AnswerInv, OnePlace
<1>2. ASSUME NEW u \in Threads, NEW c \in Conns, Serving(u, c)'
      PROVE  Serving(u, c) /\ copy'[u] = copy[u]
  <2>1. copy'[u] \in Fds /\ NoFd \notin Fds /\ table'[copy'[u]] = c /\ c # NoConn /\ c \notin hurt
    BY <1>2, ThreadsFinite, ServerAssumption DEF Serving
  <2>. QED
    BY <2>1 DEF Serving
<1>3. Alone'
  <2>1. ASSUME NEW u \in Threads, NEW v \in Threads, NEW c \in Conns, Serving(u, c)', u # v
        PROVE  copy'[u] # fd'[v] /\ copy'[u] # copy'[v]
    <3>1. Serving(u, c) /\ copy'[u] = copy[u] /\ copy[u] \in Fds /\ NoFd \notin Fds
      BY <2>1, <1>2, ThreadsFinite DEF Serving
    <3>2. copy[u] # fd[v] /\ copy[u] # copy[v]
      BY <3>1, <2>1 DEF AnswerInv, Alone
    <3>. QED
      BY <3>1, <3>2
  <2>. QED
    BY <2>1 DEF Alone
<1>4. Fresh'
  BY DEF AnswerInv, Fresh, Unread
<1>5. InStep'
  <2>1. ASSUME NEW u \in Threads, NEW c \in Conns
        PROVE  Due(u, c)'
    <3>1. Due(u, c)
      BY DEF AnswerInv, InStep
    <3>2. pc'[u] = pc[u] \/ (pc[u] \notin {"reply", "exit"} /\ pc'[u] # "reply")
      BY DEF Typed, TypeOK
    <3>. QED
      BY <3>1, <3>2, <1>2, DueKept
  <2>. QED
    BY <2>1 DEF InStep
<1>6. OwnAnswers'
  BY DEF AnswerInv, OwnAnswers
<1>. QED
  BY <1>1, <1>3, <1>4, <1>5, <1>6 DEF AnswerInv

(* Two threads do not name the same connection, unless it is hurt. *)
LEMMA OneServer ==
  ASSUME Typed, AnswerInv, NEW t \in Threads, NEW u \in Threads, t # u,
         NEW c \in Conns, Serving(t, c)
  PROVE  Named(u) # c
<1>1. SUFFICES ASSUME Named(u) = c
               PROVE  FALSE
  OBVIOUS
<1>2. c # NoConn
  BY ServerAssumption
<1>3. copy[u] \in Fds /\ table[copy[u]] = c
  BY <1>1, <1>2, NamedType
<1>4. copy[t] \in Fds /\ table[copy[t]] = c
  BY DEF Serving
<1>5. copy[t] = copy[u]
  BY <1>2, <1>3, <1>4 DEF AnswerInv, OnePlace
<1>. QED
  BY <1>5 DEF AnswerInv, Alone

LEMMA NamedServes ==
  ASSUME Typed, NEW t \in Threads, NEW c \in Conns
  PROVE  Serving(t, c) <=> Named(t) = c /\ c \notin hurt
  BY ThreadsFinite, ServerAssumption DEF Serving, Named, Typed, TypeOK

(* What reaches a client is the answer to its next line, if it is not hurt. *)
LEMMA AnswerArrives ==
  ASSUME Typed, OwnAnswers, NEW c \in Conns, NEW a \in Lines, received' = Reached(c, a),
         UNCHANGED <<scen, lines>>, hurt \subseteq hurt',
         c \notin hurt' /\ client[c] # "gone" =>
           a = Answer(c, Len(received[c]) + 1) /\ Len(received[c]) + 1 <= lines[c]
  PROVE  /\ OwnAnswers'
         /\ \A d \in Conns : d # c => received'[d] = received[d]
         /\ client[c] # "gone" => Len(received'[c]) = Len(received[c]) + 1
         /\ client[c] = "gone" => received' = received
<1>1. received[c] \in Seq(Lines) /\ Len(received[c]) \in Nat
  BY LenProperties DEF Typed, TypeOK
<1>2. client[c] = "gone" => received' = received
  BY DEF Reached
<1>3. CASE client[c] = "gone"
  BY <1>2, <1>3 DEF OwnAnswers
<1>4. CASE client[c] # "gone"
  <2>1. received' = [received EXCEPT ![c] = Append(received[c], a)]
    BY <1>4 DEF Reached
  <2>2. /\ received'[c] = Append(received[c], a)
        /\ \A d \in Conns : d # c => received'[d] = received[d]
    BY <2>1 DEF Typed, TypeOK
  <2>3. /\ Len(received'[c]) = Len(received[c]) + 1
        /\ \A i \in 1 .. Len(received[c]) : received'[c][i] = received[c][i]
        /\ received'[c][Len(received[c]) + 1] = a
    BY <2>2, <1>1
  <2>4. OwnAnswers'
    <3>1. ASSUME NEW d \in Conns, d \notin hurt', d # c
          PROVE  /\ Len(received'[d]) <= lines[d]
                 /\ \A i \in 1 .. Len(received'[d]) : received'[d][i] = [of |-> d, kind |-> scen.script[d][i]]
      BY <3>1, <2>2 DEF OwnAnswers
    <3>2. ASSUME c \notin hurt'
          PROVE  /\ Len(received'[c]) <= lines[c]
                 /\ \A i \in 1 .. Len(received'[c]) : received'[c][i] = [of |-> c, kind |-> scen.script[c][i]]
      <4>1. a = [of |-> c, kind |-> scen.script[c][Len(received[c]) + 1]] /\ Len(received[c]) + 1 <= lines[c]
        BY <3>2, <1>4 DEF Answer
      <4>2. \A i \in 1 .. Len(received[c]) : received[c][i] = [of |-> c, kind |-> scen.script[c][i]]
        BY <3>2 DEF OwnAnswers
      <4>3. \A i \in 1 .. Len(received[c]) + 1 : i \in 1 .. Len(received[c]) \/ i = Len(received[c]) + 1
        BY <1>1
      <4>. QED
        BY <4>1, <4>2, <4>3, <2>3
    <3>. QED
      BY <3>1, <3>2 DEF OwnAnswers
  <2>. QED
    BY <1>4, <2>2, <2>3, <2>4
<1>. QED
  BY <1>2, <1>3, <1>4

(* A client that sends a line, or a part of one, has that much more unread. *)
LEMMA SaidUnread ==
  ASSUME Typed, NEW c \in Conns, NEW k \in Nat, Unread(c, k), Say(c)
  PROVE  Unread(c, k)'
<1>. DEFINE n == Len(inbox[c])
            q == inbox[c]
            script == scen.script[c]
            l == lines[c]
<1>1. /\ q \in Seq(Items) /\ n \in Nat /\ l \in Nat /\ script \in Seq(Kinds)
      /\ l <= Len(script) /\ Len(script) \in Nat /\ l # Len(script)
  BY ScriptTypes, LenProperties DEF Typed, Say, Finished
<1>2. /\ k <= l
      /\ \A i \in 1 .. l - k : q[i] = script[k + i]
      /\ n = l - k \/ (n = l - k + 1 /\ q[n] = "part" /\ script[l + 1] = "late")
  BY DEF Unread
<1>3. Half(c) <=> n > 0 /\ q[n] = "part"
  BY <1>1, EmptySeq DEF Half, Last
<1>4. \A i \in 1 .. Len(script) : script[i] # "part"
  <2>1. \A i \in 1 .. Len(script) : script[i] \in Kinds
    BY <1>1, ElementOfSeq
  <2>2. "part" \notin Kinds
    BY DEF Kinds
  <2>. QED
    BY <2>1, <2>2
<1>5. Half(c) <=> n = l - k + 1
  <2>1. n = l - k /\ n > 0 => q[n] # "part"
    <3>1. n = l - k /\ n > 0 => q[n] = script[k + n] /\ k + n \in 1 .. Len(script)
      BY SMTT(40), <1>1, <1>2
    <3>. QED
      BY <3>1, <1>4
  <2>. QED
    BY <1>1, <1>2, <1>3, <2>1
<1>6. UNCHANGED scen
  BY DEF Say, Says
<1>. HIDE DEF n, q, script, l
<1>7. CASE /\ NextLine(c) # "late" /\ Says(c, NextLine(c), inbox[c])
           /\ lines' = [lines EXCEPT ![c] = @ + 1]
  <2>1. n = l - k
    BY <1>2, <1>7 DEF NextLine, l, script
  <2>2. inbox'[c] = Append(q, script[l + 1]) /\ lines'[c] = l + 1
    BY <1>7 DEF Says, NextLine, Typed, q, l, script
  <2>3. /\ Len(inbox'[c]) = n + 1 /\ inbox'[c][n + 1] = script[l + 1]
        /\ \A i \in 1 .. n : inbox'[c][i] = q[i]
    BY <2>2, <1>1 DEF n, q
  <2>4. \A i \in 1 .. l + 1 - k : inbox'[c][i] = script[k + i]
    <3>1. ASSUME NEW i \in 1 .. l + 1 - k
          PROVE  inbox'[c][i] = script[k + i]
      <4>1. CASE i \in 1 .. n
        BY <4>1, <2>1, <2>3, <1>1, <1>2
      <4>2. CASE i = n + 1
        BY <4>2, <2>1, <2>3, <1>1, <1>2
      <4>. QED
        BY <4>1, <4>2, <2>1, <1>1, <1>2
    <3>. QED
      BY <3>1
  <2>5. k <= l + 1 /\ Len(inbox'[c]) = l + 1 - k
    BY <2>1, <2>3, <1>1, <1>2
  <2>6. scen'.script[c] = script
    BY <1>6 DEF script
  <2>. DEFINE now == lines'[c]
              later == scen'.script[c]
              box == inbox'[c]
  <2>7. now = l + 1 /\ later = script
    BY <2>2, <2>6
  <2>8. \A i \in 1 .. l + 1 - k : box[i] = script[k + i]
    BY <2>4
  <2>9. k <= l + 1 /\ Len(box) = l + 1 - k
    BY <2>5
  <2>. HIDE DEF now, later, box
  <2>10. now - k = l + 1 - k /\ now \in Nat
    BY <2>7, <1>1
  <2>11. k <= now /\ Len(box) = now - k
    BY <2>7, <2>9, <2>10, <1>1
  <2>12. \A i \in 1 .. now - k : box[i] = later[k + i]
    BY <2>7, <2>8, <2>10, <1>1
  <2>. QED
    BY <2>11, <2>12 DEF Unread, now, later, box
<1>8. CASE /\ NextLine(c) = "late" /\ ~Half(c) /\ Says(c, "part", inbox[c]) /\ UNCHANGED lines
  <2>1. n = l - k
    BY <1>2, <1>5, <1>8
  <2>2. inbox'[c] = Append(q, "part") /\ lines'[c] = l
    BY <1>8 DEF Says, Typed, q, l
  <2>3. /\ Len(inbox'[c]) = n + 1 /\ inbox'[c][n + 1] = "part"
        /\ \A i \in 1 .. n : inbox'[c][i] = q[i]
    BY <2>2, <1>1 DEF n, q
  <2>4. script[l + 1] = "late" /\ l < Len(script)
    BY <1>1, <1>8 DEF NextLine, l, script
  <2>5. \A i \in 1 .. l - k : inbox'[c][i] = script[k + i]
    BY <2>1, <2>3, <1>2
  <2>6. Len(inbox'[c]) = l - k + 1 /\ inbox'[c][Len(inbox'[c])] = "part"
    BY <2>1, <2>3
  <2>. QED
    BY <2>2, <2>4, <2>5, <2>6, <1>2, <1>6 DEF Unread, script
<1>9. CASE /\ Half(c) /\ Says(c, "late", Front(inbox[c])) /\ lines' = [lines EXCEPT ![c] = @ + 1]
  <2>1. n = l - k + 1 /\ script[l + 1] = "late"
    BY <1>2, <1>5, <1>9, <1>1
  <2>2. inbox'[c] = Append(Front(q), "late") /\ lines'[c] = l + 1
    BY <1>9 DEF Says, Typed, q, l
  <2>3. /\ Front(q) \in Seq(Items) /\ Len(Front(q)) = l - k
        /\ \A i \in 1 .. l - k : Front(q)[i] = q[i]
    <3>1. \A i \in 1 .. n - 1 : q[i] \in Items
      BY <1>1, ElementOfSeq DEF n, q
    <3>2. /\ SubSeq(q, 1, n - 1) \in Seq(Items)
          /\ Len(SubSeq(q, 1, n - 1)) = IF 1 <= n - 1 THEN n - 1 - 1 + 1 ELSE 0
          /\ \A i \in 1 .. n - 1 - 1 + 1 : SubSeq(q, 1, n - 1)[i] = q[1 + i - 1]
      BY <3>1, <1>1, SubSeqProperties
    <3>3. Front(q) = SubSeq(q, 1, n - 1)
      BY DEF Front, n, q
    <3>4. Len(Front(q)) = l - k
      BY <3>2, <3>3, <2>1, <1>1, <1>2
    <3>5. \A i \in 1 .. l - k : Front(q)[i] = q[i]
      BY <3>2, <3>3, <2>1, <1>1
    <3>. QED
      BY <3>2, <3>3, <3>4, <3>5
  <2>4. /\ Len(inbox'[c]) = l - k + 1 /\ inbox'[c][l - k + 1] = "late"
        /\ \A i \in 1 .. l - k : inbox'[c][i] = q[i]
    BY <2>2, <2>3, <1>1
  <2>5. \A i \in 1 .. l + 1 - k : inbox'[c][i] = script[k + i]
    <3>1. ASSUME NEW i \in 1 .. l + 1 - k
          PROVE  inbox'[c][i] = script[k + i]
      <4>1. CASE i \in 1 .. l - k
        BY <4>1, <2>4, <1>2
      <4>2. CASE i = l - k + 1
        <5>1. k + i = l + 1
          BY <4>2, <1>1
        <5>. QED
          BY <4>2, <5>1, <2>1, <2>4
      <4>. QED
        BY <4>1, <4>2, <1>1, <1>2
    <3>. QED
      BY <3>1
  <2>6. k <= l + 1 /\ Len(inbox'[c]) = l + 1 - k
    BY <2>4, <1>1, <1>2
  <2>. QED
    BY SMTT(40), <2>2, <2>5, <2>6, <1>1, <1>6 DEF Unread, script
<1>. QED
  BY <1>7, <1>8, <1>9 DEF Say

(* The line that is read is the next one. *)
LEMMA ReadUnread ==
  ASSUME Typed, NEW c \in Conns, NEW k \in Nat, Unread(c, k),
         inbox[c] # <<>>, Head(inbox[c]) # "part", inbox'[c] = Tail(inbox[c]), UNCHANGED <<scen, lines>>
  PROVE  Head(inbox[c]) = scen.script[c][k + 1] /\ k + 1 <= lines[c] /\ Unread(c, k + 1)'
<1>. DEFINE n == Len(inbox[c])
            q == inbox[c]
            script == scen.script[c]
            l == lines[c]
<1>1. q \in Seq(Items) /\ n \in Nat /\ n > 0 /\ l \in Nat
  BY LenProperties, EmptySeq DEF Typed
<1>2. /\ k <= l
      /\ \A i \in 1 .. l - k : q[i] = script[k + i]
      /\ \/ n = l - k
         \/ n = l - k + 1 /\ q[n] = "part" /\ l < Len(script) /\ script[l + 1] = "late"
  BY DEF Unread
<1>3. Head(q) = q[1] /\ q[1] # "part"
  BY <1>1
<1>4. Len(Tail(q)) = n - 1 /\ \A i \in 1 .. n - 1 : Tail(q)[i] = q[i + 1]
  BY <1>1, HeadTailProperties
<1>. HIDE DEF n, q, script, l
<1>5. l - k >= 1
  <2>1. n = l - k + 1 /\ q[n] = "part" => n # 1
    BY <1>3
  <2>. QED
    BY <1>1, <1>2, <2>1
<1>6. q[1] = script[k + 1] /\ k + 1 <= l
  BY <1>1, <1>2, <1>5
<1>7. \A i \in 1 .. l - (k + 1) : Tail(q)[i] = script[(k + 1) + i]
  <2>1. ASSUME NEW i \in 1 .. l - (k + 1)
        PROVE  Tail(q)[i] = script[(k + 1) + i]
    <3>1. Tail(q)[i] = q[i + 1]
      BY <1>1, <1>2, <1>4
    <3>2. q[i + 1] = script[k + (i + 1)]
      BY <1>1, <1>2
    <3>3. k + (i + 1) = (k + 1) + i
      OBVIOUS
    <3>. QED
      BY <3>1, <3>2, <3>3
  <2>. QED
    BY <2>1
<1>8. \/ Len(Tail(q)) = l - (k + 1)
      \/ /\ Len(Tail(q)) = l - (k + 1) + 1 /\ Tail(q)[Len(Tail(q))] = "part"
         /\ l < Len(script) /\ script[l + 1] = "late"
  <2>1. CASE n = l - k
    BY <2>1, <1>1, <1>4
  <2>2. CASE n = l - k + 1 /\ q[n] = "part" /\ l < Len(script) /\ script[l + 1] = "late"
    <3>1. n - 1 \in 1 .. n - 1 /\ Len(Tail(q)) = n - 1 /\ (n - 1) + 1 = n
      BY <2>2, <1>1, <1>4, <1>5
    <3>2. Tail(q)[n - 1] = q[n]
      BY <3>1, <1>4
    <3>3. Len(Tail(q)) = l - (k + 1) + 1
      BY <3>1, <2>2, <1>1
    <3>. QED
      BY <2>2, <3>1, <3>2, <3>3
  <2>. QED
    BY <2>1, <2>2, <1>2
<1>. QED
  BY <1>3, <1>6, <1>7, <1>8 DEF Unread, q, l, script

-----------------------------------------------------------------------------
(* Each step keeps the answers right. *)

LEMMA DialAnswers ==
  ASSUME Typed, AnswerInv, NEW c \in Conns, Dial(c)
  PROVE  AnswerInv'
<1>1. /\ client \in [Conns -> {"away", "here", "gone"}] /\ client[c] = "away"
      /\ client' = [client EXCEPT ![c] = "here"] /\ backlog' = backlog \cup {c}
      /\ UNCHANGED <<scen, lines, inbox, received, table, pc, fd, copy, line, hurt>>
  BY DEF Typed, TypeOK, Dial, threads
<1>2. OnePlace'
  BY <1>1 DEF AnswerInv, OnePlace
<1>3. Alone'
  BY <1>1 DEF AnswerInv, Alone, Serving
<1>4. Fresh'
  <2>1. ASSUME NEW d \in Conns, client'[d] = "away" \/ d \in backlog'
        PROVE  received[d] = <<>> /\ (client'[d] # "gone" => Unread(d, 0))
    BY <2>1, <1>1 DEF AnswerInv, Fresh
  <2>. QED
    BY <2>1, <1>1 DEF Fresh, Unread
<1>5. InStep'
  <2>1. ASSUME NEW t \in Threads, NEW d \in Conns
        PROVE  Due(t, d)'
    <3>1. Due(t, d) /\ (Serving(t, d)' => Serving(t, d))
      BY <1>1 DEF AnswerInv, InStep, Serving
    <3>2. CASE Serving(t, d)
      <4>1. copy[t] \in Fds /\ table[copy[t]] = d /\ d # NoConn
        BY <3>2, ServerAssumption DEF Serving
      <4>2. client[d] # "away"
        BY <4>1 DEF AnswerInv, OnePlace
      <4>3. client'[d] = "here" => client[d] = "here"
        BY <4>2, <1>1
      <4>. QED
        BY <3>1, <4>3, <1>1, DueKept
    <3>3. CASE ~Serving(t, d)
      BY <3>1, <3>3 DEF Due
    <3>. QED
      BY <3>2, <3>3
  <2>. QED
    BY <2>1 DEF InStep
<1>6. OwnAnswers'
  BY <1>1 DEF AnswerInv, OwnAnswers
<1>. QED
  BY <1>2, <1>3, <1>4, <1>5, <1>6 DEF AnswerInv

LEMMA HangUpAnswers ==
  ASSUME Typed, AnswerInv, NEW c \in Conns, HangUp(c)
  PROVE  AnswerInv'
<1>1. /\ client \in [Conns -> {"away", "here", "gone"}] /\ client[c] = "here"
      /\ client' = [client EXCEPT ![c] = "gone"]
      /\ UNCHANGED <<scen, backlog, lines, inbox, received, table, pc, fd, copy, line, hurt>>
  BY DEF Typed, TypeOK, HangUp, threads
<1>2. \A d \in Conns : client'[d] = client[d] \/ client'[d] = "gone"
  BY <1>1
<1>3. OnePlace'
  <2>1. \A d \in Conns : client'[d] = "away" => client[d] = "away"
    BY <1>2
  <2>2. \A n \in Fds : table[n] # NoConn => table[n] \in Conns
    BY DEF Typed, TypeOK
  <2>. QED
    BY <1>1, <1>2, <2>1, <2>2 DEF AnswerInv, OnePlace
<1>4. Alone'
  BY <1>1 DEF AnswerInv, Alone, Serving
<1>5. Fresh'
  BY <1>1, <1>2 DEF AnswerInv, Fresh, Unread
<1>6. InStep'
  <2>1. ASSUME NEW t \in Threads, NEW d \in Conns
        PROVE  Due(t, d)'
    <3>1. Due(t, d) /\ (Serving(t, d)' => Serving(t, d)) /\ (client'[d] = "here" => client[d] = "here")
      BY <1>1, <1>2 DEF AnswerInv, InStep, Serving
    <3>. QED
      BY <3>1, <1>1, DueKept
  <2>. QED
    BY <2>1 DEF InStep
<1>7. OwnAnswers'
  BY <1>1 DEF AnswerInv, OwnAnswers
<1>. QED
  BY <1>3, <1>4, <1>5, <1>6, <1>7 DEF AnswerInv

LEMMA SayAnswers ==
  ASSUME Typed, AnswerInv, NEW c \in Conns, Say(c)
  PROVE  AnswerInv'
<1>1. UNCHANGED <<scen, client, backlog, received, table, pc, fd, copy, line, hurt>>
  BY DEF Say, Says, threads
<1>2. \A d \in Conns : d # c => lines'[d] = lines[d] /\ inbox'[d] = inbox[d]
  BY DEF Say, Says, Typed
<1>3. lines[c] <= lines'[c] /\ lines[c] \in Nat /\ lines'[c] \in Nat
  BY DEF Say, Says, Typed
<1>4. \A d \in Conns : Len(received[d]) \in Nat
  BY LenProperties DEF Typed, TypeOK
<1>5. ASSUME NEW d \in Conns, NEW k \in Nat, Unread(d, k)
      PROVE  Unread(d, k)'
  <2>1. CASE d = c
    BY <2>1, <1>5, SaidUnread
  <2>2. CASE d # c
    BY <2>2, <1>1, <1>2, <1>5 DEF Unread
  <2>. QED
    BY <2>1, <2>2
<1>6. OnePlace' /\ Alone'
  BY <1>1 DEF AnswerInv, OnePlace, Alone, Serving
<1>7. Fresh'
  BY <1>1, <1>5 DEF AnswerInv, Fresh
<1>8. InStep'
  <2>1. ASSUME NEW t \in Threads, NEW d \in Conns
        PROVE  Due(t, d)'
    <3>1. Due(t, d) /\ (Serving(t, d)' <=> Serving(t, d))
      BY <1>1 DEF AnswerInv, InStep, Serving
    <3>2. Len(received[d]) \in Nat /\ Len(received[d]) + 1 \in Nat
      BY <1>4
    <3>3. /\ Unread(d, Len(received[d])) => Unread(d, Len(received[d]))'
          /\ Unread(d, Len(received[d]) + 1) => Unread(d, Len(received[d]) + 1)'
          /\ Answer(d, Len(received[d]) + 1)' = Answer(d, Len(received[d]) + 1)
      BY <3>2, <1>1, <1>5 DEF Answer
    <3>. QED
      BY <3>1, <3>3, <1>1 DEF Due
  <2>. QED
    BY <2>1 DEF InStep
<1>9. OwnAnswers'
  <2>1. ASSUME NEW d \in Conns \ hurt
        PROVE  Len(received[d]) <= lines'[d]
    <3>1. Len(received[d]) <= lines[d]
      BY DEF AnswerInv, OwnAnswers
    <3>. QED
      BY <3>1, <1>2, <1>3, <1>4
  <2>. QED
    BY <2>1, <1>1 DEF AnswerInv, OwnAnswers
<1>. QED
  BY <1>6, <1>7, <1>8, <1>9 DEF AnswerInv

LEMMA AcceptAnswers ==
  ASSUME Typed, NoLeak, AnswerInv, NEW t \in Threads, Accept(t)
  PROVE  AnswerInv'
<1>. DEFINE n == FreeFd
<1>1. n \in Fds /\ table[n] = NoConn
  BY FreeFdIsFree
<1>. HIDE DEF n
<1>2. PICK c \in backlog :
        /\ backlog' = backlog \ {c} /\ table' = [table EXCEPT ![n] = c]
        /\ fd' = [fd EXCEPT ![t] = n] /\ copy' = [copy EXCEPT ![t] = n]
        /\ hurt' = IF InUse(t, n) THEN hurt \cup {c} ELSE hurt
  BY DEF Accept, CopyOf, n
<1>3. /\ pc' = [pc EXCEPT ![t] = "doit"]
      /\ UNCHANGED <<scen, client, lines, inbox, received, line>>
  BY DEF Accept
<1>4. /\ c \in Conns /\ c # NoConn /\ pc \in [Threads -> Places] /\ table \in [Fds -> Conns \cup {NoConn}]
      /\ fd \in [Threads -> Fds \cup {NoFd}] /\ copy \in [Threads -> Fds \cup {NoFd}]
      /\ hurt \subseteq Conns
  BY ServerAssumption DEF Typed, TypeOK
<1>5. \A m \in Fds : table'[m] = IF m = n THEN c ELSE table[m]
  BY <1>2, <1>4
<1>6. client[c] # "away" /\ \A m \in Fds : table[m] # c
  BY <1>2, <1>4 DEF AnswerInv, OnePlace
<1>7. OnePlace'
  <2>1. \A d \in Conns : client'[d] = "away" => d \notin backlog'
    BY <1>2, <1>3 DEF AnswerInv, OnePlace
  <2>2. \A m \in Fds : table'[m] # NoConn => table'[m] \notin backlog' /\ client'[table'[m]] # "away"
    BY <1>2, <1>3, <1>5, <1>6 DEF AnswerInv, OnePlace
  <2>3. \A l, m \in Fds : table'[l] # NoConn /\ table'[l] = table'[m] => l = m
    BY <1>5, <1>6 DEF AnswerInv, OnePlace
  <2>. QED
    BY <2>1, <2>2, <2>3 DEF OnePlace
<1>8. hurt \subseteq hurt'
  BY <1>2
<1>9. ASSUME NEW u \in Threads, NEW d \in Conns, Serving(u, d)', u # t
      PROVE  Serving(u, d) /\ copy'[u] = copy[u] /\ copy[u] # n /\ d # c
  <2>1. copy'[u] = copy[u]
    BY <1>2, <1>4, <1>9
  <2>2. copy[u] \in Fds /\ d \in Conns \ hurt' /\ table'[copy[u]] = d
    BY <2>1, <1>9 DEF Serving
  <2>3. copy[u] # n
    <3>1. SUFFICES ASSUME copy[u] = n
                   PROVE  FALSE
      OBVIOUS
    <3>2. d = c /\ InUse(t, n)
      BY <3>1, <2>2, <1>5, <1>9 DEF InUse
    <3>. QED
      BY <3>2, <2>2, <1>2
  <2>. QED
    BY <2>1, <2>2, <2>3, <1>5, <1>6, <1>8 DEF Serving
<1>10. ASSUME NEW d \in Conns, Serving(t, d)'
       PROVE  d = c /\ c \notin hurt' /\ ~InUse(t, n)
  <2>1. copy'[t] = n
    BY <1>2, <1>4
  <2>. QED
    BY <2>1, <1>1, <1>2, <1>5, <1>10 DEF Serving
<1>11. Alone'
  <2>1. ASSUME NEW u \in Threads, NEW v \in Threads, NEW d \in Conns, Serving(u, d)', u # v
        PROVE  copy'[u] # fd'[v] /\ copy'[u] # copy'[v]
    <3>1. CASE u = t
      <4>1. ~InUse(t, n) /\ copy'[t] = n /\ fd'[v] = fd[v] /\ copy'[v] = copy[v]
        BY <2>1, <3>1, <1>2, <1>4, <1>10
      <4>. QED
        BY <4>1, <3>1, <2>1 DEF InUse
    <3>2. CASE u # t
      <4>1. Serving(u, d) /\ copy'[u] = copy[u] /\ copy[u] # n
        BY <2>1, <3>2, <1>9
      <4>2. fd'[v] \in {fd[v], n} /\ copy'[v] \in {copy[v], n}
        BY <1>2, <1>4
      <4>3. copy[u] # fd[v] /\ copy[u] # copy[v]
        BY <2>1, <4>1 DEF AnswerInv, Alone
      <4>. QED
        BY <4>1, <4>2, <4>3
    <3>. QED
      BY <3>1, <3>2
  <2>. QED
    BY <2>1 DEF Alone
<1>12. Fresh'
  BY <1>2, <1>3 DEF AnswerInv, Fresh, Unread
<1>13. InStep'
  <2>1. ASSUME NEW u \in Threads, NEW d \in Conns, Serving(u, d)'
        PROVE  Due(u, d)'
    <3>1. CASE u = t
      <4>1. d = c /\ pc'[u] = "doit"
        BY <2>1, <3>1, <1>3, <1>4, <1>10
      <4>2. received[c] = <<>> /\ (client[c] # "gone" => Unread(c, 0))
        BY <1>2, <1>4 DEF AnswerInv, Fresh
      <4>3. Len(received'[c]) = 0 /\ client'[c] = client[c]
        BY <4>2, <1>3, EmptySeq
      <4>4. Unread(c, 0) => Unread(c, 0)'
        BY <1>3 DEF Unread
      <4>5. client'[c] # "gone" => Unread(c, Len(received[c]))'
        BY <4>2, <4>3, <4>4
      <4>. QED
        BY <4>1, <4>5 DEF Due
    <3>2. CASE u # t
      <4>1. Serving(u, d) /\ pc'[u] = pc[u] /\ Due(u, d)
        BY <2>1, <3>2, <1>3, <1>4, <1>9 DEF AnswerInv, InStep
      <4>. QED
        BY <4>1, <1>3, DueKept
    <3>. QED
      BY <3>1, <3>2
  <2>2. \A u \in Threads : \A d \in Conns : Due(u, d)'
    BY <2>1 DEF Due
  <2>. QED
    BY <2>2 DEF InStep
<1>14. OwnAnswers'
  BY <1>3, <1>8 DEF AnswerInv, OwnAnswers
<1>. QED
  BY <1>7, <1>11, <1>12, <1>13, <1>14 DEF AnswerInv

LEMMA MoveAnswers ==
  ASSUME Typed, AnswerInv, NEW t \in Threads,
         Lock(t) \/ Poll(t) \/ PollReady(t) \/ PollTimeout(t) \/ ReadNothing(t)
         \/ CloseCopy(t) \/ Close(t)
  PROVE  AnswerInv'
<1>1. PICK p \in {"accept", "done", "poll", "read", "close", "idle"} : pc' = [pc EXCEPT ![t] = p]
  BY DEF Lock, Poll, PollReady, PollTimeout, ReadNothing, CloseCopy, Close, Goto, Start
<1>2. pc[t] \notin {"reply", "exit"}
  BY DEF Lock, Poll, PollReady, PollTimeout, ReadNothing, CloseCopy, Close
<1>3. UNCHANGED <<scen, client, backlog, lines, inbox, received, line, hurt>>
  BY DEF Lock, Poll, PollReady, PollTimeout, ReadNothing, CloseCopy, Close, clients
<1>4. \A n \in Fds : table'[n] \in {table[n], NoConn}
  <2>1. table' = table \/ table' = Released(copy[t]) \/ table' = Released(fd[t])
    BY DEF Lock, Poll, PollReady, PollTimeout, ReadNothing, CloseCopy, Close
  <2>2. \A k : \A n \in Fds : Released(k)[n] \in {table[n], NoConn}
    BY DEF Released, Typed, TypeOK
  <2>. QED
    BY <2>1, <2>2
<1>5. \A u \in Threads : copy'[u] \in {copy[u], NoFd} /\ fd'[u] \in {fd[u], NoFd}
  <2>1. copy' = copy \/ copy' = [copy EXCEPT ![t] = NoFd]
    BY DEF Lock, Poll, PollReady, PollTimeout, ReadNothing, CloseCopy, Close
  <2>2. fd' = fd \/ fd' = [fd EXCEPT ![t] = NoFd]
    BY DEF Lock, Poll, PollReady, PollTimeout, ReadNothing, CloseCopy, Close
  <2>. QED
    BY <2>1, <2>2 DEF Typed, TypeOK
<1>. QED
  BY <1>1, <1>2, <1>3, <1>4, <1>5, ThreadGoesOn

(* A thread that reads from, or writes to, the connection its copy names. *)
LEMMA ServerStep ==
  ASSUME Typed, AnswerInv, NEW t \in Threads, NEW p, pc' = [pc EXCEPT ![t] = p],
         UNCHANGED <<scen, client, backlog, lines, table, fd, copy>>, hurt \subseteq hurt',
         \A u \in Threads : u # t => line'[u] = line[u],
         \A d \in Conns : d # Named(t) => inbox'[d] = inbox[d] /\ received'[d] = received[d],
         \A c \in Conns : c = Named(t) => Due(t, c)',
         OwnAnswers'
  PROVE  AnswerInv'
<1>1. OnePlace'
  BY DEF AnswerInv, OnePlace
<1>2. ASSUME NEW u \in Threads, NEW c \in Conns, Serving(u, c)'
      PROVE  Serving(u, c)
  BY <1>2 DEF Serving
<1>3. Alone'
  BY <1>2 DEF AnswerInv, Alone
<1>4. Fresh'
  <2>1. ASSUME NEW c \in Conns, client[c] = "away" \/ c \in backlog
        PROVE  c # Named(t)
    BY <2>1, NamedType, ServerAssumption DEF AnswerInv, OnePlace
  <2>2. ASSUME NEW c \in Conns, client[c] = "away" \/ c \in backlog
        PROVE  received'[c] = <<>> /\ (client[c] # "gone" => Unread(c, 0)')
    <3>1. inbox'[c] = inbox[c] /\ received'[c] = received[c]
      BY <2>1, <2>2
    <3>2. received[c] = <<>> /\ (client[c] # "gone" => Unread(c, 0))
      BY <2>2 DEF AnswerInv, Fresh
    <3>. QED
      BY <3>1, <3>2 DEF Unread
  <2>. QED
    BY <2>2 DEF Fresh
<1>5. InStep'
  <2>1. ASSUME NEW u \in Threads, NEW c \in Conns, Serving(u, c)'
        PROVE  Due(u, c)'
    <3>1. Serving(u, c) /\ Due(u, c) /\ c # NoConn
      BY <2>1, <1>2, ServerAssumption DEF AnswerInv, InStep
    <3>2. CASE u = t
      <4>1. c = Named(t)
        BY <3>1, <3>2, NamedServes
      <4>. QED
        BY <4>1, <3>2
    <3>3. CASE u # t
      <4>1. Named(t) # c
        BY <3>1, <3>3, OneServer
      <4>2. pc'[u] = pc[u] /\ line'[u] = line[u] /\ inbox'[c] = inbox[c] /\ received'[c] = received[c]
        BY <3>3, <4>1 DEF Typed, TypeOK
      <4>. QED
        BY <3>1, <4>2, DueKept
    <3>. QED
      BY <3>2, <3>3
  <2>2. \A u \in Threads : \A c \in Conns : Due(u, c)'
    BY <2>1 DEF Due
  <2>. QED
    BY <2>2 DEF InStep
<1>. QED
  BY <1>1, <1>3, <1>4, <1>5 DEF AnswerInv

LEMMA ReplyAnswers ==
  ASSUME Typed, AnswerInv, NEW t \in Threads, Reply(t)
  PROVE  AnswerInv'
<1>1. /\ pc[t] = "reply" /\ line' = [line EXCEPT ![t] = NoLine]
      /\ UNCHANGED <<scen, client, backlog, lines, inbox, table, fd, copy, hurt>>
  BY DEF Reply
<1>2. PICK p \in {"doit", "done"} : pc' = [pc EXCEPT ![t] = p]
  BY DEF Reply, Goto
<1>3. /\ \A u \in Threads : u # t => line'[u] = line[u]
      /\ pc'[t] = p /\ line[t] \in Lines
  BY <1>1, <1>2 DEF Typed, TypeOK
<1>4. Named(t) \in Conns => client[Named(t)] # "away"
  <2>1. Named(t) \in Conns => copy[t] \in Fds /\ Named(t) = table[copy[t]] /\ Named(t) # NoConn
    BY NamedType, ServerAssumption
  <2>. QED
    BY <2>1 DEF AnswerInv, OnePlace
<1>5. CASE Named(t) \in Conns /\ received' = Reached(Named(t), line[t])
  <2>1. PICK c \in Conns :
          /\ c = Named(t) /\ received' = Reached(c, line[t]) /\ client[c] \in {"here", "gone"}
    BY <1>4, <1>5 DEF Typed, TypeOK
  <2>2. c \notin hurt /\ client[c] # "gone" =>
          /\ line[t] = Answer(c, Len(received[c]) + 1) /\ Len(received[c]) + 1 <= lines[c]
          /\ Unread(c, Len(received[c]) + 1)
    <3>1. SUFFICES ASSUME c \notin hurt, client[c] # "gone"
                   PROVE  /\ line[t] = Answer(c, Len(received[c]) + 1)
                          /\ Len(received[c]) + 1 <= lines[c]
                          /\ Unread(c, Len(received[c]) + 1)
      OBVIOUS
    <3>2. Serving(t, c) /\ client[c] = "here"
      BY <2>1, <3>1, NamedServes
    <3>3. Due(t, c)
      BY <2>1 DEF AnswerInv, InStep
    <3>. QED
      BY <3>2, <3>3, <1>1 DEF Due, Unread
  <2>3. OwnAnswers
    BY DEF AnswerInv
  <2>4. /\ OwnAnswers' /\ \A d \in Conns : d # c => received'[d] = received[d]
        /\ client[c] # "gone" => Len(received'[c]) = Len(received[c]) + 1
    BY <2>1, <2>2, <2>3, <1>1, <1>3, AnswerArrives
  <2>5. Due(t, c)'
    <3>1. CASE c \in hurt \/ client[c] = "gone"
      BY <3>1, <1>1 DEF Due, Serving
    <3>2. CASE c \notin hurt /\ client[c] # "gone"
      <4>1. Unread(c, Len(received[c]) + 1) /\ Len(received'[c]) = Len(received[c]) + 1
        BY <3>2, <2>2, <2>4
      <4>2. Unread(c, Len(received[c]))'
        BY <4>1, <1>1 DEF Unread
      <4>3. pc'[t] # "reply"
        BY <1>3
      <4>. QED
        BY <4>2, <4>3 DEF Due
    <3>. QED
      BY <3>1, <3>2
  <2>6. /\ \A d \in Conns : d # Named(t) => inbox'[d] = inbox[d] /\ received'[d] = received[d]
        /\ \A d \in Conns : d = Named(t) => Due(t, d)'
    BY <2>1, <2>4, <2>5, <1>1
  <2>. QED
    BY <2>4, <2>6, <1>1, <1>2, <1>3, ServerStep
<1>6. CASE UNCHANGED received /\ (Named(t) \in Conns => client[Named(t)] = "gone")
  <2>1. \A c \in Conns : c = Named(t) => Due(t, c)'
    BY <1>6, <1>1 DEF Due
  <2>2. OwnAnswers'
    BY <1>1, <1>6 DEF AnswerInv, OwnAnswers
  <2>. QED
    BY <2>1, <2>2, <1>1, <1>2, <1>3, <1>6, ServerStep
<1>. QED
  BY <1>5, <1>6, NamedType, ServerAssumption DEF Reply

LEMMA ReadAnswers ==
  ASSUME Typed, AnswerInv, NEW t \in Threads, Read(t)
  PROVE  AnswerInv'
<1>1. PICK c \in Conns :
        /\ c = Named(t) /\ inbox[c] \in Seq(Items)
        /\ inbox[c] # <<>> /\ Head(inbox[c]) # "part"
  BY NamedType DEF Read, Typed
<1>2. Head(inbox[c]) \in Kinds /\ Tail(inbox[c]) \in Seq(Items)
  BY <1>1, HeadTailProperties DEF Items
<1>3. PICK got \in Cut(Head(inbox[c])) :
        /\ inbox' = [inbox EXCEPT ![c] = got[2] \o Tail(@)]
        /\ hurt' = IF got[2] # <<>> THEN hurt \cup {c} ELSE hurt
        /\ line' = [line EXCEPT ![t] = [of |-> c, kind |-> got[1]]]
  BY <1>1 DEF Read
<1>. DEFINE a == [of |-> c, kind |-> got[1]]
<1>4. /\ pc[t] = "read" /\ UNCHANGED <<scen, client, backlog, lines, table, fd, copy>>
      /\ client[c] # "away"
  <2>1. copy[t] \in Fds /\ c = table[copy[t]] /\ c # NoConn
    BY <1>1, NamedType, ServerAssumption
  <2>. QED
    BY <2>1 DEF Read, AnswerInv, OnePlace
<1>5. got[1] \in Kinds /\ (got[2] = <<>> => got[1] = Head(inbox[c]))
  BY <1>2, <1>3, CutType
<1>6. a \in Lines
  BY <1>1, <1>5 DEF Lines
<1>7. /\ line'[t] = a /\ \A u \in Threads : u # t => line'[u] = line[u]
      /\ hurt \subseteq hurt'
  BY <1>3 DEF Typed, TypeOK
<1>8. c \notin hurt' => c \notin hurt /\ got[1] = Head(inbox[c]) /\ inbox'[c] = Tail(inbox[c])
  <2>1. <<>> \o Tail(inbox[c]) = Tail(inbox[c])
    BY <1>2, ConcatEmptySeq
  <2>2. inbox'[c] = got[2] \o Tail(inbox[c])
    BY <1>1, <1>3 DEF Typed
  <2>. QED
    BY <1>3, <1>5, <2>1, <2>2
<1>9. \A d \in Conns : d # c => inbox'[d] = inbox[d]
  BY <1>3 DEF Typed
<1>10. PICK k \in Nat : k = Len(received[c])
  BY LenProperties DEF Typed, TypeOK
<1>11. c \notin hurt' /\ client[c] # "gone" =>
         a = Answer(c, k + 1) /\ k + 1 <= lines[c] /\ Unread(c, k + 1)'
  <2>. SUFFICES ASSUME c \notin hurt', client[c] # "gone"
                PROVE  a = Answer(c, k + 1) /\ k + 1 <= lines[c] /\ Unread(c, k + 1)'
    OBVIOUS
  <2>1. Serving(t, c) /\ client[c] = "here"
    BY <1>1, <1>4, <1>8, NamedServes DEF Typed, TypeOK
  <2>2. Unread(c, k)
    BY <2>1, <1>4, <1>10 DEF AnswerInv, InStep, Due
  <2>3. Head(inbox[c]) = scen.script[c][k + 1] /\ k + 1 <= lines[c] /\ Unread(c, k + 1)'
    BY <2>2, <1>1, <1>4, <1>8, ReadUnread
  <2>. QED
    BY <2>3, <1>8 DEF Answer, a
<1>12. OwnAnswers
  BY DEF AnswerInv
<1>13. CASE /\ received' = received
            /\ pc' = [pc EXCEPT ![t] = "reply"] \/ pc' = [pc EXCEPT ![t] = "exit"]
  <2>1. PICK p \in {"reply", "exit"} : pc' = [pc EXCEPT ![t] = p]
    BY <1>13
  <2>2. pc'[t] = p
    BY <2>1 DEF Typed, TypeOK
  <2>3. OwnAnswers'
    BY <1>4, <1>7, <1>12, <1>13 DEF OwnAnswers
  <2>4. Due(t, c)'
    <3>1. CASE c \in hurt' \/ client[c] = "gone" \/ p = "exit"
      BY <3>1, <2>2, <1>4 DEF Due, Serving
    <3>2. CASE c \notin hurt' /\ client[c] # "gone" /\ p = "reply"
      <4>1. a = Answer(c, k + 1) /\ Unread(c, k + 1)'
        BY <3>2, <1>11
      <4>2. Unread(c, Len(received[c]) + 1)'
        BY <4>1, <1>10, <1>13 DEF Unread
      <4>3. line'[t] = Answer(c, Len(received[c]) + 1)'
        BY <4>1, <1>4, <1>7, <1>10, <1>13 DEF Answer
      <4>. QED
        BY <4>2, <4>3, <3>2, <2>2 DEF Due
    <3>. QED
      BY <3>1, <3>2
  <2>5. /\ \A d \in Conns : d # Named(t) => inbox'[d] = inbox[d] /\ received'[d] = received[d]
        /\ \A d \in Conns : d = Named(t) => Due(t, d)'
    BY <2>4, <1>1, <1>9, <1>13
  <2>. QED
    BY <2>1, <2>3, <2>5, <1>4, <1>7, ServerStep
<1>14. CASE received' = Reached(c, a) /\ pc' = [pc EXCEPT ![t] = "doit"]
  <2>1. pc'[t] = "doit"
    BY <1>14 DEF Typed, TypeOK
  <2>. HIDE DEF a
  <2>2. c \notin hurt' /\ client[c] # "gone" =>
          a = Answer(c, Len(received[c]) + 1) /\ Len(received[c]) + 1 <= lines[c]
    BY <1>10, <1>11
  <2>3. /\ OwnAnswers' /\ \A d \in Conns : d # c => received'[d] = received[d]
        /\ client[c] # "gone" => Len(received'[c]) = k + 1
    BY <2>2, <1>4, <1>6, <1>7, <1>10, <1>12, <1>14, AnswerArrives
  <2>4. Due(t, c)'
    <3>1. CASE c \in hurt' \/ client[c] = "gone"
      BY <3>1, <1>4 DEF Due, Serving
    <3>2. CASE c \notin hurt' /\ client[c] # "gone"
      <4>1. Unread(c, k + 1)' /\ Len(received'[c]) = k + 1
        BY <3>2, <2>3, <1>11
      <4>2. Unread(c, Len(received[c]))'
        BY <4>1 DEF Unread
      <4>. QED
        BY <4>2, <2>1 DEF Due
    <3>. QED
      BY <3>1, <3>2
  <2>5. /\ \A d \in Conns : d # Named(t) => inbox'[d] = inbox[d] /\ received'[d] = received[d]
        /\ \A d \in Conns : d = Named(t) => Due(t, d)'
    BY <2>3, <2>4, <1>1, <1>9
  <2>. QED
    BY <2>3, <2>5, <1>4, <1>7, <1>14, ServerStep
<1>15. a.of = c
  BY DEF a
<1>16. Obey(t)
  BY DEF Read
<1>. HIDE DEF a
<1>. QED
  BY <1>7, <1>13, <1>14, <1>15, <1>16 DEF Obey, Goto

LEMMA ExitAnswers ==
  ASSUME Typed, AnswerInv, Exit
  PROVE  AnswerInv'
<1>1. /\ table' = [n \in Fds |-> NoConn] /\ backlog' = {} /\ client' = [c \in Conns |-> "gone"]
      /\ UNCHANGED <<scen, lines, received, hurt>>
  BY DEF Exit
<1>2. \A c \in Conns : client'[c] = "gone" /\ c # NoConn
  BY <1>1, ServerAssumption
<1>3. \A t \in Threads : \A c \in Conns : ~Serving(t, c)'
  BY <1>1, <1>2 DEF Serving
<1>4. OnePlace'
  BY <1>1, <1>2 DEF OnePlace
<1>5. Alone'
  BY <1>3 DEF Alone
<1>6. Fresh'
  BY <1>1, <1>2 DEF Fresh
<1>7. InStep'
  BY <1>3 DEF InStep, Due
<1>8. OwnAnswers'
  BY <1>1 DEF AnswerInv, OwnAnswers
<1>. QED
  BY <1>4, <1>5, <1>6, <1>7, <1>8 DEF AnswerInv

LEMMA AnswersStep ==
  ASSUME Typed, NoLeak, AnswerInv, [Next]_vars
  PROVE  AnswerInv'
<1>1. ASSUME NEW t \in Threads, Serves(t)
      PROVE  AnswerInv'
  BY <1>1, MoveAnswers, AcceptAnswers, ReadAnswers, ReplyAnswers DEF Serves
<1>2. CASE Dequeue \/ AsyncWait \/ Signal \/ UNCHANGED vars
  BY <1>2, SameAnswers DEF Dequeue, AsyncWait, Signal, vars, clients, threads
<1>. QED
  BY <1>1, <1>2, DialAnswers, SayAnswers, HangUpAnswers, ExitAnswers DEF Next

LEMMA FirstAnswers ==
  ASSUME Init, Typed
  PROVE  AnswerInv
<1>1. \A c \in Conns : /\ client[c] = "away" /\ c \notin backlog /\ lines[c] = 0
                       /\ inbox[c] = <<>> /\ received[c] = <<>>
  BY DEF Init
<1>2. \A n \in Fds : table[n] = NoConn
  BY DEF Init
<1>3. \A t \in Threads : \A c \in Conns : ~Serving(t, c)
  BY <1>2, ServerAssumption DEF Serving
<1>4. OnePlace
  BY <1>1, <1>2 DEF OnePlace
<1>5. Alone /\ InStep
  BY <1>3 DEF Alone, InStep, Due
<1>6. Fresh
  BY <1>1, EmptySeq DEF Fresh, Unread
<1>7. OwnAnswers
  BY <1>1, EmptySeq DEF OwnAnswers
<1>. QED
  BY <1>4, <1>5, <1>6, <1>7 DEF AnswerInv

(* Every client whose descriptor number and whose lines are its own gets the
   answers to its own lines and no other, one for each, in their order,
   whatever the other clients and threads do and however the process ends. *)
THEOREM AnswersAreTheirOwn == Spec => []OwnAnswers
<1>1. Init => Typed /\ NoLeak /\ AnswerInv
  BY FirstState, FirstAnswers
<1>2. Typed /\ NoLeak /\ AnswerInv /\ [Next]_vars => (Typed /\ NoLeak /\ AnswerInv)'
  BY TypedStep, NoLeakStep, AnswersStep
<1>3. AnswerInv => OwnAnswers
  BY DEF AnswerInv
<1>. QED
  BY <1>1, <1>2, <1>3, PTL DEF Spec
=============================================================================
