----------------------------- MODULE ArchonLink -----------------------------
(***************************************************************************)
(* The one TCP connection to the Archon controller and the threads that    *)
(* share it: Archon::Interface::archon_cmd, fetch, fetchlog, lock_buffer,  *)
(* read_frame(frame_type), native, connect_controller and                  *)
(* disconnect_controller (camerad/archon.cpp).                             *)
(*                                                                         *)
(* A thread is a camerad worker serving one client.  archon_cmd is a       *)
(* subroutine: stage[t] is the call site inside the operation the thread   *)
(* runs, pc[t] is where it stands inside archon_cmd.                       *)
(*                                                                         *)
(* Abstractions.  A message is a record, not its bytes: the controller     *)
(* answers a text command with one newline-terminated message and a FETCH  *)
(* with one message per 1024-byte block.  Every message carries the        *)
(* thread whose latest command it answers (NoThread once that command is   *)
(* over); the program never sees this field, only properties read it.      *)
(* Autofetch mode, in which no FETCH is sent, is not part of this module.  *)
(***************************************************************************)
EXTENDS Integers, Sequences

CONSTANTS
  Threads,      \* camerad worker threads
  Users,        \* threads whose clients send commands
  Readers,      \* threads whose clients run readouts
  Natives,      \* threads whose clients send FETCH with the native command
  Openers,      \* threads whose clients open the connection
  Closers,      \* threads whose clients close it
  LinkDrops,    \* whether the controller or the network may hang up
  RefMod,       \* number of message references, 256 in the code
  Blocks,       \* blocks of a frame
  MaxLag,       \* bound: unanswered commands the controller may be late with
  MaxQueue,     \* bound: unread messages beyond which no FETCH is asked for
  MaxLog,       \* bound: entries of the controller's log
  NoThread,     \* nobody
  NoItem        \* no message read yet

ASSUME ThreadsAssumption ==
  /\ Users \subseteq Threads
  /\ Readers \subseteq Threads
  /\ Natives \subseteq Threads
  /\ Openers \subseteq Threads
  /\ Closers \subseteq Threads
  /\ NoThread \notin Threads
ASSUME BoundsAssumption ==
  /\ LinkDrops \in BOOLEAN
  /\ RefMod \in Nat /\ RefMod > 1
  /\ Blocks \in Nat \ {0}
  /\ MaxLag \in Nat
  /\ MaxQueue \in Nat
  /\ MaxLog \in Nat

Codes == {"NO_ERROR", "ERROR", "BUSY", "TIMEOUT"}

\* Call sites of archon_cmd, by what they send.
Calls == {"command", "native", "system", "openlog",
          "lock", "fetch", "abort", "log", "unlock"}
Stages == Calls \cup {"idle", "stream", "body", "release", "return"}
Points == {"out", "call", "checked", "locked", "receive"}

Refs == 0 .. RefMod - 1
Texts == {"reply", "null", "error"}
Item == [kind : Texts \cup {"block", "payload", "frag"},
         ref : Refs, for : Threads \cup {NoThread}]
Request == [kind : {"command", "fetchlog", "fetch"},
            ref : Refs, for : Threads \cup {NoThread}, left : 1 .. Blocks]

ASSUME NoItemAssumption == NoItem \notin Item

VARIABLES
  connected,    \* the socket is open
  wire,         \* requests the controller has not answered yet
  input,        \* messages received by the socket and not read yet
  log,          \* entries in the controller's log
  busy,         \* archon_busy
  holder,       \* owner of archon_mutex
  msgref,       \* last message reference used
  stage, pc,    \* where each thread is
  check,        \* reference expected by the command in progress
  got,          \* first message read as the reply of that command
  ret,          \* error code of the last step of the operation
  block,        \* blocks of the frame read so far
  clean,        \* those blocks are the ones its own FETCH asked for
  debris        \* history: a readout broke off, and what it left behind, or
                \* what came after that, may still be on its way

link   == <<connected, wire, input, log>>
sem    == <<busy, holder, msgref>>
place  == <<stage, pc>>
frame  == <<block, clean>>
locals == <<check, got, ret>>
vars   == <<link, sem, place, frame, locals, debris>>

-----------------------------------------------------------------------------
(* The messages. *)

\* A new command of t makes the earlier ones, and their answers, stale.
Stale(seq, t) ==
  [i \in DOMAIN seq |->
     IF seq[i].for = t THEN [seq[i] EXCEPT !.for = NoThread] ELSE seq[i]]

RequestKind(s) ==
  IF s \in {"fetch", "native"} THEN "fetch"
  ELSE IF s \in {"log", "openlog"} THEN "fetchlog" ELSE "command"

\* What is left of a message when its first bytes have been consumed.
Rest(item) == [item EXCEPT !.kind = "frag"]

HasBlock == \E i \in DOMAIN input : input[i].kind = "block"

WaitForever == FALSE

\* A wait for bytes may outlast its limit: nothing is on its way, or the
\* controller is late with at most MaxLag commands.
MayTimeOut == ~connected \/ Len(wire) <= MaxLag

-----------------------------------------------------------------------------
Init ==
  /\ connected = FALSE /\ wire = <<>> /\ input = <<>> /\ log = 0
  /\ busy = FALSE /\ holder = NoThread /\ msgref = 0
  /\ stage = [t \in Threads |-> "idle"] /\ pc = [t \in Threads |-> "out"]
  /\ check = [t \in Threads |-> 0] /\ got = [t \in Threads |-> NoItem]
  /\ ret = [t \in Threads |-> "NO_ERROR"]
  /\ block = [t \in Threads |-> 0] /\ clean = [t \in Threads |-> TRUE]
  /\ debris = FALSE

(* Where an operation goes when its archon_cmd has returned code: lock_buffer
   turns every failure into ERROR, fetch only stops on ERROR, and what
   fetchlog returns to read_frame is not looked at. *)
NextStage(s, code) ==
  CASE s = "system"                        -> "openlog"
    [] s = "lock" /\ code = "NO_ERROR"     -> "fetch"
    [] s = "fetch" /\ code # "ERROR"       -> "stream"
    [] s = "fetch" /\ code = "ERROR"       -> "abort"
    [] s = "log"                           -> "release"
    [] s = "unlock"                        -> "return"
    [] OTHER                               -> "idle"

Verdict(s, code) ==
  CASE s \in {"abort", "log"}              -> "ERROR"
    [] s = "lock" /\ code # "NO_ERROR"     -> "ERROR"
    [] s = "fetch" /\ code # "ERROR"       -> "NO_ERROR"
    [] OTHER                               -> code

At(t, s) ==
  /\ stage' = [stage EXCEPT ![t] = s]
  /\ pc' = [pc EXCEPT ![t] = IF s \in Calls THEN "call" ELSE "out"]

Code(t, code) == ret' = [ret EXCEPT ![t] = code]

Return(t, code) ==
  /\ At(t, NextStage(stage[t], code))
  /\ Code(t, Verdict(stage[t], code))

-----------------------------------------------------------------------------
(* Operations a client asks for. *)

QueueBound == Len(input) + Len(wire) <= MaxQueue

StartCommand(t) ==
  /\ t \in Users /\ stage[t] = "idle"
  /\ At(t, "command")
  /\ UNCHANGED <<link, sem, frame, locals, debris>>

StartNative(t) ==
  /\ t \in Natives /\ stage[t] = "idle" /\ QueueBound
  /\ At(t, "native")
  /\ UNCHANGED <<link, sem, frame, locals, debris>>

StartReadout(t) ==
  /\ t \in Readers /\ stage[t] = "idle" /\ QueueBound
  /\ At(t, "lock")
  /\ block' = [block EXCEPT ![t] = 0] /\ clean' = [clean EXCEPT ![t] = TRUE]
  /\ UNCHANGED <<link, sem, locals, debris>>

StartOpen(t) ==
  /\ t \in Openers /\ stage[t] = "idle" /\ ~connected
  /\ connected' = TRUE
  /\ At(t, "system")
  /\ UNCHANGED <<wire, input, log, sem, frame, locals, debris>>

HangUp == connected' = FALSE /\ wire' = <<>> /\ input' = <<>>

StartClose(t) ==
  /\ t \in Closers /\ stage[t] = "idle" /\ connected
  /\ HangUp
  /\ UNCHANGED <<log, sem, place, frame, locals, debris>>

-----------------------------------------------------------------------------
(* archon_cmd. *)

Refuse(t) ==
  /\ pc[t] = "call"
  /\ \/ ~connected /\ Return(t, "ERROR")
     \/ connected /\ busy /\ Return(t, "BUSY")
  /\ UNCHANGED <<link, sem, frame, check, got, debris>>

\* archon_busy is tested here, and archon_mutex is taken in a later step.
Pass(t) ==
  /\ pc[t] = "call" /\ connected /\ ~busy
  /\ pc' = [pc EXCEPT ![t] = "checked"]
  /\ UNCHANGED <<link, sem, stage, frame, locals, debris>>

MutexIgnored == TRUE
MutexFree == holder = NoThread

Acquire(t) ==
  /\ pc[t] = "checked" /\ MutexFree
  /\ holder' = t
  /\ pc' = [pc EXCEPT ![t] = "locked"]
  /\ UNCHANGED <<link, busy, msgref, stage, frame, locals, debris>>

RefNotWrapped == msgref + 1
NextRef == (msgref + 1) % RefMod

(* A failed Write is only logged.  FETCH returns at once: the scoped lock is
   released, archon_busy stays set. *)
Send(t) ==
  LET ref == NextRef
      kind == RequestKind(stage[t])
      request == [kind |-> kind, ref |-> ref, for |-> t,
                  left |-> IF kind = "fetch" THEN Blocks ELSE 1]
  IN
  /\ pc[t] = "locked"
  /\ busy' = TRUE /\ msgref' = ref
  /\ wire' = IF connected THEN Append(Stale(wire, t), request) ELSE wire
  /\ input' = Stale(input, t)
  /\ IF kind = "fetch"
     THEN Return(t, "NO_ERROR") /\ holder' = NoThread /\ UNCHANGED check
     ELSE /\ pc' = [pc EXCEPT ![t] = "receive"]
          /\ check' = [check EXCEPT ![t] = ref]
          /\ UNCHANGED <<holder, stage, ret>>
  /\ debris' = (debris /\ ~(wire = <<>> /\ input = <<>>))
  /\ UNCHANGED <<connected, log, frame, got>>

\* The error code of a complete reply whose first message is item.
JudgeAnyRef(t, item) ==
  IF item # NoItem /\ item.kind \in {"reply", "null", "block"}
  THEN "NO_ERROR" ELSE "ERROR"
Judge(t, item) ==
  IF item # NoItem /\ item.kind \in {"reply", "null", "block"}
                   /\ item.ref = check[t]
  THEN "NO_ERROR" ELSE "ERROR"

BusyKeptOnError(code) == code # "NO_ERROR"
BusyAfter(code) == FALSE

\* The end of archon_cmd.  fetchlog repeats it until the reply is "(null)".
Finish(t, code, item) ==
  /\ busy' = BusyAfter(code) /\ holder' = NoThread /\ msgref' = msgref
  /\ check' = [check EXCEPT ![t] = 0] /\ got' = [got EXCEPT ![t] = NoItem]
  /\ IF /\ stage[t] \in {"log", "openlog"}
        /\ code = "NO_ERROR" /\ item.kind # "null"
     THEN At(t, stage[t]) /\ Code(t, code)
     ELSE Return(t, code)

FirstRead(t) == IF got[t] = NoItem THEN input[1] ELSE got[t]

(* One Poll and one Read.  A Read takes what has arrived, up to its buffer, so
   it may take several messages and cut a block in two.  The loop ends at a
   newline: every text has one, binary data may. *)
Receive(t) ==
  /\ pc[t] = "receive" /\ connected
  /\ \E n \in 1 .. Len(input), cut, newline \in BOOLEAN :
       LET item == FirstRead(t)
           tail == SubSeq(input, n + 1, Len(input))
       IN
       /\ input[1].kind \in Texts => newline
       /\ cut => tail # <<>> /\ tail[1].kind = "block"
       /\ input' = IF cut THEN <<Rest(tail[1])>> \o Tail(tail) ELSE tail
       /\ IF newline
          THEN Finish(t, Judge(t, item), item)
          ELSE got' = [got EXCEPT ![t] = item] /\ UNCHANGED <<sem, place, check, ret>>
  /\ UNCHANGED <<connected, wire, log, frame, debris>>

PollTimeout(t) ==
  /\ pc[t] = "receive" /\ input = <<>> /\ MayTimeOut
  /\ Finish(t, "TIMEOUT", got[t])
  /\ UNCHANGED <<link, frame, debris>>

\* The connection is lost: Poll closes the socket, or another thread did,
\* and Read fails.
ReadFails(t) ==
  /\ pc[t] = "receive" /\ (LinkDrops \/ ~connected)
  /\ HangUp
  /\ Finish(t, Judge(t, got[t]), got[t])
  /\ UNCHANGED <<log, frame, debris>>

-----------------------------------------------------------------------------
(* read_frame: the blocks that answer FETCH. *)

ErrorForgotten == "NO_ERROR"
TimeoutCode == "ERROR"

\* Poll expires, or 1028 bytes do not come within the second allowed for them.
BlockTimeout(t) ==
  /\ stage[t] = "stream" /\ ~HasBlock /\ MayTimeOut
  /\ At(t, "release") /\ Code(t, TimeoutCode)
  /\ UNCHANGED <<link, sem, frame, check, got, debris>>

PollHangUp(t) ==
  /\ stage[t] = "stream" /\ LinkDrops
  /\ HangUp
  /\ At(t, "release") /\ Code(t, "ERROR")
  /\ UNCHANGED <<log, sem, frame, check, got, debris>>

(* The four header bytes are compared with the value msgref has now.  A
   refused FETCH is recognised by its first byte, once 1028 bytes are there. *)
Header(t) ==
  /\ stage[t] = "stream" /\ connected /\ HasBlock
  /\ \/ /\ input[1].kind = "block" /\ input[1].ref = msgref
        /\ input' = <<[input[1] EXCEPT !.kind = "payload"]>> \o Tail(input)
        /\ At(t, "body")
        /\ UNCHANGED <<ret, debris>>
     \/ /\ input[1].kind = "error"
        /\ input' = Tail(input)
        /\ At(t, "log") /\ Code(t, "ERROR")
        /\ debris' = TRUE
     \/ /\ input[1].kind # "error"
        /\ ~(input[1].kind = "block" /\ input[1].ref = msgref)
        /\ \/ input' = <<Rest(input[1])>> \o Tail(input)
           \/ input[1].kind # "block" /\ input' = Tail(input)
        /\ At(t, "release") /\ Code(t, "ERROR")
        /\ UNCHANGED debris
  /\ UNCHANGED <<connected, wire, log, sem, frame, check, got>>

\* The block is complete after 1024 bytes, whatever they are.
BlockDone(t) ==
  /\ block' = [block EXCEPT ![t] = @ + 1]
  /\ At(t, IF block[t] + 1 = Blocks THEN "release" ELSE "stream")

Body(t) ==
  /\ stage[t] = "body" /\ connected /\ input # <<>>
  /\ clean' = [clean EXCEPT ![t] = @ /\ input[1].kind = "payload"
                                     /\ input[1].for = t]
  /\ \/ /\ input[1].kind = "payload"
        /\ input' = Tail(input)
        /\ BlockDone(t)
     \/ /\ input[1].kind = "block"
        /\ input' = <<Rest(input[1])>> \o Tail(input)
        /\ BlockDone(t)
     \/ /\ input[1].kind \in Texts \cup {"frag"}
        /\ input' = Tail(input)
        /\ BlockDone(t) \/ UNCHANGED <<block, place>>
  /\ UNCHANGED <<connected, wire, log, sem, locals, debris>>

SemaphoreGivenBack == FALSE

(* The semaphore is given back under the mutex; the unique_lock that took the
   mutex still believes it owns it. *)
Release(t) ==
  /\ stage[t] = "release" /\ MutexFree
  /\ busy' = SemaphoreGivenBack
  /\ At(t, IF ret[t] = "NO_ERROR" THEN "unlock" ELSE "return")
  /\ debris' = (debris \/ ret[t] # "NO_ERROR")
  /\ UNCHANGED <<link, holder, msgref, frame, locals>>

\* The destructor of that unique_lock unlocks archon_mutex once more.
ReturnFrame(t) ==
  /\ stage[t] = "return"
  /\ holder' = NoThread
  /\ At(t, "idle")
  /\ UNCHANGED <<link, busy, msgref, frame, locals, debris>>

-----------------------------------------------------------------------------
(* The controller answers the oldest request, a FETCH block by block. *)

Deliver(kind, r) ==
  input' = Append(input, [kind |-> kind, ref |-> r.ref, for |-> r.for])

Answer ==
  /\ wire # <<>>
  /\ LET r == Head(wire)
     IN \/ /\ r.kind = "command"
           /\ Deliver("reply", r) /\ wire' = Tail(wire) /\ UNCHANGED log
        \/ /\ r.kind = "fetchlog"
           /\ Deliver(IF log = 0 THEN "null" ELSE "reply", r)
           /\ wire' = Tail(wire) /\ log' = IF log = 0 THEN 0 ELSE log - 1
        \/ /\ r.kind = "fetch"
           /\ Deliver("block", r) /\ UNCHANGED log
           /\ wire' = IF r.left = 1 THEN Tail(wire)
                      ELSE <<[r EXCEPT !.left = @ - 1]>> \o Tail(wire)
  /\ UNCHANGED <<connected, sem, place, frame, locals, debris>>

\* Or it refuses a request, and notes why in its log.
AnswerError ==
  /\ wire # <<>>
  /\ LET r == Head(wire)
     IN /\ r.kind = "fetch" => r.left = Blocks
        /\ Deliver("error", r) /\ wire' = Tail(wire)
        /\ log' = IF log < MaxLog THEN log + 1 ELSE log
  /\ UNCHANGED <<connected, sem, place, frame, locals, debris>>

-----------------------------------------------------------------------------
Start(t) == StartCommand(t) \/ StartNative(t) \/ StartReadout(t)
              \/ StartOpen(t) \/ StartClose(t)

\* What thread t does by itself once its operation has started.
Step(t) == Refuse(t) \/ Pass(t) \/ Acquire(t) \/ Send(t)
             \/ Receive(t) \/ PollTimeout(t)
             \/ BlockTimeout(t) \/ Header(t) \/ Body(t)
             \/ Release(t) \/ ReturnFrame(t)

Lose(t) == ReadFails(t) \/ PollHangUp(t)

Next == Answer \/ AnswerError
          \/ \E t \in Threads : Start(t) \/ Step(t) \/ Lose(t)

Spec == Init /\ [][Next]_vars

(* A started thread keeps running: every wait in it is a Poll or a loop with
   a time limit, except the wait for the mutex and the loop of Body.  The
   controller keeps answering. *)
Fairness == WF_vars(Answer) /\ \A t \in Threads : WF_vars(Step(t))

FairSpec == Spec /\ Fairness

-----------------------------------------------------------------------------
(* Properties. *)

TypeOK ==
  /\ connected \in BOOLEAN /\ wire \in Seq(Request) /\ input \in Seq(Item)
  /\ log \in 0 .. MaxLog
  /\ busy \in BOOLEAN /\ holder \in Threads \cup {NoThread} /\ msgref \in Refs
  /\ stage \in [Threads -> Stages] /\ pc \in [Threads -> Points]
  /\ check \in [Threads -> Refs] /\ got \in [Threads -> Item \cup {NoItem}]
  /\ ret \in [Threads -> Codes]
  /\ block \in [Threads -> 0 .. Blocks] /\ clean \in [Threads -> BOOLEAN]
  /\ debris \in BOOLEAN

InBody(t) == pc[t] \in {"locked", "receive"}

\* t is using the socket: it waits for the reply of a text command, or reads
\* the blocks of a frame.
Using(t) == pc[t] = "receive" \/ stage[t] \in {"stream", "body", "log", "release"}

(* archon_busy and archon_mutex let one thread at a time use the socket
   (archon_cmd, and read_frame between its FETCH and its release). *)
OneTransaction == \A t, u \in Threads : Using(t) /\ Using(u) => t = u

(* archon_cmd holds archon_mutex from the moment it takes it to its return. *)
HeldThroughout == \A t \in Threads : InBody(t) => holder = t

(* archon_busy is set exactly while a thread uses the socket: no command is
   refused for nothing, none is let in on top of another. *)
BusyExact == busy <=> \E t \in Threads : Using(t)

(* archon_cmd returns NO_ERROR only with the answer to this very command, never
   with the late answer to an earlier or another thread's command, although
   message references are reused after RefMod commands.  A readout that broke
   off may leave more blocks than there are references: until a command is sent
   with none of them on its way, nothing is said. *)
OwnReply ==
  [][\A t \in Threads :
       /\ pc[t] = "receive" /\ pc'[t] # "receive" /\ ret'[t] = "NO_ERROR"
       => FirstRead(t).for = t \/ debris]_vars

(* read_frame(frame_type) leaves its loop without an error only with a complete
   frame made of the blocks its own FETCH asked for, after a readout that broke
   off only once what that one left behind is gone. *)
CleanFrame ==
  \A t \in Threads :
    stage[t] = "release" /\ ret[t] = "NO_ERROR" /\ ~debris
    => clean[t] /\ block[t] = Blocks

(* archon_busy does not stay set: archon_cmd clears it on every path but FETCH,
   and read_frame clears it for FETCH. *)
BusyClears == busy ~> ~busy

(* Every operation of a client comes to an end, with a result or an error. *)
OperationReturns ==
  \A t \in Threads : stage[t] # "idle" ~> stage[t] = "idle"
=============================================================================
