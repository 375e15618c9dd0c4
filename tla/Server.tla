-------------------------------- MODULE Server --------------------------------
(***************************************************************************)
(* The threads of camerad (camerad/camerad.cpp): block_main for the        *)
(* blocking port, several thread_main for the other, doit for a            *)
(* connection, and async_main, which sends what Common::Queue              *)
(* (common/common.cpp) holds.  Descriptors are those of the process: a     *)
(* thread keeps a number, in its own TcpSocket and in the copy that doit   *)
(* has (utils/network.cpp), and both are closed.                           *)
(*                                                                         *)
(* Clients are external.  What a command does is left to the modules of    *)
(* the components: here it succeeds and posts a message, fails, is         *)
(* answered by itself (echo) or ends the server.  A "late" line comes in   *)
(* two parts.                                                              *)
(***************************************************************************)
EXTENDS Integers, Sequences, FiniteSets, SequencesExt, FiniteSetsExt

CONSTANTS
  Workers,      \* the threads of the non-blocking port
  Blocker,      \* the thread of the blocking port
  Patient,      \* connections to the blocking port
  Hasty,        \* connections to the non-blocking port
  Scenarios,    \* the lines of each connection, whether a signal comes, the group
  NoConn

Threads == Workers \cup {Blocker}
Conns == Patient \cup Hasty
Kinds == {"ok", "fail", "echo", "empty", "exit", "late"}

ASSUME ServerAssumption ==
  /\ Blocker \notin Workers /\ Patient \cap Hasty = {} /\ NoConn \notin Conns \cup Threads
  /\ IsFiniteSet(Threads) /\ IsFiniteSet(Conns)
  /\ \A s \in Scenarios : /\ s.script \in [Conns -> Seq(Kinds)] /\ s.quits \subseteq Conns
                          /\ s.signal \in BOOLEAN /\ s.async \in BOOLEAN

Fds == 1 .. Cardinality(Threads) + 1    \* bound: enough for all threads
NoFd == 0
EXIT == 0

VARIABLES
  scen,         \* the scenario of this behaviour
  client,       \* of each connection: what its client does
  backlog,      \* connections that wait for accept
  lines,        \* how many lines its client has sent
  inbox,        \* lines sent and not yet read
  received,     \* answers that reached it: the line answered and whose it was
  table,        \* the connection of each descriptor
  pc, fd, copy, \* of each thread: its place, fd of its socket and of doit's
  held, line,   \* the connection it polls; the line it read, and whose it is
  conn_mutex,
  message_queue, apc, sent, queued,   \* async_main; queued is a history
  hurt,         \* history: connections with a number still in use by another
                \* thread, or with a line that was cut
  ending        \* someone is in exit_cleanly

clients == <<client, backlog, lines, inbox, received>>
threads == <<pc, fd, copy, held, line, conn_mutex>>
async   == <<message_queue, apc, sent, queued>>
vars    == <<scen, clients, table, threads, async, hurt, ending>>

NoLine == [of |-> NoConn, kind |-> "empty"]
Lines == [of : Conns \cup {NoConn}, kind : Kinds]

Start(t) == IF t = Blocker THEN "accept" ELSE "idle"

Init ==
  /\ scen \in Scenarios
  /\ client = [c \in Conns |-> "away"] /\ backlog = {}
  /\ lines = [c \in Conns |-> 0]
  /\ inbox = [c \in Conns |-> <<>>] /\ received = [c \in Conns |-> <<>>]
  /\ table = [n \in Fds |-> NoConn]
  /\ pc = [t \in Threads |-> Start(t)]
  /\ fd = [t \in Threads |-> NoFd] /\ copy = [t \in Threads |-> NoFd]
  /\ held = [t \in Threads |-> NoConn] /\ line = [t \in Threads |-> NoLine]
  /\ conn_mutex = NoConn
  /\ message_queue = <<>> /\ apc = "get" /\ sent = <<>> /\ queued = <<>>
  /\ hurt = {} /\ ending = FALSE

-----------------------------------------------------------------------------
(* Clients. *)

Dial(c) ==
  /\ client[c] = "away" /\ scen.script[c] # <<>> /\ client' = [client EXCEPT ![c] = "here"]
  /\ backlog' = backlog \cup {c}
  /\ UNCHANGED <<scen, lines, inbox, received, table, threads, async, hurt, ending>>

Finished(c) == lines[c] = Len(scen.script[c])
Half(c) == inbox[c] # <<>> /\ Last(inbox[c]) = "part"
NextLine(c) == scen.script[c][lines[c] + 1]

Says(c, item, rest) ==
  /\ inbox' = [inbox EXCEPT ![c] = Append(rest, item)]
  /\ UNCHANGED <<scen, client, backlog, received, table, threads, async, hurt, ending>>

\* A line, or the parts of a late one.
Say(c) ==
  /\ client[c] = "here" /\ ~Finished(c)
  /\ \/ /\ NextLine(c) # "late" /\ Says(c, NextLine(c), inbox[c])
        /\ lines' = [lines EXCEPT ![c] = @ + 1]
     \/ /\ NextLine(c) = "late" /\ ~Half(c) /\ Says(c, "part", inbox[c]) /\ UNCHANGED lines
     \/ /\ Half(c) /\ Says(c, "late", Front(inbox[c]))
        /\ lines' = [lines EXCEPT ![c] = @ + 1]

\* The server has ended the connection.
Ended(c) == c \notin backlog /\ \A n \in Fds : table[n] # c

\* A client waits for its answers, unless it is one that quits, at any time.
MayLeave(c) ==
  \/ c \in scen.quits \cup hurt \/ Ended(c)
  \/ Finished(c) /\ Len(received[c]) >= lines[c]

HangUp(c) ==
  /\ client[c] = "here" /\ MayLeave(c) /\ client' = [client EXCEPT ![c] = "gone"]
  /\ UNCHANGED <<scen, backlog, lines, inbox, received, table, threads, async, hurt, ending>>

-----------------------------------------------------------------------------
(* Descriptors: accept takes the lowest free number; closing a number that *)
(* is not open changes nothing.                                            *)

FreeFd == Min({n \in Fds : table[n] = NoConn})
Forgotten(n) == table
Released(n) == IF n = NoFd THEN table ELSE [table EXCEPT ![n] = NoConn]

\* n is still the number of a socket of another thread, which will close it.
InUse(t, n) == \E u \in Threads \ {t} : n \in {fd[u], copy[u]}

-----------------------------------------------------------------------------
(* block_main, thread_main. *)

Lock(t) ==
  /\ t \in Workers /\ pc[t] = "idle" /\ conn_mutex = NoConn
  /\ conn_mutex' = t /\ pc' = [pc EXCEPT ![t] = "accept"]
  /\ UNCHANGED <<scen, clients, table, fd, copy, held, line, async, hurt, ending>>

\* doit gets a copy of the socket.
SharedBy(t, n) == [u \in Threads |-> IF u = t \/ {t, u} \subseteq Workers THEN n ELSE copy[u]]
CopyOf(t, n) == [copy EXCEPT ![t] = n]

NeverUnlocked(t) == conn_mutex
Unlocked(t) == IF t = Blocker THEN conn_mutex ELSE NoConn

Accept(t) ==
  /\ pc[t] = "accept"
  /\ \E c \in backlog \cap (IF t = Blocker THEN Patient ELSE Hasty) : LET n == FreeFd IN
       /\ backlog' = backlog \ {c} /\ table' = [table EXCEPT ![n] = c]
       /\ fd' = [fd EXCEPT ![t] = n] /\ copy' = CopyOf(t, n)
       /\ hurt' = IF InUse(t, n) THEN hurt \cup {c} ELSE hurt
  /\ pc' = [pc EXCEPT ![t] = "doit"] /\ conn_mutex' = Unlocked(t)
  /\ UNCHANGED <<scen, client, lines, inbox, received, held, line, async, ending>>

\* doit's Close, before it returns, and then that of the caller.
CloseCopy(t) ==
  /\ pc[t] = "done" /\ pc' = [pc EXCEPT ![t] = "close"]
  /\ table' = Released(copy[t]) /\ copy' = [copy EXCEPT ![t] = NoFd]
  /\ UNCHANGED <<scen, clients, fd, held, line, conn_mutex, async, hurt, ending>>

Close(t) ==
  /\ pc[t] = "close" /\ pc' = [pc EXCEPT ![t] = Start(t)]
  /\ table' = Released(fd[t]) /\ fd' = [fd EXCEPT ![t] = NoFd]
  /\ UNCHANGED <<scen, clients, copy, held, line, conn_mutex, async, hurt, ending>>

-----------------------------------------------------------------------------
(* doit.  A poll that waits holds the connection, whatever becomes of the  *)
(* number; read and write go by the number.                                *)

Named(t) == IF copy[t] = NoFd THEN NoConn ELSE table[copy[t]]
Goto(t, place) == pc' = [pc EXCEPT ![t] = place]

\* poll starts; a number that is not open is closed (POLLNVAL) and read then fails.
Poll(t) ==
  /\ pc[t] = "doit"
  /\ IF Named(t) = NoConn THEN Goto(t, "done") /\ UNCHANGED held
     ELSE Goto(t, "poll") /\ held' = [held EXCEPT ![t] = Named(t)]
  /\ UNCHANGED <<scen, clients, table, fd, copy, line, conn_mutex, async, hurt, ending>>

Readable(c) == inbox[c] # <<>> \/ client[c] = "gone"

\* Data or a hangup ends poll; after a reset the copy is closed and read fails.
PollReady(t) ==
  /\ pc[t] = "poll" /\ Readable(held[t]) /\ held' = [held EXCEPT ![t] = NoConn]
  /\ \/ Goto(t, "read") /\ UNCHANGED <<table, copy>>
     \/ /\ client[held[t]] = "gone" /\ Goto(t, "done")
        /\ table' = Released(copy[t]) /\ copy' = [copy EXCEPT ![t] = NoFd]
  /\ UNCHANGED <<scen, clients, fd, line, conn_mutex, async, hurt, ending>>

\* Only the workers' sockets have a time limit.
PollTimeout(t) ==
  /\ pc[t] = "poll" /\ t \in Workers /\ ~Readable(held[t])
  /\ Goto(t, "done") /\ held' = [held EXCEPT ![t] = NoConn]
  /\ UNCHANGED <<scen, clients, table, fd, copy, line, conn_mutex, async, hurt, ending>>

\* Nothing, or less than a line from a client that is gone: Read closes, or fails.
ReadNothing(t) ==
  /\ pc[t] = "read"
  /\ LET c == Named(t) IN
       \/ c = NoConn /\ UNCHANGED <<table, copy>>
       \/ /\ c # NoConn /\ client[c] = "gone" /\ inbox[c] \in {<<>>, <<"part">>}
          /\ table' = Released(copy[t]) /\ copy' = [copy EXCEPT ![t] = NoFd]
  /\ Goto(t, "done")
  /\ UNCHANGED <<scen, clients, fd, held, line, conn_mutex, async, hurt, ending>>

\* Read waits for the end of the line, but gives up after a byte that comes late.
Cut(item) == IF item = "late" THEN {<<"late", <<>>>>, <<"fail", <<"fail">>>>} ELSE {<<item, <<>>>>}

Reached(c, answer) ==
  IF client[c] = "gone" THEN received ELSE [received EXCEPT ![c] = Append(@, answer)]

\* enqueue, which wakes async_main.
NotNotified == apc
Notified == IF apc = "wait" THEN "get" ELSE apc
QueuedFirst(m) == <<m>> \o message_queue
Queued(m) == Append(message_queue, m)

Enqueue(m) ==
  /\ message_queue' = Queued(m) /\ apc' = Notified /\ queued' = Append(queued, m)
  /\ UNCHANGED sent

\* What the line asks for is done; its answer is written in a later step.
Obey(t) ==
  \/ /\ line'[t].kind \in {"ok", "late"} /\ Enqueue(Len(queued) + 1)
     /\ Goto(t, "reply") /\ UNCHANGED <<received, ending>>
  \/ /\ line'[t].kind \in {"fail", "echo"}
     /\ Goto(t, "reply") /\ UNCHANGED <<received, async, ending>>
  \/ /\ line'[t].kind = "exit" /\ Enqueue(EXIT)
     /\ Goto(t, "exit") /\ ending' = TRUE /\ UNCHANGED received
  \/ /\ line'[t].kind = "empty" /\ received' = Reached(line'[t].of, line'[t])
     /\ Goto(t, "doit") /\ UNCHANGED <<async, ending>>

Read(t) ==
  /\ pc[t] = "read" /\ Named(t) # NoConn
  /\ LET c == Named(t) IN
       /\ inbox[c] # <<>> /\ Head(inbox[c]) # "part"
       /\ \E got \in Cut(Head(inbox[c])) :
            /\ inbox' = [inbox EXCEPT ![c] = got[2] \o Tail(@)]
            /\ hurt' = IF got[2] # <<>> THEN hurt \cup {c} ELSE hurt
            /\ line' = [line EXCEPT ![t] = [of |-> c, kind |-> got[1]]]
  /\ Obey(t)
  /\ UNCHANGED <<scen, client, backlog, lines, table, fd, copy, held, conn_mutex>>

\* Write goes to whatever the number names; to a client that is gone it may fail.
\* The loop ends then, except after echo, and on the non-blocking port anyway.
Stays(t) == t = Blocker

Reply(t) ==
  /\ pc[t] = "reply"
  /\ \/ /\ Named(t) # NoConn
        /\ received' = Reached(Named(t), line[t])
        /\ Goto(t, IF Stays(t) THEN "doit" ELSE "done")
     \/ /\ Named(t) = NoConn \/ Named(t) \in {c \in Conns : client[c] = "gone"}
        /\ UNCHANGED received
        /\ Goto(t, IF Stays(t) /\ line[t].kind = "echo" THEN "doit" ELSE "done")
  /\ line' = [line EXCEPT ![t] = NoLine]
  /\ UNCHANGED <<scen, client, backlog, lines, inbox, table, fd, copy, held, conn_mutex,
                 async, hurt, ending>>

-----------------------------------------------------------------------------
(* async_main, and the end of the process. *)

\* dequeue, Send; "exit" is sent too and ends the thread.
Dequeue ==
  /\ apc = "get" /\ message_queue # <<>>
  /\ message_queue' = Tail(message_queue)
  /\ sent' = IF scen.async THEN Append(sent, Head(message_queue)) ELSE sent
  /\ apc' = IF Head(message_queue) = EXIT THEN "ended" ELSE "get"
  /\ UNCHANGED <<scen, clients, table, threads, queued, hurt, ending>>

AsyncWait ==
  /\ apc = "get" /\ message_queue = <<>> /\ apc' = "wait"
  /\ UNCHANGED <<scen, clients, table, threads, message_queue, sent, queued, hurt, ending>>

\* signal_handler, which the main thread runs.
Signal ==
  /\ scen.signal /\ ~ending /\ Enqueue(EXIT) /\ ending' = TRUE
  /\ UNCHANGED <<scen, clients, table, threads, hurt>>

\* exit ends every thread and every connection.
Exit ==
  /\ ending /\ \E t \in Threads : pc[t] # "exit"
  /\ pc' = [t \in Threads |-> "exit"] /\ apc' = "ended" /\ conn_mutex' = NoConn
  /\ table' = [n \in Fds |-> NoConn] /\ backlog' = {}
  /\ client' = [c \in Conns |-> "gone"]
  /\ UNCHANGED <<scen, lines, inbox, received, fd, copy, held, line, message_queue, sent, queued,
                 hurt, ending>>

Serves(t) ==
  \/ Lock(t) \/ Accept(t) \/ Poll(t) \/ PollReady(t) \/ PollTimeout(t) \/ ReadNothing(t)
  \/ Read(t) \/ Reply(t) \/ CloseCopy(t) \/ Close(t)

Next ==
  \/ \E c \in Conns : Dial(c) \/ Say(c) \/ HangUp(c)
  \/ \E t \in Threads : Serves(t)
  \/ Dequeue \/ AsyncWait \/ Signal \/ Exit

Spec == Init /\ [][Next]_vars

(* Threads run.  A client that began a line ends it or hangs up, and one   *)
(* that has sent its lines hangs up: nothing else ends a poll on the       *)
(* blocking port, or a read.                                               *)
FairSpec ==
  /\ Spec
  /\ \A t \in Threads : WF_vars(Serves(t))
  /\ \A c \in Conns : WF_vars(Say(c) \/ HangUp(c))
  /\ WF_vars(Dequeue \/ AsyncWait) /\ WF_vars(Exit)

-----------------------------------------------------------------------------
Places == {"idle", "accept", "doit", "poll", "read", "reply", "done", "close", "exit"}

(* Types, and conn_mutex is held exactly by the worker that is in Accept.  *)
TypeOK ==
  /\ client \in [Conns -> {"away", "here", "gone"}] /\ backlog \subseteq Conns
  /\ received \in [Conns -> Seq(Lines)] /\ table \in [Fds -> Conns \cup {NoConn}]
  /\ pc \in [Threads -> Places] /\ fd \in [Threads -> Fds \cup {NoFd}]
  /\ copy \in [Threads -> Fds \cup {NoFd}] /\ line \in [Threads -> Lines]
  /\ held \in [Threads -> Conns \cup {NoConn}] /\ apc \in {"get", "wait", "ended"}
  /\ \A t \in Workers : conn_mutex = t <=> pc[t] = "accept"

(* No descriptor is lost: an open one is the copy of a thread in doit,     *)
(* which closes it, whichever way that connection ended.                   *)
NoLeak ==
  \A n \in Fds : table[n] # NoConn =>
    \E t \in Threads : copy[t] = n /\ pc[t] \notin {"idle", "accept", "close"}

(* Every client but the hurt ones gets its own answers and nobody else's,  *)
(* one for each line, in the order of its lines.                           *)
OwnAnswers ==
  \A c \in Conns \ hurt : /\ Len(received[c]) <= lines[c]
    /\ \A i \in 1 .. Len(received[c]) : received[c][i] = [of |-> c, kind |-> scen.script[c][i]]

(* Messages are sent in the order of enqueue, none lost and none twice.    *)
MessagesInOrder == scen.async => sent \o message_queue = queued

(* A client that waits for an answer does not wait for ever: it gets it,   *)
(* or the connection ends, or the process does.                            *)
Waits(c) == client[c] = "here" /\ Len(received[c]) < lines[c] /\ ~Ended(c)

AllAnswered == \A c \in Conns : Waits(c) ~> ~Waits(c)

(* The queue is emptied, unless the process is ending: no notification is  *)
(* missed between the test of the queue and the wait.                      *)
MessagesSent == (message_queue # <<>>) ~> (message_queue = <<>> \/ ending)
=============================================================================
