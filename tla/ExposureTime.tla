----------------------------- MODULE ExposureTime -----------------------------
(***************************************************************************)
(* The exposure time of an Archon camera: class ExposureTime               *)
(* (camerad/camera.h), the commands exptime and longexposure, what expose  *)
(* does about times that were never set, and wait_for_exposure             *)
(* (camerad/archon.cpp).                                                   *)
(*                                                                         *)
(* The host keeps a value and a unit, the controller two parameters; each  *)
(* set_parameter may be refused, or take effect although it reports an     *)
(* error.  A thread is one that serves a client; a command is the list of  *)
(* its steps.  Time runs in milliseconds from the start of an exposure.    *)
(***************************************************************************)
EXTENDS Integers, Sequences

CONSTANTS
  Setters,      \* threads whose clients set times
  Exposer,      \* the thread whose client exposes
  Acf,          \* parameters an ACF file may give: their values
  LongSupported, \* values of: longexposeparam is not empty
  Times,        \* exposure times that clients ask for
  MAX_EXPTIME,  \* largest value of exptime
  Second,       \* milliseconds of a second, 1000
  MSEC_TO_TICK, \* timer ticks of a millisecond, 100000
  Word,         \* 2^32: arithmetic of uint32_t
  MaxClock,     \* bound: time of an exposure, beyond every wait
  MaxDelay,     \* bound: time from the trigger to the wait
  MaxCommands   \* bound: commands that set the time, and loads of parameters

Units == {"s", "ms"}
Parameters == [time : 0 .. Word - 1, long : BOOLEAN]

ASSUME ExposureTimeAssumption ==
  /\ Acf \subseteq Parameters /\ LongSupported \subseteq BOOLEAN /\ Times \subseteq Nat
  /\ Exposer \notin Setters /\ {MAX_EXPTIME, MaxClock, MaxDelay, MaxCommands} \subseteq Nat
  /\ {Second, MSEC_TO_TICK, Word} \subseteq Nat \ {0}
  /\ MAX_EXPTIME < Word

Threads == Setters \cup {Exposer}

VARIABLES
  acf, longsupported,   \* chosen at the start
  value, unit, isset,   \* camera_info.exposure_time
  longset,              \* is_longexposure_set
  param,                \* the controller's parameters
  todo, error,          \* of each thread: steps of its command, and its result
  phase,                \* wait_for_exposure
  exposing,             \* milliseconds the controller exposes
  clock, mark,          \* time since it began; when this wait of the host began
  start,                \* reading of the timer, or none
  waittime, limit,      \* locals of wait_for_exposure
  commands,             \* commands so far
  trust,                \* history: the last command gave both the same time
  overlap,              \* history: a command ran along with another
  kept                  \* history: it agreed at the trigger, and nothing changed

chosen == <<acf, longsupported>>
host   == <<value, unit, isset, longset>>
waiting == <<phase, exposing, clock, mark, start, waittime, limit>>
history == <<trust, overlap, kept>>
vars == <<chosen, host, param, todo, error, waiting, commands, history>>

NoTime == -1
Quiet == \A t \in Threads : todo[t] = <<>>

\* The constructor of ExposureTime calls value(), which sets _is_set.
SetByConstructor == TRUE

Init ==
  /\ acf \in Acf /\ longsupported \in LongSupported /\ (acf.long => longsupported)
  /\ value = 0 /\ unit = "ms" /\ isset = SetByConstructor /\ longset = FALSE
  /\ param = acf
  /\ todo = [t \in Threads |-> <<>>] /\ error = [t \in Threads |-> FALSE]
  /\ phase = "idle" /\ exposing = 0 /\ clock = 0 /\ mark = 0 /\ start = NoTime
  /\ waittime = 0 /\ limit = 0 /\ commands = 0
  /\ trust = FALSE /\ overlap = FALSE /\ kept = FALSE

-----------------------------------------------------------------------------
(* Class ExposureTime. *)

Milliseconds(v, u) == IF u = "ms" THEN v ELSE (v * Second) % Word
ValueAlone == value
HostMs == Milliseconds(value, unit)

InUnit(u) == IF u = unit THEN value
             ELSE IF u = "ms" THEN (value * Second) % Word ELSE value \div Second

ControllerMs == Milliseconds(param.time, IF param.long THEN "s" ELSE "ms")

-----------------------------------------------------------------------------
(* Commands.  unit: longexposure changes the host; long, resend: it sends  *)
(* both parameters; check: the caller goes on only if that went well;      *)
(* time: exptime sends its value; keep: and keeps it in the host.          *)

Step(op, v, u) == [op |-> op, v |-> v, u |-> u]

NotResent(u) == <<Step("unit", 0, u), Step("long", 0, u)>>
LongExposure(u) == <<Step("unit", 0, u), Step("long", 0, u), Step("resend", 0, u)>>
Checked(steps) == steps \o <<Step("check", 0, "ms")>>

ExpTime(v) == <<Step("time", v, "none"), Step("keep", v, "none")>>
ExpTimeIn(v, u) == Checked(LongExposure(u)) \o <<Step("time", v, u), Step("keep", v, u)>>

Begin(t, steps) ==
  /\ todo[t] = <<>>
  /\ todo' = [todo EXCEPT ![t] = steps] /\ error' = [error EXCEPT ![t] = FALSE]
  /\ overlap' = ~Quiet /\ trust' = (trust /\ Quiet)

\* A time that is too large, or any unit when there are none, changes nothing.
SetTime(t) ==
  /\ commands < MaxCommands /\ commands' = commands + 1
  /\ \/ \E v \in Times \cap 0 .. MAX_EXPTIME :
          \/ Begin(t, ExpTime(v))
          \/ longsupported /\ \E u \in Units : Begin(t, ExpTimeIn(v, u))
     \/ longsupported /\ \E u \in Units : Begin(t, LongExposure(u))
  /\ UNCHANGED <<chosen, host, param, waiting, kept>>

\* expose first sets what was never set, from the configuration memory.
Defaults ==
  (IF isset THEN <<>> ELSE Checked(ExpTime(acf.time)))
    \o (IF longset \/ ~longsupported THEN <<>>
        ELSE Checked(LongExposure(IF acf.long THEN "s" ELSE "ms")))

Expose ==
  /\ phase = "idle" /\ Begin(Exposer, Append(Defaults, Step("trigger", 0, "none")))
  /\ UNCHANGED <<chosen, host, param, waiting, commands, kept>>

\* LOADPARAMS, when a mode or firmware is loaded: the host is not told.
LoadParams ==
  /\ Quiet /\ phase = "idle" /\ commands < MaxCommands /\ commands' = commands + 1
  /\ param' = acf /\ trust' = FALSE
  /\ UNCHANGED <<chosen, host, todo, error, waiting, overlap, kept>>

Doing(t, op) == todo[t] # <<>> /\ Head(todo[t]).op = op
This(t) == Head(todo[t])
Done(t) == todo' = [todo EXCEPT ![t] = Tail(@)]
GivesUp(t) == todo' = [todo EXCEPT ![t] = <<>>]
Fails(t) == error' = [error EXCEPT ![t] = TRUE]

SetUnit(t) ==
  /\ Doing(t, "unit") /\ Done(t)
  /\ unit' = This(t).u /\ value' = InUnit(This(t).u) /\ longset' = TRUE /\ kept' = FALSE
  /\ UNCHANGED <<chosen, isset, param, error, waiting, commands, trust, overlap>>

\* set_parameter (FASTPREPPARAM, FASTLOADPARAM) of longexposure, which goes on anyway.
Sent(t) ==
  IF Doing(t, "long") THEN [param EXCEPT !.long = (unit = "s")] ELSE [param EXCEPT !.time = value]

Send(t) ==
  /\ Doing(t, "long") \/ Doing(t, "resend")
  /\ \/ param' = Sent(t) /\ UNCHANGED error
     \/ param' \in {param, Sent(t)} /\ Fails(t)
  /\ Done(t)
  /\ trust' = (~error'[t] /\ ~overlap /\ (trust \/ Doing(t, "long")))
  /\ UNCHANGED <<chosen, host, waiting, commands, overlap, kept>>

Check(t) ==
  /\ Doing(t, "check") /\ IF error[t] THEN GivesUp(t) ELSE Done(t)
  /\ UNCHANGED <<chosen, host, param, error, waiting, commands, history>>

\* The host keeps the time only if the controller took it.
SendTime(t) ==
  /\ Doing(t, "time")
  /\ \/ param' = [param EXCEPT !.time = This(t).v] /\ Done(t) /\ UNCHANGED <<error, trust>>
     \/ /\ param' \in {param, [param EXCEPT !.time = This(t).v]}
        /\ GivesUp(t) /\ Fails(t) /\ trust' = FALSE
  /\ UNCHANGED <<chosen, host, waiting, commands, overlap, kept>>

Keep(t) ==
  /\ Doing(t, "keep") /\ Done(t)
  /\ value' = This(t).v /\ isset' = TRUE /\ unit' = IF This(t).u = "none" THEN unit ELSE This(t).u
  /\ kept' = FALSE
  /\ UNCHANGED <<chosen, longset, param, error, waiting, commands, trust, overlap>>

-----------------------------------------------------------------------------
(* The exposure, and wait_for_exposure, which expose calls unless the time *)
(* is 0.  Only what a wait needs is kept, and nothing after it.            *)

Trigger ==
  /\ Doing(Exposer, "trigger") /\ Done(Exposer)
  /\ phase' = "ready" /\ exposing' = ControllerMs /\ kept' = trust
  /\ UNCHANGED <<chosen, host, param, error, clock, mark, start, waittime, limit, commands,
                 trust, overlap>>

\* expose has its answer, or goes on to wait_for_readout and returns from there.
Rest ==
  /\ phase' = "idle" /\ exposing' = 0 /\ clock' = 0 /\ mark' = 0 /\ start' = NoTime
  /\ waittime' = 0 /\ limit' = 0 /\ kept' = FALSE

NoWait ==
  /\ phase = "ready" /\ value = 0 /\ Rest
  /\ UNCHANGED <<chosen, host, param, todo, error, commands, trust, overlap>>

Unguarded == HostMs - Second
WaitTime == IF HostMs > Second /\ HostMs - Second >= Second THEN HostMs - Second ELSE 0

\* The first get_timer may fail: the variable then holds anything, and so do later tests.
StartWait ==
  /\ phase = "ready" /\ value # 0 /\ phase' = "wait"
  /\ start' \in {clock, NoTime} /\ mark' = clock
  /\ waittime' = WaitTime
  /\ limit' = HostMs + Second
  /\ UNCHANGED <<chosen, host, param, todo, error, exposing, clock, commands, history>>

\* Bounds: a wait begins soon, and it polls as soon as its time is over.
MayTick ==
  \/ phase = "ready" /\ clock < MaxDelay
  \/ phase = "wait" /\ clock - mark <= waittime
  \/ phase = "poll" /\ clock < MaxClock

Tick ==
  /\ MayTick
  /\ clock' = clock + 1
  /\ UNCHANGED <<chosen, host, param, todo, error, phase, exposing, mark, start, waittime, limit,
                 commands, history>>

WaitOver ==
  /\ phase = "wait" /\ clock - mark > waittime /\ phase' = "poll" /\ mark' = clock
  /\ UNCHANGED <<chosen, host, param, todo, error, exposing, clock, start, waittime, limit,
                 commands, history>>

\* The product is one of 32 bits, the difference of 64; the value may have changed by now.
TicksDue == (HostMs * MSEC_TO_TICK) % Word
Passed == start # NoTime /\ (clock - start) * MSEC_TO_TICK >= TicksDue

Endless == FALSE
TooLong == clock - mark > limit

(* get_timer: an ERROR ends the wait, and so does the limit.  After BUSY   *)
(* or TIMEOUT, or without a first reading, the difference is anything, but *)
(* the code that wait_for_exposure returns is then an error's unless a     *)
(* later get_timer goes well.                                              *)
PollDone ==
  /\ phase = "poll" /\ (Passed \/ start = NoTime)
  /\ phase' = "waited"
  /\ UNCHANGED <<chosen, host, param, todo, error, exposing, clock, mark, start, waittime, limit,
                 commands, history>>

PollFails ==
  /\ phase = "poll" /\ Rest
  /\ UNCHANGED <<chosen, host, param, todo, error, commands, trust, overlap>>

PollTimeout ==
  /\ phase = "poll" /\ TooLong /\ Rest
  /\ UNCHANGED <<chosen, host, param, todo, error, commands, trust, overlap>>

Finish ==
  /\ phase = "waited" /\ Rest
  /\ UNCHANGED <<chosen, host, param, todo, error, commands, trust, overlap>>

Command(t) == SetUnit(t) \/ Send(t) \/ Check(t) \/ SendTime(t) \/ Keep(t)
Waiting == Trigger \/ NoWait \/ StartWait \/ WaitOver \/ PollTimeout \/ Finish

Next ==
  \/ \E t \in Setters : SetTime(t)
  \/ Expose \/ LoadParams \/ Tick \/ Waiting \/ PollDone \/ PollFails
  \/ \E t \in Threads : Command(t)

Spec == Init /\ [][Next]_vars

(* Threads run and time goes by.  A poll that gets no answer does not end  *)
(* the wait; its limit does.                                               *)
FairSpec ==
  Spec /\ WF_vars(Waiting) /\ WF_vars(Tick) /\ \A t \in Threads : WF_vars(Command(t))

-----------------------------------------------------------------------------
Ops == {"unit", "long", "resend", "check", "time", "keep", "trigger"}

(* Types, and the order of a wait: its marks never run ahead of the clock. *)
TypeOK ==
  /\ value \in 0 .. Word - 1 /\ unit \in Units /\ param \in Parameters
  /\ {isset, longset, trust, overlap, kept} \subseteq BOOLEAN /\ error \in [Threads -> BOOLEAN]
  /\ \A t \in Threads : \A i \in DOMAIN todo[t] : todo[t][i].op \in Ops
  /\ phase \in {"idle", "ready", "wait", "poll", "waited"}
  /\ exposing \in 0 .. Word - 1 /\ clock \in 0 .. MaxClock /\ mark \in 0 .. clock
  /\ start \in {NoTime} \cup 0 .. clock /\ waittime \in Nat /\ limit \in Nat

(* After a command that named the unit and reported success, and as long   *)
(* as the ones that follow do, host and controller have the same time:     *)
(* value and unit.  Failed commands, overlapping ones and LOADPARAMS end   *)
(* that, and the next one that names the unit restores it.                 *)
TimesAgree == trust /\ Quiet => param = [time |-> value, long |-> unit = "s"]

(* wait_for_exposure returns NO_ERROR only after the controller's exposure *)
(* delay is over: whatever was polled in between, if host and controller   *)
(* agreed when it began, no client changed the time, the first get_timer   *)
(* was answered and the time fits 32 bits of ticks.                        *)
WaitCovers ==
  phase = "waited" /\ kept /\ start # NoTime /\ exposing * MSEC_TO_TICK < Word => clock >= exposing

(* wait_for_exposure returns, even if get_timer is never answered.         *)
WaitEnds == (phase # "idle") ~> (phase = "idle")

(* archon.cpp, at expose: if the exposure time and its unit were never set *)
(* they are read from the Archon, so that server and exposure have the     *)
(* default values of the ACF file.                                         *)
SameDefaults ==
  phase = "ready" /\ commands = 0 =>
    /\ value = acf.time /\ unit = (IF acf.long THEN "s" ELSE "ms")
    /\ exposing = HostMs
=============================================================================
