----------------------------- MODULE ConfigMirror -----------------------------
(***************************************************************************)
(* Configuration of the controller: load_acf, load_timing, load_firmware,  *)
(* set_camera_mode with load_mode_settings, write_config_key,              *)
(* write_parameter, set_parameter and the commands that change one or a    *)
(* few keys (camerad/archon.cpp).                                          *)
(*                                                                         *)
(* The host mirrors the configuration memory of the controller: a key or a *)
(* parameter (an item) is written only if its value in the map differs.    *)
(* The memory takes effect when it is applied, one scope at a time.        *)
(***************************************************************************)
EXTENDS Integers, Sequences, FiniteSets, SequencesExt

CONSTANTS
  Clients,    \* clients of the server
  Commands,   \* what they send, see Command
  Acf,        \* the ACF files: [opens, lines, modes, wellformed]
  Scope,      \* of each item: the command that applies it
  Values,     \* of items
  Required,   \* items set_camera_mode reads from the map
  ShutParam,  \* SHUTENABLE_PARAM
  MayRefuse,  \* a command may fail without effect (BUSY, not sent, "?")
  MayLose,    \* its reply may be lost after it took effect (TIMEOUT)
  FastStored  \* FASTLOADPARAM also changes the memory, as in the emulator

Items == DOMAIN Scope
Params == {i \in Items : Scope[i] = "PARAMS"}
Scopes == {"PARAMS", "CDS", "SYSTEM", "ALL"} \cup {Scope[i] : i \in Items}
Modes == UNION {DOMAIN Acf[f].modes : f \in DOMAIN Acf}
WriteKinds == {"bias", "cds", "inreg", "sensor", "heater", "preampgain", "shutter"}
Write == [item : Items, value : Values]
Command == [kind : WriteKinds, writes : Seq(Write)]
     \cup [kind : {"load"}, file : DOMAIN Acf, then : {"timing", "all"}]
     \cup [kind : {"mode"}, mode : STRING]
     \cup [kind : {"param"}, item : Params, value : Values]

ItemsOf(s) == {s[n].item : n \in DOMAIN s}
Distinct(s) == \A m, n \in DOMAIN s : s[m].item = s[n].item => m = n
(* The scope that a command applies after its last key. *)
ScopeOf(k) == CASE k.kind = "cds" -> "CDS"
                [] k.kind = "shutter" -> "SYSTEM"
                [] OTHER -> Scope[k.writes[1].item]

ASSUME ConfigAssumption ==
  /\ Commands \subseteq Command
  /\ {MayRefuse, MayLose, FastStored} \subseteq BOOLEAN
  /\ Required \subseteq Items /\ ShutParam \in Params
  /\ \A f \in DOMAIN Acf : Acf[f].lines \in Seq(Write)
  /\ \A k \in Commands : k.kind \in WriteKinds =>
       /\ k.writes # <<>> /\ Distinct(k.writes)
       /\ k.kind # "preampgain" => \A i \in ItemsOf(k.writes) : Scope[i] = ScopeOf(k)

VARIABLES
  firmwareloaded, modeselected, mode,  \* host: what is loaded
  map,      \* configmap and parammap: line and value of each item
  modemap,  \* settings of each mode in the ACF
  memory,   \* controller: item and value of each configuration line
  applied,  \* controller: values in effect
  stage, op, todo, changed, wrote, error,  \* the command of each client
  latest,   \* history: the file whose lines were sent last
  astray,   \* history: load_acf broke off, or an item was written over another
  failed    \* history: of each client, whether a step of its command failed

host == <<firmwareloaded, modeselected, mode, map, modemap>>
controller == <<memory, applied>>
locals == <<stage, op, todo, changed, wrote, error>>
history == <<latest, astray, failed>>
vars == <<host, controller, locals, history>>

None == "none"
Codes == {"NO_ERROR", "ERROR"}
NoCommand == [kind |-> None]
Stages == {"idle", "polloff", "clear", "line", "pollon", "apply", "steps", "note",
           "shutter", "select", "param", "done"}
NoEntries == [x \in {} |-> 0]
Put(f, x, v) == [y \in DOMAIN f \cup {x} |-> IF y = x THEN v ELSE f[y]]

(* How archon_cmd ends: well, without effect, or after the effect. *)
Outcomes == {"ok"} \cup (IF MayRefuse THEN {"refused"} ELSE {})
                   \cup (IF MayLose THEN {"lost"} ELSE {})
Taken(o) == o # "refused"
Code(o) == IF o = "ok" THEN "NO_ERROR" ELSE "ERROR"

(* WCONFIG: line l of the memory holds w, whatever it held before. *)
Wconfig(l, w, o) == IF Taken(o) THEN Put(memory, l, w) ELSE memory

(* RCONFIG fails for a line that was not written. *)
HasLine(l) == l \in DOMAIN memory

(* The values that come into effect when the controller applies a scope. *)
InMemory(i) == {l \in DOMAIN memory : memory[l].item = i}
Apply(s) ==
  [i \in Items |-> IF (s = "ALL" \/ Scope[i] = s) /\ InMemory(i) # {}
                   THEN memory[CHOOSE l \in InMemory(i) : TRUE].value
                   ELSE applied[i]]

Init ==
  /\ firmwareloaded = FALSE /\ modeselected = FALSE /\ mode = None
  /\ map = NoEntries /\ modemap = NoEntries
  /\ memory = NoEntries /\ applied = [i \in Items |-> None]
  /\ stage = [c \in Clients |-> "idle"] /\ op = [c \in Clients |-> NoCommand]
  /\ todo = [c \in Clients |-> <<>>]
  /\ changed = [c \in Clients |-> {}] /\ wrote = [c \in Clients |-> FALSE]
  /\ error = [c \in Clients |-> "NO_ERROR"]
  /\ latest = None /\ astray = FALSE /\ failed = [c \in Clients |-> FALSE]

At(c, s) == stage' = [stage EXCEPT ![c] = s]
Err(c, e) == error' = [error EXCEPT ![c] = e]
Todo(c, s) == todo' = [todo EXCEPT ![c] = s]
Done(c, e) == At(c, "done") /\ Err(c, e) /\ Todo(c, <<>>)

-----------------------------------------------------------------------------
(* Steps of a command: writes of items and applications of scopes. *)
WriteStep(i, v) == [do |-> "write", item |-> i, value |-> v]
ApplyStep(s) == [do |-> "apply", scope |-> s]

(* The keys of a command, each APPLYMOD of preampgain after its own key, the
   others after the last one. *)
Plan(k) ==
  LET w == k.writes IN
  IF k.kind = "preampgain"
  THEN [n \in 1 .. 2 * Len(w) |->
          LET x == w[(n + 1) \div 2] IN
          IF n % 2 = 1 THEN WriteStep(x.item, x.value) ELSE ApplyStep(Scope[x.item])]
  ELSE Append([n \in 1 .. Len(w) |-> WriteStep(w[n].item, w[n].value)],
              ApplyStep(ScopeOf(k)))

ModePlan(m) ==
  LET s == modemap[m]
      Of(S) == LET q == SetToSeq(S) IN
               [n \in 1 .. Len(q) |-> WriteStep(q[n], s[q[n]])]
  IN Of(DOMAIN s \ Params) \o Of(DOMAIN s \cap Params)
       \o <<ApplyStep("PARAMS"), ApplyStep("CDS")>>

ModeOf(c) == IF op[c].kind = "load" THEN "DEFAULT" ELSE op[c].mode
(* Mutant: a mode can be set although no firmware is loaded. *)
ModeListed(m) == m \in DOMAIN modemap
ModeKnown(m) == firmwareloaded /\ m \in DOMAIN modemap

SetCameraMode(c, m) ==
  IF ModeKnown(m)
  THEN At(c, "steps") /\ Todo(c, ModePlan(m)) /\ Err(c, "NO_ERROR")
  ELSE Done(c, "ERROR")

NeedFirmware == {"bias", "heater", "sensor", "inreg", "preampgain"}

Begin(c, k) ==
  /\ stage[c] = "idle"
  /\ op' = [op EXCEPT ![c] = k]
  /\ changed' = [changed EXCEPT ![c] = {}] /\ wrote' = [wrote EXCEPT ![c] = FALSE]
  /\ UNCHANGED <<host, controller, history>>

(* Every command first checks the firmware (cds and shutter do not) and its
   arguments one after the other: their number, the module and its type, the
   channel, the range of each value, what the backplane supports. *)
Accepted(k, arguments) == arguments = "NO_ERROR" /\ (k.kind \in NeedFirmware => firmwareloaded)

(* A command that writes keys returns ERROR at the first check that fails,
   with nothing sent. *)
StartWrites(c) ==
  \E k \in Commands, arguments \in Codes :
    /\ k.kind \in WriteKinds /\ Begin(c, k)
    /\ IF Accepted(k, arguments)
       THEN At(c, "steps") /\ Todo(c, Plan(k)) /\ Err(c, "NO_ERROR")
       ELSE Done(c, "ERROR")

StartMode(c) ==
  \E k \in Commands : k.kind = "mode" /\ Begin(c, k) /\ SetCameraMode(c, k.mode)

StartParam(c) ==
  \E k \in Commands :
    /\ k.kind = "param" /\ Begin(c, k)
    /\ At(c, "param") /\ Err(c, "NO_ERROR") /\ UNCHANGED todo

StartLoad(c) ==
  \E k \in Commands :
    /\ k.kind = "load" /\ Begin(c, k)
    /\ IF Acf[k.file].opens
       THEN At(c, "polloff") /\ Err(c, "NO_ERROR") /\ UNCHANGED todo
       ELSE Done(c, "ERROR")

-----------------------------------------------------------------------------
(* load_acf *)

PollOff(c) ==
  /\ stage[c] = "polloff"
  /\ \E o \in Outcomes :
       IF o = "ok" THEN At(c, "clear") /\ UNCHANGED <<error, todo>> ELSE Done(c, "ERROR")
  /\ UNCHANGED <<host, controller, op, changed, wrote, history>>

(* A failure up to here leaves the maps and firmwareloaded as they were. *)
ClearConfig(c) ==
  /\ stage[c] = "clear"
  /\ \E o \in Outcomes :
       /\ memory' = IF Taken(o) THEN NoEntries ELSE memory
       /\ \/ /\ o = "ok" /\ firmwareloaded' = FALSE /\ modemap' = NoEntries
             /\ latest' = op[c].file /\ At(c, "line") /\ Todo(c, Acf[op[c].file].lines) /\ UNCHANGED error
          \/ o # "ok" /\ Done(c, "ERROR") /\ UNCHANGED <<firmwareloaded, modemap, latest>>
  /\ UNCHANGED <<modeselected, mode, map, applied, op, changed, wrote, astray, failed>>

(* Mutant: counted after the line. *)
CountFromOne(c) == Len(Acf[op[c].file].lines) - Len(todo[c]) + 1
LineCount(c) == Len(Acf[op[c].file].lines) - Len(todo[c])

(* After a failed WCONFIG no more lines are sent, but the maps are still filled. *)
LoadLine(c) ==
  /\ stage[c] = "line" /\ todo[c] # <<>>
  /\ LET w == Head(todo[c]) IN
     /\ map' = Put(map, w.item, [line |-> LineCount(c), value |-> w.value])
     /\ IF error[c] = "ERROR" THEN UNCHANGED <<memory, error>>
        ELSE \E o \in Outcomes :
               /\ memory' = Wconfig(LineCount(c), w, o)
               /\ Err(c, Code(o))
  /\ Todo(c, Tail(todo[c]))
  /\ UNCHANGED <<firmwareloaded, modeselected, mode, modemap, applied,
                 stage, op, changed, wrote, history>>

(* The settings of a mode must name items of the maps; a line that is wrong
   makes load_acf return at once. *)
LoadModes(c) ==
  /\ stage[c] = "line" /\ todo[c] = <<>>
  /\ LET acf == Acf[op[c].file]
         Valid(m) == DOMAIN acf.modes[m] \subseteq DOMAIN map
     IN /\ modemap' = [m \in {n \in DOMAIN acf.modes : Valid(n)} |-> acf.modes[m]]
        /\ IF acf.wellformed /\ \A m \in DOMAIN acf.modes : Valid(m)
           THEN At(c, "pollon") /\ UNCHANGED <<error, todo, astray>>
           ELSE Done(c, "ERROR") /\ astray' = TRUE
  /\ UNCHANGED <<firmwareloaded, modeselected, mode, map, controller, op, changed, wrote,
                 latest, failed>>

(* Mutant: loaded whatever happened. *)
LoadedAnyway(e) == TRUE
LoadedAfter(e) == firmwareloaded \/ e = "NO_ERROR"
(* Mutant: the old mode stays selected. *)
StaysSelected == modeselected
SelectedAfterLoad == FALSE

(* An error is replaced by what fetchlog returns. *)
LoadEnd(c) ==
  /\ stage[c] = "pollon"
  /\ \E o \in Outcomes, log \in Codes :
       LET e == IF error[c] = "NO_ERROR" THEN Code(o) ELSE "ERROR"
           r == IF e = "NO_ERROR" THEN e ELSE log
       IN /\ firmwareloaded' = LoadedAfter(e)
          /\ IF r = "NO_ERROR" THEN At(c, "apply") /\ Err(c, r) /\ UNCHANGED todo
             ELSE Done(c, r)
  /\ modeselected' = SelectedAfterLoad /\ astray' = FALSE
  /\ UNCHANGED <<mode, map, modemap, controller, op, changed, wrote, latest, failed>>

(* LOADTIMING of load_timing; APPLYALL of load_firmware, then mode DEFAULT. *)
LoadApply(c) ==
  /\ stage[c] = "apply"
  /\ \E o \in Outcomes :
       /\ applied' = IF ~Taken(o) THEN applied
                     ELSE IF op[c].then = "all" THEN Apply("ALL") ELSE Apply("PARAMS")
       /\ IF o = "ok" /\ op[c].then = "all" THEN SetCameraMode(c, "DEFAULT")
          ELSE Done(c, Code(o))
  /\ UNCHANGED <<host, memory, op, changed, wrote, history>>

-----------------------------------------------------------------------------
(* Writing items *)

StopsAtError(k) == k \notin {"heater", "preampgain"}

NextStep(c, e) ==
  /\ error' = [error EXCEPT ![c] = IF e = "ERROR" THEN e ELSE @]
  /\ Todo(c, IF e = "ERROR" /\ StopsAtError(op[c].kind) THEN <<>> ELSE Tail(todo[c]))

Step(c) == Head(todo[c])
(* Mutant: the map is updated although the write failed. *)
NotedAlways(o) == TRUE
Noted(o) == o = "ok"

(* load_acf does not clear the maps: the line of an item of an earlier file may
   be another item's now. *)
InPlace(i) == HasLine(map[i].line) /\ memory[map[i].line].item = i

NoChange(w) == w.item \in DOMAIN map /\ map[w.item].value = w.value

(* write_config_key, write_parameter: up to the reply to WCONFIG. *)
WriteItem(c) ==
  /\ stage[c] = "steps" /\ todo[c] # <<>> /\ Step(c).do = "write"
  /\ \/ /\ Step(c).item \notin DOMAIN map
        /\ NextStep(c, "ERROR") /\ UNCHANGED <<memory, stage, wrote, astray>>
     \/ /\ NoChange(Step(c))
        /\ NextStep(c, "NO_ERROR") /\ wrote' = [wrote EXCEPT ![c] = TRUE]
        /\ UNCHANGED <<memory, stage, astray>>
     \/ /\ Step(c).item \in DOMAIN map /\ ~NoChange(Step(c))
        /\ \E o \in Outcomes :
             /\ memory' = Wconfig(map[Step(c).item].line,
                                  [item |-> Step(c).item, value |-> Step(c).value], o)
             /\ astray' = (astray \/ (Taken(o) /\ ~InPlace(Step(c).item)))
             /\ IF Noted(o) THEN At(c, "note") /\ UNCHANGED <<error, todo>>
                ELSE NextStep(c, "ERROR") /\ UNCHANGED stage
        /\ UNCHANGED wrote
  /\ UNCHANGED <<host, applied, op, changed, latest, failed>>

(* ... and the note of the new value in the map. *)
NoteItem(c) ==
  /\ stage[c] = "note"
  /\ map' = [map EXCEPT ![Step(c).item].value = Step(c).value]
  /\ changed' = [changed EXCEPT ![c] = @ \cup
                   {IF Step(c).item \in Params THEN "PARAMS" ELSE "CDS"}]
  /\ wrote' = [wrote EXCEPT ![c] = TRUE]
  /\ At(c, "steps") /\ NextStep(c, "NO_ERROR")
  /\ UNCHANGED <<firmwareloaded, modeselected, mode, modemap, controller, op, history>>

(* Mutant: every command applies only what it changed itself. *)
DueIfWritten(c) == error[c] = "NO_ERROR" /\ changed[c] # {}
(* load_mode_settings applies only what it changed, heater if a key was
   written, preampgain while there was no error; the others always. *)
Due(c) ==
  CASE op[c].kind \in {"mode", "load"} -> Step(c).scope \in changed[c]
    [] op[c].kind = "heater" -> wrote[c]
    [] OTHER -> error[c] = "NO_ERROR"

ApplyItems(c) ==
  /\ stage[c] = "steps" /\ todo[c] # <<>> /\ Step(c).do = "apply"
  /\ IF Due(c)
     THEN \E o \in Outcomes :
            /\ applied' = IF Taken(o) THEN Apply(Step(c).scope) ELSE applied
            /\ NextStep(c, Code(o))
     ELSE UNCHANGED <<applied, error>> /\ Todo(c, Tail(todo[c]))
  /\ UNCHANGED <<host, memory, stage, op, changed, wrote, history>>

(* heater and sensor return the code of reading the keys back. *)
ReadBack(c) ==
  IF \A n \in DOMAIN op[c].writes : op[c].writes[n].item \in DOMAIN map
  THEN "NO_ERROR" ELSE "ERROR"

Conclude(c) ==
  /\ stage[c] = "steps" /\ todo[c] = <<>>
  /\ \/ /\ op[c].kind \in {"mode", "load"} /\ error[c] = "NO_ERROR"
        /\ At(c, "shutter") /\ UNCHANGED <<error, todo>>
     \/ /\ op[c].kind \in {"mode", "load"} /\ error[c] = "ERROR" /\ Done(c, "ERROR")
     \/ /\ op[c].kind \in WriteKinds
        /\ Done(c, IF op[c].kind = "sensor" \/ (op[c].kind = "heater" /\ wrote[c])
                   THEN ReadBack(c) ELSE error[c])
  /\ failed' = [failed EXCEPT ![c] = (error[c] = "ERROR")]
  /\ UNCHANGED <<host, controller, op, changed, wrote, latest, astray>>

-----------------------------------------------------------------------------
(* The rest of set_camera_mode, and set_parameter *)

(* FASTPREPPARAM and FASTLOADPARAM change the parameter in effect, and do not
   touch the map. *)
SetParameter(i, v, o) ==
  /\ applied' = IF Taken(o) THEN [applied EXCEPT ![i] = v] ELSE applied
  /\ memory' = [l \in DOMAIN memory |->
                  IF Taken(o) /\ FastStored /\ memory[l].item = i
                  THEN [item |-> i, value |-> v] ELSE memory[l]]

(* read_parameter: RCONFIG of the line that the map has for i must give a
   PARAMETER; which one is not compared. *)
ParameterRead(i, o) ==
  /\ o = "ok" /\ i \in DOMAIN map
  /\ HasLine(map[i].line) /\ memory[map[i].line].item \in Params

(* The end of load_mode_settings: read_parameter of ShutParam, shutter sets it
   to what was read, then the TAPLINEs of the map are parsed, and a bad one is an
   error although all the settings are in effect. *)
ModeShutter(c) ==
  /\ stage[c] = "shutter"
  /\ \E read \in Outcomes, set \in Outcomes, taps \in Codes :
       IF ParameterRead(ShutParam, read)
       THEN /\ SetParameter(ShutParam, memory[map[ShutParam].line].value, set)
            /\ IF set = "ok" /\ taps = "NO_ERROR" THEN At(c, "select") /\ UNCHANGED <<error, todo>>
               ELSE Done(c, "ERROR")
       ELSE Done(c, "ERROR") /\ UNCHANGED controller
  /\ UNCHANGED <<host, op, changed, wrote, history>>

(* The keys set_camera_mode needs, and get_frame_status.  The buffer for the
   image may fail after the mode is selected. *)
SelectMode(c) ==
  /\ stage[c] = "select"
  /\ \E o \in Outcomes, buffer \in Codes :
       IF Required \subseteq DOMAIN map /\ o = "ok"
       THEN mode' = ModeOf(c) /\ modeselected' = TRUE /\ Done(c, buffer)
       ELSE UNCHANGED <<mode, modeselected>> /\ Done(c, "ERROR")
  /\ UNCHANGED <<firmwareloaded, map, modemap, controller, op, changed, wrote, history>>

Param(c) ==
  /\ stage[c] = "param"
  /\ \E o \in Outcomes : SetParameter(op[c].item, op[c].value, o) /\ Done(c, Code(o))
  /\ UNCHANGED <<host, op, changed, wrote, history>>

Return(c) ==
  /\ stage[c] = "done" /\ At(c, "idle")
  /\ op' = [op EXCEPT ![c] = NoCommand] /\ Err(c, "NO_ERROR")
  /\ changed' = [changed EXCEPT ![c] = {}] /\ wrote' = [wrote EXCEPT ![c] = FALSE]
  /\ failed' = [failed EXCEPT ![c] = FALSE]
  /\ UNCHANGED <<host, controller, todo, latest, astray>>

Next ==
  \E c \in Clients :
    \/ StartWrites(c) \/ StartMode(c) \/ StartParam(c) \/ StartLoad(c)
    \/ PollOff(c) \/ ClearConfig(c) \/ LoadLine(c) \/ LoadModes(c) \/ LoadEnd(c) \/ LoadApply(c)
    \/ WriteItem(c) \/ NoteItem(c) \/ ApplyItems(c) \/ Conclude(c)
    \/ ModeShutter(c) \/ SelectMode(c) \/ Param(c) \/ Return(c)

Spec == Init /\ [][Next]_vars

-----------------------------------------------------------------------------
(* Properties *)

Lines == 0 .. Max({Len(Acf[f].lines) : f \in DOMAIN Acf}) - 1

TypeOK ==
  /\ firmwareloaded \in BOOLEAN /\ modeselected \in BOOLEAN /\ mode \in Modes \cup {None}
  /\ DOMAIN map \subseteq Items
  /\ \A i \in DOMAIN map : map[i] \in [line : Lines, value : Values]
  /\ DOMAIN modemap \subseteq Modes
  /\ DOMAIN memory \subseteq Lines /\ \A l \in DOMAIN memory : memory[l] \in Write
  /\ applied \in [Items -> Values \cup {None}]
  /\ stage \in [Clients -> Stages] /\ error \in [Clients -> Codes]
  /\ wrote \in [Clients -> BOOLEAN] /\ changed \in [Clients -> SUBSET {"PARAMS", "CDS"}]
  /\ \A c \in Clients : op[c] \in Commands \cup {NoCommand}
  /\ latest \in DOMAIN Acf \cup {None} /\ astray \in BOOLEAN
  /\ failed \in [Clients -> BOOLEAN]

Quiet == firmwareloaded /\ \A c \in Clients : stage[c] \in {"idle", "done"}

(* Between commands, with firmware loaded, the maps say of every line of the
   configuration memory what it holds: only then may write_config_key and
   write_parameter skip a value that is "no change". *)
MirrorExact ==
  Quiet => \A l \in DOMAIN memory :
             /\ memory[l].item \in DOMAIN map
             /\ map[memory[l].item] = [line |-> l, value |-> memory[l].value]

(* Between commands, firmwareloaded means that every line of the file loaded
   last is in the memory, at its line, and so does a selected mode, which is all
   that expose asks for: a load that was refused half way leaves neither.
   Exempt is astray: a malformed line makes load_acf return without clearing
   modeselected, and an item that only an earlier file has is still in the maps
   and is written over the line of another. *)
WholeFirmware ==
  (firmwareloaded \/ modeselected) /\ (\A c \in Clients : stage[c] \in {"idle", "done"})
    /\ ~astray
    => /\ DOMAIN memory = 0 .. Len(Acf[latest].lines) - 1
       /\ \A l \in DOMAIN memory : memory[l].item = Acf[latest].lines[l + 1].item

(* A command that changes keys of the loaded firmware and returns NO_ERROR has
   put its values into effect, also when it repeats one that failed after some
   of its steps.  Exempt are sensor and heater of which a step failed: they
   return the code of reading the map back, so that they report a write or an
   APPLYMOD that was refused as success. *)
SuccessApplied ==
  \A c \in Clients :
    /\ stage[c] = "done" /\ error[c] = "NO_ERROR" /\ op[c].kind \in WriteKinds
    /\ op[c].kind \in {"sensor", "heater"} => ~failed[c]
    /\ firmwareloaded /\ ~astray
    => \A n \in DOMAIN op[c].writes :
         op[c].writes[n].item \in ItemsOf(Acf[latest].lines)
           => applied[op[c].writes[n].item] = op[c].writes[n].value

(* load_firmware returns NO_ERROR only when the file is loaded and its mode
   DEFAULT selected, although load_acf replaces its own error by what fetchlog
   returns and load_firmware goes on to apply a half-loaded memory. *)
LoadReported ==
  \A c \in Clients :
    stage[c] = "done" /\ error[c] = "NO_ERROR" /\ op[c].kind = "load" /\ op[c].then = "all"
      => firmwareloaded /\ modeselected /\ mode = "DEFAULT"

(* set_camera_mode returns NO_ERROR only when the settings of the mode are in
   effect. *)
ModeApplied ==
  \A c \in Clients :
    stage[c] = "done" /\ error[c] = "NO_ERROR" /\ op[c].kind = "mode"
      => \A i \in DOMAIN modemap[op[c].mode] :
           Scope[i] \in {"PARAMS", "CDS"} => applied[i] = modemap[op[c].mode][i]

=============================================================================
