------------------------- MODULE ConfigMirror_proofs -------------------------
(***************************************************************************)
(* Theorems about ConfigMirror, for any files, commands and items.         *)
(***************************************************************************)
EXTENDS ConfigMirror, SequenceTheorems, TLAPS

(* The hypotheses.  There is one client. *)
OneClient == \E c : Clients = {c}

(* A command whose reply is lost had no effect, and FASTLOADPARAM does not
   change the memory. *)
Reliable == ~MayLose /\ ~FastStored

(* A file sets each of its items once. *)
DistinctLines == \A f \in DOMAIN Acf : Distinct(Acf[f].lines)

-----------------------------------------------------------------------------
(* The inductive invariants, each on those before it. *)

(* Types of what the commands keep. *)
Locals ==
  /\ stage \in [Clients -> Stages] /\ error \in [Clients -> Codes]
  /\ wrote \in [Clients -> BOOLEAN]
  /\ DOMAIN todo = Clients /\ DOMAIN op = Clients /\ DOMAIN changed = Clients
  /\ failed \in [Clients -> BOOLEAN] /\ astray \in BOOLEAN

(* Which commands go through which stages. *)
KindAt(c) ==
  /\ IF stage[c] = "idle" THEN op[c] = NoCommand ELSE op[c] \in Commands
  /\ stage[c] \in {"polloff", "clear", "line", "pollon", "apply"}
       => op[c].kind = "load" /\ Acf[op[c].file].opens
  /\ stage[c] \in {"steps", "note"} => op[c].kind \in WriteKinds \cup {"mode", "load"}
  /\ stage[c] \in {"shutter", "select"} => op[c].kind \in {"mode", "load"}
  /\ stage[c] = "param" => op[c].kind = "param"
  /\ stage[c] = "note" => todo[c] # <<>> /\ Step(c).do = "write"
  /\ op[c].kind \in WriteKinds => stage[c] \in {"steps", "note", "done"}

KindInv == \A c \in Clients : KindAt(c)

(* A mode is set, also at the end of a load, only with firmware. *)
ReportAt(c) ==
  /\ op[c].kind \in {"load", "mode"} /\ stage[c] \in {"steps", "note", "shutter", "select"}
       => firmwareloaded
  /\ op[c].kind = "load" =>
       (stage[c] = "done" /\ error[c] = "NO_ERROR" /\ op[c].then = "all" =>
          firmwareloaded /\ modeselected /\ mode = "DEFAULT")

ReportInv == \A c \in Clients : ReportAt(c)

(* A load: where it is in its file, and what it has put into the maps and the
   memory. *)
File(c) == Acf[op[c].file].lines
Loading(c) == stage[c] \in {"line", "pollon"}

(* The lines that are left of the file. *)
RestOfFile(c) ==
  /\ todo[c] \in Seq(Write) /\ Len(todo[c]) <= Len(File(c))
  /\ \A j \in 1 .. Len(todo[c]) : todo[c][j] = File(c)[LineCount(c) + j]

(* The first n lines of the file are in the maps, and in the memory. *)
Filled(c, n) == \A l \in 1 .. n : File(c)[l].item \in DOMAIN map
Holds(c, n) ==
  /\ DOMAIN memory = 0 .. n - 1
  /\ \A l \in 1 .. n : /\ memory[l - 1] = File(c)[l]
                       /\ map[File(c)[l].item] = [line |-> l - 1, value |-> File(c)[l].value]

LoadAt(c) ==
  /\ Loading(c) => ~firmwareloaded
  /\ stage[c] = "line" => RestOfFile(c) /\ Filled(c, LineCount(c))
  /\ stage[c] = "line" /\ error[c] = "NO_ERROR" => Holds(c, LineCount(c))
  /\ stage[c] = "pollon" => Filled(c, Len(File(c)))
  /\ stage[c] = "pollon" /\ error[c] = "NO_ERROR" => Holds(c, Len(File(c)))

LoadInv == \A c \in Clients : LoadAt(c)

(* The maps, the memory and the values in effect. *)
Tables ==
  /\ firmwareloaded \in BOOLEAN /\ modeselected \in BOOLEAN
  /\ \A i \in DOMAIN map : i \in Items /\ map[i] = [line |-> map[i].line, value |-> map[i].value]
  /\ memory = [l \in DOMAIN memory |-> memory[l]]
  /\ DOMAIN applied = Items

(* The maps say what the memory holds, but for an item i that is written, with
   the value v, and not yet noted. *)
Mirrors(i, v) ==
  \A l \in DOMAIN memory :
    /\ memory[l].item \in DOMAIN map /\ map[memory[l].item].line = l
    /\ memory[l].value = IF memory[l].item = i THEN v ELSE map[memory[l].item].value

Exact ==
  \A l \in DOMAIN memory :
    /\ memory[l].item \in DOMAIN map
    /\ map[memory[l].item] = [line |-> l, value |-> memory[l].value]

MirrorAt(c) ==
  firmwareloaded =>
    IF stage[c] = "note" THEN Step(c).item \in DOMAIN map /\ Mirrors(Step(c).item, Step(c).value)
    ELSE Exact

MirrorInv == \A c \in Clients : MirrorAt(c)

(* The memory has the items of the file loaded last on its lines. *)
Whole ==
  /\ DOMAIN memory = 0 .. Len(Acf[latest].lines) - 1
  /\ \A l \in DOMAIN memory : memory[l].item = Acf[latest].lines[l + 1].item

WholeInv ==
  /\ firmwareloaded => latest \in DOMAIN Acf
  /\ firmwareloaded /\ ~astray => Whole
  /\ \A c \in Clients : modeselected /\ ~astray => firmwareloaded \/ Loading(c)
  /\ \A c \in Clients : Loading(c) => latest = op[c].file

(* The steps of commands that write keys. *)
Actions == [do : {"write"}, item : Items, value : Values]
           \cup {ApplyStep(s) : s \in {"CDS", "SYSTEM"} \cup {Scope[i] : i \in Items}}

(* r is what is left of the steps s. *)
Rest(s, r) ==
  /\ r \in Seq(Actions) /\ Len(r) <= Len(s)
  /\ \A j \in 1 .. Len(r) : r[j] = s[(Len(s) - Len(r)) + j]

(* What the first p of the steps s have written is in the map, and what they
   have written and applied is in effect, if the firmware has the item. *)
InMap(s, p) ==
  \A q \in 1 .. p :
    s[q].do = "write" => s[q].item \in DOMAIN map /\ map[s[q].item].value = s[q].value
InEffect(s, p) ==
  \A q \in 1 .. p : \A r \in 1 .. q :
    /\ s[q].do = "apply" /\ s[r].do = "write" /\ Scope[s[r].item] = s[q].scope
    /\ s[r].item \in ItemsOf(Acf[latest].lines)
    => applied[s[r].item] = s[r].value

ReadsBack(k) == k.kind \in {"sensor", "heater"}

StepsAt(c) ==
  op[c].kind \in WriteKinds /\ error[c] = "NO_ERROR" /\ firmwareloaded /\ ~astray =>
    /\ stage[c] \in {"steps", "note"} =>
         LET s == Plan(op[c])
             p == Len(s) - Len(todo[c])
         IN Rest(s, todo[c]) /\ InMap(s, p) /\ InEffect(s, p) /\ (p # 0 => wrote[c])
    /\ stage[c] = "done" /\ (ReadsBack(op[c]) => ~failed[c])
         => InEffect(Plan(op[c]), Len(Plan(op[c])))

StepsInv == \A c \in Clients : StepsAt(c)

(* One client takes a step. *)
ClientStep(c) ==
  \/ StartWrites(c) \/ StartMode(c) \/ StartParam(c) \/ StartLoad(c)
  \/ PollOff(c) \/ ClearConfig(c) \/ LoadLine(c) \/ LoadModes(c) \/ LoadEnd(c) \/ LoadApply(c)
  \/ WriteItem(c) \/ NoteItem(c) \/ ApplyItems(c) \/ Conclude(c)
  \/ ModeShutter(c) \/ SelectMode(c) \/ Param(c) \/ Return(c)

-----------------------------------------------------------------------------
(* Locals, KindInv and ReportInv: stages of a command. *)

LEMMA LocalsStep ==
  ASSUME Locals, NEW c \in Clients, ClientStep(c)
  PROVE  Locals'
<1>0. Locals /\ c \in Clients
  OBVIOUS
<1>1. CASE StartWrites(c)
  BY <1>0, <1>1 DEF StartWrites, Begin, At, Err, Todo, Done, host, history, controller, Locals,
     Stages,
     Codes
<1>2. CASE StartMode(c)
  BY <1>0, <1>2 DEF StartMode, Begin, SetCameraMode, At, Err, Todo, Done, ModeKnown, host,
     history,
     controller, Locals, Stages, Codes
<1>3. CASE StartParam(c)
  BY <1>0, <1>3 DEF StartParam, Begin, At, Err, host, history, controller, Locals, Stages, Codes
<1>4. CASE StartLoad(c)
  BY <1>0, <1>4 DEF StartLoad, Begin, At, Err, Todo, Done, host, history, controller, Locals,
     Stages, Codes
<1>5. CASE PollOff(c)
  BY <1>0, <1>5 DEF PollOff, At, Err, Todo, Done, host, history, controller, Locals, Stages, Codes
<1>6. CASE ClearConfig(c)
  BY <1>0, <1>6 DEF ClearConfig, At, Err, Todo, Done, host, history, controller, Locals, Stages,
     Codes
<1>7. CASE LoadLine(c)
  BY <1>0, <1>7 DEF LoadLine, Err, Todo, Code, host, history, controller, Locals, Codes
<1>8. CASE LoadModes(c)
  BY <1>0, <1>8 DEF LoadModes, At, Err, Todo, Done, host, history, controller, Locals, Stages,
     Codes
<1>9. CASE LoadEnd(c)
  BY <1>0, <1>9 DEF LoadEnd, At, Err, Todo, Done, Code, host, history, controller, Locals, Stages
<1>10. CASE LoadApply(c)
  BY <1>0, <1>10 DEF LoadApply, SetCameraMode, At, Err, Todo, Done, Code, ModeKnown, host,
     history,
     controller, Locals, Stages, Codes
<1>11. CASE WriteItem(c)
  BY <1>0, <1>11 DEF WriteItem, At, NextStep, Todo, Step, host, history, controller, Locals,
     Stages, Codes
<1>12. CASE NoteItem(c)
  BY <1>0, <1>12 DEF NoteItem, At, NextStep, Todo, host, history, controller, Locals, Stages
<1>13. CASE ApplyItems(c)
  BY <1>0, <1>13 DEF ApplyItems, NextStep, Todo, Code, host, history, controller, Locals, Codes
<1>14. CASE Conclude(c)
  BY <1>0, <1>14 DEF Conclude, At, Err, Todo, Done, ReadBack, host, history, controller, Locals,
     Stages,
     Codes
<1>15. CASE ModeShutter(c)
  BY <1>0, <1>15 DEF ModeShutter, At, Err, Todo, Done, host, history, controller, Locals,
     Stages, Codes
<1>16. CASE SelectMode(c)
  BY <1>0, <1>16 DEF SelectMode, At, Err, Todo, Done, ModeOf, host, history, controller, Locals,
     Stages,
     Codes
<1>17. CASE Param(c)
  BY <1>0, <1>17 DEF Param, At, Err, Todo, Done, Code, host, history, controller, Locals,
     Stages, Codes
<1>18. CASE Return(c)
  BY <1>0, <1>18 DEF Return, At, Err, host, history, controller, Locals, Stages, Codes
<1>. QED
  BY <1>1, <1>2, <1>3, <1>4, <1>5, <1>6, <1>7, <1>8, <1>9, <1>10, <1>11, <1>12, <1>13, <1>14,
     <1>15, <1>16, <1>17, <1>18 DEF ClientStep

LEMMA KindStep ==
  ASSUME OneClient, Locals, KindInv, NEW c \in Clients, ClientStep(c)
  PROVE  KindInv'
<1>0. Locals /\ KindAt(c) /\ c \in Clients /\ \A d \in Clients : d = c
  BY DEF OneClient, KindInv
<1>. SUFFICES KindAt(c)'
  BY <1>0 DEF KindInv
<1>1. CASE StartWrites(c)
  BY <1>0, <1>1 DEF StartWrites, Begin, At, Err, Todo, Done, host, controller, Locals, KindAt
<1>2. CASE StartMode(c)
  BY <1>0, <1>2 DEF StartMode, Begin, SetCameraMode, At, Err, Todo, Done, ModeKnown, host,
     controller, Locals, KindAt
<1>3. CASE StartParam(c)
  BY <1>0, <1>3 DEF StartParam, Begin, At, Err, host, controller, Locals, KindAt, WriteKinds
<1>4. CASE StartLoad(c)
  BY <1>0, <1>4 DEF StartLoad, Begin, At, Err, Todo, Done, host, controller, Locals, KindAt,
     WriteKinds
<1>5. CASE PollOff(c)
  BY <1>0, <1>5 DEF PollOff, At, Err, Todo, Done, host, controller, Locals, KindAt
<1>6. CASE ClearConfig(c)
  BY <1>0, <1>6 DEF ClearConfig, At, Err, Todo, Done, host, controller, Locals, KindAt
<1>7. CASE LoadLine(c)
  BY <1>0, <1>7 DEF LoadLine, Err, Todo, Code, host, controller, Locals, KindAt
<1>8. CASE LoadModes(c)
  BY ZenonT(40), <1>0, <1>8 DEF LoadModes, At, Err, Todo, Done, host, controller, Locals, KindAt
<1>9. CASE LoadEnd(c)
  BY <1>0, <1>9 DEF LoadEnd, At, Err, Todo, Done, Code, host, controller, Locals, KindAt
<1>10. CASE LoadApply(c)
  BY <1>0, <1>10 DEF LoadApply, SetCameraMode, At, Err, Todo, Done, Code, ModeKnown, host,
     controller, Locals, KindAt
<1>11. CASE WriteItem(c)
  BY <1>0, <1>11 DEF WriteItem, At, NextStep, Todo, Step, host, controller, Locals, KindAt
<1>12. CASE NoteItem(c)
  BY <1>0, <1>12 DEF NoteItem, At, NextStep, Todo, host, controller, Locals, KindAt
<1>13. CASE ApplyItems(c)
  BY <1>0, <1>13 DEF ApplyItems, NextStep, Todo, Code, host, controller, Locals, KindAt
<1>14. CASE Conclude(c)
  BY <1>0, <1>14 DEF Conclude, At, Err, Todo, Done, ReadBack, host, controller, Locals, KindAt,
     WriteKinds
<1>15. CASE ModeShutter(c)
  BY <1>0, <1>15 DEF ModeShutter, At, Err, Todo, Done, host, controller, Locals, KindAt
<1>16. CASE SelectMode(c)
  BY <1>0, <1>16 DEF SelectMode, At, Err, Todo, Done, ModeOf, host, controller, Locals, KindAt
<1>17. CASE Param(c)
  BY <1>0, <1>17 DEF Param, At, Err, Todo, Done, Code, host, controller, Locals, KindAt
<1>18. CASE Return(c)
  BY <1>0, <1>18 DEF Return, At, Err, host, controller, Locals, KindAt, NoCommand, None,
     WriteKinds
<1>. QED
  BY <1>1, <1>2, <1>3, <1>4, <1>5, <1>6, <1>7, <1>8, <1>9, <1>10, <1>11, <1>12, <1>13, <1>14,
     <1>15, <1>16, <1>17, <1>18 DEF ClientStep

(* The end of a load. *)
LEMMA ReportStep ==
  ASSUME OneClient, Locals, KindInv, ReportInv, NEW c \in Clients, ClientStep(c)
  PROVE  ReportInv'
<1>0. Locals /\ KindAt(c) /\ ReportAt(c) /\ c \in Clients /\ \A d \in Clients : d = c
  BY DEF OneClient, KindInv, ReportInv
<1>. SUFFICES ReportAt(c)'
  BY <1>0 DEF ReportInv
<1>1. CASE StartWrites(c)
  BY <1>0, <1>1 DEF StartWrites, Begin, At, Err, Todo, Done, host, controller, Locals, KindAt,
     ReportAt, WriteKinds
<1>2. CASE StartMode(c)
  BY <1>0, <1>2 DEF StartMode, Begin, SetCameraMode, At, Err, Todo, Done, ModeKnown, host,
     controller, Locals, KindAt, ReportAt
<1>3. CASE StartParam(c)
  BY <1>0, <1>3 DEF StartParam, Begin, At, Err, host, controller, Locals, KindAt, ReportAt
<1>4. CASE StartLoad(c)
  BY <1>0, <1>4 DEF StartLoad, Begin, At, Err, Todo, Done, host, controller, Locals, KindAt,
     ReportAt
<1>5. CASE PollOff(c)
  BY <1>0, <1>5 DEF PollOff, At, Err, Todo, Done, host, controller, Locals, KindAt, ReportAt
<1>6. CASE ClearConfig(c)
  BY <1>0, <1>6 DEF ClearConfig, At, Err, Todo, Done, host, controller, Locals, KindAt, ReportAt
<1>7. CASE LoadLine(c)
  BY <1>0, <1>7 DEF LoadLine, Err, Todo, Code, host, controller, Locals, KindAt, ReportAt
<1>8. CASE LoadModes(c)
  BY <1>0, <1>8 DEF LoadModes, At, Err, Todo, Done, host, controller, Locals, KindAt, ReportAt
<1>9. CASE LoadEnd(c)
  BY <1>0, <1>9 DEF LoadEnd, At, Err, Todo, Done, Code, host, controller, Locals, KindAt, ReportAt
<1>10. CASE LoadApply(c)
  BY <1>0, <1>10 DEF LoadApply, SetCameraMode, At, Err, Todo, Done, Code, ModeKnown, host,
     controller, Locals, KindAt, ReportAt
<1>11. CASE WriteItem(c)
  BY <1>0, <1>11 DEF WriteItem, At, NextStep, Todo, Step, host, controller, Locals, KindAt,
     ReportAt
<1>12. CASE NoteItem(c)
  BY <1>0, <1>12 DEF NoteItem, At, NextStep, Todo, host, controller, Locals, KindAt, ReportAt
<1>13. CASE ApplyItems(c)
  BY <1>0, <1>13 DEF ApplyItems, NextStep, Todo, Code, host, controller, Locals, KindAt, ReportAt
<1>14. CASE Conclude(c)
  BY <1>0, <1>14 DEF Conclude, At, Err, Todo, Done, ReadBack, host, controller, Locals, KindAt,
     ReportAt, WriteKinds
<1>15. CASE ModeShutter(c)
  BY <1>0, <1>15 DEF ModeShutter, At, Err, Todo, Done, host, controller, Locals, KindAt, ReportAt
<1>16. CASE SelectMode(c)
  BY <1>0, <1>16 DEF SelectMode, At, Err, Todo, Done, ModeOf, host, controller, Locals, KindAt,
     ReportAt
<1>17. CASE Param(c)
  BY <1>0, <1>17 DEF Param, At, Err, Todo, Done, Code, host, controller, Locals, KindAt, ReportAt
<1>18. CASE Return(c)
  BY <1>0, <1>18 DEF Return, At, Err, host, controller, Locals, KindAt, ReportAt
<1>. QED
  BY <1>1, <1>2, <1>3, <1>4, <1>5, <1>6, <1>7, <1>8, <1>9, <1>10, <1>11, <1>12, <1>13, <1>14,
     <1>15, <1>16, <1>17, <1>18 DEF ClientStep

-----------------------------------------------------------------------------
(* LoadInv *)

(* A file of a lines, of which b are left after the first n. *)
Counted(a, b, n) ==
  /\ n \in Nat /\ n + 1 \in 1 .. a /\ a - (b - 1) = n + 1 /\ (n + 1) - 1 = n
  /\ b - 1 <= a /\ 0 .. (n + 1) - 1 = (0 .. n - 1) \cup {n}
  /\ \A j \in 1 .. b - 1 : j + 1 \in 1 .. b /\ n + (j + 1) = n + 1 + j
  /\ \A l \in 1 .. n : l \in 1 .. a /\ l # n + 1 /\ l - 1 \in 0 .. n - 1 /\ l - 1 # n
  /\ \A l \in 1 .. n + 1 : l \in 1 .. n \/ l = n + 1

LEMMA Counting ==
  \A a \in Nat : \A b \in Nat \ {0} : b <= a => Counted(a, b, a - b)
  BY DEF Counted

(* A load, line by line. *)
LEMMA LoadStep ==
  ASSUME OneClient, DistinctLines, Locals, KindInv, LoadInv, NEW c \in Clients, ClientStep(c)
  PROVE  LoadInv'
<1>0. Locals /\ KindAt(c) /\ LoadAt(c) /\ c \in Clients /\ \A d \in Clients : d = c
  BY DEF OneClient, KindInv, LoadInv
<1>. SUFFICES LoadAt(c)'
  BY <1>0 DEF LoadInv
<1>1. CASE StartWrites(c)
  BY <1>0, <1>1 DEF StartWrites, Begin, At, Err, Todo, Done, host, controller, Locals, LoadAt,
     Loading
<1>2. CASE StartMode(c)
  BY <1>0, <1>2 DEF StartMode, Begin, SetCameraMode, At, Err, Todo, Done, host, controller,
     Locals, LoadAt, Loading
<1>3. CASE StartParam(c)
  BY <1>0, <1>3 DEF StartParam, Begin, At, Err, host, controller, Locals, LoadAt, Loading
<1>4. CASE StartLoad(c)
  BY <1>0, <1>4 DEF StartLoad, Begin, At, Err, Todo, Done, host, controller, Locals, LoadAt,
     Loading
<1>5. CASE PollOff(c)
  BY <1>0, <1>5 DEF PollOff, At, Err, Todo, Done, host, controller, Locals, LoadAt, Loading
<1>6. CASE ClearConfig(c)
  <2>0. /\ op' = op /\ op[c].kind = "load" /\ op[c] \in Commands
        /\ stage' \in [Clients -> Stages]
    BY <1>0, <1>6 DEF ClearConfig, KindAt, Locals, At, Done, Stages
  <2>1. File(c) \in Seq(Write)
    <3>1. op[c] \in Command /\ op[c].kind = "load"
      BY <2>0, ConfigAssumption
    <3>2. op[c].file \in DOMAIN Acf
      BY <3>1 DEF Command, WriteKinds
    <3>. QED
      BY <3>2, ConfigAssumption DEF File
  <2>2. CASE stage'[c] = "line"
    <3>1. /\ ~firmwareloaded' /\ todo'[c] = File(c) /\ DOMAIN memory' = {}
      BY <1>0, <1>6, <2>2 DEF ClearConfig, At, Todo, Done, Locals, Taken, NoEntries, File
    <3>2. LineCount(c)' = 0 /\ File(c)' = File(c) /\ 1 .. 0 = {} /\ 0 .. 0 - 1 = {}
      BY <2>0, <2>1, <3>1 DEF LineCount, File
    <3>3. \A j \in 1 .. Len(File(c)) : 0 + j = j
      BY <2>1
    <3>4. RestOfFile(c)'
      BY <2>1, <3>1, <3>2, <3>3 DEF RestOfFile
    <3>5. Filled(c, LineCount(c))' /\ Holds(c, LineCount(c))'
      BY <3>1, <3>2 DEF Filled, Holds
    <3>. QED
      BY <2>2, <3>1, <3>4, <3>5 DEF LoadAt
  <2>3. CASE stage'[c] = "done"
    BY <2>3 DEF LoadAt, Loading
  <2>. QED
    BY <1>0, <1>6, <2>2, <2>3 DEF ClearConfig, At, Done, Locals
<1>7. CASE LoadLine(c)
  <2>. PICK n : n = LineCount(c)
    OBVIOUS
  <2>. PICK w : w = Head(todo[c])
    OBVIOUS
  <2>0. /\ stage[c] = "line" /\ stage' = stage /\ op' = op /\ todo[c] # <<>>
        /\ todo'[c] = Tail(todo[c]) /\ firmwareloaded' = firmwareloaded
        /\ map' = Put(map, w.item, [line |-> n, value |-> w.value])
    BY <1>0, <1>7 DEF LoadLine, Todo, Locals
  <2>1. /\ ~firmwareloaded /\ RestOfFile(c) /\ Filled(c, n)
        /\ error[c] = "NO_ERROR" => Holds(c, n)
    BY <1>0, <2>0 DEF LoadAt, Loading
  <2>2. /\ Len(todo[c]) \in Nat \ {0} /\ w = todo[c][1] /\ w \in Write
        /\ Tail(todo[c]) \in Seq(Write) /\ Len(Tail(todo[c])) = Len(todo[c]) - 1
        /\ \A j \in 1 .. Len(todo[c]) - 1 : Tail(todo[c])[j] = todo[c][j + 1]
    BY <2>0, <2>1 DEF RestOfFile
  <2>3. /\ op[c].file \in DOMAIN Acf /\ File(c) \in Seq(Write) /\ Len(File(c)) \in Nat
    <3>1. op[c] \in Command /\ op[c].kind = "load"
      BY <1>0, <2>0, ConfigAssumption DEF KindAt
    <3>2. op[c].file \in DOMAIN Acf
      BY <3>1 DEF Command, WriteKinds
    <3>. QED
      BY <3>2, ConfigAssumption DEF File
  <2>. PICK a, b : a = Len(File(c)) /\ b = Len(todo[c])
    OBVIOUS
  <2>4. /\ a \in Nat /\ b \in Nat \ {0} /\ b <= a /\ n = a - b
        /\ DOMAIN File(c) = 1 .. a /\ Len(Tail(todo[c])) = b - 1
    <3>1. b <= a
      BY <2>1 DEF RestOfFile
    <3>2. n = a - b
      BY DEF LineCount, File
    <3>. QED
      BY <2>2, <2>3, <3>1, <3>2
  <2>4a. Counted(a, b, n)
    BY <2>4, Counting
  <2>5. File(c)' = File(c) /\ LineCount(c)' = n + 1
    <3>1. File(c)' = File(c)
      BY <2>0 DEF File
    <3>2. LineCount(c)' = a - Len(Tail(todo[c]))
      BY <2>0 DEF File, LineCount
    <3>. QED
      BY <2>4, <2>4a, <3>1, <3>2 DEF Counted
  <2>6. w = File(c)[n + 1]
    BY <2>1, <2>2 DEF RestOfFile
  <2>7. RestOfFile(c)'
    <3>1. ASSUME NEW j \in 1 .. b - 1
          PROVE  Tail(todo[c])[j] = File(c)[n + 1 + j]
      <4>1. j + 1 \in 1 .. Len(todo[c]) /\ n + (j + 1) = n + 1 + j
        BY <2>4a DEF Counted
      <4>2. Tail(todo[c])[j] = todo[c][j + 1]
        BY <2>2
      <4>3. todo[c][j + 1] = File(c)[n + (j + 1)]
        BY <2>1, <4>1 DEF RestOfFile
      <4>. QED
        BY <4>1, <4>2, <4>3
    <3>. QED
      BY <2>0, <2>2, <2>4, <2>4a, <2>5, <3>1 DEF RestOfFile, Counted
  <2>8. /\ DOMAIN map' = DOMAIN map \cup {w.item}
        /\ map'[w.item] = [line |-> n, value |-> w.value]
        /\ \A i \in DOMAIN map : i # w.item => map'[i] = map[i]
    BY <2>0 DEF Put
  <2>9. \A l \in 1 .. n + 1 : l \in 1 .. n \/ l = n + 1
    BY <2>4a DEF Counted
  <2>10. Filled(c, n + 1)'
    BY <2>1, <2>5, <2>6, <2>8, <2>9 DEF Filled
  <2>11. ASSUME error'[c] = "NO_ERROR" PROVE Holds(c, n + 1)'
    <3>1. error[c] = "NO_ERROR"
      BY <1>0, <1>7, <2>11 DEF LoadLine, Err, Locals, Codes
    <3>2. memory' = Put(memory, n, w)
      BY <1>0, <1>7, <2>11 DEF LoadLine, Wconfig, Err, Code, Taken, Locals
    <3>3. /\ DOMAIN memory = 0 .. n - 1
          /\ \A l \in 1 .. n :
               /\ memory[l - 1] = File(c)[l]
               /\ map[File(c)[l].item] = [line |-> l - 1, value |-> File(c)[l].value]
      BY <2>1, <3>1 DEF Holds
    <3>4. DOMAIN memory' = 0 .. (n + 1) - 1 /\ memory'[n] = w
      BY <2>4a, <3>2, <3>3 DEF Put, Counted
    <3>5. ASSUME NEW l \in 1 .. n
          PROVE  /\ memory'[l - 1] = File(c)[l]
                 /\ map'[File(c)[l].item] = [line |-> l - 1, value |-> File(c)[l].value]
      <4>1. l - 1 \in 0 .. n - 1 /\ l - 1 # n
        BY <2>4a DEF Counted
      <4>2. memory'[l - 1] = memory[l - 1]
        BY <3>2, <3>3, <4>1 DEF Put
      <4>3. File(c)[l].item # w.item
        <5>1. l \in DOMAIN File(c) /\ n + 1 \in DOMAIN File(c) /\ l # n + 1
          BY <2>4, <2>4a DEF Counted
        <5>2. Distinct(File(c))
          BY <2>3 DEF DistinctLines, File
        <5>. QED
          BY <2>6, <5>1, <5>2 DEF Distinct
      <4>4. File(c)[l].item \in DOMAIN map
        BY <2>1 DEF Filled
      <4>. QED
        BY <2>8, <3>3, <4>2, <4>3, <4>4
    <3>6. /\ memory'[(n + 1) - 1] = File(c)[n + 1]
          /\ map'[File(c)[n + 1].item] = [line |-> (n + 1) - 1, value |-> File(c)[n + 1].value]
      <4>1. (n + 1) - 1 = n
        BY <2>4a DEF Counted
      <4>. QED
        BY <2>6, <2>8, <3>4, <4>1
    <3>. QED
      BY <2>5, <2>9, <3>4, <3>5, <3>6 DEF Holds
  <2>. QED
    BY <2>0, <2>1, <2>5, <2>7, <2>10, <2>11 DEF LoadAt
<1>8. CASE LoadModes(c)
  <2>0. /\ stage[c] = "line" /\ op' = op /\ todo[c] = <<>> /\ firmwareloaded' = firmwareloaded
        /\ map' = map /\ memory' = memory
    BY <1>8 DEF LoadModes, controller
  <2>1. LineCount(c) = Len(File(c))
    <3>1. op[c] \in Command /\ op[c].kind = "load"
      BY <1>0, <2>0, ConfigAssumption DEF KindAt
    <3>2. op[c].file \in DOMAIN Acf
      BY <3>1 DEF Command, WriteKinds
    <3>3. File(c) \in Seq(Write) /\ Len(<<>>) = 0
      BY <3>2, ConfigAssumption DEF File
    <3>. QED
      BY <2>0, <3>3 DEF LineCount, File
  <2>2. CASE stage'[c] = "pollon"
    <3>1. error'[c] = error[c]
      BY <1>0, <1>8, <2>2 DEF LoadModes, At, Done, Locals
    <3>. QED
      BY <1>0, <2>0, <2>1, <2>2, <3>1 DEF LoadAt, Loading, Filled, Holds, File
  <2>3. CASE stage'[c] = "done"
    BY <2>3 DEF LoadAt, Loading
  <2>. QED
    BY <1>0, <1>8, <2>2, <2>3 DEF LoadModes, At, Done, Locals
<1>9. CASE LoadEnd(c)
  BY <1>0, <1>9 DEF LoadEnd, At, Err, Todo, Done, Code, host, controller, Locals, LoadAt, Loading
<1>10. CASE LoadApply(c)
  BY <1>0, <1>10 DEF LoadApply, SetCameraMode, At, Err, Todo, Done, Code, ModeKnown, host,
     controller, Locals, LoadAt, Loading
<1>11. CASE WriteItem(c)
  BY <1>0, <1>11 DEF WriteItem, At, NextStep, Todo, Step, host, controller, Locals, LoadAt,
     Loading
<1>12. CASE NoteItem(c)
  BY <1>0, <1>12 DEF NoteItem, At, NextStep, Todo, host, controller, Locals, LoadAt, Loading
<1>13. CASE ApplyItems(c)
  BY <1>0, <1>13 DEF ApplyItems, NextStep, Todo, Code, host, controller, Locals, LoadAt, Loading
<1>14. CASE Conclude(c)
  BY <1>0, <1>14 DEF Conclude, At, Err, Todo, Done, ReadBack, host, controller, Locals, LoadAt,
     Loading
<1>15. CASE ModeShutter(c)
  BY <1>0, <1>15 DEF ModeShutter, At, Err, Todo, Done, host, controller, Locals, LoadAt, Loading
<1>16. CASE SelectMode(c)
  BY <1>0, <1>16 DEF SelectMode, At, Err, Todo, Done, ModeOf, host, controller, Locals, LoadAt,
     Loading
<1>17. CASE Param(c)
  BY <1>0, <1>17 DEF Param, At, Err, Todo, Done, Code, host, controller, Locals, LoadAt, Loading
<1>18. CASE Return(c)
  BY <1>0, <1>18 DEF Return, At, Err, host, controller, Locals, LoadAt, Loading
<1>. QED
  BY <1>1, <1>2, <1>3, <1>4, <1>5, <1>6, <1>7, <1>8, <1>9, <1>10, <1>11, <1>12, <1>13, <1>14,
     <1>15, <1>16, <1>17, <1>18 DEF ClientStep

-----------------------------------------------------------------------------
(* Tables and MirrorInv *)

(* The types of the maps and the memory. *)
LEMMA TablesStep ==
  ASSUME OneClient, Locals, KindInv, LoadInv, Tables, NEW c \in Clients, ClientStep(c)
  PROVE  Tables'
<1>0. Tables /\ LoadAt(c)
  BY DEF LoadInv
<1>1. CASE StartWrites(c)
  BY <1>0, <1>1 DEF StartWrites, Begin, At, Err, Todo, Done, host, controller, Tables
<1>2. CASE StartMode(c)
  BY <1>0, <1>2 DEF StartMode, Begin, SetCameraMode, At, Err, Todo, Done, host, controller, Tables
<1>3. CASE StartParam(c)
  BY <1>0, <1>3 DEF StartParam, Begin, At, Err, host, controller, Tables
<1>4. CASE StartLoad(c)
  BY <1>0, <1>4 DEF StartLoad, Begin, At, Err, Todo, Done, host, controller, Tables
<1>5. CASE PollOff(c)
  BY <1>0, <1>5 DEF PollOff, At, Err, Todo, Done, host, controller, Tables
<1>6. CASE ClearConfig(c)
  BY <1>0, <1>6 DEF ClearConfig, At, Err, Todo, Done, host, controller, Tables, NoEntries
<1>7. CASE LoadLine(c)
  <2>1. Head(todo[c]).item \in Items
    <3>1. todo[c] \in Seq(Write) /\ todo[c] # <<>>
      BY <1>0, <1>7 DEF LoadLine, LoadAt, RestOfFile
    <3>2. Head(todo[c]) \in Write
      BY <3>1
    <3>. QED
      BY <3>2 DEF Write
  <2>. QED
    BY <1>0, <1>7, <2>1 DEF LoadLine, Wconfig, Tables, Put
<1>8. CASE LoadModes(c)
  BY <1>0, <1>8 DEF LoadModes, At, Err, Todo, Done, host, controller, Tables
<1>9. CASE LoadEnd(c)
  BY <1>0, <1>9 DEF LoadEnd, LoadedAfter, SelectedAfterLoad, controller, Tables
<1>10. CASE LoadApply(c)
  BY <1>0, <1>10 DEF LoadApply, SetCameraMode, At, Err, Todo, Done, Code, ModeKnown, host,
     controller, Tables, Apply
<1>11. CASE WriteItem(c)
  BY <1>0, <1>11 DEF WriteItem, Wconfig, At, NextStep, Todo, Step, host, controller, Tables, Put
<1>12. CASE NoteItem(c)
  BY <1>0, <1>12 DEF NoteItem, At, NextStep, Todo, host, controller, Tables
<1>13. CASE ApplyItems(c)
  BY <1>0, <1>13 DEF ApplyItems, NextStep, Todo, Code, host, controller, Tables, Apply
<1>14. CASE Conclude(c)
  BY <1>0, <1>14 DEF Conclude, At, Err, Todo, Done, ReadBack, host, controller, Tables
<1>15. CASE ModeShutter(c)
  <2>1. DOMAIN applied' = DOMAIN applied
    BY <1>15 DEF ModeShutter, SetParameter, controller
  <2>2. memory' = [l \in DOMAIN memory' |-> memory'[l]]
    BY <1>0, <1>15 DEF ModeShutter, SetParameter, controller, Tables
  <2>. QED
    BY <1>0, <1>15, <2>1, <2>2 DEF ModeShutter, host, Tables
<1>16. CASE SelectMode(c)
  BY <1>0, <1>16 DEF SelectMode, At, Err, Todo, Done, ModeOf, host, controller, Tables
<1>17. CASE Param(c)
  <2>1. DOMAIN applied' = DOMAIN applied
    BY <1>17 DEF Param, SetParameter
  <2>2. memory' = [l \in DOMAIN memory' |-> memory'[l]]
    BY <1>0, <1>17 DEF Param, SetParameter
  <2>. QED
    BY <1>0, <1>17, <2>1, <2>2 DEF Param, host, Tables
<1>18. CASE Return(c)
  BY <1>0, <1>18 DEF Return, At, Err, host, controller, Tables
<1>. QED
  BY <1>1, <1>2, <1>3, <1>4, <1>5, <1>6, <1>7, <1>8, <1>9, <1>10, <1>11, <1>12, <1>13, <1>14,
     <1>15, <1>16, <1>17, <1>18 DEF ClientStep

(* What is in the maps and the memory after a load agrees. *)
LEMMA HeldIsExact ==
  ASSUME KindInv, NEW c \in Clients, stage[c] = "pollon",
         Filled(c, Len(File(c))), Holds(c, Len(File(c)))
  PROVE  Exact
<1>1. op[c] \in Command /\ op[c].kind = "load"
  BY ConfigAssumption DEF KindInv, KindAt
<1>2. op[c].file \in DOMAIN Acf
  BY <1>1 DEF Command, WriteKinds
<1>3. Len(File(c)) \in Nat
  <2>1. File(c) \in Seq(Write)
    BY <1>2, ConfigAssumption DEF File
  <2>. QED
    BY <2>1
<1>4. ASSUME NEW l \in DOMAIN memory
      PROVE  /\ memory[l].item \in DOMAIN map
             /\ map[memory[l].item] = [line |-> l, value |-> memory[l].value]
  <2>1. l + 1 \in 1 .. Len(File(c)) /\ (l + 1) - 1 = l
    BY <1>3 DEF Holds
  <2>2. /\ memory[(l + 1) - 1] = File(c)[l + 1]
        /\ map[File(c)[l + 1].item] = [line |-> (l + 1) - 1, value |-> File(c)[l + 1].value]
        /\ File(c)[l + 1].item \in DOMAIN map
    BY <2>1 DEF Holds, Filled
  <2>. QED
    BY <2>1, <2>2
<1>. QED
  BY <1>4 DEF Exact

(* The maps go with the memory: after a load, and over each write of an item. *)
LEMMA MirrorStep ==
  ASSUME OneClient, Reliable, Locals, KindInv, LoadInv, Tables, MirrorInv,
         NEW c \in Clients, ClientStep(c)
  PROVE  MirrorInv'
<1>0. /\ Locals /\ KindInv /\ KindAt(c) /\ LoadAt(c) /\ Tables /\ MirrorAt(c) /\ Reliable
      /\ c \in Clients /\ \A d \in Clients : d = c
  BY DEF OneClient, KindInv, LoadInv, MirrorInv
<1>. SUFFICES MirrorAt(c)'
  BY <1>0 DEF MirrorInv
<1>1. CASE StartWrites(c)
  <2>1. /\ UNCHANGED <<firmwareloaded, map, memory>>
        /\ stage[c] # "note" /\ stage'[c] # "note"
    BY <1>0, <1>1 DEF StartWrites, Begin, At, Err, Todo, Done, host, controller, Locals
  <2>. QED
    BY <1>0, <2>1 DEF MirrorAt, Exact
<1>2. CASE StartMode(c)
  <2>1. /\ UNCHANGED <<firmwareloaded, map, memory>>
        /\ stage[c] # "note" /\ stage'[c] # "note"
    BY <1>0, <1>2 DEF StartMode, Begin, SetCameraMode, At, Err, Todo, Done, host, controller,
       Locals
  <2>. QED
    BY <1>0, <2>1 DEF MirrorAt, Exact
<1>3. CASE StartParam(c)
  <2>1. /\ UNCHANGED <<firmwareloaded, map, memory>>
        /\ stage[c] # "note" /\ stage'[c] # "note"
    BY <1>0, <1>3 DEF StartParam, Begin, At, Err, host, controller
  <2>. QED
    BY <1>0, <2>1 DEF MirrorAt, Exact
<1>4. CASE StartLoad(c)
  <2>1. /\ UNCHANGED <<firmwareloaded, map, memory>>
        /\ stage[c] # "note" /\ stage'[c] # "note"
    BY <1>0, <1>4 DEF StartLoad, Begin, At, Err, Todo, Done, host, controller, Locals
  <2>. QED
    BY <1>0, <2>1 DEF MirrorAt, Exact
<1>5. CASE PollOff(c)
  <2>1. /\ UNCHANGED <<firmwareloaded, map, memory>>
        /\ stage[c] # "note" /\ stage'[c] # "note"
    BY <1>0, <1>5 DEF PollOff, At, Err, Todo, Done, host, controller, Locals
  <2>. QED
    BY <1>0, <2>1 DEF MirrorAt, Exact
<1>6. CASE ClearConfig(c)
  <2>1. CASE firmwareloaded' = FALSE
    BY <2>1 DEF MirrorAt
  <2>2. CASE firmwareloaded' # FALSE
    <3>1. /\ UNCHANGED <<firmwareloaded, map, memory>>
          /\ stage[c] # "note" /\ stage'[c] # "note"
      BY <1>0, <1>6, <2>2 DEF ClearConfig, At, Done, Locals, Taken, Reliable, Outcomes
    <3>. QED
      BY <1>0, <3>1 DEF MirrorAt, Exact
  <2>. QED
    BY <2>1, <2>2
<1>7. CASE LoadLine(c)
  BY <1>0, <1>7 DEF LoadLine, LoadAt, Loading, MirrorAt
<1>8. CASE LoadModes(c)
  BY <1>0, <1>8 DEF LoadModes, LoadAt, Loading, MirrorAt
<1>9. CASE LoadEnd(c)
  <2>. SUFFICES ASSUME firmwareloaded' PROVE Exact' /\ stage'[c] # "note"
    BY DEF MirrorAt
  <2>1. /\ ~firmwareloaded /\ UNCHANGED <<map, memory, op>> /\ stage[c] = "pollon"
        /\ stage'[c] # "note"
    BY <1>0, <1>9 DEF LoadEnd, At, Done, LoadAt, Loading, Locals, controller
  <2>2. error[c] = "NO_ERROR"
    BY <1>9, <2>1 DEF LoadEnd, LoadedAfter
  <2>3. Filled(c, Len(File(c))) /\ Holds(c, Len(File(c)))
    BY <1>0, <2>1, <2>2 DEF LoadAt
  <2>4. Exact
    BY <1>0, <2>1, <2>3, HeldIsExact
  <2>. QED
    BY <2>1, <2>4 DEF Exact
<1>10. CASE LoadApply(c)
  <2>1. /\ UNCHANGED <<firmwareloaded, map, memory>>
        /\ stage[c] # "note" /\ stage'[c] # "note"
    BY <1>0, <1>10 DEF LoadApply, SetCameraMode, At, Err, Todo, Done, Code, ModeKnown, host,
       Locals
  <2>. QED
    BY <1>0, <2>1 DEF MirrorAt, Exact
<1>11. CASE WriteItem(c)
  <2>. PICK i : i = Step(c).item
    OBVIOUS
  <2>. PICK v : v = Step(c).value
    OBVIOUS
  <2>0. /\ UNCHANGED <<firmwareloaded, map>> /\ stage[c] = "steps"
        /\ stage'[c] \in {"steps", "note"}
    BY <1>0, <1>11 DEF WriteItem, host, Locals, At
  <2>1. CASE stage'[c] = "steps"
    <3>1. memory' = memory
      BY <1>0, <1>11, <2>1 DEF WriteItem, Wconfig, At, Locals, Taken, Noted, Reliable, Outcomes
    <3>. QED
      BY <1>0, <2>0, <2>1, <3>1 DEF MirrorAt, Exact
  <2>2. CASE stage'[c] = "note"
    <3>1. /\ i \in DOMAIN map /\ todo' = todo /\ Step(c)' = Step(c)
          /\ memory' = Put(memory, map[i].line, [item |-> i, value |-> v])
      BY <1>0, <1>11, <2>2 DEF WriteItem, Wconfig, Noted, Taken, Step
    <3>2. ASSUME firmwareloaded' PROVE Mirrors(i, v)'
      <4>1. Exact
        BY <1>0, <2>0, <3>2 DEF MirrorAt
      <4>2. ASSUME NEW l \in DOMAIN memory'
            PROVE  /\ memory'[l].item \in DOMAIN map' /\ map'[memory'[l].item].line = l
                   /\ memory'[l].value = IF memory'[l].item = i THEN v
                                         ELSE map'[memory'[l].item].value
        <5>1. CASE l = map[i].line
          BY <2>0, <3>1, <5>1 DEF Put
        <5>2. CASE l # map[i].line
          <6>1. l \in DOMAIN memory /\ memory'[l] = memory[l]
            BY <3>1, <5>2 DEF Put
          <6>2. /\ memory[l].item \in DOMAIN map
                /\ map[memory[l].item].line = l /\ map[memory[l].item].value = memory[l].value
            <7>1. /\ memory[l].item \in DOMAIN map
                  /\ map[memory[l].item] = [line |-> l, value |-> memory[l].value]
              BY <4>1, <6>1 DEF Exact
            <7>. QED
              BY <7>1
          <6>3. memory[l].item # i
            BY <5>2, <6>2
          <6>. QED
            BY <2>0, <6>1, <6>2, <6>3
        <5>. QED
          BY <5>1, <5>2
      <4>. QED
        BY <4>2 DEF Mirrors
    <3>. QED
      BY <2>0, <2>2, <3>1, <3>2 DEF MirrorAt
  <2>. QED
    BY <2>0, <2>1, <2>2
<1>12. CASE NoteItem(c)
  <2>. PICK i : i = Step(c).item
    OBVIOUS
  <2>. PICK v : v = Step(c).value
    OBVIOUS
  <2>0. /\ UNCHANGED <<firmwareloaded, memory>> /\ stage[c] = "note" /\ stage'[c] = "steps"
        /\ map' = [map EXCEPT ![i].value = v]
    BY <1>0, <1>12 DEF NoteItem, At, controller, Locals
  <2>1. ASSUME firmwareloaded' PROVE Exact'
    <3>1. i \in DOMAIN map /\ Mirrors(i, v)
      BY <1>0, <2>0, <2>1 DEF MirrorAt
    <3>2. /\ DOMAIN map' = DOMAIN map /\ map'[i] = [map[i] EXCEPT !.value = v]
          /\ \A j \in DOMAIN map : j # i => map'[j] = map[j]
      BY <2>0, <3>1
    <3>3. map'[i] = [line |-> map[i].line, value |-> v]
      BY <1>0, <3>1, <3>2 DEF Tables
    <3>4. ASSUME NEW l \in DOMAIN memory
          PROVE  /\ memory[l].item \in DOMAIN map'
                 /\ map'[memory[l].item] = [line |-> l, value |-> memory[l].value]
      <4>1. /\ memory[l].item \in DOMAIN map /\ map[memory[l].item].line = l
            /\ memory[l].value = IF memory[l].item = i THEN v ELSE map[memory[l].item].value
        BY <3>1 DEF Mirrors
      <4>2. CASE memory[l].item = i
        BY <3>2, <3>3, <4>1, <4>2
      <4>3. CASE memory[l].item # i
        <5>1. map[memory[l].item] = [line |-> map[memory[l].item].line,
                                     value |-> map[memory[l].item].value]
          BY <1>0, <4>1 DEF Tables
        <5>. QED
          BY <3>2, <4>1, <4>3, <5>1
      <4>. QED
        BY <4>2, <4>3
    <3>. QED
      BY <2>0, <3>4 DEF Exact
  <2>. QED
    BY <2>0, <2>1 DEF MirrorAt
<1>13. CASE ApplyItems(c)
  <2>1. /\ UNCHANGED <<firmwareloaded, map, memory>>
        /\ stage[c] # "note" /\ stage'[c] # "note"
    BY <1>0, <1>13 DEF ApplyItems, NextStep, Todo, Code, host
  <2>. QED
    BY <1>0, <2>1 DEF MirrorAt, Exact
<1>14. CASE Conclude(c)
  <2>1. /\ UNCHANGED <<firmwareloaded, map, memory>>
        /\ stage[c] # "note" /\ stage'[c] # "note"
    BY <1>0, <1>14 DEF Conclude, At, Err, Todo, Done, ReadBack, host, controller, Locals
  <2>. QED
    BY <1>0, <2>1 DEF MirrorAt, Exact
<1>15. CASE ModeShutter(c)
  <2>1. memory' = memory
    BY <1>0, <1>15 DEF ModeShutter, SetParameter, controller, Tables, Reliable
  <2>2. UNCHANGED <<firmwareloaded, map>> /\ stage[c] # "note" /\ stage'[c] # "note"
    BY <1>0, <1>15 DEF ModeShutter, At, Err, Todo, Done, host, Locals
  <2>. QED
    BY <1>0, <2>1, <2>2 DEF MirrorAt, Exact
<1>16. CASE SelectMode(c)
  <2>1. /\ UNCHANGED <<firmwareloaded, map, memory>>
        /\ stage[c] # "note" /\ stage'[c] # "note"
    BY <1>0, <1>16 DEF SelectMode, At, Err, Todo, Done, ModeOf, controller, Locals
  <2>. QED
    BY <1>0, <2>1 DEF MirrorAt, Exact
<1>17. CASE Param(c)
  <2>1. memory' = memory
    BY <1>0, <1>17 DEF Param, SetParameter, Tables, Reliable
  <2>2. UNCHANGED <<firmwareloaded, map>> /\ stage[c] # "note" /\ stage'[c] # "note"
    BY <1>0, <1>17 DEF Param, At, Err, Todo, Done, host
  <2>. QED
    BY <1>0, <2>1, <2>2 DEF MirrorAt, Exact
<1>18. CASE Return(c)
  <2>1. /\ UNCHANGED <<firmwareloaded, map, memory>>
        /\ stage[c] # "note" /\ stage'[c] # "note"
    BY <1>0, <1>18 DEF Return, At, Err, host, controller
  <2>. QED
    BY <1>0, <2>1 DEF MirrorAt, Exact
<1>. QED
  BY <1>1, <1>2, <1>3, <1>4, <1>5, <1>6, <1>7, <1>8, <1>9, <1>10, <1>11, <1>12, <1>13, <1>14,
     <1>15, <1>16, <1>17, <1>18 DEF ClientStep

-----------------------------------------------------------------------------
(* WholeInv *)

(* The file of a load. *)
LEMMA LoadedFile ==
  ASSUME NEW c \in Clients, op[c] \in Commands, op[c].kind = "load"
  PROVE  /\ op[c].file \in DOMAIN Acf
         /\ File(c) \in Seq(Write) /\ Len(File(c)) \in Nat /\ DOMAIN File(c) = 1 .. Len(File(c))
         /\ Len(<<>>) = 0 /\ Len(File(c)) - 0 = Len(File(c))
<1>1. op[c].file \in DOMAIN Acf
  BY ConfigAssumption DEF Command, WriteKinds
<1>2. File(c) \in Seq(Write)
  BY <1>1, ConfigAssumption DEF File
<1>. QED
  BY <1>1, <1>2

LEMMA SameMemory ==
  ASSUME UNCHANGED <<memory, latest>>
  PROVE  Whole' <=> Whole
BY DEF Whole

(* A step that leaves memory and flags alone, outside of a load. *)
LEMMA WholeStays ==
  ASSUME WholeInv, UNCHANGED <<firmwareloaded, modeselected, memory, latest, astray>>,
         \A c \in Clients : ~Loading(c) /\ ~Loading(c)'
  PROVE  WholeInv'
BY SameMemory DEF WholeInv

(* The lines of the memory stay those of the file. *)
LEMMA WholeStep ==
  ASSUME OneClient, Reliable, Locals, KindInv, ReportInv, LoadInv, Tables, WholeInv,
         NEW c \in Clients, ClientStep(c)
  PROVE  WholeInv'
<1>0. /\ Locals /\ KindAt(c) /\ LoadAt(c) /\ ReportAt(c) /\ Tables /\ WholeInv /\ Reliable
      /\ c \in Clients /\ \A d \in Clients : d = c
  BY DEF OneClient, KindInv, LoadInv, ReportInv
<1>1. CASE StartWrites(c)
  <2>1. /\ UNCHANGED <<firmwareloaded, modeselected, memory, latest, astray>>
        /\ ~Loading(c) /\ ~Loading(c)'
    BY <1>0, <1>1 DEF StartWrites, Begin, At, Err, Todo, Done, host, controller, history,
       Loading, Locals
  <2>. QED
    BY <1>0, <2>1, WholeStays
<1>2. CASE StartMode(c)
  <2>1. /\ UNCHANGED <<firmwareloaded, modeselected, memory, latest, astray>>
        /\ ~Loading(c) /\ ~Loading(c)'
    BY <1>0, <1>2 DEF StartMode, Begin, SetCameraMode, At, Err, Todo, Done, host, controller,
       history, Loading, Locals
  <2>. QED
    BY <1>0, <2>1, WholeStays
<1>3. CASE StartParam(c)
  <2>1. /\ UNCHANGED <<firmwareloaded, modeselected, memory, latest, astray>>
        /\ ~Loading(c) /\ ~Loading(c)'
    BY <1>0, <1>3 DEF StartParam, Begin, At, Err, host, controller, history, Loading, Locals
  <2>. QED
    BY <1>0, <2>1, WholeStays
<1>4. CASE StartLoad(c)
  <2>1. /\ UNCHANGED <<firmwareloaded, modeselected, memory, latest, astray>>
        /\ ~Loading(c) /\ ~Loading(c)'
    BY <1>0, <1>4 DEF StartLoad, Begin, At, Err, Todo, Done, host, controller, history, Loading,
       Locals
  <2>. QED
    BY <1>0, <2>1, WholeStays
<1>5. CASE PollOff(c)
  <2>1. /\ UNCHANGED <<firmwareloaded, modeselected, memory, latest, astray>>
        /\ ~Loading(c) /\ ~Loading(c)'
    BY <1>0, <1>5 DEF PollOff, At, Err, Todo, Done, host, controller, history, Loading, Locals
  <2>. QED
    BY <1>0, <2>1, WholeStays
<1>6. CASE ClearConfig(c)
  <2>1. CASE /\ firmwareloaded' = FALSE /\ stage'[c] = "line" /\ latest' = op[c].file
             /\ op' = op /\ UNCHANGED <<modeselected, astray>>
    BY <1>0, <2>1 DEF WholeInv, Loading
  <2>2. CASE /\ UNCHANGED <<firmwareloaded, modeselected, memory, latest, astray>>
             /\ ~Loading(c) /\ ~Loading(c)'
    BY <1>0, <2>2, WholeStays
  <2>. QED
    BY <1>0, <1>6, <2>1, <2>2 DEF ClearConfig, At, Done, Locals, Taken, Reliable, Outcomes,
       Loading
<1>7. CASE LoadLine(c)
  <2>0. /\ ~firmwareloaded' /\ stage'[c] = "line" /\ stage[c] = "line" /\ op' = op
        /\ UNCHANGED <<modeselected, latest, astray>>
    BY <1>0, <1>7 DEF LoadLine, LoadAt, Loading, history
  <2>. QED
    BY <1>0, <2>0 DEF WholeInv, Loading
<1>8. CASE LoadModes(c)
  <2>0. /\ UNCHANGED <<firmwareloaded, modeselected, latest, op>> /\ ~firmwareloaded
        /\ stage[c] = "line" /\ (stage'[c] = "pollon" \/ astray')
        /\ stage'[c] \in {"pollon", "done"} /\ (astray' = astray \/ astray')
    BY <1>0, <1>8 DEF LoadModes, LoadAt, Loading, At, Done, Locals
  <2>. QED
    BY <1>0, <2>0 DEF WholeInv, Loading
<1>9. CASE LoadEnd(c)
  <2>0. /\ UNCHANGED <<memory, latest>> /\ ~firmwareloaded /\ stage[c] = "pollon"
        /\ modeselected' = FALSE /\ ~Loading(c)'
        /\ firmwareloaded' => error[c] = "NO_ERROR"
    BY <1>0, <1>9 DEF LoadEnd, LoadedAfter, SelectedAfterLoad, LoadAt, Loading, controller, At,
       Done, Locals
  <2>1. /\ op[c].file \in DOMAIN Acf /\ Len(File(c)) \in Nat /\ latest = op[c].file
    BY <1>0, <2>0, LoadedFile DEF KindAt, WholeInv, Loading
  <2>2. ASSUME firmwareloaded' PROVE Whole
    <3>1. /\ DOMAIN memory = 0 .. Len(File(c)) - 1
          /\ \A l \in 1 .. Len(File(c)) : memory[l - 1] = File(c)[l]
      BY <1>0, <2>0, <2>2 DEF LoadAt, Holds
    <3>2. ASSUME NEW l \in DOMAIN memory PROVE memory[l].item = File(c)[l + 1].item
      <4>1. l + 1 \in 1 .. Len(File(c)) /\ (l + 1) - 1 = l
        BY <2>1, <3>1
      <4>. QED
        BY <3>1, <4>1
    <3>. QED
      BY <2>1, <3>1, <3>2 DEF Whole, File
  <2>3. firmwareloaded' => Whole'
    BY <2>0, <2>2, SameMemory
  <2>. QED
    BY <1>0, <2>0, <2>1, <2>3 DEF WholeInv
<1>10. CASE LoadApply(c)
  <2>1. /\ UNCHANGED <<firmwareloaded, modeselected, memory, latest, astray>>
        /\ ~Loading(c) /\ ~Loading(c)'
    BY <1>0, <1>10 DEF LoadApply, SetCameraMode, At, Err, Todo, Done, Code, ModeKnown, host,
       controller, history, Loading, Locals
  <2>. QED
    BY <1>0, <2>1, WholeStays
<1>11. CASE WriteItem(c)
  <2>. PICK i : i = Step(c).item
    OBVIOUS
  <2>. PICK v : v = Step(c).value
    OBVIOUS
  <2>0. UNCHANGED <<firmwareloaded, modeselected, latest>> /\ ~Loading(c) /\ ~Loading(c)'
    BY <1>0, <1>11 DEF WriteItem, Wconfig, host, Loading, At, Locals
  <2>1. CASE UNCHANGED <<memory, astray>>
    BY <1>0, <2>0, <2>1, WholeStays
  <2>2. CASE /\ memory' = Put(memory, map[i].line, [item |-> i, value |-> v])
             /\ astray' = (astray \/ ~InPlace(i))
    <3>1. /\ DOMAIN memory' = DOMAIN memory \cup {map[i].line}
          /\ memory'[map[i].line] = [item |-> i, value |-> v]
          /\ \A l \in DOMAIN memory : l # map[i].line => memory'[l] = memory[l]
      BY <2>2 DEF Put
    <3>2. memory'[map[i].line].item = i
      BY <3>1
    <3>3. ASSUME firmwareloaded, ~astray' PROVE Whole'
      <4>1. Whole /\ ~astray /\ InPlace(i)
        BY <1>0, <2>2, <3>3 DEF WholeInv
      <4>2. map[i].line \in DOMAIN memory /\ memory[map[i].line].item = i
        BY <4>1 DEF InPlace, HasLine
      <4>3. /\ DOMAIN memory' = DOMAIN memory
            /\ \A l \in DOMAIN memory : memory'[l].item = memory[l].item
        BY <3>1, <3>2, <4>2
      <4>. QED
        BY <2>0, <4>1, <4>3 DEF Whole
    <3>4. ~astray' => ~astray
      BY <2>2
    <3>. QED
      BY <1>0, <2>0, <3>3, <3>4 DEF WholeInv
  <2>. QED
    BY <1>0, <1>11, <2>1, <2>2 DEF WriteItem, Wconfig, Taken, Locals
<1>12. CASE NoteItem(c)
  <2>1. /\ UNCHANGED <<firmwareloaded, modeselected, memory, latest, astray>>
        /\ ~Loading(c) /\ ~Loading(c)'
    BY <1>0, <1>12 DEF NoteItem, controller, history, Loading, At, Locals
  <2>. QED
    BY <1>0, <2>1, WholeStays
<1>13. CASE ApplyItems(c)
  <2>1. /\ UNCHANGED <<firmwareloaded, modeselected, memory, latest, astray>>
        /\ ~Loading(c) /\ ~Loading(c)'
    BY <1>0, <1>13 DEF ApplyItems, NextStep, Todo, Code, host, controller, history, Loading,
       Locals
  <2>. QED
    BY <1>0, <2>1, WholeStays
<1>14. CASE Conclude(c)
  <2>1. /\ UNCHANGED <<firmwareloaded, modeselected, memory, latest, astray>>
        /\ ~Loading(c) /\ ~Loading(c)'
    BY <1>0, <1>14 DEF Conclude, At, Err, Todo, Done, ReadBack, host, controller, history,
       Loading, Locals
  <2>. QED
    BY <1>0, <2>1, WholeStays
<1>15. CASE ModeShutter(c)
  <2>1. memory' = memory
    BY <1>0, <1>15 DEF ModeShutter, SetParameter, controller, Tables, Reliable
  <2>2. /\ UNCHANGED <<firmwareloaded, modeselected, latest, astray>>
        /\ ~Loading(c) /\ ~Loading(c)'
    BY <1>0, <1>15 DEF ModeShutter, host, history, Loading, At, Done, Locals
  <2>. QED
    BY <1>0, <2>1, <2>2, WholeStays
<1>16. CASE SelectMode(c)
  <2>1. UNCHANGED <<firmwareloaded, memory, latest, astray>> /\ ~Loading(c) /\ ~Loading(c)'
    BY <1>0, <1>16 DEF SelectMode, Loading, controller, history, Done, At, Locals
  <2>2. firmwareloaded
    BY <1>0, <1>16 DEF SelectMode, KindAt, ReportAt
  <2>. QED
    BY <1>0, <2>1, <2>2, SameMemory DEF WholeInv
<1>17. CASE Param(c)
  <2>1. memory' = memory
    BY <1>0, <1>17 DEF Param, SetParameter, Tables, Reliable
  <2>2. /\ UNCHANGED <<firmwareloaded, modeselected, latest, astray>>
        /\ ~Loading(c) /\ ~Loading(c)'
    BY <1>0, <1>17 DEF Param, host, history, Loading, At, Done, Locals
  <2>. QED
    BY <1>0, <2>1, <2>2, WholeStays
<1>18. CASE Return(c)
  <2>1. /\ UNCHANGED <<firmwareloaded, modeselected, memory, latest, astray>>
        /\ ~Loading(c) /\ ~Loading(c)'
    BY <1>0, <1>18 DEF Return, At, Err, host, controller, history, Loading, Locals
  <2>. QED
    BY <1>0, <2>1, WholeStays
<1>. QED
  BY <1>1, <1>2, <1>3, <1>4, <1>5, <1>6, <1>7, <1>8, <1>9, <1>10, <1>11, <1>12, <1>13, <1>14,
     <1>15, <1>16, <1>17, <1>18 DEF ClientStep

-----------------------------------------------------------------------------
(* StepsInv *)

(* The steps of a command that writes the m keys w: each applied after it is
   written, or all after the last. *)
EachApplied(s, w, m) ==
  /\ s \in Seq(Actions) /\ Len(s) = 2 * m
  /\ \A n \in 1 .. m : /\ 2 * n \in 1 .. 2 * m /\ 2 * n - 1 \in 1 .. 2 * n
                       /\ s[2 * n - 1] = WriteStep(w[n].item, w[n].value)
                       /\ s[2 * n] = ApplyStep(Scope[w[n].item])
  /\ \A q \in 1 .. 2 * m : s[q].do = "write" =>
       \E n \in 1 .. m : q = 2 * n - 1 /\ s[q].item = w[n].item

AllApplied(s, w, m, scope) ==
  /\ s \in Seq(Actions) /\ Len(s) = m + 1
  /\ \A n \in 1 .. m : s[n] = WriteStep(w[n].item, w[n].value)
  /\ s[m + 1] = ApplyStep(scope)

LEMMA GainPlan ==
  ASSUME NEW k, k.kind = "preampgain", NEW w \in Seq(Write), w = k.writes
  PROVE  EachApplied(Plan(k), w, Len(w))
<1>. PICK m \in Nat : m = Len(w) /\ DOMAIN w = 1 .. m
  OBVIOUS
<1>1. Plan(k) = [n \in 1 .. 2 * m |->
                   IF n % 2 = 1 THEN WriteStep(w[(n + 1) \div 2].item, w[(n + 1) \div 2].value)
                                ELSE ApplyStep(Scope[w[(n + 1) \div 2].item])]
  BY DEF Plan
<1>2. \A n \in 1 .. m : /\ 2 * n \in 1 .. 2 * m /\ 2 * n - 1 \in 1 .. 2 * n
                        /\ 2 * n - 1 \in 1 .. 2 * m
                        /\ (2 * n - 1) % 2 = 1 /\ (2 * n) % 2 = 0
                        /\ ((2 * n - 1) + 1) \div 2 = n /\ (2 * n + 1) \div 2 = n
  OBVIOUS
<1>3. \A q \in 1 .. 2 * m : /\ (q + 1) \div 2 \in 1 .. m
                            /\ q % 2 = 1 => q = 2 * ((q + 1) \div 2) - 1
  OBVIOUS
<1>4. \A n \in 1 .. m : w[n].item \in Items /\ w[n].value \in Values
  <2>1. \A n \in 1 .. m : w[n] \in Write
    OBVIOUS
  <2>. QED
    BY <2>1 DEF Write
<1>5. ASSUME NEW n \in 1 .. m
      PROVE  /\ WriteStep(w[n].item, w[n].value) \in Actions
             /\ ApplyStep(Scope[w[n].item]) \in Actions
  BY <1>4 DEF Actions, WriteStep
<1>6. Plan(k) \in [1 .. 2 * m -> Actions]
  BY <1>1, <1>3, <1>5
<1>7. Plan(k) \in Seq(Actions) /\ Len(Plan(k)) = 2 * m
  BY <1>6, 2 * m \in Nat
<1>8. ASSUME NEW n \in 1 .. m
      PROVE  /\ Plan(k)[2 * n - 1] = WriteStep(w[n].item, w[n].value)
             /\ Plan(k)[2 * n] = ApplyStep(Scope[w[n].item])
  BY <1>1, <1>2
<1>9. ASSUME NEW q \in 1 .. 2 * m, Plan(k)[q].do = "write"
      PROVE  \E n \in 1 .. m : q = 2 * n - 1 /\ Plan(k)[q].item = w[n].item
  <2>. DEFINE n == (q + 1) \div 2
  <2>1. n \in 1 .. m
    BY <1>3
  <2>2. CASE q % 2 = 1
    <3>1. Plan(k)[q] = WriteStep(w[n].item, w[n].value)
      BY <1>1, <2>2
    <3>2. Plan(k)[q].item = w[n].item
      BY <3>1 DEF WriteStep
    <3>. QED
      BY <1>3, <2>1, <2>2, <3>2
  <2>3. CASE q % 2 # 1
    <3>1. Plan(k)[q] = ApplyStep(Scope[w[n].item])
      BY <1>1, <2>3
    <3>. QED
      BY <1>9, <3>1 DEF ApplyStep
  <2>. QED
    BY <2>2, <2>3
<1>. QED
  BY <1>2, <1>7, <1>8, <1>9 DEF EachApplied

LEMMA OtherPlan ==
  ASSUME NEW k, k.kind \in WriteKinds \ {"preampgain"},
         NEW w \in Seq(Write), w = k.writes, w # <<>>,
         NEW scope, scope = ScopeOf(k)
  PROVE  AllApplied(Plan(k), w, Len(w), scope)
<1>. PICK m \in Nat \ {0} : m = Len(w) /\ DOMAIN w = 1 .. m
  OBVIOUS
<1>. DEFINE s == [n \in 1 .. m |-> WriteStep(w[n].item, w[n].value)]
<1>1. \A n \in 1 .. m : w[n].item \in Items /\ w[n].value \in Values
  <2>1. \A n \in 1 .. m : w[n] \in Write
    OBVIOUS
  <2>. QED
    BY <2>1 DEF Write
<1>2. \A n \in 1 .. m : WriteStep(w[n].item, w[n].value) \in Actions
  BY <1>1 DEF Actions, WriteStep
<1>3. ApplyStep(scope) \in Actions
  BY <1>1, 1 \in 1 .. m DEF Actions, ScopeOf
<1>4. s \in [1 .. m -> Actions]
  BY <1>2
<1>5. s \in Seq(Actions) /\ Len(s) = m
  BY <1>4
<1>6. Plan(k) = Append(s, ApplyStep(scope))
  BY DEF Plan
<1>. HIDE DEF s
<1>7. /\ Append(s, ApplyStep(scope)) \in Seq(Actions)
      /\ Len(Append(s, ApplyStep(scope))) = Len(s) + 1
      /\ \A i \in 1 .. Len(s) : Append(s, ApplyStep(scope))[i] = s[i]
      /\ Append(s, ApplyStep(scope))[Len(s) + 1] = ApplyStep(scope)
  BY <1>3, <1>5, AppendProperties
<1>8. \A n \in 1 .. m : s[n] = WriteStep(w[n].item, w[n].value)
  BY DEF s
<1>. QED
  BY <1>5, <1>6, <1>7, <1>8 DEF AllApplied

(* A command writes an item once, and applies it after that. *)
LEMMA PlanOnce ==
  ASSUME NEW k \in Commands, k.kind \in WriteKinds
  PROVE  /\ Plan(k) \in Seq(Actions) /\ Plan(k)[1].do = "write"
         /\ \A q, r \in 1 .. Len(Plan(k)) :
              Plan(k)[q].do = "write" /\ Plan(k)[r].do = "write"
                /\ Plan(k)[q].item = Plan(k)[r].item => q = r
<1>. PICK w : w = k.writes
  OBVIOUS
<1>1. /\ w \in Seq(Write) /\ w # <<>> /\ Distinct(w)
      /\ k.kind # "preampgain" => \A i \in ItemsOf(w) : Scope[i] = ScopeOf(k)
  <2>1. /\ k \in Command /\ w # <<>> /\ Distinct(w)
        /\ k.kind # "preampgain" => \A i \in ItemsOf(w) : Scope[i] = ScopeOf(k)
    BY ConfigAssumption
  <2>2. k.writes \in Seq(Write)
    BY <2>1 DEF Command, WriteKinds
  <2>. QED
    BY <2>1, <2>2
<1>. PICK m \in Nat : m = Len(w) /\ DOMAIN w = 1 .. m /\ 1 \in 1 .. m
  BY <1>1
<1>2. \A i, j \in 1 .. m : w[i].item = w[j].item => i = j
  BY <1>1 DEF Distinct
<1>3. CASE k.kind = "preampgain"
  <2>1. EachApplied(Plan(k), w, m)
    BY <1>1, <1>3, GainPlan
  <2>2. ASSUME NEW q \in 1 .. 2 * m, NEW r \in 1 .. 2 * m,
               Plan(k)[q].do = "write", Plan(k)[r].do = "write",
               Plan(k)[q].item = Plan(k)[r].item
        PROVE  q = r
    <3>1. PICK i \in 1 .. m : q = 2 * i - 1 /\ Plan(k)[q].item = w[i].item
      BY <2>1, <2>2 DEF EachApplied
    <3>2. PICK j \in 1 .. m : r = 2 * j - 1 /\ Plan(k)[r].item = w[j].item
      BY <2>1, <2>2 DEF EachApplied
    <3>3. i = j
      BY <1>2, <2>2, <3>1, <3>2
    <3>. QED
      BY <3>1, <3>2, <3>3
  <2>3. Plan(k) \in Seq(Actions) /\ Len(Plan(k)) = 2 * m
    BY <2>1 DEF EachApplied
  <2>4. Plan(k)[1].do = "write"
    <3>1. Plan(k)[2 * 1 - 1] = WriteStep(w[1].item, w[1].value) /\ 2 * 1 - 1 = 1
      BY <2>1 DEF EachApplied
    <3>. QED
      BY <3>1 DEF WriteStep
  <2>. QED
    BY <2>2, <2>3, <2>4
<1>4. CASE k.kind # "preampgain"
  <2>. PICK scope : scope = ScopeOf(k)
    OBVIOUS
  <2>0. AllApplied(Plan(k), w, m, scope)
    BY <1>1, <1>4, OtherPlan
  <2>1. /\ Plan(k) \in Seq(Actions) /\ Len(Plan(k)) = m + 1
        /\ \A n \in 1 .. m : Plan(k)[n] = WriteStep(w[n].item, w[n].value)
        /\ Plan(k)[m + 1] = ApplyStep(scope)
    BY <2>0 DEF AllApplied
  <2>2. \A q \in 1 .. m + 1 : q \in 1 .. m \/ q = m + 1
    OBVIOUS
  <2>3. Plan(k)[m + 1].do # "write"
    BY <2>1 DEF ApplyStep
  <2>4. ASSUME NEW n \in 1 .. m PROVE Plan(k)[n].item = w[n].item
    <3>1. Plan(k)[n] = WriteStep(w[n].item, w[n].value)
      BY <2>1
    <3>. QED
      BY <3>1 DEF WriteStep
  <2>5. ASSUME NEW q \in 1 .. m + 1, NEW r \in 1 .. m + 1,
               Plan(k)[q].do = "write", Plan(k)[r].do = "write",
               Plan(k)[q].item = Plan(k)[r].item
        PROVE  q = r
    <3>1. q \in 1 .. m /\ r \in 1 .. m
      BY <2>2, <2>3, <2>5
    <3>. QED
      BY <1>2, <2>4, <2>5, <3>1
  <2>6. Plan(k)[1].do = "write"
    <3>1. Plan(k)[1] = WriteStep(w[1].item, w[1].value)
      BY <2>1
    <3>. QED
      BY <3>1 DEF WriteStep
  <2>. QED
    BY <2>1, <2>5, <2>6
<1>. QED
  BY <1>3, <1>4

(* ... and has written it before it applies it. *)
LEMMA PlanApplies ==
  ASSUME NEW k \in Commands, k.kind \in WriteKinds, NEW n \in DOMAIN k.writes
  PROVE  \E q \in 1 .. Len(Plan(k)) : \E r \in 1 .. q :
           /\ Plan(k)[q] = ApplyStep(Scope[k.writes[n].item])
           /\ Plan(k)[r] = WriteStep(k.writes[n].item, k.writes[n].value)
<1>. PICK w : w = k.writes
  OBVIOUS
<1>1. /\ w \in Seq(Write) /\ w # <<>> /\ Distinct(w)
      /\ k.kind # "preampgain" => \A i \in ItemsOf(w) : Scope[i] = ScopeOf(k)
  <2>1. /\ k \in Command /\ w # <<>> /\ Distinct(w)
        /\ k.kind # "preampgain" => \A i \in ItemsOf(w) : Scope[i] = ScopeOf(k)
    BY ConfigAssumption
  <2>2. k.writes \in Seq(Write)
    BY <2>1 DEF Command, WriteKinds
  <2>. QED
    BY <2>1, <2>2
<1>. PICK m \in Nat : m = Len(w) /\ DOMAIN w = 1 .. m /\ 1 \in 1 .. m
  BY <1>1
<1>3. CASE k.kind = "preampgain"
  <2>1. EachApplied(Plan(k), w, m)
    BY <1>1, <1>3, GainPlan
  <2>2. /\ Len(Plan(k)) = 2 * m /\ 2 * n \in 1 .. 2 * m /\ 2 * n - 1 \in 1 .. 2 * n
        /\ Plan(k)[2 * n - 1] = WriteStep(w[n].item, w[n].value)
        /\ Plan(k)[2 * n] = ApplyStep(Scope[w[n].item])
    BY <2>1, n \in 1 .. m DEF EachApplied
  <2>. QED
    BY <2>2
<1>4. CASE k.kind # "preampgain"
  <2>. PICK scope : scope = ScopeOf(k)
    OBVIOUS
  <2>1. /\ Len(Plan(k)) = m + 1
        /\ Plan(k)[n] = WriteStep(w[n].item, w[n].value)
        /\ Plan(k)[m + 1] = ApplyStep(scope)
    <3>1. AllApplied(Plan(k), w, m, scope)
      BY <1>1, <1>4, OtherPlan
    <3>. QED
      BY <3>1, n \in 1 .. m DEF AllApplied
  <2>2. n \in 1 .. m + 1 /\ m + 1 \in 1 .. m + 1
    BY n \in 1 .. m
  <2>3. Scope[w[n].item] = scope
    BY <1>1, <1>4 DEF ItemsOf
  <2>. QED
    BY <2>1, <2>2, <2>3
<1>. QED
  BY <1>3, <1>4

(* t is what is left of s after p steps, and not empty. *)
Continues(s, t, p) ==
  /\ p \in Nat /\ p + 1 \in 1 .. Len(s) /\ Head(t) = s[p + 1]
  /\ Rest(s, Tail(t)) /\ Len(s) - Len(Tail(t)) = p + 1
  /\ \A q \in 1 .. p + 1 : q \in 1 .. p \/ q = p + 1
  /\ \A q \in 1 .. p : q \in 1 .. Len(s) /\ q # p + 1

LEMMA NextOfRest ==
  ASSUME NEW s \in Seq(Actions), NEW t, Rest(s, t), t # <<>>,
         NEW p, p = Len(s) - Len(t)
  PROVE  Continues(s, t, p)
<1>. PICK a, b : a = Len(s) /\ b = Len(t)
  OBVIOUS
<1>1. /\ t \in Seq(Actions) /\ b <= a
      /\ \A j \in 1 .. b : t[j] = s[p + j]
  BY DEF Rest
<1>2. /\ a \in Nat /\ b \in Nat \ {0} /\ p = a - b /\ Head(t) = t[1] /\ 1 \in 1 .. b
      /\ Tail(t) \in Seq(Actions) /\ Len(Tail(t)) = b - 1
      /\ \A j \in 1 .. b - 1 : Tail(t)[j] = t[j + 1]
  BY <1>1
<1>3. Counted(a, b, p)
  BY <1>1, <1>2, Counting
<1>4. ASSUME NEW j \in 1 .. b - 1 PROVE Tail(t)[j] = s[(p + 1) + j]
  <2>1. j + 1 \in 1 .. b /\ p + (j + 1) = p + 1 + j
    BY <1>3 DEF Counted
  <2>. QED
    BY <1>1, <1>2, <2>1
<1>5. Rest(s, Tail(t))
  BY <1>2, <1>3, <1>4 DEF Rest, Counted
<1>. QED
  BY <1>1, <1>2, <1>3, <1>5 DEF Continues, Counted

(* What an application does to an item that the firmware has. *)
LEMMA ApplyIs ==
  ASSUME Exact, Whole, latest \in DOMAIN Acf,
         NEW s, NEW i \in Items, i \in ItemsOf(Acf[latest].lines)
  PROVE  /\ Scope[i] = s => Apply(s)[i] = map[i].value
         /\ Apply(s)[i] \in {map[i].value, applied[i]}
<1>1. InMemory(i) # {}
  <2>1. Acf[latest].lines \in Seq(Write)
    BY ConfigAssumption
  <2>2. PICK n \in 1 .. Len(Acf[latest].lines) : Acf[latest].lines[n].item = i
    BY <2>1 DEF ItemsOf
  <2>3. n - 1 \in 0 .. Len(Acf[latest].lines) - 1 /\ (n - 1) + 1 = n
    BY <2>1, <2>2
  <2>4. n - 1 \in DOMAIN memory /\ memory[n - 1].item = i
    BY <2>2, <2>3 DEF Whole
  <2>. QED
    BY <2>4 DEF InMemory
<1>. PICK l : l = CHOOSE x \in InMemory(i) : TRUE
  OBVIOUS
<1>2. l \in DOMAIN memory /\ memory[l].item = i
  BY <1>1 DEF InMemory
<1>3. map[i] = [line |-> l, value |-> memory[l].value]
  BY <1>2 DEF Exact
<1>4. map[i].value = memory[l].value
  BY <1>3
<1>. QED
  BY <1>1, <1>4 DEF Apply

LEMMA WrittenNext ==
  ASSUME NEW s, NEW p \in Nat, InEffect(s, p), s[p + 1].do = "write"
  PROVE  InEffect(s, p + 1)
<1>1. \A q \in 1 .. p + 1 : q \in 1 .. p \/ q = p + 1
  OBVIOUS
<1>. QED
  BY <1>1 DEF InEffect

(* What was in effect, or in the map, stays so. *)
LEMMA EffectStays ==
  ASSUME UNCHANGED <<applied, latest>>, NEW s, NEW p, InEffect(s, p)
  PROVE  InEffect(s, p)'
BY DEF InEffect

LEMMA MapStays ==
  ASSUME UNCHANGED map, NEW s, NEW p, InMap(s, p)
  PROVE  InMap(s, p)'
BY DEF InMap

(* A command that writes keys moves on to the steps t. *)
LEMMA StepsMove ==
  ASSUME op' = op, NEW c \in Clients, NEW s, s = Plan(op[c]), NEW t, t = todo'[c], Rest(s, t),
         NEW p, p = Len(s) - Len(t), InMap(s, p)', InEffect(s, p)', p # 0 => wrote'[c],
         stage'[c] # "done"
  PROVE  StepsAt(c)'
BY DEF StepsAt, InMap, InEffect

(* A command that writes keys, step by step. *)
LEMMA StepsStep ==
  ASSUME OneClient, Reliable, Locals, KindInv, Tables, MirrorInv, WholeInv, StepsInv,
         NEW c \in Clients, ClientStep(c)
  PROVE  StepsInv'
<1>0. /\ Locals /\ KindAt(c) /\ Tables /\ MirrorAt(c) /\ WholeInv /\ StepsAt(c)
      /\ c \in Clients /\ \A d \in Clients : d = c
  BY DEF OneClient, KindInv, MirrorInv, StepsInv
<1>. SUFFICES StepsAt(c)'
  BY <1>0 DEF StepsInv
<1>1. CASE StartWrites(c)
  <2>1. PICK k \in Commands :
          /\ k.kind \in WriteKinds /\ op'[c] = k /\ stage'[c] \in {"steps", "done"}
          /\ stage'[c] = "steps" => todo'[c] = Plan(k)
          /\ stage'[c] = "done" => error'[c] = "ERROR"
    BY <1>0, <1>1 DEF StartWrites, Begin, At, Err, Todo, Done, Locals
  <2>2. Plan(k) \in Seq(Actions)
    BY <1>0, <2>1, PlanOnce
  <2>3. /\ Rest(Plan(k), Plan(k)) /\ Len(Plan(k)) - Len(Plan(k)) = 0
        /\ InMap(Plan(k), 0)' /\ InEffect(Plan(k), 0)'
    <3>1. /\ Len(Plan(k)) \in Nat /\ Len(Plan(k)) - Len(Plan(k)) = 0 /\ 1 .. 0 = {}
          /\ \A j \in 1 .. Len(Plan(k)) : 0 + j = j
      BY <2>2
    <3>. QED
      BY <2>2 DEF Rest, InMap, InEffect
  <2>. QED
    BY <2>1, <2>3 DEF StepsAt
<1>2. CASE StartMode(c)
  <2>1. op'[c].kind \notin WriteKinds
    BY <1>0, <1>2 DEF StartMode, Begin, Locals, WriteKinds
  <2>. QED
    BY <2>1 DEF StepsAt
<1>3. CASE StartParam(c)
  <2>1. op'[c].kind \notin WriteKinds
    BY <1>0, <1>3 DEF StartParam, Begin, Locals, WriteKinds
  <2>. QED
    BY <2>1 DEF StepsAt
<1>4. CASE StartLoad(c)
  <2>1. op'[c].kind \notin WriteKinds
    BY <1>0, <1>4 DEF StartLoad, Begin, Locals, WriteKinds
  <2>. QED
    BY <2>1 DEF StepsAt
<1>5. CASE PollOff(c)
  <2>1. op' = op /\ op[c].kind \notin WriteKinds
    BY <1>0, <1>5 DEF PollOff, KindAt
  <2>. QED
    BY <2>1 DEF StepsAt
<1>6. CASE ClearConfig(c)
  <2>1. op' = op /\ op[c].kind \notin WriteKinds
    BY <1>0, <1>6 DEF ClearConfig, KindAt
  <2>. QED
    BY <2>1 DEF StepsAt
<1>7. CASE LoadLine(c)
  <2>1. op' = op /\ op[c].kind \notin WriteKinds
    BY <1>0, <1>7 DEF LoadLine, KindAt
  <2>. QED
    BY <2>1 DEF StepsAt
<1>8. CASE LoadModes(c)
  <2>1. op' = op /\ op[c].kind \notin WriteKinds
    BY <1>0, <1>8 DEF LoadModes, KindAt
  <2>. QED
    BY <2>1 DEF StepsAt
<1>9. CASE LoadEnd(c)
  <2>1. op' = op /\ op[c].kind \notin WriteKinds
    BY <1>0, <1>9 DEF LoadEnd, KindAt
  <2>. QED
    BY <2>1 DEF StepsAt
<1>10. CASE LoadApply(c)
  <2>1. op' = op /\ op[c].kind \notin WriteKinds
    BY <1>0, <1>10 DEF LoadApply, KindAt
  <2>. QED
    BY <2>1 DEF StepsAt
<1>11. CASE WriteItem(c)
  <2>. SUFFICES ASSUME op[c].kind \in WriteKinds, error'[c] = "NO_ERROR", firmwareloaded',
                       ~astray'
                PROVE  StepsAt(c)'
    BY <1>0, <1>11 DEF WriteItem, StepsAt
  <2>. PICK s : s = Plan(op[c])
    OBVIOUS
  <2>. PICK t : t = todo[c]
    OBVIOUS
  <2>. PICK p : p = Len(s) - Len(t)
    OBVIOUS
  <2>0. /\ op' = op /\ stage[c] = "steps" /\ t # <<>> /\ Head(t).do = "write"
        /\ UNCHANGED <<map, applied, latest, firmwareloaded>> /\ error[c] = "NO_ERROR"
        /\ stage'[c] \in {"steps", "note"} /\ firmwareloaded /\ ~astray
        /\ stage'[c] = "note" => todo' = todo /\ wrote' = wrote
        /\ stage'[c] = "steps" => /\ todo'[c] = Tail(t) /\ wrote'[c] /\ Head(t).item \in DOMAIN map
                                  /\ map[Head(t).item].value = Head(t).value
    <3>1. ~astray /\ latest' = latest
      BY <1>0, <1>11 DEF WriteItem, Locals
    <3>. QED
      BY <1>0, <1>11, <3>1 DEF WriteItem, NoChange, NextStep, At, Todo, host, Step, Locals
  <2>1. /\ s \in Seq(Actions) /\ Rest(s, t) /\ InMap(s, p) /\ InEffect(s, p)
        /\ p # 0 => wrote[c]
    BY <1>0, <2>0, PlanOnce DEF StepsAt, KindAt
  <2>2. Continues(s, t, p)
    BY <2>0, <2>1, NextOfRest
  <2>3. CASE stage'[c] = "note"
    <3>1. InMap(s, p)' /\ InEffect(s, p)'
      BY <2>0, <2>1, EffectStays, MapStays
    <3>. QED
      BY <2>0, <2>1, <2>3, <3>1, StepsMove
  <2>4. CASE stage'[c] = "steps"
    <3>1. InMap(s, p + 1)'
      <4>1. s[p + 1].item \in DOMAIN map /\ map[s[p + 1].item].value = s[p + 1].value
        BY <2>0, <2>2, <2>4 DEF Continues
      <4>2. InMap(s, p + 1)
        <5>1. \A q \in 1 .. p + 1 : q \in 1 .. p \/ q = p + 1
          BY <2>2 DEF Continues
        <5>. QED
          BY <2>1, <4>1, <5>1 DEF InMap
      <4>. QED
        BY <2>0, <4>2, MapStays
    <3>2. InEffect(s, p + 1)
      BY <2>0, <2>1, <2>2, WrittenNext DEF Continues
    <3>3. InEffect(s, p + 1)'
      BY <2>0, <3>2, EffectStays
    <3>. QED
      BY <2>0, <2>2, <2>4, <3>1, <3>3, StepsMove DEF Continues
  <2>. QED
    BY <2>0, <2>3, <2>4
<1>12. CASE NoteItem(c)
  <2>. SUFFICES ASSUME op[c].kind \in WriteKinds, error'[c] = "NO_ERROR", firmwareloaded',
                       ~astray'
                PROVE  StepsAt(c)'
    BY <1>0, <1>12 DEF NoteItem, StepsAt
  <2>. PICK s : s = Plan(op[c])
    OBVIOUS
  <2>. PICK t : t = todo[c]
    OBVIOUS
  <2>. PICK p : p = Len(s) - Len(t)
    OBVIOUS
  <2>0. /\ op' = op /\ stage[c] = "note" /\ t # <<>> /\ Head(t).do = "write"
        /\ UNCHANGED <<applied, latest, firmwareloaded>> /\ error[c] = "NO_ERROR"
        /\ stage'[c] = "steps" /\ firmwareloaded /\ ~astray /\ todo'[c] = Tail(t) /\ wrote'[c]
        /\ map' = [map EXCEPT ![Head(t).item].value = Head(t).value]
    BY <1>0, <1>12 DEF NoteItem, NextStep, At, Todo, controller, history, Step, Locals, KindAt
  <2>1. /\ s \in Seq(Actions) /\ Rest(s, t) /\ InMap(s, p) /\ InEffect(s, p)
        /\ p # 0 => wrote[c]
    BY <1>0, <2>0, PlanOnce DEF StepsAt, KindAt
  <2>2. Continues(s, t, p)
    BY <2>0, <2>1, NextOfRest
  <2>. PICK i : i = Head(t).item
    OBVIOUS
  <2>. PICK v : v = Head(t).value
    OBVIOUS
  <2>3. /\ i \in DOMAIN map /\ DOMAIN map' = DOMAIN map /\ map'[i].value = v
        /\ \A j \in DOMAIN map : j # i => map'[j] = map[j]
    <3>1. i \in DOMAIN map
      BY <1>0, <2>0 DEF MirrorAt, Step
    <3>2. /\ map'[i] = [map[i] EXCEPT !.value = v]
          /\ map[i] = [line |-> map[i].line, value |-> map[i].value]
      BY <1>0, <2>0, <3>1 DEF Tables
    <3>3. map'[i] = [line |-> map[i].line, value |-> v]
      BY <3>2
    <3>4. DOMAIN map' = DOMAIN map /\ \A j \in DOMAIN map : j # i => map'[j] = map[j]
      BY <2>0
    <3>. QED
      BY <3>1, <3>3, <3>4
  <2>4. ASSUME NEW q \in 1 .. p + 1, s[q].do = "write"
        PROVE  s[q].item \in DOMAIN map' /\ map'[s[q].item].value = s[q].value
    <3>1. CASE q = p + 1
      BY <2>2, <2>3, <3>1 DEF Continues
    <3>2. CASE q # p + 1
      <4>1. q \in 1 .. p /\ q \in 1 .. Len(s) /\ p + 1 \in 1 .. Len(s) /\ Head(t) = s[p + 1]
        BY <2>2, <3>2 DEF Continues
      <4>2. s[q].item # i
        BY ZenonT(40), <1>0, <2>0, <2>4, <3>2, <4>1, PlanOnce DEF KindAt
      <4>. QED
        BY <2>1, <2>3, <2>4, <4>1, <4>2 DEF InMap
    <3>. QED
      BY <3>1, <3>2
  <2>5. InMap(s, p + 1)'
    BY <2>4 DEF InMap
  <2>6. InEffect(s, p + 1)
    BY <2>0, <2>1, <2>2, WrittenNext DEF Continues
  <2>7. InEffect(s, p + 1)'
    BY <2>0, <2>6, EffectStays
  <2>. QED
    BY <2>0, <2>2, <2>5, <2>7, StepsMove DEF Continues
<1>13. CASE ApplyItems(c)
  <2>. SUFFICES ASSUME op[c].kind \in WriteKinds, error'[c] = "NO_ERROR", firmwareloaded',
                       ~astray'
                PROVE  StepsAt(c)'
    BY <1>0, <1>13 DEF ApplyItems, StepsAt
  <2>. PICK s : s = Plan(op[c])
    OBVIOUS
  <2>. PICK t : t = todo[c]
    OBVIOUS
  <2>. PICK p : p = Len(s) - Len(t)
    OBVIOUS
  <2>0. /\ op' = op /\ stage[c] = "steps" /\ t # <<>> /\ Head(t).do = "apply"
        /\ UNCHANGED <<map, firmwareloaded, memory, latest, wrote>> /\ error[c] = "NO_ERROR"
        /\ stage'[c] = "steps" /\ firmwareloaded /\ ~astray
    <3>1. error[c] = "NO_ERROR"
      BY <1>0, <1>13 DEF ApplyItems, NextStep, Locals, Codes
    <3>. QED
      BY <1>13, <3>1 DEF ApplyItems, Step, host, history
  <2>1. /\ s \in Seq(Actions) /\ Rest(s, t) /\ InMap(s, p) /\ InEffect(s, p)
        /\ p # 0 => wrote[c]
    BY <1>0, <2>0, PlanOnce DEF StepsAt, KindAt
  <2>2. Continues(s, t, p)
    BY <2>0, <2>1, NextOfRest
  <2>3. Exact /\ Whole /\ latest \in DOMAIN Acf
    BY <1>0, <2>0 DEF MirrorAt, WholeInv
  <2>8. p # 0 /\ wrote[c]
    <3>1. s[1].do = "write"
      BY <1>0, <2>0, PlanOnce DEF KindAt
    <3>2. s[p + 1].do = "apply"
      BY <2>0, <2>2 DEF Continues
    <3>3. p # 0
      <4>1. p = 0 => p + 1 = 1
        OBVIOUS
      <4>2. "write" # "apply"
        OBVIOUS
      <4>. QED
        BY <3>1, <3>2, <4>1, <4>2
    <3>. QED
      BY <2>1, <3>3
  <2>9. applied' = Apply(Head(t).scope) /\ todo'[c] = Tail(t)
    <3>1. Due(c)
      <4>1. op[c].kind \notin {"mode", "load"}
        BY DEF WriteKinds
      <4>. QED
        BY <2>0, <2>8, <4>1 DEF Due
    <3>2. \E o \in Outcomes : /\ applied' = IF Taken(o) THEN Apply(Step(c).scope) ELSE applied
                            /\ NextStep(c, Code(o))
      BY <1>13, <3>1 DEF ApplyItems
    <3>. QED
      BY <1>0, <3>2 DEF Taken, NextStep, Code, Todo, Locals, Step
  <2>4. InMap(s, p + 1)
    BY ZenonT(40), <2>0, <2>1, <2>2 DEF InMap, Continues
  <2>5. ASSUME NEW q \in 1 .. p + 1, NEW r \in 1 .. q,
               s[q].do = "apply", s[r].do = "write", Scope[s[r].item] = s[q].scope,
               s[r].item \in ItemsOf(Acf[latest].lines)
        PROVE  applied'[s[r].item] = s[r].value
    <3>1. r \in 1 .. p + 1
      <4>1. p \in Nat
        BY <2>2 DEF Continues
      <4>. QED
        BY <4>1
    <3>2. s[r].item \in DOMAIN map /\ map[s[r].item].value = s[r].value /\ s[r].item \in Items
      BY <1>0, <2>4, <2>5, <3>1 DEF InMap, Tables
    <3>3. CASE q = p + 1
      <4>1. Scope[s[r].item] = Head(t).scope
        BY <2>2, <2>5, <3>3 DEF Continues
      <4>2. Apply(Head(t).scope)[s[r].item] = map[s[r].item].value
        BY <2>3, <2>5, <3>2, <4>1, ApplyIs
      <4>. QED
        BY <2>9, <3>2, <4>2
    <3>4. CASE q # p + 1
      <4>1. q \in 1 .. p
        BY <2>2, <3>4 DEF Continues
      <4>2. applied[s[r].item] = s[r].value
        BY <2>1, <2>5, <4>1 DEF InEffect
      <4>. QED
        BY <2>3, <2>5, <2>9, <3>2, <4>2, ApplyIs
    <3>. QED
      BY <3>3, <3>4
  <2>6. InEffect(s, p + 1)'
    <3>1. latest' = latest
      BY <2>0
    <3>2. \A q \in 1 .. p + 1 : \A r \in 1 .. q :
            /\ s[q].do = "apply" /\ s[r].do = "write" /\ Scope[s[r].item] = s[q].scope
            /\ s[r].item \in ItemsOf(Acf[latest'].lines)
            => applied'[s[r].item] = s[r].value
      <4>. SUFFICES ASSUME NEW q \in 1 .. p + 1, NEW r \in 1 .. q,
                           s[q].do = "apply", s[r].do = "write", Scope[s[r].item] = s[q].scope,
                           s[r].item \in ItemsOf(Acf[latest'].lines)
                    PROVE  applied'[s[r].item] = s[r].value
        OBVIOUS
      <4>1. s[r].item \in ItemsOf(Acf[latest].lines)
        BY <3>1
      <4>. QED
        BY <2>5, <4>1
    <3>. QED
      BY <3>2 DEF InEffect
  <2>7. InMap(s, p + 1)'
    BY <2>0, <2>4, MapStays
  <2>. QED
    BY <2>0, <2>2, <2>6, <2>7, <2>8, <2>9, StepsMove DEF Continues
<1>14. CASE Conclude(c)
  <2>. SUFFICES ASSUME op[c].kind \in WriteKinds, error'[c] = "NO_ERROR", firmwareloaded',
                       ~astray', ReadsBack(op[c]) => ~failed'[c]
                PROVE  InEffect(Plan(op[c]), Len(Plan(op[c])))'
    BY <1>0, <1>14 DEF Conclude, StepsAt, Done, At, Locals
  <2>. PICK s : s = Plan(op[c])
    OBVIOUS
  <2>. PICK t : t = todo[c]
    OBVIOUS
  <2>. PICK p : p = Len(s) - Len(t)
    OBVIOUS
  <2>0. /\ op' = op /\ stage[c] = "steps" /\ t = <<>> /\ firmwareloaded /\ ~astray
        /\ UNCHANGED <<map, applied, latest>> /\ failed'[c] = (error[c] = "ERROR")
    BY <1>0, <1>14 DEF Conclude, host, controller, Locals
  <2>3. error[c] = "NO_ERROR"
    <3>1. CASE ReadsBack(op[c])
      BY <1>0, <2>0, <3>1 DEF Locals, Codes
    <3>2. CASE ~ReadsBack(op[c])
      <4>1. op[c].kind \notin {"mode", "load", "sensor", "heater"}
        BY <3>2 DEF ReadsBack, WriteKinds
      <4>. QED
        BY <1>0, <1>14, <4>1 DEF Conclude, Done, Err, Locals
    <3>. QED
      BY <3>1, <3>2
  <2>1. s \in Seq(Actions) /\ Rest(s, t) /\ InMap(s, p) /\ InEffect(s, p)
    BY <1>0, <2>0, <2>3, PlanOnce DEF StepsAt, KindAt
  <2>2. p = Len(s)
    BY <2>0, <2>1
  <2>. QED
    BY <2>0, <2>1, <2>2, EffectStays
<1>15. CASE ModeShutter(c)
  <2>1. op' = op /\ op[c].kind \notin WriteKinds
    BY <1>0, <1>15 DEF ModeShutter, KindAt
  <2>. QED
    BY <2>1 DEF StepsAt
<1>16. CASE SelectMode(c)
  <2>1. op' = op /\ op[c].kind \notin WriteKinds
    BY <1>0, <1>16 DEF SelectMode, KindAt
  <2>. QED
    BY <2>1 DEF StepsAt
<1>17. CASE Param(c)
  <2>1. op' = op /\ op[c].kind \notin WriteKinds
    BY <1>0, <1>17 DEF Param, KindAt
  <2>. QED
    BY <2>1 DEF StepsAt
<1>18. CASE Return(c)
  <2>1. op'[c].kind \notin WriteKinds
    BY <1>0, <1>18 DEF Return, Locals, NoCommand, None, WriteKinds
  <2>. QED
    BY <2>1 DEF StepsAt
<1>. QED
  BY <1>1, <1>2, <1>3, <1>4, <1>5, <1>6, <1>7, <1>8, <1>9, <1>10, <1>11, <1>12, <1>13, <1>14,
     <1>15, <1>16, <1>17, <1>18 DEF ClientStep

LEMMA AllInEffect ==
  ASSUME NEW k \in Commands, k.kind \in WriteKinds, InEffect(Plan(k), Len(Plan(k))),
         NEW n \in DOMAIN k.writes, k.writes[n].item \in ItemsOf(Acf[latest].lines)
  PROVE  applied[k.writes[n].item] = k.writes[n].value
<1>1. PICK q \in 1 .. Len(Plan(k)) : \E r \in 1 .. q :
           /\ Plan(k)[q] = ApplyStep(Scope[k.writes[n].item])
           /\ Plan(k)[r] = WriteStep(k.writes[n].item, k.writes[n].value)
  BY PlanApplies
<1>2. PICK r \in 1 .. q :
           /\ Plan(k)[q] = ApplyStep(Scope[k.writes[n].item])
           /\ Plan(k)[r] = WriteStep(k.writes[n].item, k.writes[n].value)
  BY <1>1
<1>3. /\ Plan(k)[q].do = "apply" /\ Plan(k)[q].scope = Scope[k.writes[n].item]
      /\ Plan(k)[r].do = "write" /\ Plan(k)[r].item = k.writes[n].item
      /\ Plan(k)[r].value = k.writes[n].value
  BY <1>2 DEF ApplyStep, WriteStep
<1>. QED
  BY <1>3 DEF InEffect

-----------------------------------------------------------------------------
(* The theorems *)

LEMMA StartOfAll ==
  ASSUME Init
  PROVE  /\ Locals /\ KindInv /\ ReportInv /\ LoadInv
         /\ Tables /\ MirrorInv /\ WholeInv /\ StepsInv
<1>1. /\ stage = [c \in Clients |-> "idle"] /\ error = [c \in Clients |-> "NO_ERROR"]
      /\ op = [c \in Clients |-> NoCommand] /\ wrote = [c \in Clients |-> FALSE]
      /\ ~firmwareloaded /\ ~modeselected /\ DOMAIN map = {}
  BY DEF Init, NoEntries
<1>2. Locals
  BY DEF Init, Locals, Stages, Codes
<1>3. NoCommand.kind \notin WriteKinds \cup {"load", "mode"}
  BY DEF NoCommand, None, WriteKinds
<1>4. KindInv /\ ReportInv
  BY <1>1, <1>3 DEF KindInv, KindAt, ReportInv, ReportAt
<1>5. LoadInv /\ MirrorInv
  BY <1>1 DEF LoadInv, LoadAt, MirrorInv, MirrorAt
<1>6. Tables
  BY DEF Init, Tables, NoEntries
<1>7. WholeInv
  BY <1>1 DEF WholeInv, Loading
<1>8. StepsInv
  BY <1>1, <1>3 DEF StepsInv, StepsAt
<1>. QED
  BY <1>2, <1>4, <1>5, <1>6, <1>7, <1>8

LEMMA Stays ==
  ASSUME UNCHANGED vars
  PROVE  /\ Locals' <=> Locals
         /\ KindInv' <=> KindInv
         /\ ReportInv' <=> ReportInv
         /\ LoadInv' <=> LoadInv
         /\ Tables' <=> Tables
         /\ MirrorInv' <=> MirrorInv
         /\ WholeInv' <=> WholeInv
         /\ StepsInv' <=> StepsInv
<1>1. UNCHANGED <<firmwareloaded, modeselected, mode, map, modemap, memory, applied,
                  stage, op, todo, changed, wrote, error, latest, astray, failed>>
  BY DEF vars, host, controller, locals, history
<1>2. Locals' <=> Locals
  BY <1>1 DEF Locals
<1>3. KindInv' <=> KindInv
  BY <1>1 DEF KindInv, KindAt, Step
<1>4. ReportInv' <=> ReportInv
  BY <1>1 DEF ReportInv, ReportAt
<1>5. LoadInv' <=> LoadInv
  BY <1>1 DEF LoadInv, LoadAt, Loading, RestOfFile, Filled, Holds, LineCount, File
<1>6. Tables' <=> Tables
  BY <1>1 DEF Tables
<1>7. MirrorInv' <=> MirrorInv
  BY <1>1 DEF MirrorInv, MirrorAt, Step, Mirrors, Exact
<1>8. WholeInv' <=> WholeInv
  BY <1>1, SameMemory DEF WholeInv, Loading
<1>9. StepsInv' <=> StepsInv
  BY <1>1 DEF StepsInv, StepsAt, InMap, InEffect
<1>. QED
  BY <1>2, <1>3, <1>4, <1>5, <1>6, <1>7, <1>8, <1>9

(* Commands keep to their stages. *)
THEOREM CommandsInStages ==
  ASSUME OneClient
  PROVE  Spec => [](Locals /\ KindInv /\ ReportInv)
<1>1. Init => Locals /\ KindInv /\ ReportInv
  BY StartOfAll
<1>2. Locals /\ KindInv /\ ReportInv /\ [Next]_vars => (Locals /\ KindInv /\ ReportInv)'
  <2>. SUFFICES ASSUME Locals, KindInv, ReportInv, [Next]_vars
                PROVE  Locals' /\ KindInv' /\ ReportInv'
    OBVIOUS
  <2>1. CASE UNCHANGED vars
    BY <2>1, Stays
  <2>2. ASSUME NEW c \in Clients, ClientStep(c) PROVE Locals' /\ KindInv' /\ ReportInv'
    BY <2>2, LocalsStep, KindStep, ReportStep
  <2>. QED
    BY <2>1, <2>2 DEF Next, ClientStep
<1>. QED
  BY <1>1, <1>2, PTL DEF Spec

(* load_firmware returns NO_ERROR only when the file is loaded and its mode
   DEFAULT selected, whichever of its commands fail and whatever fetchlog
   returns. *)
THEOREM LoadsAreReported ==
  ASSUME OneClient
  PROVE  Spec => []LoadReported
<1>1. ReportInv => LoadReported
  BY DEF ReportInv, ReportAt, LoadReported
<1>2. Spec => [](Locals /\ KindInv /\ ReportInv)
  BY CommandsInStages
<1>. QED
  BY <1>1, <1>2, PTL

(* The maps and the memory agree. *)
THEOREM MapsInStep ==
  ASSUME OneClient, Reliable, DistinctLines
  PROVE  Spec => [](LoadInv /\ Tables /\ MirrorInv)
<1>1. Init => LoadInv /\ Tables /\ MirrorInv
  BY StartOfAll
<1>2. /\ Locals /\ KindInv /\ LoadInv /\ Tables /\ MirrorInv /\ [Next]_vars
      => (LoadInv /\ Tables /\ MirrorInv)'
  <2>. SUFFICES ASSUME Locals, KindInv, LoadInv, Tables, MirrorInv, [Next]_vars
                PROVE  LoadInv' /\ Tables' /\ MirrorInv'
    OBVIOUS
  <2>1. CASE UNCHANGED vars
    BY <2>1, Stays
  <2>2. ASSUME NEW c \in Clients, ClientStep(c) PROVE LoadInv' /\ Tables' /\ MirrorInv'
    BY <2>2, LoadStep, TablesStep, MirrorStep
  <2>. QED
    BY <2>1, <2>2 DEF Next, ClientStep
<1>3. Spec => [](Locals /\ KindInv /\ ReportInv)
  BY CommandsInStages
<1>. QED
  BY <1>1, <1>2, <1>3, PTL DEF Spec

(* Between commands, with firmware loaded, the maps say of every line of the
   configuration memory what it holds, whatever was refused: so a value that
   write_config_key or write_parameter does not write is in the memory.  For one
   client, replies that are not lost, and files that name no item twice. *)
THEOREM MapsMirrorMemory ==
  ASSUME OneClient, Reliable, DistinctLines
  PROVE  Spec => []MirrorExact
<1>1. MirrorInv => MirrorExact
  <2>. SUFFICES ASSUME MirrorInv, Quiet PROVE Exact
    BY DEF MirrorExact, Exact
  <2>1. PICK c \in Clients : TRUE
    BY DEF OneClient
  <2>. QED
    BY DEF MirrorInv, MirrorAt, Quiet
<1>2. Spec => [](LoadInv /\ Tables /\ MirrorInv)
  BY MapsInStep
<1>. QED
  BY <1>1, <1>2, PTL

(* The memory has the lines of the file. *)
THEOREM MemoryInStep ==
  ASSUME OneClient, Reliable, DistinctLines
  PROVE  Spec => []WholeInv
<1>1. Init => WholeInv
  BY StartOfAll
<1>2. /\ Locals /\ KindInv /\ ReportInv /\ LoadInv /\ Tables /\ WholeInv /\ [Next]_vars
      => WholeInv'
  <2>. SUFFICES ASSUME Locals, KindInv, ReportInv, LoadInv, Tables, WholeInv, [Next]_vars
                PROVE  WholeInv'
    OBVIOUS
  <2>1. CASE UNCHANGED vars
    BY <2>1, Stays
  <2>2. ASSUME NEW c \in Clients, ClientStep(c) PROVE WholeInv'
    BY <2>2, WholeStep
  <2>. QED
    BY <2>1, <2>2 DEF Next, ClientStep
<1>3. Spec => [](Locals /\ KindInv /\ ReportInv)
  BY CommandsInStages
<1>4. Spec => [](LoadInv /\ Tables /\ MirrorInv)
  BY MapsInStep
<1>. QED
  BY <1>1, <1>2, <1>3, <1>4, PTL DEF Spec

(* Between commands, firmwareloaded, and a selected mode, mean that every line
   of the file loaded last is in the memory at its line, whichever commands were
   refused, unless load_acf broke off at a malformed line, or an item that only
   an earlier file has was written since (astray).  For one client, replies that
   are not lost, and files that name no item twice. *)
THEOREM FirmwareIsWhole ==
  ASSUME OneClient, Reliable, DistinctLines
  PROVE  Spec => []WholeFirmware
<1>1. WholeInv => WholeFirmware
  <2>. SUFFICES ASSUME WholeInv, firmwareloaded \/ modeselected, ~astray,
                       \A c \in Clients : stage[c] \in {"idle", "done"}
                PROVE  Whole
    BY DEF WholeFirmware, Whole
  <2>1. PICK c \in Clients : TRUE
    BY DEF OneClient
  <2>. QED
    BY <2>1 DEF WholeInv, Loading
<1>2. Spec => []WholeInv
  BY MemoryInStep
<1>. QED
  BY <1>1, <1>2, PTL

(* A command that changes keys of the firmware and returns NO_ERROR has put its
   values into effect, whatever was refused before it and however often it is
   repeated; sensor and heater, which do not return the code of what they write
   and apply, only if none of their own steps failed.  For one client, replies
   that are not lost, and files that name no item twice. *)
THEOREM WritesAreApplied ==
  ASSUME OneClient, Reliable, DistinctLines
  PROVE  Spec => []SuccessApplied
<1>1. Init => StepsInv
  BY StartOfAll
<1>2. /\ Locals /\ KindInv /\ Tables /\ MirrorInv /\ WholeInv /\ StepsInv /\ [Next]_vars
      => StepsInv'
  <2>. SUFFICES ASSUME Locals, KindInv, Tables, MirrorInv, WholeInv, StepsInv, [Next]_vars
                PROVE  StepsInv'
    OBVIOUS
  <2>1. CASE UNCHANGED vars
    BY <2>1, Stays
  <2>2. ASSUME NEW c \in Clients, ClientStep(c) PROVE StepsInv'
    BY <2>2, StepsStep
  <2>. QED
    BY <2>1, <2>2 DEF Next, ClientStep
<1>3. KindInv /\ StepsInv => SuccessApplied
  <2>. SUFFICES ASSUME KindInv, StepsInv, NEW c \in Clients,
                       stage[c] = "done", error[c] = "NO_ERROR",
                       op[c].kind \in WriteKinds, firmwareloaded, ~astray,
                       ReadsBack(op[c]) => ~failed[c],
                       NEW n \in DOMAIN op[c].writes,
                       op[c].writes[n].item \in ItemsOf(Acf[latest].lines)
                PROVE  applied[op[c].writes[n].item] = op[c].writes[n].value
    BY DEF SuccessApplied, ReadsBack
  <2>1. op[c] \in Commands
    BY DEF KindInv, KindAt
  <2>2. InEffect(Plan(op[c]), Len(Plan(op[c])))
    BY DEF StepsInv, StepsAt
  <2>. QED
    BY <2>1, <2>2, AllInEffect
<1>4. Spec => [](Locals /\ KindInv /\ ReportInv)
  BY CommandsInStages
<1>5. Spec => [](LoadInv /\ Tables /\ MirrorInv)
  BY MapsInStep
<1>6. Spec => []WholeInv
  BY MemoryInStep
<1>. QED
  BY <1>1, <1>2, <1>3, <1>4, <1>5, <1>6, PTL DEF Spec
=============================================================================
