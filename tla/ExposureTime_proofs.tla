-------------------------- MODULE ExposureTime_proofs --------------------------
(***************************************************************************)
(* Theorems about ExposureTime, for any times, units and constants.        *)
(***************************************************************************)
EXTENDS ExposureTime, SequenceTheorems, TLAPS

-----------------------------------------------------------------------------
(* The inductive invariant. *)

StepSet == [op : Ops, v : Nat, u : Units \cup {"none"}]

(* What may come after a step of a command. *)
Follows(a, b) ==
  /\ a.op = "unit" => b.op = "long"
  /\ a.op = "long" => b.op = "resend"
  /\ a.op = "time" => b.op = "keep" /\ b.v = a.v
  /\ a.op \notin {"unit", "long", "time"} => b.op \notin {"long", "resend", "keep"}
  /\ a.op # "trigger" /\ b.op # "unit"

(* The rest of a command. *)
Rests(s) ==
  /\ s \in Seq(StepSet)
  /\ \A i \in 1 .. Len(s) - 1 : Follows(s[i], s[i + 1])
  /\ s # <<>> => s[Len(s)].op \notin {"unit", "long", "time"}
  /\ s # <<>> /\ s[1].op = "unit" => s[1].u \in Units
  /\ \A i \in 1 .. Len(s) : s[1].op = "unit" /\ s[i].op \in {"time", "keep"} =>
                              s[i].u \in {"none", s[1].u}

Typed ==
  /\ value \in Nat /\ unit \in Units /\ isset = TRUE
  /\ param \in [time : Nat, long : BOOLEAN] /\ acf \in Parameters
  /\ error \in [Threads -> BOOLEAN] /\ \A t \in Threads : Rests(todo[t])
  /\ DOMAIN todo = Threads
  /\ exposing \in Nat /\ clock \in Nat /\ start \in Nat \cup {NoTime}

(* The steps of a command that keep a time take it in the unit that the
   command has set, unless another command runs. *)
InItsUnit ==
  ~overlap => \A t \in Threads : todo[t] # <<>> /\ todo[t][1].op # "unit" =>
    \A i \in 1 .. Len(todo[t]) : todo[t][i].op \in {"time", "keep"} => todo[t][i].u \in {"none", unit}

LongAgrees == param.long <=> unit = "s"
Agrees == LongAgrees /\ param.time = value

(* What host and controller have in common before the step of a command. *)
AgreesAt(s) ==
  /\ s.op \notin {"long", "resend", "keep"} => Agrees
  /\ s.op = "resend" => LongAgrees
  /\ s.op = "keep" => LongAgrees /\ param.time = s.v

(* A trusted time is one of a command that runs alone, and agrees as far as
   the command has come. *)
TrustInv ==
  /\ ~overlap => \A t, u \in Threads : todo[t] # <<>> /\ todo[u] # <<>> => t = u
  /\ trust => ~overlap
  /\ trust => \A t \in Threads : todo[t] # <<>> => AgreesAt(todo[t][1])
  /\ trust /\ Quiet => Agrees

(* An exposure that began in agreement, and in which no time was set since. *)
KeptInv ==
  /\ todo[Exposer] # <<>> => phase = "idle"
  /\ kept /\ phase # "idle" => exposing = HostMs
  /\ WaitCovers

TimeInv == Typed /\ InItsUnit /\ TrustInv /\ KeptInv

-----------------------------------------------------------------------------
(* Commands are lists of steps that may follow each other. *)

(* A command as it begins. *)
Whole(s) ==
  /\ Rests(s) /\ s # <<>> /\ s[1].op \notin {"long", "resend", "keep"}
  /\ s[1].op # "unit" => \A i \in 1 .. Len(s) : s[i].op \in {"time", "keep"} => s[i].u = "none"

LEMMA StepType ==
  ASSUME NEW op \in Ops, NEW v \in Nat, NEW u \in Units \cup {"none"}
  PROVE  /\ Step(op, v, u) \in StepSet
         /\ Step(op, v, u).op = op /\ Step(op, v, u).v = v /\ Step(op, v, u).u = u
  BY DEF Step, StepSet

LEMMA ExpTimeWhole ==
  ASSUME NEW v \in Nat
  PROVE  Whole(ExpTime(v))
<1>. DEFINE a == Step("time", v, "none")
            b == Step("keep", v, "none")
            s == ExpTime(v)
<1>1. /\ a \in StepSet /\ b \in StepSet /\ a.op = "time" /\ b.op = "keep" /\ a.v = v /\ b.v = v
      /\ a.u = "none" /\ b.u = "none"
  BY StepType DEF Ops
<1>2. s = <<a, b>>
  BY DEF ExpTime
<1>. HIDE DEF a, b, s
<1>3. s \in Seq(StepSet) /\ Len(s) = 2 /\ s[1] = a /\ s[2] = b /\ s # <<>>
  BY <1>1, <1>2
<1>4. \A i \in 1 .. Len(s) : i \in {1, 2}
  BY <1>3
<1>5. \A i \in 1 .. Len(s) - 1 : i = 1
  BY <1>3
<1>6. Follows(a, b)
  BY <1>1 DEF Follows
<1>7. Rests(s)
  BY <1>1, <1>3, <1>4, <1>5, <1>6 DEF Rests
<1>8. Whole(s)
  BY <1>1, <1>3, <1>4, <1>7 DEF Whole
<1>. QED
  BY <1>8 DEF s

LEMMA LongExposureWhole ==
  ASSUME NEW u \in Units
  PROVE  Whole(LongExposure(u))
<1>. DEFINE a == Step("unit", 0, u)
            b == Step("long", 0, u)
            c == Step("resend", 0, u)
            s == LongExposure(u)
<1>1. /\ a \in StepSet /\ b \in StepSet /\ c \in StepSet
      /\ a.op = "unit" /\ b.op = "long" /\ c.op = "resend" /\ a.u = u
  BY StepType DEF Ops, Units
<1>2. s = <<a, b, c>>
  BY DEF LongExposure
<1>. HIDE DEF a, b, c, s
<1>3. s \in Seq(StepSet) /\ Len(s) = 3 /\ s[1] = a /\ s[2] = b /\ s[3] = c /\ s # <<>>
  BY <1>1, <1>2
<1>4. \A i \in 1 .. Len(s) : i \in {1, 2, 3}
  BY <1>3
<1>5. \A i \in 1 .. Len(s) - 1 : i \in {1, 2}
  BY <1>3
<1>6. Follows(a, b) /\ Follows(b, c)
  BY <1>1 DEF Follows
<1>7. Rests(s)
  BY <1>1, <1>3, <1>4, <1>5, <1>6 DEF Rests
<1>8. Whole(s)
  BY <1>1, <1>3, <1>4, <1>7 DEF Whole
<1>. QED
  BY <1>8 DEF s

LEMMA FourSteps ==
  ASSUME NEW a \in StepSet, NEW b \in StepSet, NEW c \in StepSet, NEW d \in StepSet
  PROVE  <<a, b, c>> \o <<d>> = <<a, b, c, d>>
<1>. DEFINE p == <<a, b, c>>
            q == <<d>>
            r == <<a, b, c, d>>
<1>1. /\ p \in Seq(StepSet) /\ q \in Seq(StepSet) /\ r \in Seq(StepSet)
      /\ Len(p) = 3 /\ Len(q) = 1 /\ Len(r) = 4
      /\ p[1] = a /\ p[2] = b /\ p[3] = c /\ q[1] = d
      /\ r[1] = a /\ r[2] = b /\ r[3] = c /\ r[4] = d
  OBVIOUS
<1>. HIDE DEF p, q, r
<1>2. /\ p \o q \in Seq(StepSet) /\ Len(p \o q) = 4
      /\ \A i \in 1 .. 4 : (p \o q)[i] = IF i <= 3 THEN p[i] ELSE q[i - 3]
  <2>1. /\ p \o q \in Seq(StepSet) /\ Len(p \o q) = Len(p) + Len(q)
        /\ \A i \in 1 .. Len(p) + Len(q) : (p \o q)[i] = IF i <= Len(p) THEN p[i] ELSE q[i - Len(p)]
    BY <1>1, ConcatProperties
  <2>. QED
    BY <1>1, <2>1
<1>3. \A i \in 1 .. 4 : i \in {1, 2, 3, 4}
  OBVIOUS
<1>. DEFINE x == p \o q
<1>. HIDE DEF x
<1>4. x[1] = p[1] /\ x[2] = p[2] /\ x[3] = p[3] /\ x[4] = q[1]
  <2>1. \A i \in 1 .. 4 : x[i] = IF i <= 3 THEN p[i] ELSE q[i - 3]
    BY <1>2 DEF x
  <2>. QED
    BY <2>1
<1>5. \A i \in 1 .. 4 : x[i] = r[i]
  BY <1>1, <1>3, <1>4
<1>6. p \o q = r
  BY <1>1, <1>2, <1>5, SeqEqual DEF x
<1>. QED
  BY <1>6 DEF p, q, r

LEMMA SixSteps ==
  ASSUME NEW a \in StepSet, NEW b \in StepSet, NEW c \in StepSet, NEW d \in StepSet,
         NEW e \in StepSet, NEW f \in StepSet
  PROVE  <<a, b, c, d>> \o <<e, f>> = <<a, b, c, d, e, f>>
<1>. DEFINE p == <<a, b, c, d>>
            q == <<e, f>>
            r == <<a, b, c, d, e, f>>
<1>1. /\ p \in Seq(StepSet) /\ q \in Seq(StepSet) /\ r \in Seq(StepSet)
      /\ Len(p) = 4 /\ Len(q) = 2 /\ Len(r) = 6
      /\ p[1] = a /\ p[2] = b /\ p[3] = c /\ p[4] = d /\ q[1] = e /\ q[2] = f
      /\ r[1] = a /\ r[2] = b /\ r[3] = c /\ r[4] = d /\ r[5] = e /\ r[6] = f
  OBVIOUS
<1>. HIDE DEF p, q, r
<1>2. /\ p \o q \in Seq(StepSet) /\ Len(p \o q) = 6
      /\ \A i \in 1 .. 6 : (p \o q)[i] = IF i <= 4 THEN p[i] ELSE q[i - 4]
  <2>1. /\ p \o q \in Seq(StepSet) /\ Len(p \o q) = Len(p) + Len(q)
        /\ \A i \in 1 .. Len(p) + Len(q) : (p \o q)[i] = IF i <= Len(p) THEN p[i] ELSE q[i - Len(p)]
    BY <1>1, ConcatProperties
  <2>. QED
    BY <1>1, <2>1
<1>3. \A i \in 1 .. 6 : i \in {1, 2, 3, 4, 5, 6}
  OBVIOUS
<1>. DEFINE x == p \o q
<1>. HIDE DEF x
<1>4. /\ x[1] = p[1] /\ x[2] = p[2] /\ x[3] = p[3]
      /\ x[4] = p[4] /\ x[5] = q[1] /\ x[6] = q[2]
  <2>1. \A i \in 1 .. 6 : x[i] = IF i <= 4 THEN p[i] ELSE q[i - 4]
    BY <1>2 DEF x
  <2>. QED
    BY <2>1
<1>5. \A i \in 1 .. 6 : x[i] = r[i]
  BY <1>1, <1>3, <1>4
<1>6. p \o q = r
  BY <1>1, <1>2, <1>5, SeqEqual DEF x
<1>. QED
  BY <1>6 DEF p, q, r

LEMMA CheckedSteps ==
  ASSUME NEW u \in Units
  PROVE  Checked(LongExposure(u)) =
           <<Step("unit", 0, u), Step("long", 0, u), Step("resend", 0, u), Step("check", 0, "ms")>>
<1>1. /\ Step("unit", 0, u) \in StepSet /\ Step("long", 0, u) \in StepSet
      /\ Step("resend", 0, u) \in StepSet /\ Step("check", 0, "ms") \in StepSet
  BY StepType DEF Ops, Units
<1>. QED
  BY <1>1, FourSteps DEF Checked, LongExposure

LEMMA ExpTimeInWhole ==
  ASSUME NEW v \in Nat, NEW u \in Units
  PROVE  Whole(ExpTimeIn(v, u))
<1>. DEFINE a == Step("unit", 0, u)
            b == Step("long", 0, u)
            c == Step("resend", 0, u)
            d == Step("check", 0, "ms")
            e == Step("time", v, u)
            f == Step("keep", v, u)
            s == ExpTimeIn(v, u)
<1>1. /\ a \in StepSet /\ b \in StepSet /\ c \in StepSet
      /\ d \in StepSet /\ e \in StepSet /\ f \in StepSet
      /\ a.op = "unit" /\ b.op = "long" /\ c.op = "resend"
      /\ d.op = "check" /\ e.op = "time" /\ f.op = "keep" /\ e.v = v /\ f.v = v
      /\ a.u = u /\ e.u = u /\ f.u = u
  BY StepType DEF Ops, Units
<1>2. s = <<a, b, c, d>> \o <<e, f>>
  BY CheckedSteps DEF ExpTimeIn
<1>. HIDE DEF a, b, c, d, e, f, s
<1>3. s = <<a, b, c, d, e, f>>
  BY <1>1, <1>2, SixSteps
<1>4. /\ s \in Seq(StepSet) /\ Len(s) = 6 /\ s[1] = a /\ s[2] = b /\ s[3] = c
      /\ s[4] = d /\ s[5] = e /\ s[6] = f /\ s # <<>>
  BY <1>1, <1>3
<1>5. \A i \in 1 .. Len(s) : i \in {1, 2, 3, 4, 5, 6}
  BY <1>4
<1>6. \A i \in 1 .. Len(s) - 1 : i \in {1, 2, 3, 4, 5}
  BY <1>4
<1>7. Follows(a, b) /\ Follows(b, c) /\ Follows(c, d) /\ Follows(d, e) /\ Follows(e, f)
  BY <1>1 DEF Follows
<1>8. \A i \in 1 .. Len(s) - 1 : Follows(s[i], s[i + 1])
  BY <1>4, <1>6, <1>7
<1>9. Rests(s)
  BY <1>1, <1>4, <1>5, <1>8 DEF Rests
<1>10. Whole(s)
  BY <1>1, <1>4, <1>9 DEF Whole
<1>. QED
  BY <1>10 DEF s

LEMMA AppendStep ==
  ASSUME NEW s \in Seq(StepSet), NEW e \in StepSet
  PROVE  /\ Append(s, e) \in Seq(StepSet) /\ Len(Append(s, e)) = Len(s) + 1
         /\ \A i \in 1 .. Len(s) : Append(s, e)[i] = s[i]
         /\ Append(s, e)[Len(s) + 1] = e
  BY AppendProperties

LEMMA FiveSteps ==
  ASSUME NEW a \in StepSet, NEW b \in StepSet, NEW c \in StepSet, NEW d \in StepSet,
         NEW e \in StepSet
  PROVE  Append(<<a, b, c, d>>, e) = <<a, b, c, d, e>>
<1>. DEFINE p == <<a, b, c, d>>
            r == <<a, b, c, d, e>>
<1>1. /\ p \in Seq(StepSet) /\ r \in Seq(StepSet) /\ Len(p) = 4 /\ Len(r) = 5
      /\ p[1] = a /\ p[2] = b /\ p[3] = c /\ p[4] = d
      /\ r[1] = a /\ r[2] = b /\ r[3] = c /\ r[4] = d /\ r[5] = e
  OBVIOUS
<1>. HIDE DEF p, r
<1>2. /\ Append(p, e) \in Seq(StepSet) /\ Len(Append(p, e)) = 5 /\ Append(p, e)[5] = e
      /\ \A i \in 1 .. 4 : Append(p, e)[i] = p[i]
  <2>1. /\ Append(p, e) \in Seq(StepSet) /\ Len(Append(p, e)) = Len(p) + 1
        /\ \A i \in 1 .. Len(p) : Append(p, e)[i] = p[i]
        /\ Append(p, e)[Len(p) + 1] = e
    BY <1>1, AppendStep
  <2>. QED
    BY <1>1, <2>1
<1>3. \A i \in 1 .. 5 : i \in 1 .. 4 \/ i = 5
  OBVIOUS
<1>4. \A i \in 1 .. 4 : i \in {1, 2, 3, 4}
  OBVIOUS
<1>. DEFINE x == Append(p, e)
<1>. HIDE DEF x
<1>5. \A i \in 1 .. 4 : x[i] = r[i]
  <2>1. \A i \in 1 .. 4 : x[i] = p[i]
    BY <1>2 DEF x
  <2>2. x[1] = p[1] /\ x[2] = p[2] /\ x[3] = p[3] /\ x[4] = p[4]
    BY <2>1
  <2>. QED
    BY <1>1, <1>4, <2>2
<1>6. \A i \in 1 .. 5 : x[i] = r[i]
  BY <1>1, <1>2, <1>3, <1>5 DEF x
<1>7. Append(p, e) = r
  BY <1>1, <1>2, <1>6, SeqEqual DEF x
<1>. QED
  BY <1>7 DEF p, r

(* What expose does once the constructor has set the time. *)
LEMMA ExposeWhole ==
  ASSUME isset = TRUE
  PROVE  Whole(Append(Defaults, Step("trigger", 0, "none")))
<1>. DEFINE t == Step("trigger", 0, "none")
            s == Append(Defaults, t)
<1>1. t \in StepSet /\ t.op = "trigger"
  BY StepType DEF Ops
<1>2. CASE longset \/ ~longsupported
  <2>1. Defaults = <<>>
    BY <1>2 DEF Defaults
  <2>. HIDE DEF t
  <2>2. s = <<t>>
    BY <2>1
  <2>. HIDE DEF s
  <2>3. s \in Seq(StepSet) /\ Len(s) = 1 /\ s[1] = t /\ s # <<>>
    BY <1>1, <2>2
  <2>4. \A i \in 1 .. Len(s) : i = 1
    BY <2>3
  <2>5. Rests(s)
    BY <1>1, <2>3, <2>4 DEF Rests
  <2>6. Whole(s)
    BY <1>1, <2>3, <2>4, <2>5 DEF Whole
  <2>. QED
    BY <2>6 DEF s, t
<1>3. CASE ~(longset \/ ~longsupported)
  <2>1. PICK u \in Units : Defaults = <<>> \o Checked(LongExposure(u))
    BY <1>3 DEF Defaults, Units
  <2>. DEFINE a == Step("unit", 0, u)
              b == Step("long", 0, u)
              c == Step("resend", 0, u)
              d == Step("check", 0, "ms")
  <2>2. /\ a \in StepSet /\ b \in StepSet /\ c \in StepSet /\ d \in StepSet
        /\ a.op = "unit" /\ b.op = "long" /\ c.op = "resend" /\ d.op = "check"
        /\ a.u = u
    BY StepType DEF Ops, Units
  <2>3. Defaults = <<>> \o <<a, b, c, d>>
    BY <2>1, CheckedSteps
  <2>. HIDE DEF a, b, c, d, t
  <2>4. s = <<a, b, c, d, t>>
    <3>1. <<a, b, c, d>> \in Seq(StepSet)
      BY <2>2
    <3>2. Defaults = <<a, b, c, d>>
      BY <2>3, <3>1, ConcatEmptySeq
    <3>. QED
      BY <2>2, <3>2, <1>1, FiveSteps DEF s
  <2>. HIDE DEF s
  <2>5. /\ s \in Seq(StepSet) /\ Len(s) = 5 /\ s[1] = a /\ s[2] = b /\ s[3] = c
        /\ s[4] = d /\ s[5] = t /\ s # <<>>
    BY <1>1, <2>2, <2>4
  <2>6. \A i \in 1 .. Len(s) : i \in {1, 2, 3, 4, 5}
    BY <2>5
  <2>7. \A i \in 1 .. Len(s) - 1 : i \in {1, 2, 3, 4}
    BY <2>5
  <2>8. Follows(a, b) /\ Follows(b, c) /\ Follows(c, d) /\ Follows(d, t)
    BY <1>1, <2>2 DEF Follows
  <2>9. \A i \in 1 .. Len(s) - 1 : Follows(s[i], s[i + 1])
    BY <2>5, <2>7, <2>8
  <2>10. Rests(s)
    BY <1>1, <2>2, <2>5, <2>6, <2>9 DEF Rests
  <2>11. Whole(s)
    BY <2>2, <2>5, <2>10 DEF Whole
  <2>. QED
    BY <2>11 DEF s, t
<1>. QED
  BY <1>2, <1>3

(* What is left after a step. *)
LEMMA TailRests ==
  ASSUME NEW s, Rests(s), s # <<>>
  PROVE  /\ Rests(Tail(s)) /\ s[1] \in StepSet
         /\ s[1].op \in {"unit", "long", "time"} => Tail(s) # <<>>
         /\ Tail(s) # <<>> => Follows(s[1], Tail(s)[1])
         /\ s[1].op = "trigger" => Tail(s) = <<>>
         /\ \A i \in 1 .. Len(Tail(s)) : i + 1 \in 1 .. Len(s) /\ Tail(s)[i] = s[i + 1]
<1>. DEFINE q == Tail(s)
<1>1. s \in Seq(StepSet) /\ Len(s) \in Nat /\ Len(s) > 0
  BY EmptySeq, LenProperties DEF Rests
<1>2. /\ q \in Seq(StepSet) /\ Len(q) = Len(s) - 1 /\ \A i \in 1 .. Len(q) : q[i] = s[i + 1]
  BY <1>1, HeadTailProperties
<1>. HIDE DEF q
<1>3. s[1] \in StepSet
  BY <1>1, ElementOfSeq
<1>4. q # <<>> <=> Len(q) > 0
  BY <1>1, <1>2, EmptySeq
<1>5. q # <<>> => Follows(s[1], q[1])
  <2>1. q # <<>> => 1 \in 1 .. Len(s) - 1 /\ q[1] = s[1 + 1]
    BY <1>1, <1>2, <1>4
  <2>2. \A i \in 1 .. Len(s) - 1 : Follows(s[i], s[i + 1])
    BY DEF Rests
  <2>. QED
    BY <2>1, <2>2
<1>6. s[1].op \in {"unit", "long", "time"} => q # <<>>
  <2>1. q = <<>> => Len(s) = 1
    BY <1>1, <1>2, EmptySeq
  <2>. QED
    BY <2>1 DEF Rests
<1>7. s[1].op = "trigger" => q = <<>>
  BY <1>5 DEF Follows
<1>8. \A i \in 1 .. Len(q) : i + 1 \in 1 .. Len(s) /\ q[i] = s[i + 1]
  BY <1>1, <1>2
<1>9. \A i \in 1 .. Len(q) - 1 : Follows(q[i], q[i + 1])
  <2>1. ASSUME NEW i \in 1 .. Len(q) - 1
        PROVE  Follows(q[i], q[i + 1])
    <3>1. i \in 1 .. Len(q) /\ i + 1 \in 1 .. Len(q) /\ i + 1 \in 1 .. Len(s) - 1
      BY <1>1, <1>2
    <3>2. q[i] = s[i + 1] /\ q[i + 1] = s[(i + 1) + 1]
      BY <3>1, <1>8
    <3>. QED
      BY <3>1, <3>2 DEF Rests
  <2>. QED
    BY <2>1
<1>10. q # <<>> => q[Len(q)] = s[Len(s)] /\ q[1].op # "unit"
  <2>1. q # <<>> => Len(q) \in 1 .. Len(q) /\ Len(q) + 1 = Len(s)
    BY <1>1, <1>2, <1>4
  <2>. QED
    BY <2>1, <1>5, <1>8 DEF Follows
<1>11. s[Len(s)].op \notin {"unit", "long", "time"}
  BY DEF Rests
<1>12. \A i \in 1 .. Len(q) : q # <<>>
  BY <1>1, <1>2, <1>4
<1>13. Rests(q)
  BY <1>2, <1>9, <1>10, <1>11, <1>12 DEF Rests
<1>. QED
  BY <1>3, <1>5, <1>6, <1>7, <1>8, <1>13 DEF q

-----------------------------------------------------------------------------
(* Times. *)

LEMMA Fits ==
  ASSUME NEW a \in Nat, NEW w \in Nat \ {0}, a < w
  PROVE  a % w = a
  OBVIOUS

LEMMA ModType ==
  ASSUME NEW a \in Nat, NEW w \in Nat \ {0}
  PROVE  a % w \in Nat
  OBVIOUS

LEMMA DivType ==
  ASSUME NEW a \in Nat, NEW w \in Nat \ {0}
  PROVE  a \div w \in Nat
  OBVIOUS

LEMMA ProductType ==
  ASSUME NEW a \in Nat, NEW w \in Nat
  PROVE  a * w \in Nat
  OBVIOUS

LEMMA MillisecondsType ==
  ASSUME NEW v \in Nat, NEW u
  PROVE  Milliseconds(v, u) \in Nat
<1>1. v * Second \in Nat /\ Word \in Nat \ {0}
  BY ProductType, ExposureTimeAssumption
<1>2. (v * Second) % Word \in Nat
  BY <1>1, ModType
<1>. QED
  BY <1>2 DEF Milliseconds

LEMMA InUnitType ==
  ASSUME Typed, NEW u \in Units
  PROVE  InUnit(u) \in Nat
<1>1. value * Second \in Nat /\ Word \in Nat \ {0} /\ value \in Nat /\ Second \in Nat \ {0}
  BY ProductType, ExposureTimeAssumption DEF Typed
<1>2. (value * Second) % Word \in Nat /\ value \div Second \in Nat
  BY <1>1, ModType, DivType
<1>. QED
  BY <1>1, <1>2 DEF InUnit

LEMMA AgreedTimes ==
  ASSUME Typed, Agrees
  PROVE  ControllerMs = HostMs
<1>1. CASE unit = "s"
  <2>1. param.long = TRUE /\ param.time = value
    BY <1>1 DEF Agrees, LongAgrees, Typed
  <2>. QED
    BY <1>1, <2>1 DEF ControllerMs, HostMs
<1>2. CASE unit = "ms"
  <2>1. param.long = FALSE /\ param.time = value
    BY <1>2 DEF Agrees, LongAgrees, Typed
  <2>. QED
    BY <1>2, <2>1 DEF ControllerMs, HostMs
<1>. QED
  BY <1>1, <1>2 DEF Typed, Units

LEMMA AgreeTogether ==
  ASSUME Typed, Agrees
  PROVE  param = [time |-> value, long |-> unit = "s"]
<1>1. /\ param \in [time : Nat, long : BOOLEAN] /\ param.time = value
      /\ (unit = "s" /\ param.long = TRUE) \/ (unit # "s" /\ param.long = FALSE)
  BY DEF Agrees, LongAgrees, Typed
<1>2. CASE unit = "s" /\ param.long = TRUE
  <2>1. param = [time |-> value, long |-> TRUE]
    BY <1>1, <1>2
  <2>2. (unit = "s") = TRUE
    BY <1>2
  <2>. QED
    BY <2>1, <2>2
<1>3. CASE unit # "s" /\ param.long = FALSE
  <2>1. param = [time |-> value, long |-> FALSE]
    BY <1>1, <1>3
  <2>2. (unit = "s") = FALSE
    BY <1>3
  <2>. QED
    BY <2>1, <2>2
<1>. QED
  BY <1>1, <1>2, <1>3

(* As many ticks as the exposure has are as many milliseconds. *)
LEMMA TicksPassed ==
  ASSUME NEW e \in Nat, NEW c \in Int, NEW m \in Nat \ {0}, c * m >= e * m
  PROVE  c >= e
<1>1. SUFFICES ASSUME c < e
               PROVE  FALSE
  OBVIOUS
<1>2. PICK d \in Nat \ {0} : e = c + d
  <2>1. e - c \in Nat \ {0} /\ e = c + (e - c)
    BY <1>1
  <2>. QED
    BY <2>1
<1>3. e * m = c * m + d * m
  BY <1>2
<1>4. d * m > 0
  BY <1>2
<1>5. c * m \in Int /\ d * m \in Int /\ e * m \in Int
  OBVIOUS
<1>. QED
  BY <1>3, <1>4, <1>5

-----------------------------------------------------------------------------
(* Steps of commands. *)

(* A step of thread t after which r is left of its command. *)
LEMMA StepOn ==
  ASSUME Typed, InItsUnit, TrustInv, NEW t \in Threads, todo[t] # <<>>,
         NEW r, todo' = [todo EXCEPT ![t] = r], overlap' = overlap,
         trust' => ~overlap,
         trust' /\ r # <<>> => AgreesAt(r[1])',
         trust' /\ r = <<>> => Agrees',
         ~overlap /\ r # <<>> /\ r[1].op # "unit" =>
           \A i \in 1 .. Len(r) : r[i].op \in {"time", "keep"} => r[i].u \in {"none", unit'}
  PROVE  TrustInv' /\ InItsUnit'
<1>1. todo'[t] = r /\ \A u \in Threads : u # t => todo'[u] = todo[u]
  BY DEF Typed
<1>2. ~overlap => \A u \in Threads : u # t => todo'[u] = <<>>
  BY <1>1 DEF TrustInv
<1>3. trust' => \A u \in Threads : todo'[u] # <<>> => AgreesAt(todo[u][1])'
  <2>1. ASSUME trust', NEW u \in Threads, todo'[u] # <<>>
        PROVE  AgreesAt(todo[u][1])'
    <3>1. u = t
      BY <2>1, <1>2
    <3>2. AgreesAt(r[1])' /\ todo'[u][1] = r[1]
      BY <2>1, <3>1, <1>1
    <3>. QED
      BY <3>2 DEF AgreesAt
  <2>. QED
    BY <2>1
<1>4. trust' /\ Quiet' => Agrees'
  BY <1>1 DEF Quiet
<1>5. ~overlap' => \A u, v \in Threads : todo'[u] # <<>> /\ todo'[v] # <<>> => u = v
  BY <1>2
<1>6. trust' => ~overlap'
  OBVIOUS
<1>7. TrustInv'
  BY <1>3, <1>4, <1>5, <1>6 DEF TrustInv
<1>8. InItsUnit'
  <2>1. ASSUME ~overlap', NEW u \in Threads, todo'[u] # <<>>, todo'[u][1].op # "unit",
               NEW i \in 1 .. Len(todo'[u]), todo'[u][i].op \in {"time", "keep"}
        PROVE  todo'[u][i].u \in {"none", unit'}
    <3>1. u = t /\ todo'[u] = r
      BY <2>1, <1>1, <1>2
    <3>. QED
      BY <2>1, <3>1
  <2>. QED
    BY <2>1 DEF InItsUnit
<1>. QED
  BY <1>7, <1>8

(* Types of todo after it. *)
LEMMA StepTyped ==
  ASSUME Typed, NEW t \in Threads, NEW r, Rests(r), todo' = [todo EXCEPT ![t] = r]
  PROVE  DOMAIN todo' = Threads /\ \A u \in Threads : Rests(todo'[u])
  BY DEF Typed

LEMMA NothingRests == Rests(<<>>)
<1>1. <<>> \in Seq(StepSet) /\ Len(<<>>) = 0
  BY EmptySeq
<1>. QED
  BY <1>1 DEF Rests

(* The first step of a thread, and what is left after it. *)
LEMMA FirstOf ==
  ASSUME Typed, NEW t \in Threads, NEW op, Doing(t, op)
  PROVE  /\ Rests(todo[t]) /\ todo[t] # <<>> /\ This(t) = todo[t][1] /\ todo[t][1].op = op
         /\ todo[t][1] \in StepSet /\ Rests(Tail(todo[t]))
<1>1. Rests(todo[t]) /\ todo[t] # <<>>
  BY DEF Typed, Doing
<1>2. todo[t] \in Seq(StepSet)
  BY <1>1 DEF Rests
<1>3. Head(todo[t]) = todo[t][1]
  BY <1>1, <1>2, HeadTailProperties
<1>. QED
  BY <1>1, <1>3, TailRests DEF Doing, This

(* A wait goes on while nobody touches it or the time. *)
LEMMA WaitsOn ==
  ASSUME KeptInv, UNCHANGED <<value, unit, waiting, kept>>,
         todo'[Exposer] # <<>> => todo[Exposer] # <<>>
  PROVE  KeptInv'
  BY DEF KeptInv, WaitCovers, waiting, HostMs, Milliseconds

LEMMA SetUnitStep ==
  ASSUME TimeInv, NEW t \in Threads, SetUnit(t)
  PROVE  TimeInv'
<1>. DEFINE s == todo[t]
<1>1. PICK r : r = Tail(s)
  OBVIOUS
<1>2. /\ Rests(s) /\ s # <<>> /\ This(t) = s[1] /\ s[1].op = "unit" /\ s[1] \in StepSet /\ Rests(r)
  BY <1>1, FirstOf DEF TimeInv, SetUnit
<1>3. /\ r # <<>> /\ Follows(s[1], r[1])
      /\ \A i \in 1 .. Len(r) : i + 1 \in 1 .. Len(s) /\ r[i] = s[i + 1]
  BY <1>1, <1>2, TailRests
<1>4. s[1].u \in Units
  BY <1>2 DEF Rests
<1>5. /\ todo' = [todo EXCEPT ![t] = r] /\ unit' = s[1].u /\ value' = InUnit(s[1].u) /\ kept' = FALSE
      /\ UNCHANGED <<chosen, isset, param, error, waiting, trust, overlap>>
  BY <1>1, <1>2 DEF SetUnit, Done
<1>6. Typed'
  BY <1>2, <1>4, <1>5, InUnitType, StepTyped DEF TimeInv, Typed, chosen, waiting
<1>7. r[1].op = "long"
  BY <1>2, <1>3 DEF Follows
<1>8. AgreesAt(r[1])'
  BY <1>7 DEF AgreesAt
<1>9. \A i \in 1 .. Len(r) : r[i].op \in {"time", "keep"} => r[i].u \in {"none", unit'}
  BY <1>2, <1>3, <1>5 DEF Rests
<1>10. TrustInv' /\ InItsUnit'
  <2>1. trust' => ~overlap
    BY <1>5 DEF TimeInv, TrustInv
  <2>. QED
    BY <2>1, <1>2, <1>3, <1>5, <1>8, <1>9, StepOn DEF TimeInv
<1>11. KeptInv'
  <2>1. todo'[Exposer] # <<>> => todo[Exposer] # <<>>
    BY <1>2, <1>5 DEF TimeInv, Typed, Threads
  <2>. QED
    BY <2>1, <1>5 DEF TimeInv, KeptInv, WaitCovers, waiting
<1>. QED
  BY <1>6, <1>10, <1>11 DEF TimeInv

(* What is left after a step takes the times in the unit of the command. *)
LEMMA StillInItsUnit ==
  ASSUME Typed, InItsUnit, NEW t \in Threads, todo[t] # <<>>, todo[t][1].op # "unit", ~overlap,
         NEW i \in 1 .. Len(Tail(todo[t])), Tail(todo[t])[i].op \in {"time", "keep"}
  PROVE  Tail(todo[t])[i].u \in {"none", unit}
<1>1. i + 1 \in 1 .. Len(todo[t]) /\ Tail(todo[t])[i] = todo[t][i + 1]
  BY TailRests DEF Typed
<1>. QED
  BY <1>1 DEF InItsUnit

LEMMA SendStep ==
  ASSUME TimeInv, NEW t \in Threads, Send(t)
  PROVE  TimeInv'
<1>. DEFINE s == todo[t]
<1>1. PICK r : r = Tail(s)
  OBVIOUS
<1>2. /\ Rests(s) /\ s # <<>> /\ This(t) = s[1] /\ s[1].op \in {"long", "resend"} /\ Rests(r)
      /\ Doing(t, "long") <=> s[1].op = "long"
  BY <1>1, FirstOf DEF TimeInv, Send, Doing
<1>3. /\ s[1].op = "long" => r # <<>>
      /\ r # <<>> => Follows(s[1], r[1])
  BY <1>1, <1>2, TailRests
<1>4. /\ todo' = [todo EXCEPT ![t] = r]
      /\ UNCHANGED <<chosen, host, waiting, overlap, kept>>
      /\ trust' = (~error'[t] /\ ~overlap /\ (trust \/ Doing(t, "long")))
  BY <1>1 DEF Send, Done
<1>5. param' = Sent(t) \/ (param' = param /\ error' = [error EXCEPT ![t] = TRUE])
  BY DEF Send, Fails
<1>6. error' = error \/ error' = [error EXCEPT ![t] = TRUE]
  BY DEF Send, Fails
<1>7. trust' => param' = Sent(t) /\ ~overlap /\ (trust \/ s[1].op = "long")
  <2>1. error' = [error EXCEPT ![t] = TRUE] => error'[t]
    BY DEF TimeInv, Typed
  <2>. QED
    BY <2>1, <1>2, <1>4, <1>5
<1>8. /\ Sent(t) \in [time : Nat, long : BOOLEAN]
      /\ s[1].op = "long" => (Sent(t).long <=> unit = "s") /\ Sent(t).time = param.time
      /\ s[1].op = "resend" => (Sent(t).long <=> param.long) /\ Sent(t).time = value
  <2>1. CASE s[1].op = "long"
    <3>1. PICK b \in BOOLEAN : b <=> unit = "s"
      OBVIOUS
    <3>2. Sent(t) = [param EXCEPT !.long = b]
      BY <2>1, <3>1, <1>2 DEF Sent
    <3>. QED
      BY <2>1, <3>1, <3>2 DEF TimeInv, Typed
  <2>2. CASE s[1].op = "resend"
    <3>1. Sent(t) = [param EXCEPT !.time = value]
      BY <2>2, <1>2 DEF Sent
    <3>. QED
      BY <2>2, <3>1 DEF TimeInv, Typed
  <2>. QED
    BY <2>1, <2>2, <1>2
<1>9. Typed'
  <2>1. param' \in [time : Nat, long : BOOLEAN]
    BY <1>5, <1>8 DEF TimeInv, Typed
  <2>2. error' \in [Threads -> BOOLEAN]
    BY <1>6 DEF TimeInv, Typed
  <2>. QED
    BY <2>1, <2>2, <1>2, <1>4, StepTyped DEF TimeInv, Typed, chosen, host, waiting
<1>10. trust' => LongAgrees' /\ (s[1].op = "resend" => Agrees')
  <2>1. SUFFICES ASSUME trust'
                 PROVE  LongAgrees' /\ (s[1].op = "resend" => Agrees')
    OBVIOUS
  <2>2. param' = Sent(t) /\ unit' = unit /\ value' = value
    BY <2>1, <1>4, <1>7 DEF host
  <2>3. CASE s[1].op = "long"
    BY <2>2, <2>3, <1>8 DEF LongAgrees
  <2>4. CASE s[1].op = "resend"
    <3>1. LongAgrees
      BY <2>1, <2>4, <1>2, <1>7 DEF TimeInv, TrustInv, AgreesAt
    <3>. QED
      BY <2>2, <2>4, <3>1, <1>8 DEF LongAgrees, Agrees
  <2>. QED
    BY <2>3, <2>4, <1>2
<1>11. trust' /\ r # <<>> => AgreesAt(r[1])'
  BY <1>2, <1>3, <1>10 DEF AgreesAt, Follows
<1>12. trust' /\ r = <<>> => Agrees'
  BY <1>2, <1>3, <1>10
<1>13. ~overlap /\ r # <<>> /\ r[1].op # "unit" =>
         \A i \in 1 .. Len(r) : r[i].op \in {"time", "keep"} => r[i].u \in {"none", unit'}
  <2>1. unit' = unit /\ s[1].op # "unit"
    BY <1>2, <1>4 DEF host
  <2>. QED
    BY <2>1, <1>1, <1>2, StillInItsUnit DEF TimeInv
<1>14. TrustInv' /\ InItsUnit'
  BY <1>2, <1>4, <1>7, <1>11, <1>12, <1>13, StepOn DEF TimeInv
<1>15. KeptInv'
  <2>1. todo'[Exposer] # <<>> => todo[Exposer] # <<>>
    BY <1>2, <1>4 DEF TimeInv, Typed, Threads
  <2>. QED
    BY <2>1, <1>4, WaitsOn DEF TimeInv, host
<1>. QED
  BY <1>9, <1>14, <1>15 DEF TimeInv

LEMMA CheckStep ==
  ASSUME TimeInv, NEW t \in Threads, Check(t)
  PROVE  TimeInv'
<1>. DEFINE s == todo[t]
<1>1. /\ Rests(s) /\ s # <<>> /\ s[1].op = "check" /\ Rests(Tail(s))
  BY FirstOf DEF TimeInv, Check
<1>2. PICK r : /\ r \in {Tail(s), <<>>} /\ todo' = [todo EXCEPT ![t] = r]
  BY DEF Check, Done, GivesUp
<1>3. /\ Rests(r) /\ (r # <<>> => r = Tail(s) /\ Follows(s[1], r[1]))
  BY <1>1, <1>2, TailRests, NothingRests
<1>4. UNCHANGED <<chosen, host, param, error, waiting, trust, overlap, kept>>
  BY DEF Check, history
<1>5. Typed'
  BY <1>2, <1>3, <1>4, StepTyped DEF TimeInv, Typed, chosen, host, waiting
<1>6. trust => Agrees /\ ~overlap
  BY <1>1 DEF TimeInv, TrustInv, AgreesAt
<1>7. trust' => Agrees' /\ LongAgrees'
  BY <1>4, <1>6 DEF Agrees, LongAgrees, host
<1>8. trust' /\ r # <<>> => AgreesAt(r[1])'
  BY <1>1, <1>3, <1>7 DEF AgreesAt, Follows
<1>9. ~overlap /\ r # <<>> /\ r[1].op # "unit" =>
        \A i \in 1 .. Len(r) : r[i].op \in {"time", "keep"} => r[i].u \in {"none", unit'}
  BY <1>1, <1>3, <1>4, StillInItsUnit DEF TimeInv, host
<1>10. TrustInv' /\ InItsUnit'
  BY <1>1, <1>2, <1>4, <1>6, <1>7, <1>8, <1>9, StepOn DEF TimeInv
<1>11. KeptInv'
  <2>1. todo'[Exposer] # <<>> => todo[Exposer] # <<>>
    BY <1>1, <1>2 DEF TimeInv, Typed, Threads
  <2>. QED
    BY <2>1, <1>4, WaitsOn DEF TimeInv, host
<1>. QED
  BY <1>5, <1>10, <1>11 DEF TimeInv

LEMMA SendTimeStep ==
  ASSUME TimeInv, NEW t \in Threads, SendTime(t)
  PROVE  TimeInv'
<1>. DEFINE s == todo[t]
            sent == [param EXCEPT !.time = s[1].v]
<1>1. /\ Rests(s) /\ s # <<>> /\ s[1].op = "time" /\ Rests(Tail(s)) /\ s[1] \in StepSet /\ This(t) = s[1]
  BY FirstOf DEF TimeInv, SendTime
<1>2. s[1].v \in Nat
  BY <1>1 DEF StepSet
<1>3. /\ sent \in [time : Nat, long : BOOLEAN] /\ sent.time = s[1].v /\ (sent.long <=> param.long)
  BY <1>2 DEF TimeInv, Typed
<1>. HIDE DEF sent
<1>4. PICK r : /\ todo' = [todo EXCEPT ![t] = r]
               /\ \/ r = Tail(s) /\ param' = sent /\ UNCHANGED <<error, trust>>
                  \/ /\ r = <<>> /\ param' \in {param, sent} /\ trust' = FALSE
                     /\ error' = [error EXCEPT ![t] = TRUE]
  BY <1>1 DEF SendTime, Done, GivesUp, Fails, sent
<1>5. /\ Rests(r)
      /\ r # <<>> => r = Tail(s) /\ Follows(s[1], r[1]) /\ param' = sent /\ trust' = trust
      /\ r = <<>> => trust' = FALSE
  BY <1>1, <1>4, TailRests, NothingRests
<1>6. UNCHANGED <<chosen, host, waiting, overlap, kept>>
  BY DEF SendTime
<1>7. Typed'
  <2>1. param' \in [time : Nat, long : BOOLEAN] /\ error' \in [Threads -> BOOLEAN]
    BY <1>3, <1>4 DEF TimeInv, Typed
  <2>. QED
    BY <2>1, <1>4, <1>5, <1>6, StepTyped DEF TimeInv, Typed, chosen, host, waiting
<1>8. trust => Agrees /\ ~overlap
  BY <1>1 DEF TimeInv, TrustInv, AgreesAt
<1>9. trust' /\ r # <<>> => AgreesAt(r[1])'
  <2>1. SUFFICES ASSUME trust', r # <<>>
                 PROVE  AgreesAt(r[1])'
    OBVIOUS
  <2>2. r[1].op = "keep" /\ r[1].v = s[1].v
    BY <2>1, <1>1, <1>5 DEF Follows
  <2>3. param' = sent /\ unit' = unit /\ LongAgrees
    BY <2>1, <1>5, <1>6, <1>8 DEF host, Agrees
  <2>4. LongAgrees' /\ param'.time = r[1].v
    BY <2>2, <2>3, <1>3 DEF LongAgrees
  <2>. QED
    BY <2>2, <2>4 DEF AgreesAt
<1>10. ~overlap /\ r # <<>> /\ r[1].op # "unit" =>
         \A i \in 1 .. Len(r) : r[i].op \in {"time", "keep"} => r[i].u \in {"none", unit'}
  BY <1>1, <1>5, <1>6, StillInItsUnit DEF TimeInv, host
<1>11. TrustInv' /\ InItsUnit'
  <2>1. trust' => ~overlap
    BY <1>5, <1>8
  <2>. QED
    BY <2>1, <1>1, <1>4, <1>5, <1>6, <1>9, <1>10, StepOn DEF TimeInv
<1>12. KeptInv'
  <2>1. todo'[Exposer] # <<>> => todo[Exposer] # <<>>
    BY <1>1, <1>4 DEF TimeInv, Typed, Threads
  <2>. QED
    BY <2>1, <1>6, WaitsOn DEF TimeInv, host
<1>. QED
  BY <1>7, <1>11, <1>12 DEF TimeInv

LEMMA KeepStep ==
  ASSUME TimeInv, NEW t \in Threads, Keep(t)
  PROVE  TimeInv'
<1>. DEFINE s == todo[t]
<1>1. PICK r : r = Tail(s)
  OBVIOUS
<1>2. /\ Rests(s) /\ s # <<>> /\ s[1].op = "keep" /\ Rests(r) /\ s[1] \in StepSet /\ This(t) = s[1]
      /\ r # <<>> => Follows(s[1], r[1])
  BY <1>1, FirstOf, TailRests DEF TimeInv, Keep
<1>3. s[1].v \in Nat /\ s[1].u \in Units \cup {"none"}
  BY <1>2 DEF StepSet
<1>4. /\ todo' = [todo EXCEPT ![t] = r] /\ value' = s[1].v /\ isset' = TRUE
      /\ unit' = (IF s[1].u = "none" THEN unit ELSE s[1].u) /\ kept' = FALSE
      /\ UNCHANGED <<chosen, param, error, waiting, trust, overlap>>
  BY <1>1, <1>2 DEF Keep, Done
<1>5. Typed'
  BY <1>2, <1>3, <1>4, StepTyped DEF TimeInv, Typed, chosen, waiting
<1>6. ~overlap => unit' = unit
  <2>1. Len(s) \in Nat /\ Len(s) > 0
    BY <1>2, EmptySeq, LenProperties DEF Rests
  <2>2. ~overlap => s[1].u \in {"none", unit}
    BY <2>1, <1>2 DEF TimeInv, InItsUnit
  <2>. QED
    BY <2>2, <1>4
<1>7. trust => LongAgrees /\ param.time = s[1].v /\ ~overlap
  BY <1>2 DEF TimeInv, TrustInv, AgreesAt
<1>8. trust' => Agrees' /\ LongAgrees'
  BY <1>4, <1>6, <1>7 DEF Agrees, LongAgrees
<1>9. trust' /\ r # <<>> => AgreesAt(r[1])'
  BY <1>2, <1>8 DEF AgreesAt, Follows
<1>10. ~overlap /\ r # <<>> /\ r[1].op # "unit" =>
         \A i \in 1 .. Len(r) : r[i].op \in {"time", "keep"} => r[i].u \in {"none", unit'}
  BY <1>1, <1>2, <1>6, StillInItsUnit DEF TimeInv
<1>11. TrustInv' /\ InItsUnit'
  BY <1>2, <1>4, <1>7, <1>8, <1>9, <1>10, StepOn DEF TimeInv
<1>12. KeptInv'
  <2>1. todo'[Exposer] # <<>> => todo[Exposer] # <<>>
    BY <1>2, <1>4 DEF TimeInv, Typed, Threads
  <2>. QED
    BY <2>1, <1>4 DEF TimeInv, KeptInv, WaitCovers, waiting
<1>. QED
  BY <1>5, <1>11, <1>12 DEF TimeInv

LEMMA TriggerStep ==
  ASSUME TimeInv, Trigger
  PROVE  TimeInv'
<1>. DEFINE s == todo[Exposer]
<1>1. PICK r : r = Tail(s)
  OBVIOUS
<1>2. Exposer \in Threads
  BY DEF Threads
<1>3. /\ Rests(s) /\ s # <<>> /\ s[1].op = "trigger" /\ Rests(r) /\ r = <<>>
  BY <1>1, <1>2, FirstOf, TailRests DEF TimeInv, Trigger
<1>4. /\ todo' = [todo EXCEPT ![Exposer] = r] /\ phase' = "ready" /\ exposing' = ControllerMs
      /\ kept' = trust /\ UNCHANGED <<chosen, host, param, error, clock, start, trust, overlap>>
  BY <1>1 DEF Trigger, Done
<1>5. Typed'
  <2>1. exposing' \in Nat
    BY <1>4, MillisecondsType DEF ControllerMs, TimeInv, Typed
  <2>. QED
    BY <2>1, <1>2, <1>3, <1>4, StepTyped DEF TimeInv, Typed, chosen, host
<1>6. trust => Agrees /\ ~overlap
  BY <1>2, <1>3 DEF TimeInv, TrustInv, AgreesAt
<1>7. trust' => Agrees' /\ LongAgrees'
  BY <1>4, <1>6 DEF Agrees, LongAgrees, host
<1>8. TrustInv' /\ InItsUnit'
  BY <1>2, <1>3, <1>4, <1>6, <1>7, StepOn DEF TimeInv
<1>9. KeptInv'
  <2>1. todo'[Exposer] = <<>>
    BY <1>2, <1>3, <1>4 DEF TimeInv, Typed
  <2>2. kept' => exposing' = HostMs'
    BY <1>4, <1>6, AgreedTimes DEF TimeInv, host, HostMs, Milliseconds
  <2>. QED
    BY <2>1, <2>2, <1>4 DEF KeptInv, WaitCovers
<1>. QED
  BY <1>5, <1>8, <1>9 DEF TimeInv

-----------------------------------------------------------------------------
(* The other steps. *)

LEMMA BeginStep ==
  ASSUME TimeInv, NEW t \in Threads, NEW s, Whole(s), Begin(t, s),
         UNCHANGED <<chosen, host, param, waiting, kept>>, t = Exposer => phase = "idle"
  PROVE  TimeInv'
<1>1. /\ todo[t] = <<>> /\ todo' = [todo EXCEPT ![t] = s] /\ error' = [error EXCEPT ![t] = FALSE]
      /\ overlap' = ~Quiet /\ trust' = (trust /\ Quiet)
  BY DEF Begin
<1>2. Typed'
  BY <1>1, StepTyped DEF Whole, TimeInv, Typed, chosen, host, waiting
<1>3. todo'[t] = s /\ \A u \in Threads : u # t => todo'[u] = todo[u]
  BY <1>1 DEF TimeInv, Typed
<1>4. Quiet => \A u \in Threads : u # t => todo'[u] = <<>>
  BY <1>3 DEF Quiet
<1>5. trust' => Agrees' /\ LongAgrees'
  BY <1>1 DEF TimeInv, TrustInv, Agrees, LongAgrees, host
<1>6. trust' => \A u \in Threads : todo'[u] # <<>> => AgreesAt(todo[u][1])'
  <2>1. ASSUME trust', NEW u \in Threads, todo'[u] # <<>>
        PROVE  AgreesAt(todo[u][1])'
    <3>1. todo'[u] = s
      BY <2>1, <1>1, <1>3, <1>4
    <3>2. todo'[u][1].op \notin {"long", "resend", "keep"}
      BY <3>1 DEF Whole
    <3>. QED
      BY <2>1, <3>2, <1>5 DEF AgreesAt
  <2>. QED
    BY <2>1
<1>7. TrustInv'
  <2>1. ~overlap' => \A u, v \in Threads : todo'[u] # <<>> /\ todo'[v] # <<>> => u = v
    BY <1>1, <1>4
  <2>2. trust' => ~overlap'
    BY <1>1
  <2>. QED
    BY <2>1, <2>2, <1>5, <1>6 DEF TrustInv
<1>8. InItsUnit'
  <2>1. ASSUME ~overlap', NEW u \in Threads, todo'[u] # <<>>, todo'[u][1].op # "unit",
               NEW i \in 1 .. Len(todo'[u]), todo'[u][i].op \in {"time", "keep"}
        PROVE  todo'[u][i].u \in {"none", unit'}
    <3>1. todo'[u] = s
      BY <2>1, <1>1, <1>3, <1>4
    <3>. QED
      BY <2>1, <3>1 DEF Whole
  <2>. QED
    BY <2>1 DEF InItsUnit
<1>9. KeptInv'
  <2>1. todo'[Exposer] # <<>> => phase = "idle"
    BY <1>3 DEF TimeInv, KeptInv, Threads
  <2>. QED
    BY <2>1 DEF TimeInv, KeptInv, WaitCovers, waiting, host, HostMs, Milliseconds
<1>. QED
  BY <1>2, <1>7, <1>8, <1>9 DEF TimeInv

LEMMA SetTimeStep ==
  ASSUME TimeInv, NEW t \in Setters, SetTime(t)
  PROVE  TimeInv'
<1>1. t \in Threads /\ t # Exposer
  BY ExposureTimeAssumption DEF Threads
<1>2. \A v \in Times : v \in Nat
  BY ExposureTimeAssumption
<1>3. PICK s : Whole(s) /\ Begin(t, s)
  BY <1>2, ExpTimeWhole, ExpTimeInWhole, LongExposureWhole DEF SetTime
<1>4. UNCHANGED <<chosen, host, param, waiting, kept>>
  BY DEF SetTime
<1>. QED
  BY <1>1, <1>3, <1>4, BeginStep

LEMMA ExposeStep ==
  ASSUME TimeInv, Expose
  PROVE  TimeInv'
<1>1. Whole(Append(Defaults, Step("trigger", 0, "none")))
  BY ExposeWhole DEF TimeInv, Typed
<1>2. UNCHANGED <<chosen, host, param, waiting, kept>> /\ phase = "idle" /\ Exposer \in Threads
  BY DEF Expose, Threads
<1>. QED
  BY <1>1, <1>2, BeginStep DEF Expose

LEMMA LoadParamsStep ==
  ASSUME TimeInv, LoadParams
  PROVE  TimeInv'
<1>1. /\ param' = acf /\ trust' = FALSE
      /\ UNCHANGED <<chosen, host, todo, error, waiting, overlap, kept>>
  BY DEF LoadParams
<1>2. acf \in [time : Nat, long : BOOLEAN]
  BY ExposureTimeAssumption DEF TimeInv, Typed, Parameters
<1>3. Typed'
  BY <1>1, <1>2 DEF TimeInv, Typed, chosen, host, waiting
<1>4. InItsUnit' /\ TrustInv'
  BY <1>1 DEF TimeInv, InItsUnit, TrustInv, host
<1>5. KeptInv'
  BY <1>1, WaitsOn DEF TimeInv, host
<1>. QED
  BY <1>3, <1>4, <1>5 DEF TimeInv

(* A step that leaves commands, times and parameters alone. *)
LEMMA SameTrust ==
  ASSUME TimeInv, UNCHANGED <<host, param, todo, overlap, trust>>
  PROVE  InItsUnit' /\ TrustInv'
  BY DEF TimeInv, InItsUnit, TrustInv, Quiet, AgreesAt, Agrees, LongAgrees, host

LEMMA RestStep ==
  ASSUME TimeInv, Rest, UNCHANGED <<chosen, host, param, todo, error, commands, trust, overlap>>
  PROVE  TimeInv'
<1>1. Typed'
  BY DEF TimeInv, Typed, Rest, chosen, host, NoTime
<1>2. KeptInv'
  BY DEF KeptInv, WaitCovers, Rest
<1>. QED
  BY <1>1, <1>2, SameTrust DEF TimeInv

LEMMA WaitStep ==
  ASSUME TimeInv, StartWait \/ Tick \/ WaitOver
  PROVE  TimeInv'
<1>1. /\ UNCHANGED <<chosen, host, param, todo, error, exposing, trust, overlap, kept>>
      /\ clock' \in {clock, clock + 1} /\ start' \in {start, clock, NoTime}
      /\ phase' \in {"ready", "wait", "poll"} /\ phase # "idle"
  BY DEF StartWait, Tick, WaitOver, MayTick, history
<1>2. Typed'
  BY <1>1 DEF TimeInv, Typed, chosen, host
<1>3. KeptInv'
  BY <1>1 DEF TimeInv, KeptInv, WaitCovers, HostMs, Milliseconds, host
<1>. QED
  BY <1>1, <1>2, <1>3, SameTrust DEF TimeInv

LEMMA PollDoneStep ==
  ASSUME TimeInv, PollDone
  PROVE  TimeInv'
<1>1. /\ phase = "poll" /\ phase' = "waited" /\ (Passed \/ start = NoTime)
      /\ UNCHANGED <<chosen, host, param, todo, error, exposing, clock, start, trust, overlap, kept>>
  BY DEF PollDone, history
<1>2. Typed'
  BY <1>1 DEF TimeInv, Typed, chosen, host
<1>3. WaitCovers'
  <2>1. SUFFICES ASSUME kept, start # NoTime, exposing * MSEC_TO_TICK < Word
                 PROVE  clock >= exposing
    BY <1>1 DEF WaitCovers
  <2>2. /\ exposing \in Nat /\ clock \in Nat /\ start \in Nat /\ exposing = HostMs
        /\ MSEC_TO_TICK \in Nat \ {0} /\ Word \in Nat \ {0}
    BY <2>1, <1>1, ExposureTimeAssumption DEF TimeInv, Typed, KeptInv
  <2>3. exposing * MSEC_TO_TICK \in Nat
    BY <2>2, ProductType
  <2>4. TicksDue = exposing * MSEC_TO_TICK
    BY <2>1, <2>2, <2>3, Fits DEF TicksDue
  <2>5. (clock - start) * MSEC_TO_TICK >= exposing * MSEC_TO_TICK
    BY <2>1, <2>4, <1>1 DEF Passed
  <2>6. clock - start \in Int
    BY <2>2
  <2>7. clock - start >= exposing
    BY <2>2, <2>5, <2>6, TicksPassed
  <2>. QED
    BY <2>2, <2>7
<1>4. KeptInv'
  BY <1>1, <1>3 DEF TimeInv, KeptInv, HostMs, Milliseconds, host
<1>. QED
  BY <1>1, <1>2, <1>4, SameTrust DEF TimeInv

LEMMA TimeStep ==
  ASSUME TimeInv, [Next]_vars
  PROVE  TimeInv'
<1>1. ASSUME NEW t \in Threads, Command(t)
      PROVE  TimeInv'
  BY <1>1, SetUnitStep, SendStep, CheckStep, SendTimeStep, KeepStep DEF Command
<1>2. CASE NoWait \/ PollFails \/ PollTimeout \/ Finish
  <2>1. Rest /\ UNCHANGED <<chosen, host, param, todo, error, commands, trust, overlap>>
    BY <1>2 DEF NoWait, PollFails, PollTimeout, Finish
  <2>. QED
    BY <2>1, RestStep
<1>3. CASE UNCHANGED vars
  <2>1. UNCHANGED <<host, param, todo, overlap, trust>> /\ Typed'
    BY <1>3 DEF vars, chosen, host, waiting, history, TimeInv, Typed
  <2>2. KeptInv'
    BY <1>3, WaitsOn DEF TimeInv, vars, host, history
  <2>. QED
    BY <2>1, <2>2, SameTrust DEF TimeInv
<1>. QED
  BY <1>1, <1>2, <1>3, SetTimeStep, ExposeStep, LoadParamsStep, WaitStep, TriggerStep, PollDoneStep
     DEF Next, Waiting

LEMMA FirstTime ==
  ASSUME Init
  PROVE  TimeInv
<1>1. acf \in Parameters /\ acf \in [time : Nat, long : BOOLEAN]
  BY ExposureTimeAssumption DEF Init, Parameters
<1>2. \A t \in Threads : Rests(todo[t]) /\ todo[t] = <<>>
  BY NothingRests DEF Init
<1>3. Typed
  BY <1>1, <1>2 DEF Init, Typed, SetByConstructor, Units, NoTime
<1>4. InItsUnit /\ TrustInv
  BY <1>2 DEF Init, InItsUnit, TrustInv
<1>5. KeptInv
  BY <1>2 DEF Init, KeptInv, WaitCovers, Threads
<1>. QED
  BY <1>3, <1>4, <1>5 DEF TimeInv

-----------------------------------------------------------------------------
(* The steps of a command follow each other as exptime and longexposure have
   them, and what they have told the host and the controller agrees as far as
   they have come. *)
THEOREM CommandsInStep == Spec => []TimeInv
<1>1. Init => TimeInv
  BY FirstTime
<1>2. TimeInv /\ [Next]_vars => TimeInv'
  BY TimeStep
<1>. QED
  BY <1>1, <1>2, PTL DEF Spec

(* After exptime or longexposure with a unit went well, host and controller
   have the same time and unit while no command fails, runs beside another
   one or loads the parameters again, whatever the times are. *)
THEOREM HostAndControllerAgree == Spec => []TimesAgree
<1>1. TimeInv => TimesAgree
  BY AgreeTogether DEF TimeInv, TrustInv, TimesAgree
<1>. QED
  BY <1>1, CommandsInStep, PTL

(* wait_for_exposure does not return NO_ERROR before the controller's
   exposure delay is over, if the time fits 32 bits of timer ticks and no
   client changed it during the wait. *)
THEOREM WaitCoversExposure == Spec => []WaitCovers
<1>1. TimeInv => WaitCovers
  BY DEF TimeInv, KeptInv
<1>. QED
  BY <1>1, CommandsInStep, PTL
=============================================================================
