---------------------------- MODULE ImageSequence ----------------------------
(***************************************************************************)
(* What a sequence of exposures promises its client: the images of one     *)
(* expose are consecutive frames, each one newer than every frame          *)
(* delivered before.                                                       *)
(***************************************************************************)
EXTENDS Integers, Sequences

CONSTANTS MaxSeq, MaxFrames

VARIABLES
  left,     \* images still owed to the client
  images,   \* frames delivered by this expose
  newest    \* newest frame ever delivered

vars == <<left, images, newest>>

Init == left = 0 /\ images = <<>> /\ newest = 0

Begin(n) ==
  /\ left = 0
  /\ left' \in {0, n} /\ images' = <<>>
  /\ UNCHANGED newest

Deliver(f) ==
  /\ left > 0
  /\ IF images = <<>> THEN f > newest ELSE f = newest + 1
  /\ images' = Append(images, f) /\ newest' = f /\ left' = left - 1

GiveUp == left' = 0 /\ UNCHANGED <<images, newest>>

Next == GiveUp \/ (\E n \in 1 .. MaxSeq : Begin(n)) \/ \E f \in 1 .. MaxFrames : Deliver(f)

Spec == Init /\ [][Next]_vars
=============================================================================
