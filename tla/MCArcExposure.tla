---------------------------- MODULE MCArcExposure ----------------------------
(* Scenarios for ArcExposure. *)
EXTENDS ArcExposure

\* One device whose buffer is used again, which may fail or be aborted.
Ring == [devices |-> 1, frames |-> 3, fpb |-> 2, useframes |-> TRUE,
         apifails |-> TRUE, openfails |-> FALSE, writefails |-> FALSE, aborts |-> TRUE]

\* Two devices with two frames each.
Pair == [Ring EXCEPT !.devices = 2, !.frames = 2]

\* Files that may not be created, and images that may not be written.
BadDisk == [Ring EXCEPT !.frames = 2, !.openfails = TRUE, !.writefails = TRUE]

\* Firmware without frame numbers, on such a disk.
NoNumbers == [Ring EXCEPT !.useframes = FALSE, !.openfails = TRUE, !.writefails = TRUE]

SomeScenarios == {Ring, Pair, BadDisk, NoNumbers}
=============================================================================
