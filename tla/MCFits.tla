-------------------------------- MODULE MCFits --------------------------------
(* Scenarios for FitsFile. *)
EXTENDS FitsFile

\* Single images and cubes; creating, reading and writing may fail.
Errors == [commands |-> {"datacube_true", "datacube_false"}, during |-> FALSE, rawtoo |-> FALSE,
           create |-> TRUE, wait |-> FALSE, read |-> TRUE, write |-> TRUE, slow |-> FALSE,
           seq |-> 3, pre |-> 1, files |-> 5]

\* One extension per amplifier, nothing fails.
Amplifiers == [Errors EXCEPT !.commands = {"datacube_true", "cubeamps_true", "cubeamps_false"},
                             !.create = FALSE, !.read = FALSE, !.write = FALSE]

\* Image and raw data, nothing fails.
RawData == [Amplifiers EXCEPT !.commands = {"datacube_true", "datacube_false"}, !.rawtoo = TRUE,
                              !.files = 6]

\* Images that are written late or not at all, up to three files in a row.
Late == [Errors EXCEPT !.create = FALSE, !.read = FALSE, !.slow = TRUE, !.seq = 1, !.pre = 0,
                       !.files = 4]

\* Cubes and amplifiers that are written late.
LateCubes == [Amplifiers EXCEPT !.slow = TRUE, !.seq = 2, !.pre = 0, !.files = 3]

\* Amplifiers, raw data, cubes and the mode RAW with every failure.
Failures == [Errors EXCEPT !.commands = {"cubeamps_true", "cubeamps_false", "datacube_true",
                                         "mode_raw", "mode_image"},
                           !.rawtoo = TRUE, !.wait = TRUE, !.seq = 2, !.files = 3]

SomeScenarios == {Errors, Amplifiers, RawData, Late, LateCubes, Failures}
=============================================================================
