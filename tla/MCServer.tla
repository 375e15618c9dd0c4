------------------------------- MODULE MCServer -------------------------------
(* Scenarios for Server: what each connection sends. *)
EXTENDS Server

CONSTANTS p1, p2, h1, h2, w1, w2, b

Script(s1, s2, s3, s4) == (p1 :> s1) @@ (p2 :> s2) @@ (h1 :> s3) @@ (h2 :> s4)

\* Two workers at once, one with a client that sends an empty line too.
Talk == [script |-> Script(<<>>, <<>>, <<"ok">>, <<"empty", "fail">>),
         quits |-> {}, signal |-> FALSE, async |-> TRUE]

\* Lines in two parts; clients that hang up in between.
Late == [Talk EXCEPT !.script = Script(<<"late">>, <<>>, <<"ok">>, <<>>), !.quits = {p1}]

\* The blocking port is used twice.
Turns == [Talk EXCEPT !.script = Script(<<"echo", "ok">>, <<"ok">>, <<>>, <<>>),
                      !.async = FALSE]

\* The server is told to end, by a command and by a signal.
Stop == [Talk EXCEPT !.script = Script(<<"exit">>, <<>>, <<"ok">>, <<>>), !.signal = TRUE]

SomeScenarios == {Talk, Late, Turns, Stop}
=============================================================================
