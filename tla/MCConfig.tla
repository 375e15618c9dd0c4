------------------------------- MODULE MCConfig -------------------------------
(* Three ACF files and a few commands for ConfigMirror.  Two files have most of
   their items in common, on different lines, with a mode DEFAULT and a mode
   FAST; at the third load_acf returns half way. *)
EXTENDS ConfigMirror

MCScope == [Gain |-> "CDS", Heat |-> "MOD05", Force |-> "SYSTEM", Level |-> "SYSTEM",
            Taps |-> "PARAMS", Shut |-> "PARAMS"]

Line(i, v) == [item |-> i, value |-> v]
Default == [Gain |-> "0", Taps |-> "0"]
Fast == [Gain |-> "1", Taps |-> "1"]

MCAcf ==
  [first |-> [opens |-> TRUE, wellformed |-> TRUE,
     lines |-> <<Line("Gain", "0"), Line("Level", "0"), Line("Force", "0"), Line("Taps", "0"),
                 Line("Shut", "0")>>,
     modes |-> [DEFAULT |-> Default, FAST |-> Fast]],
   second |-> [opens |-> TRUE, wellformed |-> TRUE,
     lines |-> <<Line("Shut", "0"), Line("Level", "0"), Line("Heat", "0"), Line("Taps", "1"),
                 Line("Gain", "1")>>,
     modes |-> [DEFAULT |-> Default]],
   broken |-> [opens |-> TRUE, wellformed |-> FALSE,
     lines |-> <<Line("Gain", "0")>>, modes |-> [DEFAULT |-> Default]],
   missing |-> [opens |-> FALSE, wellformed |-> TRUE, lines |-> <<>>, modes |-> NoEntries]]

Loads == {[kind |-> "load", file |-> f, then |-> "all"] : f \in DOMAIN MCAcf}
         \cup {[kind |-> "load", file |-> "first", then |-> "timing"]}
ModeChanges == {[kind |-> "mode", mode |-> m] : m \in {"FAST", "SLOW"}}
KeyChanges ==
  {[kind |-> "cds", writes |-> <<Line("Gain", "1")>>]}
  \cup {[kind |-> k, writes |-> <<Line("Heat", "1")>>] : k \in {"heater", "sensor"}}
  \cup {[kind |-> "shutter", writes |-> <<Line("Force", "1"), Line("Level", "1")>>]}
  \cup {[kind |-> "param", item |-> "Shut", value |-> "0"]}
MCCommands == Loads \cup ModeChanges \cup KeyChanges
MCRetry == {[kind |-> "load", file |-> "first", then |-> "all"], [kind |-> "mode", mode |-> "FAST"]}
=============================================================================
