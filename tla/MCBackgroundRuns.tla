--------------------------- MODULE MCBackgroundRuns ---------------------------
(***************************************************************************)
(* BackgroundRuns for TLC.  OneObject is a host that keeps one              *)
(* BackgroundRunStore (the tests and embedding programs); ObjectPerCall is  *)
(* the plugin, which constructs one in every tool call.                     *)
(***************************************************************************)
EXTENDS BackgroundRuns

CONSTANTS r1, r2, s1, s2

OneObject == [a \in Actors |-> "shared"]
ObjectPerCall == [a \in Actors |->
  IF a = Recoverer THEN "recovery" ELSE IF a \in Stoppers THEN "control" ELSE "launch"]
Objects == {"shared", "launch", "control", "recovery"}
=============================================================================
