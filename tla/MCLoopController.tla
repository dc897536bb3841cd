-------------------------- MODULE MCLoopController --------------------------
(***************************************************************************)
(* LoopController for TLC: two resources; the finalizer of the first may be  *)
(* declared again with a weaker policy.                                      *)
(***************************************************************************)
EXTENDS LoopController

All == {"success", "failure", "timeout"}
Stop == [res |-> "pane", id |-> "stop", policy |-> "required", when |-> All]
Softer == [Stop EXCEPT !.policy = "best_effort", !.when = {"success"}]
Keep == [res |-> "log", id |-> "keep", policy |-> "preserve_only",
         when |-> {"failure"}]

TwoResources == {Stop, Softer, Keep}
OneResource == {Stop}
=============================================================================
