---------------------------- MODULE MCControlPlane ----------------------------
(***************************************************************************)
(* ControlPlane for TLC: two operators who stop, retry or decide.            *)
(***************************************************************************)
EXTENDS ControlPlane, TLC

CONSTANTS o1, o2

OperatorsAlike == Permutations(Operators)

MCSetups ==
  {[verbs |-> {"resume", "stop"}, splits |-> {1}, capability |-> "provisioned"],
   [verbs |-> {"retry", "force"}, splits |-> {}, capability |-> "unreplayable"],
   [verbs |-> {"approve", "reject"}, splits |-> {2}, capability |-> "gated"],
   [verbs |-> {"edit", "respond"}, splits |-> {}, capability |-> "gated"],
   [verbs |-> {"pause", "task_stop"}, splits |-> {}, capability |-> "unreplayable"]}
=============================================================================
