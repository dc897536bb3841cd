--------------------------- MODULE MCWorkflowEvents ---------------------------
(***************************************************************************)
(* WorkflowEvents for TLC: a consumer that wants two of the ids.  The log   *)
(* grows by at most one line per id, so the model is finite as it stands.   *)
(* The queue implements EventStream: the readable log is the stream.        *)
(***************************************************************************)
EXTENDS WorkflowEvents

CONSTANTS e1, e2, e3, c1, c2

MCWanted == [c \in Consumers |-> IF c = c1 THEN Ids \ {e3} ELSE Ids \ {e1}]
=============================================================================
