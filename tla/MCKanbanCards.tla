---------------------------- MODULE MCKanbanCards ----------------------------
(***************************************************************************)
(* KanbanCards for TLC: one parent with two publishers over both backends    *)
(* and with either policy, and two parents with one publisher.               *)
(***************************************************************************)
EXTENDS KanbanCards

CONSTANTS p1, p2, g1, g2

One(backed, pol, broken) ==
  [cast |-> {p1, g1, g2}, backend |-> backed, policy |-> pol, splits |-> broken]
Two(backed, broken) ==
  [cast |-> {p1, p2, g1}, backend |-> backed, policy |-> "return", splits |-> broken]

\* Where two parents take part, the first event's line is split.
MCSetups == {One(backed, pol, {}) : backed \in {"hermes", "durable"},
                                    pol \in {"pause", "return"}}
            \cup {Two("hermes", {1})}

\* Two parents, on either backend; one, and two publishers.
MCFindings == {Two("hermes", {}), Two("durable", {}),
               One("hermes", "return", {}), One("hermes", "return", {1})}
=============================================================================
