---------------------------- MODULE MCTreeRuntime ----------------------------
(***************************************************************************)
(* TreeRuntime for TLC: workflows of ten and eleven steps, nested.           *)
(***************************************************************************)
EXTENDS TreeRuntime

Agent(needs, reads) ==
  [kind |-> "agent", kids |-> << >>, else |-> << >>, needs |-> needs, reads |-> reads, wait |-> TRUE]
Card(reads, wait) ==
  [kind |-> "kanban_agent", kids |-> << >>, else |-> << >>, needs |-> {}, reads |-> reads, wait |-> wait]
Of(kind, kids) ==
  [kind |-> kind, kids |-> kids, else |-> << >>, needs |-> {}, reads |-> {}, wait |-> TRUE]
If(reads, then, else) ==
  [kind |-> "if", kids |-> then, else |-> else, needs |-> {}, reads |-> reads, wait |-> TRUE]

Policy(step, top, a, c, awaits, parallel) ==
  [step |-> step, top |-> top, agents |-> a, cards |-> c, awaits |-> awaits,
   parallel |-> parallel]

\* A phase with a condition on its first step, then a parallel step.
Staged ==
  <<Of("phase", <<2, 3>>), Agent({}, {}), If({2}, <<4>>, <<5, 6>>), Card({2}, TRUE),
    Agent({2}, {}), Of("phase", <<7>>), Agent({5}, {5}),
    Of("parallel", <<9, 10>>), Agent({3}, {3}), Card({}, FALSE), Agent({}, {8})>>

\* Conditions in a parallel step, one of them wide; the last step refers to the
\* inside of a condition.
Nested ==
  <<Of("parallel", <<2, 5>>), If({}, <<3, 4>>, << >>), Card({}, TRUE), Agent({}, {3}),
    Of("pipeline", <<6, 7>>), Of("parallel", <<8, 9>>), Of("phase", <<10>>),
    Card({}, TRUE), Agent({}, {}), Agent({}, {6}), Agent({}, {4})>>

\* A condition on a step that is not there, deep in three containers.
Dangling ==
  <<Of("phase", <<2, 3>>), If({}, <<4, 5>>, <<6>>), If({4}, <<7>>, <<8>>), Agent({}, {}),
    Of("parallel", <<9, 10>>), Agent({}, {}), Agent({}, {}), Agent({}, {}),
    Agent({}, {4}), Card({}, TRUE)>>

MCWorkflows ==
  {Policy(Staged, <<1, 8, 11>>, n, 2, 2, 2) : n \in {3, 9}}
  \cup {Policy(Nested, <<1, 11>>, n, m, 2, 2) : n \in {4, 9}, m \in {1, 2}}
  \cup {Policy(Nested, <<1, 11>>, 9, 9, 1, 2), Policy(Staged, <<8, 1>>, 9, 9, 1, 1),
        Policy(Dangling, <<1>>, 9, 9, 1, 2)}
=============================================================================
