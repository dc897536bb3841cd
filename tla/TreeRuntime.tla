----------------------------- MODULE TreeRuntime -----------------------------
(***************************************************************************)
(* The declarative runtime: workflow_run in hermes_workflows/primitives.py,  *)
(* the interpreter of runtime.py and the run record of registry.py.          *)
(*                                                                          *)
(* A workflow is a tree of steps.  The interpreter is recursive and runs one *)
(* step at a time; the stack of its calls is explicit here.  Operators may   *)
(* record controls at any moment, and a step may fail wherever it may raise. *)
(***************************************************************************)
EXTENDS Naturals, Sequences, FiniteSets, FiniteSetsExt

CONSTANTS Workflows,    \* the workflows to choose from
          MaxTaskStops, \* bound on the steps operators stop
          Values        \* what an agent may return; "yes" makes a condition hold

Leaves == {"agent", "kanban_agent"}
Composites == {"parallel", "pipeline", "phase", "if"}

\* step[i] is the step with id i: the ids of its steps or branches (of `then` for
\* an `if`), those of `else`, its depends_on, and the steps its input or condition
\* refers to; whether a card is waited for.  The limits are those of GovernancePolicy.
ASSUME TreeAssumption ==
  MaxTaskStops \in Nat /\ \A w \in Workflows :
    /\ \A i \in DOMAIN w.step :
         /\ w.step[i].kind \in Leaves \cup Composites /\ w.step[i].wait \in BOOLEAN
         /\ w.step[i].kids \in Seq(DOMAIN w.step) /\ w.step[i].else \in Seq(DOMAIN w.step)
         /\ w.step[i].needs \subseteq DOMAIN w.step /\ w.step[i].reads \subseteq DOMAIN w.step
    /\ w.top \in Seq(DOMAIN w.step)
    /\ w.agents \in Nat /\ w.cards \in Nat /\ w.awaits \in Nat /\ w.parallel \in Nat

\* The steps right inside step p, and those of the run for p = 0.
Listed(w, p) == IF p = 0 THEN w.top ELSE w.step[p].kids \o w.step[p].else

\* What _validate_steps makes of the nested lists of a definition: no id occurs
\* twice.  Ids number the steps from the outside in.
ASSUME NestingAssumption ==
  \A w \in Workflows :
    /\ DOMAIN w.step \subseteq Nat \ {0}
    /\ \A p, q \in {0} \cup DOMAIN w.step :
         \A a \in DOMAIN Listed(w, p), b \in DOMAIN Listed(w, q) :
           /\ p < Listed(w, p)[a]
           /\ Listed(w, p)[a] = Listed(w, q)[b] => p = q /\ a = b

VARIABLES
  workflow,   \* the workflow, of Workflows
  stack,      \* the interpreter's calls, the innermost last
  mode,       \* "next", "effect", "raise" or "over"
  raised,     \* what is raised: "policy", "runner", "run_stopped", "run_paused", "task_stopped"
  agentCalls, \* ctx.agent_calls of the innermost context
  cards,      \* ctx.kanban_cards of the innermost context
  outputs,    \* ctx.outputs, which phases share
  last,       \* ctx.last_output of the innermost context
  status,     \* the run's status in the record
  steps,      \* the steps' statuses in the record
  controls,   \* what the recorded controls add up to
  effects,    \* history: the leaf steps whose effect was dispatched
  late        \* history: those dispatched after a stop was recorded

context == <<agentCalls, cards, outputs, last>>
record == <<status, steps>>
history == <<effects, late>>
vars == <<workflow, stack, mode, raised, context, record, controls, history>>

Ids == DOMAIN workflow.step
Step(i) == workflow.step[i]
Kind(i) == Step(i).kind
NoValue == "none"

Frame(i, kind, todo) ==
  [id |-> i, kind |-> kind, todo |-> todo, agents |-> agentCalls, keys |-> DOMAIN outputs]
Top == stack[Len(stack)]
Below == SubSeq(stack, 1, Len(stack) - 1)
Inside == Len(stack) > 1
NextStep == Head(Top.todo)
Advanced == Append(Below, [Top EXCEPT !.todo = Tail(@)])

Put(f, k, v) == [i \in DOMAIN f \cup {k} |-> IF i = k THEN v ELSE f[i]]

-----------------------------------------------------------------------------
(* Controls. *)

Record(c) ==
  /\ mode # "over" /\ controls' = c /\ controls' # controls
  /\ UNCHANGED <<workflow, stack, mode, raised, context, record, history>>

\* A stop is terminal and ends a pause.
Stop == Record([controls EXCEPT !.stopped = TRUE, !.paused = FALSE])
PauseOrResume == ~controls.stopped /\ Record([controls EXCEPT !.paused = ~@])
TaskStop(i) ==
  /\ Cardinality(controls.tasks) < MaxTaskStops
  /\ Record([controls EXCEPT !.tasks = @ \cup {i}])

\* may_check_run, before every step of a sequence.
RunDenied == IF controls.stopped THEN {"run_stopped"} ELSE {}

\* _enforce_run_control before a leaf: the run, new work, the task.
StartDenied(i) ==
  IF controls.stopped THEN {"run_stopped"}
  ELSE IF controls.paused THEN {"run_paused"}
  ELSE IF i \in controls.tasks THEN {"task_stopped"} ELSE {}

-----------------------------------------------------------------------------
(* Entering a step. *)

Raise(what) == mode' = "raise" /\ raised' = what

\* _exec_sequence asks whether the run was stopped, _exec_parallel does not.
Denied(i) ==
  (IF Top.kind = "parallel" THEN {} ELSE RunDenied)
  \cup (IF Kind(i) \in Leaves THEN StartDenied(i) ELSE {})

Missing(i) == ~(Step(i).needs \subseteq DOMAIN outputs)

\* _check_effect_budget
Spent(i) ==
  \/ agentCalls >= workflow.agents
  \/ (Kind(i) = "kanban_agent" /\ cards >= workflow.cards)

\* The branches that wait for a card, counted through nested steps.
Waits[i \in Ids] ==
  LET of(s) == {Waits[s[k]] : k \in DOMAIN s}
      sum[k \in 0..Len(Step(i).kids)] ==
        IF k = 0 THEN 0 ELSE sum[k - 1] + Waits[Step(i).kids[k]]
  IN  CASE Kind(i) = "kanban_agent" -> IF Step(i).wait THEN 1 ELSE 0
        [] Kind(i) = "agent" -> 0
        [] Kind(i) = "parallel" -> sum[Len(Step(i).kids)]
        [] OTHER -> Max({0} \cup of(Step(i).kids) \cup of(Step(i).else))

TooWide(i) ==
  Kind(i) = "parallel" /\ (Waits[i] > workflow.awaits \/ Len(Step(i).kids) > workflow.parallel)

\* Denied before anything is recorded of the step.
Refuse ==
  /\ mode = "next" /\ Top.todo # << >>
  /\ LET i == NextStep IN
       IF Top.kind # "parallel" /\ RunDenied # {} THEN \E d \in RunDenied : Raise(d)
       ELSE IF Missing(i) THEN Raise("policy")
       ELSE IF Denied(i) # {} THEN \E d \in Denied(i) : Raise(d)
       ELSE (TooWide(i) \/ (Kind(i) \in Leaves /\ Spent(i))) /\ Raise("policy")
  /\ UNCHANGED <<workflow, stack, context, record, controls, history>>

Admitted(i) ==
  /\ mode = "next" /\ Top.todo # << >> /\ i = NextStep
  /\ Denied(i) = {} /\ ~Missing(i) /\ ~TooWide(i)
  /\ Kind(i) \in Leaves => ~Spent(i)

\* A leaf is counted, then its input is resolved, then it is recorded.
EnterLeaf(i) ==
  /\ Admitted(i) /\ Kind(i) \in Leaves
  /\ agentCalls' = agentCalls + 1
  /\ cards' = IF Kind(i) = "kanban_agent" THEN cards + 1 ELSE cards
  /\ IF Step(i).reads \subseteq DOMAIN outputs
       THEN /\ mode' = "effect"
            /\ stack' = Append(Advanced, Frame(i, Kind(i), << >>))
            /\ steps' = [steps EXCEPT ![i] = "running"]
            /\ UNCHANGED raised
       ELSE Raise("policy") /\ UNCHANGED <<stack, steps>>
  /\ UNCHANGED <<workflow, outputs, last, status, controls, history>>

EnterComposite(i) ==
  /\ Admitted(i) /\ Kind(i) \in Composites \ {"if"}
  /\ stack' = Append(Advanced, Frame(i, Kind(i), Step(i).kids))
  /\ steps' = [steps EXCEPT ![i] = "running"]
  /\ UNCHANGED <<workflow, mode, raised, context, status, controls, history>>

\* The condition asks for a step's output or compares it; without one it is about the
\* inputs.
Branches(i) ==
  IF Step(i).reads = {} THEN {Step(i).kids, Step(i).else}
  ELSE {Step(i).kids,
        IF \A r \in Step(i).reads : outputs[r] = "yes" THEN Step(i).kids ELSE Step(i).else}

EnterIf(i) ==
  /\ Admitted(i) /\ Kind(i) = "if"
  /\ steps' = [steps EXCEPT ![i] = "running"]
  /\ IF Step(i).reads \subseteq DOMAIN outputs
       THEN /\ \E b \in Branches(i) : stack' = Append(Advanced, Frame(i, "if", b))
            /\ UNCHANGED <<mode, raised>>
       ELSE \/ /\ stack' = Append(Advanced, Frame(i, "if", Step(i).else))  \* exists
               /\ UNCHANGED <<mode, raised>>
            \/ Raise("policy") /\ stack' = Append(Advanced, Frame(i, "if", << >>))
  /\ UNCHANGED <<workflow, context, status, controls, history>>

-----------------------------------------------------------------------------
(* Leaving a step. *)

\* The runner's answer.  An answer the schema refuses raises as well.
Effect(v) ==
  /\ mode = "effect"
  /\ effects' = effects \cup {Top.id}
  /\ late' = IF controls.stopped THEN late \cup {Top.id} ELSE late
  /\ mode' = "next"
  /\ stack' = Below
  /\ steps' = [steps EXCEPT ![Top.id] = "succeeded"]
  /\ outputs' = Put(outputs, Top.id, v)
  /\ last' = v
  /\ UNCHANGED <<workflow, raised, agentCalls, cards, status, controls>>

EffectFails ==
  /\ mode = "effect"
  /\ effects' = effects \cup {Top.id}
  /\ late' = IF controls.stopped THEN late \cup {Top.id} ELSE late
  /\ Raise("runner")
  /\ UNCHANGED <<workflow, stack, context, record, controls>>

\* Mutant: a branch's outputs stay.
VisibleAfterAll(f) == DOMAIN outputs

\* An `if` takes the outputs of its branch away again.
VisibleAfter(f) == IF f.kind = "if" THEN f.keys ELSE DOMAIN outputs

\* Mutant: a phase leaves the counters of its own context behind.
CallsAfterPhase(f) == IF f.kind = "phase" THEN f.agents ELSE agentCalls

\* _exec_phase copies the counters of its context back.
CallsAfter(f) == agentCalls

Result(f) ==
  CASE f.kind = "parallel" -> "branches"
    [] f.kind = "phase" -> "completed"
    [] f.kind = "if" -> "branch"
    [] OTHER -> last

Leave ==
  /\ mode = "next" /\ Inside /\ Top.todo = << >>
  /\ steps' = [steps EXCEPT ![Top.id] = "succeeded"]
  /\ outputs' = Put([i \in VisibleAfter(Top) |-> outputs[i]], Top.id, Result(Top))
  /\ last' = Result(Top)
  /\ agentCalls' = CallsAfter(Top)
  /\ stack' = Below
  /\ UNCHANGED <<workflow, mode, raised, cards, status, controls, history>>

\* Mutant: an `if` does not record the failure of its branch.
FailedUnlessIf(f) == f.kind # "if"

\* Every kind of step records the failure it passes on.
FailureRecorded(f) == TRUE

Unwind ==
  /\ mode = "raise" /\ Inside
  /\ steps' = IF FailureRecorded(Top) THEN [steps EXCEPT ![Top.id] = "failed"] ELSE steps
  /\ stack' = Below
  /\ UNCHANGED <<workflow, mode, raised, context, status, controls, history>>

-----------------------------------------------------------------------------
(* workflow_run. *)

\* _run_lifecycle_for_control_code
Lifecycle(code) ==
  CASE code = "run_stopped" -> "stopped" [] code = "run_paused" -> "paused" [] OTHER -> "failed"

Succeed ==
  /\ mode = "next" /\ ~Inside /\ Top.todo = << >>
  /\ mode' = "over" /\ status' = "succeeded"
  /\ UNCHANGED <<workflow, stack, raised, context, steps, controls, history>>

Fail ==
  /\ mode = "raise" /\ ~Inside
  /\ mode' = "over" /\ status' = Lifecycle(raised)
  /\ UNCHANGED <<workflow, stack, raised, context, steps, controls, history>>

Init ==
  /\ workflow \in Workflows
  /\ agentCalls = 0 /\ cards = 0 /\ last = NoValue
  /\ outputs = [i \in {} |-> NoValue]
  /\ stack = <<[id |-> 0, kind |-> "run", todo |-> workflow.top, agents |-> 0, keys |-> {}]>>
  /\ mode = "next" /\ raised = "nothing"
  /\ status = "running" /\ steps = [i \in Ids |-> "none"]
  /\ controls = [stopped |-> FALSE, paused |-> FALSE, tasks |-> {}]
  /\ effects = {} /\ late = {}

Interpreter ==
  \/ Refuse \/ Leave \/ Unwind \/ Succeed \/ Fail \/ EffectFails
  \/ \E v \in Values : Effect(v)
  \/ \E i \in Ids : EnterLeaf(i) \/ EnterComposite(i) \/ EnterIf(i)

Operator == Stop \/ PauseOrResume \/ \E i \in Ids : TaskStop(i)

Next == Interpreter \/ Operator

Spec == Init /\ [][Next]_vars
FairSpec == Spec /\ WF_vars(Interpreter)

-----------------------------------------------------------------------------
Kids(i) == {Step(i).kids[k] : k \in DOMAIN Step(i).kids}
Elses(i) == {Step(i).else[k] : k \in DOMAIN Step(i).else}

\* The containers of a step, at any depth.
Containers[i \in Ids] ==
  LET above == {p \in Ids : i \in Kids(p) \cup Elses(p)}
  IN  above \cup UNION {Containers[p] : p \in above}

\* Type correctness of the record and of the interpreter's stack.
TypeOK ==
  /\ mode \in {"next", "effect", "raise", "over"}
  /\ agentCalls \in Nat /\ cards \in Nat
  /\ DOMAIN outputs \subseteq Ids
  /\ status \in {"running", "succeeded", "failed", "stopped", "paused"}
  /\ steps \in [Ids -> {"none", "running", "succeeded", "failed"}]
  /\ \A k \in 2..Len(stack) : stack[k].id \in Ids
  /\ effects \subseteq Ids /\ late \subseteq effects

\* The record agrees with itself wherever the run was cut short: what ended has no
\* step left running, a failed step has only failed or running containers, and
\* what succeeded has a branch that succeeded in full.
RecordTellsTheTree ==
  /\ status # "running" => \A i \in Ids : steps[i] # "running"
  /\ status = "succeeded" => \A i \in Ids : steps[i] # "failed"
  /\ \A i \in Ids : steps[i] = "failed" =>
       \A c \in Containers[i] : steps[c] = "failed" \/ (mode = "raise" /\ steps[c] = "running")
  /\ \A i \in Ids : steps[i] = "succeeded" /\ Kind(i) \in Composites =>
       \/ \A k \in Kids(i) : steps[k] = "succeeded"
       \/ Kind(i) = "if" /\ \A k \in Elses(i) : steps[k] = "succeeded"

\* max_agent_calls and max_kanban_cards bound what is dispatched over all the
\* nested contexts of a run, not over each.
BudgetHolds ==
  /\ Cardinality(effects) <= workflow.agents
  /\ Cardinality({i \in effects : Kind(i) = "kanban_agent"}) <= workflow.cards

\* A step can refer to what succeeded before it, except to the inside of an `if`
\* that has ended, at whatever depth and through whatever phases.
ScopeHolds ==
  DOMAIN outputs =
    {i \in Ids : /\ steps[i] = "succeeded"
                 /\ \A c \in Containers[i] : ~(Kind(c) = "if" /\ steps[c] = "succeeded")}

\* After a stop is recorded at most the one effect already admitted is dispatched,
\* in the middle of a parallel step as well.
StopsSoon == Cardinality(late) <= 1
=============================================================================
