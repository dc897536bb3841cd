-------------------------- MODULE TreeRuntimeProofs --------------------------
(***************************************************************************)
(* The budgets and the stop of a tree run, its record and the outputs a step *)
(* can see, for any workflow, policy and controls; and what an agent that    *)
(* is a card of the board (KanbanCards) may rely on, for any parents,        *)
(* publishers, outcomes, crashes and faults.                                 *)
(***************************************************************************)
EXTENDS TreeRuntime, KanbanCards, FiniteSetTheorems, WellFoundedInduction, TLAPS

FrameType ==
  [id : {0} \cup Ids, kind : Leaves \cup Composites \cup {"run"}, todo : Seq(Ids),
   agents : Nat, keys : SUBSET Ids]

\* The interpreter's calls: the outermost is the run's, the others are of steps.
StackOK ==
  /\ stack \in Seq(FrameType) /\ Len(stack) > 0
  /\ \A k \in 2..Len(stack) : stack[k].id \in Ids
  /\ mode = "effect" => Inside

Plain ==
  /\ workflow \in Workflows
  /\ mode \in {"next", "effect", "raise", "over"}
  /\ agentCalls \in Nat /\ cards \in Nat
  /\ DOMAIN outputs \subseteq Ids
  /\ status \in {"running", "succeeded", "failed", "stopped", "paused"}
  /\ steps \in [Ids -> {"none", "running", "succeeded", "failed"}]
  /\ controls \in [stopped : BOOLEAN, paused : BOOLEAN, tasks : SUBSET Ids]
  /\ effects \subseteq Ids /\ late \subseteq effects

Typed == StackOK /\ Plain

-----------------------------------------------------------------------------
(* The stack. *)

LEMMA Workflow ==
  ASSUME workflow \in Workflows
  PROVE  /\ workflow.top \in Seq(Ids) /\ workflow.agents \in Nat /\ workflow.cards \in Nat
         /\ \A i \in Ids : /\ Step(i).kids \in Seq(Ids) /\ Step(i).else \in Seq(Ids)
                           /\ Kind(i) \in Leaves \cup Composites
  BY TreeAssumption DEF TreeAssumption, Ids, Step, Kind

\* A frame on top of a stack is its top, and leaves what is below as it was.
LEMMA Pushed ==
  ASSUME NEW S, NEW s \in Seq(S), NEW f \in S
  PROVE  /\ Append(s, f) \in Seq(S) /\ Len(Append(s, f)) = Len(s) + 1
         /\ Append(s, f)[Len(s) + 1] = f
         /\ \A k \in 1..Len(s) : Append(s, f)[k] = s[k]
  OBVIOUS

LEMMA BelowOK ==
  ASSUME StackOK
  PROVE  /\ Below \in Seq(FrameType) /\ Len(Below) = Len(stack) - 1
         /\ \A k \in 1..Len(Below) : Below[k] = stack[k]
         /\ Top \in FrameType
  <1>1. Len(stack) \in Nat /\ Len(stack) > 0
    BY DEF StackOK
  <1>2. \A k \in 1..Len(stack) - 1 : stack[k] \in FrameType
    BY <1>1 DEF StackOK
  <1>3. Top \in FrameType
    BY <1>1 DEF StackOK, Top
  <1>4. Below = [k \in 1..Len(stack) - 1 |-> stack[k]]
    BY <1>1 DEF Below, StackOK
  <1> QED BY <1>1, <1>2, <1>3, <1>4

LEMMA AdvancedOK ==
  ASSUME StackOK, Top.todo # << >>
  PROVE  /\ Advanced \in Seq(FrameType) /\ Len(Advanced) = Len(stack)
         /\ \A k \in 1..Len(stack) : Advanced[k].id = stack[k].id
         /\ NextStep \in Ids
  <1> DEFINE f == [Top EXCEPT !.todo = Tail(@)]
  <1>1. Top \in FrameType /\ Top.todo \in Seq(Ids)
    BY BelowOK DEF FrameType
  <1>2. Tail(Top.todo) \in Seq(Ids) /\ NextStep \in Ids
    BY <1>1 DEF NextStep
  <1>3. f \in FrameType /\ f.id = Top.id
    BY <1>1, <1>2 DEF FrameType
  <1> HIDE DEF f
  <1>4. Advanced = Append(Below, f)
    BY DEF Advanced, f
  <1>5. Len(stack) \in Nat /\ Len(stack) > 0
    BY DEF StackOK
  <1>6. /\ Advanced \in Seq(FrameType) /\ Len(Advanced) = Len(stack)
        /\ Advanced[Len(stack)] = f
        /\ \A k \in 1..Len(stack) - 1 : Advanced[k] = stack[k]
    BY <1>3, <1>4, <1>5, BelowOK, Pushed
  <1> QED BY <1>2, <1>3, <1>5, <1>6 DEF Top

\* Entering a step pushes its frame.
LEMMA EnteredOK ==
  ASSUME StackOK, Plain, NEW i \in Ids, Top.todo # << >>, NEW kind \in Leaves \cup Composites,
         NEW todo \in Seq(Ids), stack' = Append(Advanced, Frame(i, kind, todo)),
         workflow' = workflow
  PROVE  StackOK' /\ Top'.id = i /\ Inside'
  <1>1. Frame(i, kind, todo) \in FrameType /\ Frame(i, kind, todo).id = i
    BY DEF Frame, FrameType, Plain
  <1>2. Len(stack) \in Nat /\ Len(stack) > 0
    BY DEF StackOK
  <1>3. /\ stack' \in Seq(FrameType) /\ Len(stack') = Len(stack) + 1
        /\ stack'[Len(stack) + 1].id = i
        /\ \A k \in 1..Len(stack) : stack'[k].id = stack[k].id
    BY <1>1, <1>2, AdvancedOK, Pushed
  <1>4. FrameType' = FrameType /\ Ids' = Ids
    BY DEF FrameType, Ids
  <1>5. ASSUME NEW k \in 2..Len(stack') PROVE stack'[k].id \in Ids
    BY <1>2, <1>3 DEF StackOK
  <1> QED BY <1>2, <1>3, <1>4, <1>5 DEF StackOK, Top, Inside

\* Leaving one pops it.
LEMMA LeftOK ==
  ASSUME StackOK, Inside, stack' = Below, mode' # "effect", workflow' = workflow
  PROVE  StackOK' /\ Top.id \in Ids
  <1>1. Len(stack) \in Nat /\ Len(stack) > 1
    BY DEF StackOK, Inside
  <1>2. FrameType' = FrameType /\ Ids' = Ids
    BY DEF FrameType, Ids
  <1>3. Top.id \in Ids
    BY <1>1 DEF StackOK, Top
  <1> QED BY <1>1, <1>2, <1>3, BelowOK DEF StackOK

-----------------------------------------------------------------------------
(* Types. *)

LEMMA InitTyped == Init => Typed
  <1> SUFFICES ASSUME Init PROVE Typed
    OBVIOUS
  <1>1. workflow \in Workflows /\ workflow.top \in Seq(Ids)
    BY Workflow DEF Init
  <1>2. Plain
    BY <1>1 DEF Init, Plain
  <1> DEFINE f == [id |-> 0, kind |-> "run", todo |-> workflow.top, agents |-> 0, keys |-> {}]
  <1>3. stack = <<f>> /\ mode = "next"
    BY DEF Init
  <1>4. f \in FrameType
    BY <1>1 DEF FrameType
  <1>5. StackOK
    <2> HIDE DEF f
    <2> QED BY <1>3, <1>4 DEF StackOK
  <1> QED BY <1>2, <1>5 DEF Typed

\* The interpreter's steps keep the workflow, the operators change the controls only.
LEMMA OperatorControls ==
  ASSUME Plain, Operator
  PROVE  /\ UNCHANGED <<workflow, stack, mode, raised, context, record, history>>
         /\ controls' \in [stopped : BOOLEAN, paused : BOOLEAN, tasks : SUBSET Ids]
         /\ controls.stopped => controls'.stopped
  <1> USE DEF Record, Plain
  <1>1. CASE Stop
    BY <1>1 DEF Stop
  <1>2. CASE PauseOrResume
    BY <1>2 DEF PauseOrResume
  <1>3. ASSUME NEW i \in Ids, TaskStop(i)
        PROVE  /\ UNCHANGED <<workflow, stack, mode, raised, context, record, history>>
               /\ controls' \in [stopped : BOOLEAN, paused : BOOLEAN, tasks : SUBSET Ids]
               /\ controls.stopped => controls'.stopped
    <2>1. controls' = [controls EXCEPT !.tasks = @ \cup {i}]
      BY <1>3 DEF TaskStop
    <2> QED BY <1>3, <2>1 DEF TaskStop
  <1> QED BY <1>1, <1>2, <1>3 DEF Operator

LEMMA TypeStep == Typed /\ [Next]_vars => Typed'
  <1> SUFFICES ASSUME Typed, [Next]_vars PROVE Typed'
    OBVIOUS
  <1>p. Plain /\ StackOK
    BY DEF Typed
  <1>s. ASSUME workflow' = workflow, stack' = stack, mode' = mode \/ mode' # "effect"
        PROVE  StackOK'
    BY <1>p, <1>s DEF StackOK, FrameType, Ids, Inside
  <1>o. CASE Operator
    BY <1>o, <1>p, <1>s, OperatorControls DEF Plain, Typed, context, record, history, Ids
  <1>i. CASE Interpreter
    <2>1. CASE Refuse
      <3>1. UNCHANGED <<workflow, stack, context, record, controls, history>> /\ mode' = "raise"
        BY <2>1 DEF Refuse, Raise
      <3> QED BY <1>p, <1>s, <3>1 DEF Typed, Plain, context, record, history, Ids
    <2>2. CASE Leave
      <3>1. StackOK' /\ Top.id \in Ids /\ workflow' = workflow /\ mode' = mode /\ mode = "next"
        BY <1>p, <2>2, LeftOK DEF Leave
      <3>2. DOMAIN outputs' \subseteq Ids
        <4>1. Top.keys \in SUBSET Ids
          BY <1>p, BelowOK DEF FrameType
        <4> QED BY <1>p, <2>2, <3>1, <4>1 DEF Leave, Put, VisibleAfter, Plain
      <3>3. /\ steps' = [steps EXCEPT ![Top.id] = "succeeded"] /\ agentCalls' = agentCalls
            /\ UNCHANGED <<cards, status, controls, history>>
        BY <2>2 DEF Leave, CallsAfter
      <3> QED BY <1>p, <3>1, <3>2, <3>3 DEF Typed, Plain, history, Ids
    <2>3. CASE Unwind
      <3>1. StackOK' /\ Top.id \in Ids /\ workflow' = workflow /\ mode' = mode /\ mode = "raise"
        BY <1>p, <2>3, LeftOK DEF Unwind
      <3>2. /\ steps' = steps \/ steps' = [steps EXCEPT ![Top.id] = "failed"]
            /\ UNCHANGED <<context, status, controls, history>>
        BY <2>3 DEF Unwind
      <3> QED BY <1>p, <3>1, <3>2 DEF Typed, Plain, context, history, Ids
    <2>4. CASE Succeed \/ Fail
      <3>1. /\ UNCHANGED <<workflow, stack, context, steps, controls, history>> /\ mode' = "over"
            /\ status' \in {"running", "succeeded", "failed", "stopped", "paused"}
        BY <2>4 DEF Succeed, Fail, Lifecycle
      <3> QED BY <1>p, <1>s, <3>1 DEF Typed, Plain, context, history, Ids
    <2>5. CASE EffectFails
      <3>1. Top.id \in Ids
        BY <1>p, <2>5 DEF StackOK, EffectFails, Inside, Top
      <3>2. /\ UNCHANGED <<workflow, stack, context, record, controls>> /\ mode' = "raise"
            /\ effects' = effects \cup {Top.id} /\ late' \in {late, late \cup {Top.id}}
        BY <2>5 DEF EffectFails, Raise
      <3> QED BY <1>p, <1>s, <3>1, <3>2 DEF Typed, Plain, context, record, Ids
    <2>6. ASSUME NEW v \in Values, Effect(v) PROVE Typed'
      <3>1. StackOK' /\ Top.id \in Ids
        BY <1>p, <2>6, LeftOK DEF Effect, StackOK
      <3>2. /\ UNCHANGED <<workflow, agentCalls, cards, status, controls>> /\ mode' = "next"
            /\ effects' = effects \cup {Top.id} /\ late' \in {late, late \cup {Top.id}}
            /\ steps' = [steps EXCEPT ![Top.id] = "succeeded"]
            /\ DOMAIN outputs' = DOMAIN outputs \cup {Top.id}
        BY <2>6 DEF Effect, Put
      <3> QED BY <1>p, <3>1, <3>2 DEF Typed, Plain, Ids
    <2>7. ASSUME NEW i \in Ids, EnterLeaf(i) PROVE Typed'
      <3>1. /\ Top.todo # << >> /\ Kind(i) \in Leaves \cup Composites /\ workflow' = workflow
        BY <2>7 DEF EnterLeaf, Admitted
      <3>2. StackOK'
        <4>1. \/ stack' = stack /\ mode' = "raise"
              \/ stack' = Append(Advanced, Frame(i, Kind(i), << >>))
          BY <2>7 DEF EnterLeaf, Raise
        <4>2. stack' = stack /\ mode' = "raise" => StackOK'
          BY <1>s, <3>1
        <4>3. stack' = Append(Advanced, Frame(i, Kind(i), << >>)) => StackOK'
          <5>1. << >> \in Seq(Ids)
            OBVIOUS
          <5> QED BY <1>p, <3>1, <5>1, EnteredOK
        <4> QED BY <4>1, <4>2, <4>3
      <3>3. /\ mode' \in {"effect", "raise"} /\ agentCalls' = agentCalls + 1
            /\ cards' \in {cards, cards + 1} /\ steps' \in {steps, [steps EXCEPT ![i] = "running"]}
            /\ UNCHANGED <<outputs, status, controls, history>>
        BY <2>7 DEF EnterLeaf, Raise
      <3> QED BY <1>p, <3>1, <3>2, <3>3 DEF Typed, Plain, history, Ids
    <2>8. ASSUME NEW i \in Ids, EnterComposite(i) PROVE Typed'
      <3>1. /\ Top.todo # << >> /\ Kind(i) \in Leaves \cup Composites /\ Step(i).kids \in Seq(Ids)
            /\ stack' = Append(Advanced, Frame(i, Kind(i), Step(i).kids))
            /\ steps' = [steps EXCEPT ![i] = "running"]
            /\ UNCHANGED <<workflow, mode, context, status, controls, history>>
        BY <1>p, <2>8, Workflow DEF EnterComposite, Admitted, Plain
      <3>2. StackOK'
        BY <1>p, <3>1, EnteredOK
      <3> QED BY <1>p, <3>1, <3>2 DEF Typed, Plain, context, history, Ids
    <2>9. ASSUME NEW i \in Ids, EnterIf(i) PROVE Typed'
      <3>1. /\ Top.todo # << >> /\ "if" \in Leaves \cup Composites
            /\ Step(i).kids \in Seq(Ids) /\ Step(i).else \in Seq(Ids) /\ mode = "next"
            /\ steps' = [steps EXCEPT ![i] = "running"]
            /\ UNCHANGED <<workflow, context, status, controls, history>>
        BY <1>p, <2>9, Workflow DEF EnterIf, Admitted, Plain, Composites
      <3>2. PICK todo \in Seq(Ids) : stack' = Append(Advanced, Frame(i, "if", todo))
        <4>1. << >> \in Seq(Ids) /\ \A b \in Branches(i) : b \in Seq(Ids)
          BY <3>1 DEF Branches
        <4>2. CASE Step(i).reads \subseteq DOMAIN outputs
          BY <2>9, <4>1, <4>2 DEF EnterIf
        <4>3. CASE ~(Step(i).reads \subseteq DOMAIN outputs)
          <5>1. \/ stack' = Append(Advanced, Frame(i, "if", Step(i).else))
                \/ stack' = Append(Advanced, Frame(i, "if", << >>))
            BY <2>9, <4>3 DEF EnterIf
          <5> QED BY <3>1, <4>1, <5>1
        <4> QED BY <4>2, <4>3
      <3>3. StackOK'
        BY <1>p, <3>1, <3>2, EnteredOK
      <3>4. mode' \in {"next", "raise"}
        BY <2>9, <3>1 DEF EnterIf, Raise
      <3> QED BY <1>p, <3>1, <3>3, <3>4 DEF Typed, Plain, context, history, Ids
    <2> QED BY <1>i, <2>1, <2>2, <2>3, <2>4, <2>5, <2>6, <2>7, <2>8, <2>9 DEF Interpreter
  <1>u. CASE UNCHANGED vars
    BY <1>p, <1>s, <1>u DEF vars, Typed, Plain, context, record, history, Ids
  <1> QED BY <1>i, <1>o, <1>u DEF Next

\* The record and the interpreter keep their types, whatever raises and whatever
\* operators record: the stack is always that of steps of the workflow.
THEOREM TypeCorrect == Spec => []TypeOK
  <1>1. Typed => TypeOK
    BY DEF Typed, StackOK, Plain, TypeOK
  <1> QED BY InitTyped, TypeStep, <1>1, PTL DEF Spec

-----------------------------------------------------------------------------
(* The stop and the budgets. *)

\* Nothing is dispatched late but what was admitted before the stop, and then no
\* effect is under way any more.
Cut ==
  /\ IsFiniteSet(late) /\ Cardinality(late) <= 1
  /\ late # {} => controls.stopped /\ mode # "effect"

Cards(S) == {i \in S : Kind(i) = "kanban_agent"}
ToCome == IF mode = "effect" THEN {Top.id} ELSE {}

\* What was dispatched, with the effect under way, was counted before.
Covered ==
  /\ IsFiniteSet(effects)
  /\ Cardinality(effects) + (IF mode = "effect" THEN 1 ELSE 0) <= agentCalls
  /\ agentCalls <= workflow.agents
  /\ Cardinality(Cards(effects)) + (IF Cards(ToCome) # {} THEN 1 ELSE 0) <= cards
  /\ cards <= workflow.cards

\* The steps that dispatch nothing and admit nothing.
Quiet ==
  /\ UNCHANGED <<workflow, agentCalls, cards, effects, late>>
  /\ controls.stopped => controls'.stopped
  /\ mode' = "effect" => mode = "effect" /\ Top' = Top

LEMMA Steps ==
  ASSUME Typed, [Next]_vars
  PROVE  \/ Quiet \/ EffectFails \/ (\E v \in Values : Effect(v)) \/ (\E i \in Ids : EnterLeaf(i))
  <1>1. CASE Refuse
    BY <1>1 DEF Refuse, Raise, Quiet, context, history
  <1>2. CASE Leave
    BY <1>2 DEF Leave, CallsAfter, Quiet, history
  <1>3. CASE Unwind
    BY <1>3 DEF Unwind, Quiet, context, history
  <1>4. CASE Succeed \/ Fail
    BY <1>4 DEF Succeed, Fail, Quiet, context, history
  <1>5. ASSUME NEW i \in Ids, EnterComposite(i) PROVE Quiet
    BY <1>5 DEF EnterComposite, Admitted, Quiet, context, history
  <1>6. ASSUME NEW i \in Ids, EnterIf(i) PROVE Quiet
    BY <1>6 DEF EnterIf, Admitted, Raise, Quiet, context, history
  <1>7. CASE Operator
    BY <1>7, OperatorControls DEF Typed, Quiet, Top, context, history
  <1>8. CASE UNCHANGED vars
    BY <1>8 DEF vars, Quiet, Top, context, history
  <1> QED BY <1>1, <1>2, <1>3, <1>4, <1>5, <1>6, <1>7, <1>8 DEF Next, Interpreter

LEMMA CutStep == Typed /\ Cut /\ [Next]_vars => Cut'
  <1> SUFFICES ASSUME Typed, Cut, [Next]_vars PROVE Cut'
    OBVIOUS
  <1>1. CASE Quiet
    BY <1>1 DEF Quiet, Cut
  <1>2. ASSUME mode = "effect", mode' # "effect", controls' = controls,
               late' = IF controls.stopped THEN late \cup {Top.id} ELSE late
        PROVE  Cut'
    <2>1. late = {}
      BY <1>2 DEF Cut
    <2>2. IsFiniteSet({Top.id}) /\ Cardinality({Top.id}) = 1
      BY FS_Singleton
    <2> QED BY <1>2, <2>1, <2>2 DEF Cut
  <1>3. EffectFails => Cut'
    BY <1>2 DEF EffectFails, Raise
  <1>4. ASSUME NEW v \in Values, Effect(v) PROVE Cut'
    BY <1>2, <1>4 DEF Effect
  <1>5. ASSUME NEW i \in Ids, EnterLeaf(i) PROVE Cut'
    <2>1. ~controls.stopped
      BY <1>5 DEF EnterLeaf, Admitted, Denied, StartDenied
    <2> QED BY <1>5, <2>1 DEF EnterLeaf, Cut, history
  <1> QED BY Steps, <1>1, <1>3, <1>4, <1>5

LEMMA CoveredStep == Typed /\ Covered /\ [Next]_vars => Covered'
  <1> SUFFICES ASSUME Typed, Covered, [Next]_vars PROVE Covered'
    OBVIOUS
  <1>t. /\ agentCalls \in Nat /\ cards \in Nat /\ workflow.agents \in Nat /\ workflow.cards \in Nat
        /\ IsFiniteSet(effects) /\ IsFiniteSet(Cards(effects))
        /\ Cardinality(effects) \in Nat /\ Cardinality(Cards(effects)) \in Nat
    <2>1. IsFiniteSet(effects) /\ Cards(effects) \subseteq effects
      BY DEF Covered, Cards
    <2>2. IsFiniteSet(Cards(effects))
      BY <2>1, FS_Subset
    <2> QED BY <2>1, <2>2, FS_CardinalityType, Workflow DEF Typed, Plain
  <1>1. CASE Quiet
    <2>1. Cards(effects)' = Cards(effects) /\ (Cards(ToCome)' # {} => Cards(ToCome) # {})
      BY <1>1 DEF Quiet, Cards, Kind, Step, ToCome
    <2>2. UNCHANGED <<workflow, agentCalls, cards, effects>> /\ (mode' = "effect" => mode = "effect")
      BY <1>1 DEF Quiet
    <2>3. Cardinality(Cards(effects))' = Cardinality(Cards(effects))
      BY <2>1
    <2> QED BY <1>t, <2>1, <2>2, <2>3 DEF Covered
  <1>2. ASSUME mode = "effect", mode' # "effect", effects' = effects \cup {Top.id},
               UNCHANGED <<workflow, agentCalls, cards>>
        PROVE  Covered'
    <2>1. /\ IsFiniteSet(effects \cup {Top.id})
          /\ \/ Cardinality(effects \cup {Top.id}) = Cardinality(effects)
             \/ Cardinality(effects \cup {Top.id}) = Cardinality(effects) + 1
      BY <1>t, FS_AddElement
    <2>2. Cards(effects)' = IF Cards(ToCome) # {} THEN Cards(effects) \cup {Top.id}
                            ELSE Cards(effects)
      BY <1>2 DEF Cards, Kind, Step, ToCome
    <2>3. \/ Cardinality(Cards(effects) \cup {Top.id}) = Cardinality(Cards(effects))
          \/ Cardinality(Cards(effects) \cup {Top.id}) = Cardinality(Cards(effects)) + 1
      BY <1>t, FS_AddElement
    <2>4. Cards(ToCome)' = {}
      BY <1>2 DEF Cards, ToCome
    <2>5. Cardinality(effects') + 0 <= agentCalls /\ agentCalls <= workflow.agents
      BY <1>t, <1>2, <2>1 DEF Covered
    <2>6. Cardinality(Cards(effects)') + 0 <= cards /\ cards <= workflow.cards
      <3>1. CASE Cards(ToCome) # {}
        BY <1>t, <2>2, <2>3, <3>1 DEF Covered
      <3>2. CASE Cards(ToCome) = {}
        BY <1>t, <2>2, <3>2 DEF Covered
      <3> QED BY <3>1, <3>2
    <2> QED BY <1>2, <2>1, <2>4, <2>5, <2>6 DEF Covered
  <1>3. EffectFails => Covered'
    BY <1>2 DEF EffectFails, Raise, context
  <1>4. ASSUME NEW v \in Values, Effect(v) PROVE Covered'
    BY <1>2, <1>4 DEF Effect
  <1>5. ASSUME NEW i \in Ids, EnterLeaf(i) PROVE Covered'
    <2>1. /\ mode = "next" /\ Top.todo # << >> /\ Kind(i) \in Leaves /\ ~Spent(i)
          /\ agentCalls' = agentCalls + 1
          /\ cards' = IF Kind(i) = "kanban_agent" THEN cards + 1 ELSE cards
          /\ UNCHANGED <<workflow, effects>>
      BY <1>5 DEF EnterLeaf, Admitted, history
    <2>2. /\ agentCalls < workflow.agents
          /\ Kind(i) = "kanban_agent" => cards < workflow.cards
      BY <1>t, <2>1 DEF Spent
    <2>3. Cards(effects)' = Cards(effects)
      BY <2>1 DEF Cards, Kind, Step
    <2>4. Cards(ToCome)' # {} => Kind(i) = "kanban_agent"
      <3>1. CASE mode' = "effect"
        <4>1. stack' = Append(Advanced, Frame(i, Kind(i), << >>)) /\ << >> \in Seq(Ids)
          BY <1>5, <3>1 DEF EnterLeaf, Raise
        <4>2. Top'.id = i
          BY <2>1, <4>1, EnteredOK DEF Typed
        <4> QED BY <2>1, <4>2 DEF Cards, ToCome, Kind, Step
      <3>2. CASE mode' # "effect"
        BY <3>2 DEF Cards, ToCome
      <3> QED BY <3>1, <3>2
    <2>5. Cardinality(effects) <= agentCalls /\ Cardinality(Cards(effects)) <= cards
      BY <1>t, <2>1 DEF Covered
    <2>6. /\ Cardinality(effects) + (IF mode' = "effect" THEN 1 ELSE 0) <= agentCalls'
          /\ agentCalls' <= workflow.agents
      BY <1>t, <2>1, <2>2, <2>5
    <2>7. /\ Cardinality(Cards(effects)) + (IF Cards(ToCome)' # {} THEN 1 ELSE 0) <= cards'
          /\ cards' <= workflow.cards
      <3>1. CASE Kind(i) = "kanban_agent"
        BY <1>t, <2>1, <2>2, <2>5, <3>1
      <3>2. CASE Kind(i) # "kanban_agent"
        BY <1>t, <2>1, <2>4, <2>5, <3>2 DEF Covered
      <3> QED BY <3>1, <3>2
    <2> QED BY <1>t, <2>1, <2>3, <2>6, <2>7 DEF Covered
  <1> QED BY Steps, <1>1, <1>3, <1>4, <1>5

\* After a stop is recorded at most one more effect is dispatched, the one that
\* _enforce_run_control had already admitted, however the steps are nested.
THEOREM StopIsPrompt == Spec => []StopsSoon
  <1>1. Init => Cut
    BY FS_EmptySet DEF Init, Cut
  <1>2. Cut => StopsSoon
    BY DEF Cut, StopsSoon
  <1> QED BY InitTyped, TypeStep, <1>1, CutStep, <1>2, PTL DEF Spec

\* max_agent_calls and max_kanban_cards bound what a whole run dispatches: what a
\* phase counts in a context of its own is not lost.
THEOREM BudgetsAreKept == Spec => []BudgetHolds
  <1>1. Init => Covered
    <2> SUFFICES ASSUME Init PROVE Covered
      OBVIOUS
    <2>1. effects = {} /\ mode = "next" /\ agentCalls = 0 /\ cards = 0 /\ workflow \in Workflows
      BY DEF Init
    <2>2. Cards(effects) = {} /\ Cards(ToCome) = {}
      BY <2>1 DEF Cards, ToCome
    <2>3. IsFiniteSet({}) /\ Cardinality({}) = 0
      BY FS_EmptySet
    <2>4. workflow.agents \in Nat /\ workflow.cards \in Nat
      BY <2>1, Workflow
    <2> QED BY <2>1, <2>2, <2>3, <2>4 DEF Covered
  <1>2. Typed /\ Covered => BudgetHolds
    <2> SUFFICES ASSUME Typed, Covered PROVE BudgetHolds
      OBVIOUS
    <2>1. IsFiniteSet(effects) /\ Cards(effects) \subseteq effects
      BY DEF Covered, Cards
    <2>2. Cardinality(effects) \in Nat /\ Cardinality(Cards(effects)) \in Nat
      BY <2>1, FS_Subset, FS_CardinalityType
    <2>3. agentCalls \in Nat /\ cards \in Nat /\ workflow.agents \in Nat /\ workflow.cards \in Nat
      BY Workflow DEF Typed, Plain
    <2>4. Cardinality(effects) <= workflow.agents
      BY <2>2, <2>3 DEF Covered
    <2>5. Cardinality(Cards(effects)) <= workflow.cards
      BY <2>2, <2>3 DEF Covered
    <2> QED BY <2>4, <2>5 DEF BudgetHolds, Cards
  <1> QED BY InitTyped, TypeStep, <1>1, CoveredStep, <1>2, PTL DEF Spec

-----------------------------------------------------------------------------
(* The tree that a run walks. *)

Held(p) == {Listed(workflow, p)[a] : a \in DOMAIN Listed(workflow, p)}
In(s) == {s[a] : a \in DOMAIN s}
Going == mode \in {"next", "effect"}

\* The calls of the interpreter are those of a path from the run inwards.
Linked ==
  /\ stack[1].id = 0
  /\ \A k \in 2..Len(stack) :
       stack[k].id \in Held(stack[k - 1].id) /\ stack[k].kind = Kind(stack[k].id)
Rising == \A j, k \in 1..Len(stack) : j < k => stack[j].id < stack[k].id
Encloses == \A j, k \in 2..Len(stack) : j < k => stack[j].id \in Containers[stack[k].id]

\* The steps recorded as running are those on the path.
Current == \A i \in Ids : steps[i] = "running" <=> \E k \in 2..Len(stack) : stack[k].id = i

\* How a run ends, and what fails on the way.
Ends ==
  /\ status # "running" <=> mode = "over"
  /\ mode = "over" => ~Inside
  /\ mode = "effect" => Top.kind \in Leaves
  /\ \A i \in Ids : steps[i] = "failed" => mode = "raise" \/ (mode = "over" /\ status # "succeeded")

\* What a call has still to do is inside its step, once, and has not been touched.
Ahead ==
  Going => \A k \in 1..Len(stack) :
    /\ In(stack[k].todo) \subseteq Held(stack[k].id)
    /\ \A i \in In(stack[k].todo) : steps[i] = "none"
    /\ \A a, b \in DOMAIN stack[k].todo : stack[k].todo[a] = stack[k].todo[b] => a = b

\* Whatever ran is inside of what ran.
Ran == \A p, i \in Ids : i \in Held(p) /\ steps[i] # "none" => steps[p] # "none"

\* What a call has no more to do was done, or is on the path.
AreDone(f, S) == \A i \in S : f[i] \in {"running", "succeeded"}
Behind ==
  Going => \A k \in 2..Len(stack) : stack[k].kind \in Composites =>
    \/ AreDone(steps, Kids(stack[k].id) \ In(stack[k].todo))
    \/ stack[k].kind = "if" /\ AreDone(steps, Elses(stack[k].id) \ In(stack[k].todo))

\* A failure reaches the containers one by one.
Failing(i) == steps[i] = "failed" \/ (mode = "raise" /\ steps[i] = "running")
Spreads == \A p, i \in Ids : i \in Held(p) /\ Failing(i) => Failing(p)

Whole ==
  \A i \in Ids : steps[i] = "succeeded" /\ Kind(i) \in Composites =>
    \/ \A k \in Kids(i) : steps[k] = "succeeded"
    \/ Kind(i) = "if" /\ \A k \in Elses(i) : steps[k] = "succeeded"

\* What an `if` will leave of the outputs are those from outside of it.
KeysKept ==
  \A k \in 2..Len(stack) :
    stack[k].keys = {i \in DOMAIN outputs : stack[k].id \notin Containers[i]}

Walk == Linked /\ Rising /\ Encloses /\ Current
TreeInv ==
  Typed /\ Walk /\ Ends /\ Ahead /\ Ran /\ Behind /\ Spreads /\ Whole /\ KeysKept /\ ScopeHolds

-----------------------------------------------------------------------------
(* Containers. *)

Above(i) == {p \in Ids : i \in Kids(p) \cup Elses(p)}
Upward(S, i) == Above(i) \subseteq S /\ \A p \in S : Above(p) \subseteq S

\* Containers, which is a recursive function, is a solution of its equation: the
\* least sets that are closed upwards are one.
LEMMA ContainersAre ==
  ASSUME NEW i \in Ids
  PROVE  Containers[i] = Above(i) \cup UNION {Containers[p] : p \in Above(i)}
  <1> DEFINE E(f) == [j \in Ids |-> Above(j) \cup UNION {f[p] : p \in Above(j)}]
             Least[j \in Ids] == {c \in Ids : \A S \in SUBSET Ids : Upward(S, j) => c \in S}
  <1>0. \A j \in Ids : \A c : c \in Least[j] <=> c \in Ids /\ \A S \in SUBSET Ids : Upward(S, j) => c \in S
    OBVIOUS
  <1>1. ASSUME NEW j \in Ids
        PROVE  Least[j] = Above(j) \cup UNION {Least[p] : p \in Above(j)}
    <2> DEFINE R == Above(j) \cup UNION {Least[p] : p \in Above(j)}
    <2> HIDE DEF Least
    <2>1. Above(j) \subseteq Ids /\ \A p \in Ids : Least[p] \subseteq Ids
      BY <1>0 DEF Above
    <2>2. R \subseteq Least[j]
      <3>1. ASSUME NEW c \in Above(j) PROVE c \in Least[j]
        BY <1>0, <2>1, <3>1 DEF Upward
      <3>2. ASSUME NEW p \in Above(j), NEW c \in Least[p] PROVE c \in Least[j]
        <4>1. \A S \in SUBSET Ids : Upward(S, j) => Upward(S, p)
          BY DEF Upward
        <4>2. p \in Ids /\ c \in Ids
          BY <2>1
        <4> QED BY <1>0, <4>1, <4>2
      <3> QED BY <3>1, <3>2
    <2>3. \A p \in Ids : Above(p) \subseteq Least[p]
      <3> SUFFICES ASSUME NEW p \in Ids, NEW q \in Above(p) PROVE q \in Least[p]
        OBVIOUS
      <3> QED BY <1>0 DEF Upward, Above
    <2>4. \A p \in Ids : \A q \in Least[p] : Above(q) \subseteq Least[p]
      <3> SUFFICES ASSUME NEW p \in Ids, NEW q \in Least[p], NEW r \in Above(q)
                   PROVE  r \in Least[p]
        OBVIOUS
      <3>1. r \in Ids
        BY DEF Above
      <3>2. \A S \in SUBSET Ids : Upward(S, p) => r \in S
        BY <1>0 DEF Upward
      <3> QED BY <1>0, <3>1, <3>2
    <2>5. R \in SUBSET Ids /\ Upward(R, j)
      <3>1. \A q \in R : Above(q) \subseteq R
        <4>1. ASSUME NEW q \in Above(j) PROVE Above(q) \subseteq R
          BY <2>1, <2>3
        <4>2. ASSUME NEW p \in Above(j), NEW q \in Least[p] PROVE Above(q) \subseteq R
          BY <2>1, <2>4
        <4> QED BY <4>1, <4>2
      <3> QED BY <2>1, <3>1 DEF Upward
    <2>6. Least[j] \subseteq R
      <3> HIDE DEF R
      <3> QED BY <1>0, <2>5
    <2> QED BY <2>2, <2>6
  <1>2. Least = E(Least)
    BY <1>1
  <1>3. Containers = CHOOSE f : f = E(f)
    BY DEF Containers, Above
  <1> HIDE DEF E
  <1>4. Containers = E(Containers)
    BY <1>2, <1>3
  <1> QED BY <1>4 DEF E

LEMMA Smallest ==
  ASSUME NEW T \in SUBSET Nat, T # {}
  PROVE  \E n \in T : \A m \in T : n <= m
  <1>1. \E x \in T : \A y \in T : <<y, x>> \notin OpToRel(<, Nat)
    BY WFMin, NatLessThanWellFounded
  <1>2. \A x, y \in T : <<y, x>> \notin OpToRel(<, Nat) => x <= y
    BY DEF OpToRel
  <1> QED BY <1>1, <1>2

\* A definition is a tree: every step is in one place, further in than its container.
LEMMA Nesting ==
  ASSUME workflow \in Workflows
  PROVE  /\ Ids \subseteq Nat \ {0}
         /\ \A p \in {0} \cup Ids : \A i \in Held(p) : i \in Ids /\ p < i
         /\ \A p, q \in {0} \cup Ids : \A i \in Held(p) : i \in Held(q) => p = q
  <1>1. Ids \subseteq Nat \ {0}
    BY NestingAssumption DEF NestingAssumption, Ids
  <1>2. ASSUME NEW p \in {0} \cup Ids PROVE Listed(workflow, p) \in Seq(Ids)
    <2>1. CASE p = 0
      BY <2>1, Workflow DEF Listed
    <2>2. CASE p # 0
      <3>1. p \in Ids /\ Step(p).kids \in Seq(Ids) /\ Step(p).else \in Seq(Ids)
        BY <2>2, Workflow
      <3>2. Listed(workflow, p) = Step(p).kids \o Step(p).else
        BY <2>2 DEF Listed, Step
      <3> QED BY <3>1, <3>2
    <2> QED BY <2>1, <2>2
  <1>3. \A p \in {0} \cup Ids : \A i \in Held(p) : i \in Ids /\ p < i
    <2> SUFFICES ASSUME NEW p \in {0} \cup Ids, NEW a \in DOMAIN Listed(workflow, p)
                 PROVE  Listed(workflow, p)[a] \in Ids /\ p < Listed(workflow, p)[a]
      BY DEF Held
    <2> QED BY <1>2, NestingAssumption DEF NestingAssumption, Ids
  <1>4. \A p, q \in {0} \cup Ids : \A i \in Held(p) : i \in Held(q) => p = q
    <2> SUFFICES ASSUME NEW p \in {0} \cup Ids, NEW q \in {0} \cup Ids,
                        NEW a \in DOMAIN Listed(workflow, p), NEW b \in DOMAIN Listed(workflow, q),
                        Listed(workflow, p)[a] = Listed(workflow, q)[b]
                 PROVE  p = q
      BY DEF Held
    <2> QED BY NestingAssumption DEF NestingAssumption, Ids
  <1> QED BY <1>1, <1>3, <1>4

LEMMA Lists ==
  ASSUME workflow \in Workflows
  PROVE  /\ \A p \in Ids : Held(p) = Kids(p) \cup Elses(p)
         /\ \A p \in Ids : In(Step(p).kids) = Kids(p) /\ In(Step(p).else) = Elses(p)
         /\ \A p \in Ids : \A a, b \in DOMAIN Step(p).kids :
              Step(p).kids[a] = Step(p).kids[b] => a = b
         /\ \A p \in Ids : \A a, b \in DOMAIN Step(p).else :
              Step(p).else[a] = Step(p).else[b] => a = b
         /\ In(workflow.top) = Held(0)
         /\ \A a, b \in DOMAIN workflow.top : workflow.top[a] = workflow.top[b] => a = b
  <1>1. ASSUME NEW p \in Ids
        PROVE  /\ Held(p) = Kids(p) \cup Elses(p)
               /\ \A a, b \in DOMAIN Step(p).kids : Step(p).kids[a] = Step(p).kids[b] => a = b
               /\ \A a, b \in DOMAIN Step(p).else : Step(p).else[a] = Step(p).else[b] => a = b
    <2> DEFINE s == Step(p).kids
               t == Step(p).else
    <2>1. s \in Seq(Ids) /\ t \in Seq(Ids)
      BY Workflow
    <2>2. Listed(workflow, p) = s \o t
      <3>1. p # 0
        BY Nesting
      <3> QED BY <3>1 DEF Listed, Step
    <2>3. \A a, b \in DOMAIN (s \o t) : (s \o t)[a] = (s \o t)[b] => a = b
      <3>1. \A a, b \in DOMAIN Listed(workflow, p) :
              Listed(workflow, p)[a] = Listed(workflow, p)[b] => a = b
        BY NestingAssumption DEF NestingAssumption, Ids
      <3> QED BY <2>2, <3>1
    <2>4. Kids(p) = {s[k] : k \in DOMAIN s} /\ Elses(p) = {t[k] : k \in DOMAIN t}
      BY DEF Kids, Elses
    <2>5. Held(p) = {(s \o t)[a] : a \in DOMAIN (s \o t)}
      BY <2>2 DEF Held
    <2> HIDE DEF s, t
    <2>6. /\ Len(s) \in Nat /\ Len(t) \in Nat /\ DOMAIN s = 1..Len(s) /\ DOMAIN t = 1..Len(t)
          /\ DOMAIN (s \o t) = 1..Len(s) + Len(t)
          /\ \A a \in 1..Len(s) : (s \o t)[a] = s[a]
          /\ \A a \in 1..Len(t) : (s \o t)[Len(s) + a] = t[a]
      BY <2>1
    <2>7. \A a, b \in DOMAIN s : s[a] = s[b] => a = b
      BY <2>3, <2>6
    <2>8. \A a, b \in DOMAIN t : t[a] = t[b] => a = b
      <3> SUFFICES ASSUME NEW a \in 1..Len(t), NEW b \in 1..Len(t), t[a] = t[b] PROVE a = b
        BY <2>6
      <3>1. Len(s) + a \in DOMAIN (s \o t) /\ Len(s) + b \in DOMAIN (s \o t)
        BY <2>6
      <3>2. (s \o t)[Len(s) + a] = (s \o t)[Len(s) + b]
        BY <2>6
      <3>3. Len(s) + a = Len(s) + b
        BY <2>3, <3>1, <3>2
      <3> QED BY <2>6, <3>3
    <2>9. Held(p) = Kids(p) \cup Elses(p)
      <3>1. ASSUME NEW a \in DOMAIN (s \o t) PROVE (s \o t)[a] \in Kids(p) \cup Elses(p)
        <4>1. CASE a \in 1..Len(s)
          BY <2>4, <2>6, <4>1
        <4>2. CASE a \notin 1..Len(s)
          <5>1. a - Len(s) \in 1..Len(t) /\ Len(s) + (a - Len(s)) = a
            BY <2>6, <4>2
          <5> QED BY <2>4, <2>6, <5>1
        <4> QED BY <4>1, <4>2
      <3>2. ASSUME NEW a \in DOMAIN s PROVE s[a] \in Held(p)
        <4>1. a \in DOMAIN (s \o t) /\ (s \o t)[a] = s[a]
          BY <2>6
        <4> QED BY <2>5, <4>1
      <3>3. ASSUME NEW a \in DOMAIN t PROVE t[a] \in Held(p)
        <4>1. Len(s) + a \in DOMAIN (s \o t) /\ (s \o t)[Len(s) + a] = t[a]
          BY <2>6
        <4> QED BY <2>5, <4>1
      <3> QED BY <2>4, <2>5, <3>1, <3>2, <3>3
    <2> QED BY <2>7, <2>8, <2>9 DEF s, t
  <1>2. \A p \in Ids : In(Step(p).kids) = Kids(p) /\ In(Step(p).else) = Elses(p)
    BY DEF In, Kids, Elses
  <1>3. Listed(workflow, 0) = workflow.top
    BY DEF Listed
  <1>4. In(workflow.top) = Held(0)
    BY <1>3 DEF In, Held
  <1>5. \A a, b \in DOMAIN workflow.top : workflow.top[a] = workflow.top[b] => a = b
    BY <1>3, NestingAssumption DEF NestingAssumption, Ids
  <1> QED BY <1>1, <1>2, <1>4, <1>5

LEMMA AboveIs ==
  ASSUME workflow \in Workflows, NEW i \in Ids
  PROVE  Above(i) = {p \in Ids : i \in Held(p)} /\ \A p \in Above(i) : p \in Nat /\ p < i
  <1>1. Above(i) = {p \in Ids : i \in Held(p)}
    BY Lists DEF Above
  <1> QED BY <1>1, Nesting

\* What is closed upwards holds the containers: there is no outermost step of
\* which it does not.
LEMMA WithinUpward ==
  ASSUME workflow \in Workflows, NEW S, NEW i \in Ids, Upward(S, i)
  PROVE  Containers[i] \subseteq S
  <1> DEFINE Bad == {j \in Ids : Upward(S, j) /\ ~(Containers[j] \subseteq S)}
  <1>1. ASSUME Bad # {} PROVE FALSE
    <2>1. Bad \in SUBSET Nat
      BY Nesting
    <2>2. PICK j \in Bad : \A m \in Bad : j <= m
      <3> HIDE DEF Bad
      <3> QED BY <1>1, <2>1, Smallest
    <2>3. j \in Ids /\ Upward(S, j) /\ ~(Containers[j] \subseteq S)
      BY <2>2
    <2>4. ASSUME NEW p \in Above(j) PROVE Containers[p] \subseteq S
      <3>1. p \in Ids /\ p \in Nat /\ j \in Nat /\ p < j
        BY <2>3, AboveIs, Nesting
      <3>2. Upward(S, p)
        BY <2>3 DEF Upward
      <3>3. p \notin Bad
        BY <2>2, <3>1
      <3> QED BY <3>1, <3>2, <3>3
    <2>5. Containers[j] = Above(j) \cup UNION {Containers[p] : p \in Above(j)}
      BY <2>3, ContainersAre
    <2>6. Above(j) \subseteq S
      BY <2>3 DEF Upward
    <2> QED BY <2>3, <2>4, <2>5, <2>6
  <1> QED BY <1>1

LEMMA ContainersUpward ==
  ASSUME workflow \in Workflows, NEW i \in Ids
  PROVE  /\ Upward(Containers[i], i) /\ Containers[i] \subseteq Ids
         /\ \A c \in Containers[i] : c < i
         /\ \A c \in Containers[i] : Containers[c] \subseteq Containers[i]
  <1> DEFINE Bad == {j \in Ids : ~Upward(Containers[j], j)}
  <1>1. ASSUME Bad # {} PROVE FALSE
    <2>1. Bad \in SUBSET Nat
      BY Nesting
    <2>2. PICK j \in Bad : \A m \in Bad : j <= m
      <3> HIDE DEF Bad
      <3> QED BY <1>1, <2>1, Smallest
    <2>3. j \in Ids /\ ~Upward(Containers[j], j)
      BY <2>2
    <2>4. Containers[j] = Above(j) \cup UNION {Containers[p] : p \in Above(j)}
      BY <2>3, ContainersAre
    <2>5. ASSUME NEW p \in Above(j) PROVE p \in Ids /\ Upward(Containers[p], p)
      <3>1. p \in Ids /\ p \in Nat /\ j \in Nat /\ p < j
        BY <2>3, AboveIs, Nesting
      <3>2. p \notin Bad
        BY <2>2, <3>1
      <3> QED BY <3>1, <3>2
    <2>6. ASSUME NEW q \in Containers[j] PROVE Above(q) \subseteq Containers[j]
      <3>1. CASE q \in Above(j)
        BY <2>4, <2>5, <3>1 DEF Upward
      <3>2. ASSUME NEW p \in Above(j), q \in Containers[p] PROVE Above(q) \subseteq Containers[j]
        BY <2>4, <2>5, <3>2 DEF Upward
      <3> QED BY <2>4, <3>1, <3>2
    <2> QED BY <2>3, <2>4, <2>6 DEF Upward
  <1>2. \A j \in Ids : Upward(Containers[j], j)
    BY <1>1
  <1>3. Containers[i] \subseteq {c \in Ids : c < i}
    <2>1. ASSUME NEW p \in {c \in Ids : c < i} PROVE Above(p) \subseteq {c \in Ids : c < i}
      BY Nesting, AboveIs DEF Above
    <2>2. Above(i) \subseteq {c \in Ids : c < i}
      BY AboveIs
    <2>3. Upward({c \in Ids : c < i}, i)
      BY <2>1, <2>2 DEF Upward
    <2> QED BY <2>3, WithinUpward
  <1>4. ASSUME NEW c \in Containers[i] PROVE Containers[c] \subseteq Containers[i]
    <2>1. c \in Ids /\ Upward(Containers[i], c)
      BY <1>2, <1>3 DEF Upward
    <2> QED BY <2>1, WithinUpward
  <1> QED BY <1>2, <1>3, <1>4

-----------------------------------------------------------------------------
(* The interpreter's moves. *)

LEMMA Same ==
  ASSUME workflow' = workflow
  PROVE  /\ Ids' = Ids /\ Containers' = Containers
         /\ \A p : Held(p)' = Held(p) /\ Kids(p)' = Kids(p) /\ Elses(p)' = Elses(p)
         /\ \A p : Kind(p)' = Kind(p) /\ Step(p)' = Step(p)
  <1>1. Containers' = Containers
    BY DEF Containers, Kids, Elses, Step, Ids
  <1>2. Ids' = Ids
    BY DEF Ids
  <1>3. \A p : Held(p)' = Held(p) /\ Kids(p)' = Kids(p) /\ Elses(p)' = Elses(p)
    BY DEF Held, Kids, Elses, Step
  <1>4. \A p : Kind(p)' = Kind(p) /\ Step(p)' = Step(p)
    BY DEF Kind, Step
  <1> QED BY <1>1, <1>2, <1>3, <1>4

Rests ==
  /\ UNCHANGED <<workflow, stack, steps, outputs, status>>
  /\ mode' = mode \/ (mode' = "raise" /\ Going)

Ending ==
  /\ ~Inside /\ mode' = "over" /\ UNCHANGED <<workflow, stack, steps, outputs>>
  /\ \/ mode = "next" /\ status' = "succeeded"
     \/ mode = "raise" /\ status' \in {"failed", "stopped", "paused"}

Entering(i, todo) ==
  /\ mode = "next" /\ Top.todo # << >> /\ i = NextStep
  /\ stack' = Append(Advanced, Frame(i, Kind(i), todo))
  /\ steps' = [steps EXCEPT ![i] = "running"]
  /\ UNCHANGED <<workflow, outputs, status>>
  /\ \/ mode' = "raise"
     \/ mode' = "effect" /\ Kind(i) \in Leaves /\ todo = << >>
     \/ mode' = "next" /\ todo = Step(i).kids
     \/ mode' = "next" /\ Kind(i) = "if" /\ todo = Step(i).else

Leaving ==
  /\ Inside /\ stack' = Below /\ mode' = "next"
  /\ mode = "effect" \/ (mode = "next" /\ Top.todo = << >>)
  /\ steps' = [steps EXCEPT ![Top.id] = "succeeded"]
  /\ DOMAIN outputs' = {Top.id} \cup (IF Top.kind = "if" THEN Top.keys ELSE DOMAIN outputs)
  /\ UNCHANGED <<workflow, status>>

Failed ==
  /\ Inside /\ stack' = Below /\ mode = "raise" /\ mode' = "raise"
  /\ steps' = [steps EXCEPT ![Top.id] = "failed"]
  /\ UNCHANGED <<workflow, outputs, status>>

LEMMA Moves ==
  ASSUME Typed, Ends, [Next]_vars
  PROVE  \/ Rests \/ Ending \/ Leaving \/ Failed
         \/ \E i \in Ids, todo \in Seq(Ids) : Entering(i, todo)
  <1>p. Plain /\ StackOK
    BY DEF Typed
  <1>1. CASE Refuse
    BY <1>1 DEF Refuse, Raise, Rests, Going, context, record
  <1>2. CASE Leave
    BY <1>2 DEF Leave, Put, VisibleAfter, Leaving
  <1>3. CASE Unwind
    BY <1>3 DEF Unwind, FailureRecorded, Failed, context
  <1>4. CASE Succeed
    BY <1>4 DEF Succeed, Ending, context
  <1>5. CASE Fail
    BY <1>5 DEF Fail, Lifecycle, Ending, context
  <1>6. CASE EffectFails
    BY <1>6 DEF EffectFails, Raise, Rests, Going, context, record
  <1>7. ASSUME NEW v \in Values, Effect(v) PROVE Leaving
    <2>1. Top.kind # "if" /\ Inside
      BY <1>p, <1>7 DEF Effect, Ends, Leaves, StackOK
    <2> QED BY <1>7, <2>1 DEF Effect, Put, Leaving
  <1>8. ASSUME NEW i \in Ids, EnterLeaf(i)
        PROVE  Rests \/ Entering(i, << >>)
    BY <1>8 DEF EnterLeaf, Admitted, Raise, Rests, Going, Entering
  <1>9. ASSUME NEW i \in Ids, EnterComposite(i)
        PROVE  Entering(i, Step(i).kids) /\ Step(i).kids \in Seq(Ids)
    BY <1>p, <1>9, Workflow DEF EnterComposite, Admitted, Entering, Plain, context
  <1>10. ASSUME NEW i \in Ids, EnterIf(i)
         PROVE  \E todo \in Seq(Ids) : Entering(i, todo)
    <2>1. /\ mode = "next" /\ Top.todo # << >> /\ i = NextStep /\ Kind(i) = "if"
          /\ steps' = [steps EXCEPT ![i] = "running"]
          /\ UNCHANGED <<workflow, outputs, status>>
      BY <1>10 DEF EnterIf, Admitted, context
    <2>2. Step(i).kids \in Seq(Ids) /\ Step(i).else \in Seq(Ids) /\ << >> \in Seq(Ids)
      BY <1>p, Workflow DEF Plain
    <2>3. CASE Step(i).reads \subseteq DOMAIN outputs
      <3>1. PICK b \in Branches(i) : stack' = Append(Advanced, Frame(i, "if", b))
        BY <1>10, <2>3 DEF EnterIf
      <3>2. b = Step(i).kids \/ b = Step(i).else
        BY DEF Branches
      <3>3. mode' = mode
        BY <1>10, <2>3 DEF EnterIf
      <3> QED BY <2>1, <2>2, <3>1, <3>2, <3>3 DEF Entering
    <2>4. CASE ~(Step(i).reads \subseteq DOMAIN outputs)
      <3>1. \/ mode' = mode /\ stack' = Append(Advanced, Frame(i, "if", Step(i).else))
            \/ mode' = "raise" /\ stack' = Append(Advanced, Frame(i, "if", << >>))
        BY <1>10, <2>4 DEF EnterIf, Raise
      <3> QED BY <2>1, <2>2, <3>1 DEF Entering
    <2> QED BY <2>3, <2>4
  <1>11. CASE Operator
    BY <1>p, <1>11, OperatorControls DEF Rests, context, record
  <1>12. CASE UNCHANGED vars
    BY <1>12 DEF vars, Rests, context, record
  <1>13. << >> \in Seq(Ids)
    OBVIOUS
  <1> QED BY <1>1, <1>2, <1>3, <1>4, <1>5, <1>6, <1>7, <1>8, <1>9, <1>10, <1>11, <1>12, <1>13
         DEF Next, Interpreter

LEMMA EnteredStack ==
  ASSUME Typed, NEW i \in Ids, NEW todo \in Seq(Ids), Entering(i, todo)
  PROVE  /\ Len(stack) \in Nat \ {0} /\ Len(stack') = Len(stack) + 1
         /\ stack'[Len(stack) + 1].id = i /\ stack'[Len(stack) + 1].kind = Kind(i)
         /\ stack'[Len(stack) + 1].todo = todo /\ stack'[Len(stack) + 1].keys = DOMAIN outputs
         /\ \A k \in 1..Len(stack) :
              /\ stack'[k].id = stack[k].id /\ stack'[k].kind = stack[k].kind
              /\ stack'[k].keys = stack[k].keys
              /\ stack'[k].todo \in Seq(Ids)
              /\ k # Len(stack) => stack'[k].todo = stack[k].todo
         /\ Top.todo \in Seq(Ids) /\ Top.todo # << >> /\ i = Head(Top.todo)
         /\ stack'[Len(stack)].todo = Tail(Top.todo)
  <1> DEFINE f == [Top EXCEPT !.todo = Tail(@)]
             n == Len(stack)
  <1>1. n \in Nat \ {0} /\ stack \in Seq(FrameType)
    BY DEF Typed, StackOK
  <1>2. Below \in Seq(FrameType) /\ Len(Below) = n - 1 /\ Top \in FrameType
        /\ \A k \in 1..n - 1 : Below[k] = stack[k]
    BY BelowOK DEF Typed
  <1>3. Top.todo \in Seq(Ids) /\ Top.todo # << >> /\ i = Head(Top.todo)
    BY <1>2 DEF Entering, FrameType, NextStep
  <1>4. /\ f \in FrameType /\ f.id = Top.id /\ f.kind = Top.kind /\ f.keys = Top.keys
        /\ f.todo = Tail(Top.todo)
    <2>1. Tail(Top.todo) \in Seq(Ids)
      BY <1>3
    <2> QED BY <1>2, <2>1 DEF FrameType
  <1>5. Frame(i, Kind(i), todo) \in FrameType
    BY Workflow DEF Frame, FrameType, Typed, Plain
  <1>6. /\ Frame(i, Kind(i), todo).id = i /\ Frame(i, Kind(i), todo).kind = Kind(i)
        /\ Frame(i, Kind(i), todo).todo = todo /\ Frame(i, Kind(i), todo).keys = DOMAIN outputs
    BY DEF Frame
  <1>7. stack' = Append(Append(Below, f), Frame(i, Kind(i), todo))
    BY DEF Entering, Advanced
  <1>8. Top = stack[n]
    BY DEF Top
  <1> HIDE DEF f, n
  <1>9. /\ Append(Below, f) \in Seq(FrameType) /\ Len(Append(Below, f)) = n
        /\ Append(Below, f)[n] = f /\ \A k \in 1..n - 1 : Append(Below, f)[k] = stack[k]
    BY <1>1, <1>2, <1>4, Pushed
  <1>10. /\ Len(stack') = n + 1 /\ stack'[n + 1] = Frame(i, Kind(i), todo)
         /\ stack'[n] = f /\ \A k \in 1..n - 1 : stack'[k] = stack[k]
    BY <1>1, <1>5, <1>7, <1>9, Pushed
  <1>11. \A k \in 1..n : stack[k].todo \in Seq(Ids)
    <2>1. \A k \in 1..n : stack[k] \in FrameType
      BY <1>1 DEF n
    <2> QED BY <2>1 DEF FrameType
  <1>12. ASSUME NEW k \in 1..n
         PROVE  /\ stack'[k].id = stack[k].id /\ stack'[k].kind = stack[k].kind
                /\ stack'[k].keys = stack[k].keys /\ stack'[k].todo \in Seq(Ids)
                /\ k # n => stack'[k].todo = stack[k].todo
    <2>1. CASE k = n
      <3>1. f.todo \in Seq(Ids)
        BY <1>4 DEF FrameType
      <3> QED BY <1>4, <1>8, <1>10, <2>1, <3>1
    <2>2. CASE k # n
      BY <1>1, <1>10, <1>11, <2>2
    <2> QED BY <2>1, <2>2
  <1> QED BY <1>1, <1>3, <1>4, <1>6, <1>10, <1>12 DEF n

LEMMA LeftStack ==
  ASSUME Typed, Inside, stack' = Below
  PROVE  /\ Len(stack) \in Nat /\ Len(stack) > 1 /\ Len(stack') = Len(stack) - 1
         /\ \A k \in 1..Len(stack) - 1 : stack'[k] = stack[k]
         /\ Top = stack[Len(stack)] /\ Top.id \in Ids
  BY BelowOK DEF Typed, StackOK, Inside, Top

\* Who is on the path is a step, but for the run itself.
LEMMA Frames ==
  ASSUME Typed, Linked
  PROVE  /\ Len(stack) \in Nat \ {0}
         /\ \A k \in 1..Len(stack) : stack[k].id \in {0} \cup Ids /\ stack[k].todo \in Seq(Ids)
         /\ \A k \in 2..Len(stack) : stack[k].id \in Ids /\ stack[k - 1].id \in {0} \cup Ids
  <1>1. Len(stack) \in Nat \ {0} /\ stack \in Seq(FrameType)
    BY DEF Typed, StackOK
  <1>2. \A k \in 1..Len(stack) : stack[k] \in FrameType
    BY <1>1
  <1>3. \A k \in 2..Len(stack) : k - 1 \in 1..Len(stack) /\ k \in 1..Len(stack)
    BY <1>1
  <1> QED BY <1>1, <1>2, <1>3 DEF Typed, StackOK, FrameType

LEMMA HeadTail ==
  ASSUME NEW S, NEW s \in Seq(S), s # << >>
  PROVE  /\ Head(s) \in In(s) /\ In(s) = {Head(s)} \cup In(Tail(s))
         /\ (\A a, b \in DOMAIN s : s[a] = s[b] => a = b) =>
              /\ Head(s) \notin In(Tail(s))
              /\ \A a, b \in DOMAIN Tail(s) : Tail(s)[a] = Tail(s)[b] => a = b
  <1>1. Len(s) \in Nat \ {0} /\ DOMAIN s = 1..Len(s) /\ Head(s) = s[1]
    OBVIOUS
  <1>2. /\ Tail(s) \in Seq(S) /\ DOMAIN Tail(s) = 1..Len(s) - 1
        /\ \A a \in 1..Len(s) - 1 : Tail(s)[a] = s[a + 1]
    BY <1>1
  <1>3. \A a \in 1..Len(s) - 1 : a + 1 \in DOMAIN s /\ a + 1 # 1
    BY <1>1
  <1>4. Head(s) \in In(s)
    BY <1>1 DEF In
  <1>5. In(s) = {Head(s)} \cup In(Tail(s))
    <2>1. In(Tail(s)) \subseteq In(s)
      BY <1>2, <1>3 DEF In
    <2>2. ASSUME NEW a \in DOMAIN s, a # 1 PROVE s[a] \in In(Tail(s))
      <3>1. a - 1 \in DOMAIN Tail(s) /\ Tail(s)[a - 1] = s[(a - 1) + 1] /\ (a - 1) + 1 = a
        BY <1>1, <1>2, <2>2
      <3> QED BY <3>1 DEF In
    <2> QED BY <1>1, <1>4, <2>1, <2>2 DEF In
  <1>6. ASSUME \A a, b \in DOMAIN s : s[a] = s[b] => a = b
        PROVE  /\ Head(s) \notin In(Tail(s))
               /\ \A a, b \in DOMAIN Tail(s) : Tail(s)[a] = Tail(s)[b] => a = b
    <2>1. ASSUME NEW a \in DOMAIN Tail(s) PROVE Tail(s)[a] # Head(s)
      <3>1. Tail(s)[a] = s[a + 1] /\ a + 1 \in DOMAIN s /\ a + 1 # 1 /\ 1 \in DOMAIN s
        BY <1>1, <1>2, <1>3
      <3> QED BY <1>1, <1>6, <3>1
    <2>2. ASSUME NEW a \in DOMAIN Tail(s), NEW b \in DOMAIN Tail(s), Tail(s)[a] = Tail(s)[b]
          PROVE  a = b
      <3>1. s[a + 1] = s[b + 1] /\ a + 1 \in DOMAIN s /\ b + 1 \in DOMAIN s /\ a \in Nat /\ b \in Nat
        BY <1>1, <1>2, <1>3, <2>2
      <3>2. a + 1 = b + 1
        BY <1>6, <3>1
      <3> QED BY <3>1, <3>2
    <2> QED BY <2>1, <2>2 DEF In
  <1> QED BY <1>4, <1>5, <1>6

-----------------------------------------------------------------------------
(* Steps. *)

Calm == UNCHANGED <<workflow, stack, steps, outputs>>

LEMMA Cases ==
  ASSUME TreeInv, [Next]_vars
  PROVE  \/ Calm \/ Leaving \/ Failed
         \/ \E i \in Ids, todo \in Seq(Ids) : Entering(i, todo)
  BY Moves DEF TreeInv, Rests, Ending, Calm

\* A step that is entered was next in its container, and has not run.
LEMMA Entered ==
  ASSUME TreeInv, NEW i \in Ids, NEW todo \in Seq(Ids), Entering(i, todo)
  PROVE  /\ i \in Held(stack[Len(stack)].id) /\ i \in In(Top.todo) /\ steps[i] = "none"
         /\ Len(stack) \in Nat \ {0} /\ stack[Len(stack)].id \in {0} \cup Ids
         /\ In(Top.todo) = {i} \cup In(Tail(Top.todo)) /\ i \notin In(Tail(Top.todo))
         /\ \A a, b \in DOMAIN Tail(Top.todo) : Tail(Top.todo)[a] = Tail(Top.todo)[b] => a = b
         /\ Top = stack[Len(stack)] /\ workflow \in Workflows /\ Going
  <1>1. /\ Len(stack) \in Nat \ {0} /\ Top.todo \in Seq(Ids) /\ Top.todo # << >>
        /\ i = Head(Top.todo)
    BY EnteredStack DEF TreeInv
  <1>2. Top = stack[Len(stack)] /\ Len(stack) \in 1..Len(stack)
    BY <1>1 DEF Top
  <1>3. Going /\ workflow \in Workflows
    BY DEF Entering, Going, TreeInv, Typed, Plain
  <1>4. /\ In(Top.todo) \subseteq Held(Top.id)
        /\ \A j \in In(Top.todo) : steps[j] = "none"
        /\ \A a, b \in DOMAIN Top.todo : Top.todo[a] = Top.todo[b] => a = b
    BY <1>2, <1>3 DEF TreeInv, Ahead
  <1>5. stack[Len(stack)].id \in {0} \cup Ids
    BY <1>2, Frames DEF TreeInv, Walk
  <1> QED BY <1>1, <1>2, <1>3, <1>4, <1>5, HeadTail

LEMMA StepLinked == ASSUME TreeInv, [Next]_vars PROVE Linked'
  <1>n. Len(stack) \in Nat \ {0}
    BY Frames DEF TreeInv, Walk
  <1> USE DEF TreeInv, Walk
  <1>1. CASE Calm
    BY <1>1, Same DEF Linked, Calm
  <1>2. CASE Leaving \/ Failed
    <2>1. Inside /\ stack' = Below /\ workflow' = workflow
      BY <1>2 DEF Leaving, Failed
    <2>2. \A k \in 2..Len(stack') : stack'[k] = stack[k] /\ stack'[k - 1] = stack[k - 1]
                                     /\ k \in 2..Len(stack)
      BY <1>n, <2>1, LeftStack
    <2>3. stack'[1] = stack[1]
      BY <1>n, <2>1, LeftStack
    <2> QED BY <2>1, <2>2, <2>3, Same DEF Linked
  <1>3. ASSUME NEW i \in Ids, NEW todo \in Seq(Ids), Entering(i, todo) PROVE Linked'
    <2>1. workflow' = workflow
      BY <1>3 DEF Entering
    <2>2. /\ Len(stack') = Len(stack) + 1
          /\ stack'[Len(stack) + 1].id = i /\ stack'[Len(stack) + 1].kind = Kind(i)
          /\ \A k \in 1..Len(stack) : stack'[k].id = stack[k].id /\ stack'[k].kind = stack[k].kind
      BY <1>3, EnteredStack
    <2>3. i \in Held(stack[Len(stack)].id)
      BY <1>3, Entered
    <2>4. ASSUME NEW k \in 2..Len(stack')
          PROVE  stack'[k].id \in Held(stack'[k - 1].id) /\ stack'[k].kind = Kind(stack'[k].id)
      <3>1. CASE k = Len(stack) + 1
        <4>1. k - 1 = Len(stack) /\ k - 1 \in 1..Len(stack)
          BY <1>n, <3>1
        <4> QED BY <2>2, <2>3, <3>1, <4>1
      <3>2. CASE k # Len(stack) + 1
        <4>1. k \in 2..Len(stack) /\ k \in 1..Len(stack) /\ k - 1 \in 1..Len(stack)
          BY <1>n, <2>2, <3>2
        <4> QED BY <2>2, <4>1 DEF Linked
      <3> QED BY <3>1, <3>2
    <2>5. stack'[1].id = 0
      BY <1>n, <2>2 DEF Linked
    <2> QED BY <2>1, <2>4, <2>5, Same DEF Linked
  <1> QED BY <1>1, <1>2, <1>3, Cases

LEMMA StepRising == ASSUME TreeInv, [Next]_vars PROVE Rising'
  <1>n. Len(stack) \in Nat \ {0}
    BY Frames DEF TreeInv, Walk
  <1> USE DEF TreeInv, Walk
  <1>1. CASE Calm
    BY <1>1 DEF Rising, Calm
  <1>2. CASE Leaving \/ Failed
    <2>1. Inside /\ stack' = Below
      BY <1>2 DEF Leaving, Failed
    <2>2. \A k \in 1..Len(stack') : stack'[k] = stack[k] /\ k \in 1..Len(stack)
      BY <1>n, <2>1, LeftStack
    <2> QED BY <2>2 DEF Rising
  <1>3. ASSUME NEW i \in Ids, NEW todo \in Seq(Ids), Entering(i, todo) PROVE Rising'
    <2>1. /\ Len(stack') = Len(stack) + 1 /\ stack'[Len(stack) + 1].id = i
          /\ \A k \in 1..Len(stack) : stack'[k].id = stack[k].id
      BY <1>3, EnteredStack
    <2>2. /\ i \in Held(stack[Len(stack)].id) /\ stack[Len(stack)].id \in {0} \cup Ids
          /\ workflow \in Workflows
      BY <1>3, Entered
    <2>3. stack[Len(stack)].id < i /\ i \in Nat
      BY <2>2, Nesting
    <2>4. \A k \in 1..Len(stack) : stack[k].id \in Nat
      BY <2>2, Frames, Nesting
    <2>5. ASSUME NEW k \in 1..Len(stack) PROVE stack[k].id < i
      <3>1. CASE k = Len(stack)
        BY <2>3, <3>1
      <3>2. CASE k # Len(stack)
        <4>1. Len(stack) \in 1..Len(stack) /\ k < Len(stack)
          BY <1>n, <3>2
        <4>2. stack[k].id < stack[Len(stack)].id
          BY <4>1 DEF Rising
        <4> QED BY <2>3, <2>4, <4>1, <4>2
      <3> QED BY <3>1, <3>2
    <2>6. ASSUME NEW j \in 1..Len(stack'), NEW k \in 1..Len(stack'), j < k
          PROVE  stack'[j].id < stack'[k].id
      <3>1. j \in 1..Len(stack)
        BY <1>n, <2>1, <2>6
      <3>2. CASE k = Len(stack) + 1
        BY <2>1, <2>5, <3>1, <3>2
      <3>3. CASE k # Len(stack) + 1
        <4>1. k \in 1..Len(stack)
          BY <1>n, <2>1, <3>3
        <4> QED BY <2>1, <2>6, <3>1, <4>1 DEF Rising
      <3> QED BY <3>2, <3>3
    <2> QED BY <2>6 DEF Rising
  <1> QED BY <1>1, <1>2, <1>3, Cases

LEMMA StepEncloses == ASSUME TreeInv, [Next]_vars PROVE Encloses'
  <1>n. Len(stack) \in Nat \ {0}
    BY Frames DEF TreeInv, Walk
  <1> USE DEF TreeInv, Walk
  <1>1. CASE Calm
    BY <1>1, Same DEF Encloses, Calm
  <1>2. CASE Leaving \/ Failed
    <2>1. Inside /\ stack' = Below /\ workflow' = workflow
      BY <1>2 DEF Leaving, Failed
    <2>2. \A k \in 2..Len(stack') : stack'[k] = stack[k] /\ k \in 2..Len(stack)
      BY <1>n, <2>1, LeftStack
    <2>3. Containers' = Containers
      BY <2>1, Same
    <2> QED BY <2>2, <2>3 DEF Encloses
  <1>3. ASSUME NEW i \in Ids, NEW todo \in Seq(Ids), Entering(i, todo) PROVE Encloses'
    <2>1. /\ Len(stack') = Len(stack) + 1 /\ stack'[Len(stack) + 1].id = i
          /\ \A k \in 1..Len(stack) : stack'[k].id = stack[k].id
      BY <1>3, EnteredStack
    <2>2. /\ i \in Held(stack[Len(stack)].id) /\ workflow \in Workflows
      BY <1>3, Entered
    <2>3. Containers' = Containers
      BY <1>3, Same DEF Entering
    <2>4. ASSUME NEW k \in 2..Len(stack) PROVE stack[k].id \in Containers[i]
      <3>1. /\ k \in 1..Len(stack) /\ Len(stack) \in 2..Len(stack) /\ k \in 2..Len(stack)
            /\ stack[Len(stack)].id \in Ids
        BY <1>n, Frames
      <3>2. stack[Len(stack)].id \in Above(i)
        BY <2>2, <3>1, AboveIs
      <3>3. stack[Len(stack)].id \in Containers[i]
        BY <2>2, <3>2, ContainersUpward DEF Upward
      <3>4. CASE k = Len(stack)
        BY <3>3, <3>4
      <3>5. CASE k # Len(stack)
        <4>1. k < Len(stack)
          BY <1>n, <3>5
        <4>2. stack[k].id \in Containers[stack[Len(stack)].id]
          BY <3>1, <4>1 DEF Encloses
        <4> QED BY <2>2, <3>3, <4>2, ContainersUpward
      <3> QED BY <3>4, <3>5
    <2>5. ASSUME NEW j \in 2..Len(stack'), NEW k \in 2..Len(stack'), j < k
          PROVE  stack'[j].id \in Containers[stack'[k].id]
      <3>1. j \in 2..Len(stack) /\ j \in 1..Len(stack)
        BY <1>n, <2>1, <2>5
      <3>2. CASE k = Len(stack) + 1
        BY <2>1, <2>4, <3>1, <3>2
      <3>3. CASE k # Len(stack) + 1
        <4>1. k \in 1..Len(stack) /\ k \in 2..Len(stack)
          BY <1>n, <2>1, <3>3
        <4> QED BY <2>1, <2>5, <3>1, <4>1 DEF Encloses
      <3> QED BY <3>2, <3>3
    <2> QED BY <2>3, <2>5 DEF Encloses
  <1> QED BY <1>1, <1>2, <1>3, Cases

\* A step that is left was running, and is the innermost.
LEMMA Left ==
  ASSUME TreeInv, Leaving \/ Failed
  PROVE  /\ Len(stack) \in Nat /\ Len(stack) > 1 /\ Len(stack') = Len(stack) - 1
         /\ \A k \in 1..Len(stack) - 1 : stack'[k] = stack[k] /\ stack[k].id < Top.id
         /\ Top = stack[Len(stack)] /\ Top.id \in Ids /\ steps[Top.id] = "running"
         /\ steps'[Top.id] = IF Leaving THEN "succeeded" ELSE "failed"
         /\ \A i \in Ids : i # Top.id => steps'[i] = steps[i]
         /\ workflow' = workflow /\ workflow \in Workflows
  <1>1. Inside /\ stack' = Below /\ workflow' = workflow
    BY DEF Leaving, Failed
  <1>2. /\ Len(stack) \in Nat /\ Len(stack) > 1 /\ Len(stack') = Len(stack) - 1
        /\ \A k \in 1..Len(stack) - 1 : stack'[k] = stack[k]
        /\ Top = stack[Len(stack)] /\ Top.id \in Ids
    BY <1>1, LeftStack DEF TreeInv
  <1>3. Len(stack) \in 2..Len(stack) /\ Len(stack) \in 1..Len(stack)
        /\ \A k \in 1..Len(stack) - 1 : k \in 1..Len(stack) /\ k < Len(stack)
    BY <1>2
  <1>4. steps[Top.id] = "running"
    BY <1>2, <1>3 DEF TreeInv, Walk, Current
  <1>5. \A k \in 1..Len(stack) - 1 : stack[k].id < Top.id
    BY <1>2, <1>3 DEF TreeInv, Walk, Rising
  <1>6. DOMAIN steps = Ids /\ workflow \in Workflows
    BY DEF TreeInv, Typed, Plain
  <1>7. CASE Leaving
    <2>1. steps' = [steps EXCEPT ![Top.id] = "succeeded"]
      BY <1>7 DEF Leaving
    <2> QED BY <1>1, <1>2, <1>4, <1>5, <1>6, <1>7, <2>1
  <1>8. CASE ~Leaving
    <2>1. steps' = [steps EXCEPT ![Top.id] = "failed"]
      BY <1>8 DEF Failed
    <2> QED BY <1>1, <1>2, <1>4, <1>5, <1>6, <1>8, <2>1
  <1> QED BY <1>7, <1>8

LEMMA EnteredSteps ==
  ASSUME TreeInv, NEW i \in Ids, NEW todo \in Seq(Ids), Entering(i, todo)
  PROVE  /\ steps'[i] = "running" /\ \A j \in Ids : j # i => steps'[j] = steps[j]
         /\ workflow' = workflow /\ outputs' = outputs /\ status' = status /\ mode = "next"
  BY DEF TreeInv, Typed, Plain, Entering

LEMMA StepCurrent == ASSUME TreeInv, [Next]_vars PROVE Current'
  <1>n. Len(stack) \in Nat \ {0}
    BY Frames DEF TreeInv, Walk
  <1>1. CASE Calm
    BY <1>1, Same DEF TreeInv, Walk, Current, Calm
  <1>2. CASE Leaving \/ Failed
    <2>1. ASSUME NEW i \in Ids
          PROVE  steps'[i] = "running" <=> \E k \in 2..Len(stack') : stack'[k].id = i
      <3>1. \A k \in 2..Len(stack') : k \in 1..Len(stack) - 1 /\ k \in 2..Len(stack)
        BY <1>2, Left
      <3>2. CASE i = Top.id
        <4>1. \A k \in 2..Len(stack') : stack'[k].id # i
          <5> SUFFICES ASSUME NEW k \in 2..Len(stack') PROVE stack'[k].id # Top.id
            BY <3>2
          <5>1. stack'[k].id < Top.id
            BY <1>2, <3>1, Left
          <5>2. Top.id \in Nat
            BY <1>2, Left, Nesting
          <5> QED BY <5>1, <5>2
        <4> QED BY <1>2, <3>2, <4>1, Left
      <3>3. CASE i # Top.id
        <4>1. steps'[i] = steps[i]
          BY <1>2, <3>3, Left
        <4>2. \A k \in 2..Len(stack') : stack'[k].id = stack[k].id
          BY <1>2, <3>1, Left
        <4>3. \A k \in 2..Len(stack) : stack[k].id = i => k \in 2..Len(stack')
          <5> SUFFICES ASSUME NEW k \in 2..Len(stack), stack[k].id = i PROVE k \in 2..Len(stack')
            OBVIOUS
          <5>1. k # Len(stack)
            BY <1>2, <3>3, Left
          <5> QED BY <1>2, <5>1, Left
        <4> QED BY <3>1, <4>1, <4>2, <4>3 DEF TreeInv, Walk, Current
      <3> QED BY <3>2, <3>3
    <2>2. Ids' = Ids
      BY <1>2, Left, Same
    <2> QED BY <2>1, <2>2 DEF Current
  <1>3. ASSUME NEW i \in Ids, NEW todo \in Seq(Ids), Entering(i, todo) PROVE Current'
    <2>1. /\ Len(stack') = Len(stack) + 1 /\ stack'[Len(stack) + 1].id = i
          /\ \A k \in 1..Len(stack) : stack'[k].id = stack[k].id
      BY <1>3, EnteredStack DEF TreeInv
    <2>2. Len(stack) + 1 \in 2..Len(stack')
      BY <1>n, <2>1
    <2>3. ASSUME NEW j \in Ids
          PROVE  steps'[j] = "running" <=> \E k \in 2..Len(stack') : stack'[k].id = j
      <3>1. CASE j = i
        BY <1>3, <2>1, <2>2, <3>1, EnteredSteps
      <3>2. CASE j # i
        <4>1. steps'[j] = steps[j]
          BY <1>3, <3>2, EnteredSteps
        <4>2. \A k \in 2..Len(stack) : k \in 2..Len(stack') /\ stack'[k].id = stack[k].id
          BY <1>n, <2>1
        <4>3. \A k \in 2..Len(stack') : stack'[k].id = j => k \in 2..Len(stack)
          <5> SUFFICES ASSUME NEW k \in 2..Len(stack'), stack'[k].id = j PROVE k \in 2..Len(stack)
            OBVIOUS
          <5>1. k # Len(stack) + 1
            BY <2>1, <3>2
          <5> QED BY <1>n, <2>1, <5>1
        <4> QED BY <4>1, <4>2, <4>3 DEF TreeInv, Walk, Current
      <3> QED BY <3>1, <3>2
    <2>4. Ids' = Ids
      BY <1>3, EnteredSteps, Same
    <2> QED BY <2>3, <2>4 DEF Current
  <1> QED BY <1>1, <1>2, <1>3, Cases

LEMMA StepEnds == ASSUME TreeInv, [Next]_vars PROVE Ends'
  <1>n. Len(stack) \in Nat \ {0}
    BY Frames DEF TreeInv, Walk
  <1>e. Ends /\ Typed
    BY DEF TreeInv
  <1>1. CASE Rests
    <2>1. Ids' = Ids /\ Top' = Top /\ Inside' = Inside
      BY <1>1, Same DEF Rests, Top, Inside
    <2> QED BY <1>1, <1>e, <2>1 DEF Rests, Going, Ends
  <1>2. CASE Ending
    <2>1. Ids' = Ids /\ Inside' = Inside
      BY <1>2, Same DEF Ending, Inside
    <2> QED BY <1>2, <1>e, <2>1 DEF Ending, Ends
  <1>3. CASE Leaving
    <2>1. Ids' = Ids /\ mode' = "next" /\ status' = status /\ mode \in {"next", "effect"}
      BY <1>3, Same DEF Leaving
    <2>2. \A i \in Ids : steps'[i] # "failed"
      BY <1>3, <1>e, <2>1, Left DEF Ends
    <2> QED BY <1>e, <2>1, <2>2 DEF Ends
  <1>4. CASE Failed
    <2>1. Ids' = Ids /\ mode' = "raise" /\ mode = "raise" /\ status' = status
      BY <1>4, Same DEF Failed
    <2> QED BY <1>e, <2>1 DEF Ends
  <1>5. ASSUME NEW i \in Ids, NEW todo \in Seq(Ids), Entering(i, todo) PROVE Ends'
    <2>1. Ids' = Ids /\ status' = status /\ mode = "next"
      BY <1>5, EnteredSteps, Same
    <2>2. \A j \in Ids : steps'[j] # "failed"
      BY <1>5, <1>e, <2>1, EnteredSteps DEF Ends
    <2>3. Top'.kind = Kind(i)
      BY <1>5, <1>e, EnteredStack DEF Top
    <2>4. mode' \in {"raise", "effect", "next"} /\ (mode' = "effect" => Kind(i) \in Leaves)
      BY <1>5 DEF Entering
    <2> QED BY <1>e, <2>1, <2>2, <2>3, <2>4 DEF Ends
  <1> QED BY <1>1, <1>2, <1>3, <1>4, <1>5, <1>e, Moves

LEMMA StepRan == ASSUME TreeInv, [Next]_vars PROVE Ran'
  <1>1. CASE Calm
    BY <1>1, Same DEF TreeInv, Ran, Calm
  <1>2. CASE Leaving \/ Failed
    <2>1. Ids' = Ids /\ \A p : Held(p)' = Held(p)
      BY <1>2, Left, Same
    <2>2. \A i \in Ids : steps'[i] = "none" <=> steps[i] = "none"
      BY <1>2, Left
    <2> QED BY <2>1, <2>2 DEF TreeInv, Ran
  <1>3. ASSUME NEW i \in Ids, NEW todo \in Seq(Ids), Entering(i, todo) PROVE Ran'
    <2>1. Ids' = Ids /\ \A p : Held(p)' = Held(p)
      BY <1>3, EnteredSteps, Same
    <2>2. ASSUME NEW p \in Ids, i \in Held(p) PROVE steps'[p] # "none"
      <3>1. p = stack[Len(stack)].id
        BY <1>3, <2>2, Entered, Nesting
      <3>2. 0 \notin Ids /\ Len(stack) \in Nat \ {0}
        BY <1>3, Entered, Nesting
      <3>3. Len(stack) # 1
        BY <3>1, <3>2 DEF TreeInv, Walk, Linked
      <3>4. Len(stack) \in 2..Len(stack)
        <4>1. \A n \in Nat \ {0} : n # 1 => n \in 2..n
          OBVIOUS
        <4> QED BY <3>2, <3>3, <4>1
      <3>5. steps[p] = "running"
        BY <3>1, <3>4 DEF TreeInv, Walk, Current
      <3> QED BY <1>3, <3>5, EnteredSteps
    <2>3. ASSUME NEW p \in Ids, NEW j \in Ids, j \in Held(p), steps'[j] # "none"
          PROVE  steps'[p] # "none"
      <3>1. CASE j = i
        BY <2>2, <2>3, <3>1
      <3>2. CASE j # i
        <4>1. steps[p] # "none"
          BY <1>3, <2>3, <3>2, EnteredSteps DEF TreeInv, Ran
        <4> QED BY <1>3, <4>1, EnteredSteps
      <3> QED BY <3>1, <3>2
    <2> QED BY <2>1, <2>3 DEF Ran
  <1> QED BY <1>1, <1>2, <1>3, Cases

LEMMA StepAhead == ASSUME TreeInv, [Next]_vars PROVE Ahead'
  <1> SUFFICES ASSUME Going' PROVE Ahead'
    BY DEF Ahead
  <1>m. CASE Rests \/ Ending
    <2>1. Going /\ Calm
      BY <1>m DEF Rests, Ending, Going, Calm
    <2> QED BY <2>1, Same DEF TreeInv, Ahead, Calm, In
  <1>2. CASE Leaving
    <2>1. Going /\ \A p : Held(p)' = Held(p)
      BY <1>2, Left, Same DEF Leaving, Going
    <2>2. ASSUME NEW k \in 1..Len(stack')
          PROVE  /\ In(stack'[k].todo) \subseteq Held(stack'[k].id)
                 /\ \A i \in In(stack'[k].todo) : steps'[i] = "none"
                 /\ \A a, b \in DOMAIN stack'[k].todo : stack'[k].todo[a] = stack'[k].todo[b] => a = b
      <3>1. k \in 1..Len(stack) /\ stack'[k] = stack[k]
        BY <1>2, Left
      <3>2. /\ In(stack[k].todo) \subseteq Held(stack[k].id)
            /\ \A i \in In(stack[k].todo) : steps[i] = "none"
            /\ \A a, b \in DOMAIN stack[k].todo : stack[k].todo[a] = stack[k].todo[b] => a = b
        BY <2>1, <3>1 DEF TreeInv, Ahead
      <3>3. stack[k].id \in {0} \cup Ids
        BY <3>1, Frames DEF TreeInv, Walk
      <3>4. \A i \in In(stack[k].todo) : i \in Ids /\ i # Top.id
        BY <1>2, <3>2, <3>3, Left, Nesting
      <3> QED BY <1>2, <3>1, <3>2, <3>4, Left
    <2> QED BY <2>1, <2>2 DEF Ahead, In
  <1>3. CASE Failed
    BY <1>3 DEF Failed, Going
  <1>4. ASSUME NEW i \in Ids, NEW todo \in Seq(Ids), Entering(i, todo) PROVE Ahead'
    <2>1. Going /\ workflow \in Workflows /\ \A p : Held(p)' = Held(p)
      BY <1>4, EnteredSteps, Entered, Same
    <2>n. Len(stack) \in Nat \ {0} /\ Len(stack') = Len(stack) + 1
      BY <1>4, EnteredStack DEF TreeInv
    <2>2. ASSUME NEW k \in 1..Len(stack')
          PROVE  /\ In(stack'[k].todo) \subseteq Held(stack'[k].id)
                 /\ \A j \in In(stack'[k].todo) : steps'[j] = "none"
                 /\ \A a, b \in DOMAIN stack'[k].todo : stack'[k].todo[a] = stack'[k].todo[b] => a = b
      <3>1. CASE k \notin {Len(stack), Len(stack) + 1}
        <4>1. k \in 1..Len(stack) /\ k < Len(stack) /\ Len(stack) \in 1..Len(stack) /\ k # Len(stack)
          BY <2>n, <3>1
        <4>2. stack'[k].id = stack[k].id /\ stack'[k].todo = stack[k].todo
          BY <1>4, <4>1, EnteredStack DEF TreeInv
        <4>3. /\ In(stack[k].todo) \subseteq Held(stack[k].id)
              /\ \A j \in In(stack[k].todo) : steps[j] = "none"
              /\ \A a, b \in DOMAIN stack[k].todo : stack[k].todo[a] = stack[k].todo[b] => a = b
          BY <2>1, <4>1 DEF TreeInv, Ahead
        <4>4. /\ stack[k].id \in {0} \cup Ids /\ stack[Len(stack)].id \in {0} \cup Ids
              /\ stack[k].id < stack[Len(stack)].id
          BY <4>1, Frames DEF TreeInv, Walk, Rising
        <4>5. stack[k].id # stack[Len(stack)].id
          <5>1. stack[k].id \in Nat /\ stack[Len(stack)].id \in Nat
            BY <2>1, <4>4, Nesting
          <5>2. \A a, b \in Nat : a < b => a # b
            OBVIOUS
          <5> QED BY <4>4, <5>1, <5>2
        <4>6. \A j \in In(stack[k].todo) : j \in Ids /\ j # i
          BY <1>4, <2>1, <4>3, <4>4, <4>5, Entered, Nesting
        <4> QED BY <1>4, <4>2, <4>3, <4>6, EnteredSteps
      <3>2. CASE k = Len(stack)
        <4>1. stack'[k].todo = Tail(Top.todo) /\ stack'[k].id = stack[k].id /\ k \in 1..Len(stack)
          BY <1>4, <2>n, <3>2, EnteredStack DEF TreeInv
        <4>2. /\ In(stack[k].todo) \subseteq Held(stack[k].id)
              /\ \A j \in In(stack[k].todo) : steps[j] = "none"
          BY <2>1, <4>1 DEF TreeInv, Ahead
        <4>3. /\ stack[k].id \in {0} \cup Ids /\ stack[k] = Top
              /\ In(Top.todo) = {i} \cup In(Tail(Top.todo)) /\ i \notin In(Tail(Top.todo))
              /\ \A a, b \in DOMAIN Tail(Top.todo) : Tail(Top.todo)[a] = Tail(Top.todo)[b] => a = b
          BY <1>4, <3>2, Entered
        <4>4. \A j \in In(Tail(Top.todo)) : j \in Ids /\ j # i /\ steps[j] = "none"
          BY <2>1, <4>2, <4>3, Nesting
        <4> QED BY <1>4, <4>1, <4>2, <4>3, <4>4, EnteredSteps
      <3>3. CASE k = Len(stack) + 1
        <4>1. stack'[k].todo = todo /\ stack'[k].id = i
          BY <1>4, <3>3, EnteredStack DEF TreeInv
        <4>2. todo = << >> \/ todo = Step(i).kids \/ todo = Step(i).else
          BY <1>4 DEF Entering, Going
        <4>3. /\ In(todo) \subseteq Held(i)
              /\ \A a, b \in DOMAIN todo : todo[a] = todo[b] => a = b
          <5>1. CASE todo = << >>
            BY <5>1 DEF In
          <5>2. CASE todo = Step(i).kids
            BY <2>1, <5>2, Lists
          <5>3. CASE todo = Step(i).else
            BY <2>1, <5>3, Lists
          <5> QED BY <4>2, <5>1, <5>2, <5>3
        <4>4. \A j \in Held(i) : j \in Ids /\ i < j /\ i \in Nat
          BY <2>1, Nesting
        <4>5. \A j \in Held(i) : j \in Ids /\ j # i
          BY <4>4
        <4>6. \A j \in Held(i) : steps[j] = "none"
          BY <1>4, <4>4, Entered DEF TreeInv, Ran
        <4> QED BY <1>4, <4>1, <4>3, <4>5, <4>6, EnteredSteps
      <3> QED BY <3>1, <3>2, <3>3
    <2> QED BY <2>1, <2>2 DEF Ahead, In
  <1> QED BY <1>m, <1>2, <1>3, <1>4, Moves DEF TreeInv

LEMMA StepBehind == ASSUME TreeInv, [Next]_vars PROVE Behind'
  <1> SUFFICES ASSUME Going' PROVE Behind'
    BY DEF Behind
  <1>m. CASE Rests \/ Ending
    <2>1. Going /\ Calm
      BY <1>m DEF Rests, Ending, Going, Calm
    <2> QED BY <2>1, Same DEF TreeInv, Behind, Calm, In, AreDone
  <1>w. workflow \in Workflows
    BY DEF TreeInv, Typed, Plain
  <1>k. \A p \in Ids : Kids(p) \subseteq Ids /\ Elses(p) \subseteq Ids
    BY <1>w, Lists, Nesting
  <1>2. CASE Leaving
    <2>1. Going /\ \A p : Kids(p)' = Kids(p) /\ Elses(p)' = Elses(p)
      BY <1>2, Left, Same DEF Leaving, Going
    <2>2. \A S \in SUBSET Ids : AreDone(steps, S) => AreDone(steps', S)
      BY <1>2, Left DEF AreDone
    <2>3. ASSUME NEW k \in 2..Len(stack'), stack'[k].kind \in Composites
          PROVE  \/ AreDone(steps', Kids(stack'[k].id) \ In(stack'[k].todo))
                 \/ stack'[k].kind = "if" /\ AreDone(steps', Elses(stack'[k].id) \ In(stack'[k].todo))
      <3>1. k \in 1..Len(stack) - 1 /\ k \in 2..Len(stack) /\ stack'[k] = stack[k]
        BY <1>2, Left
      <3>2. stack[k].id \in Ids
        BY <3>1, Frames DEF TreeInv, Walk
      <3>3. \/ AreDone(steps, Kids(stack[k].id) \ In(stack[k].todo))
            \/ stack[k].kind = "if" /\ AreDone(steps, Elses(stack[k].id) \ In(stack[k].todo))
        BY <2>1, <2>3, <3>1 DEF TreeInv, Behind
      <3>4. /\ Kids(stack'[k].id) = Kids(stack[k].id) /\ Elses(stack'[k].id) = Elses(stack[k].id)
            /\ In(stack'[k].todo) = In(stack[k].todo)
        BY <3>1
      <3> QED BY <1>k, <2>2, <3>1, <3>2, <3>3, <3>4
    <2>4. \A k : (stack[k].kind)' = stack'[k].kind /\ In(stack[k].todo)' = In(stack'[k].todo)
      BY DEF In
    <2> QED BY <2>1, <2>3, <2>4 DEF Behind
  <1>3. CASE Failed
    BY <1>3 DEF Failed, Going
  <1>4. ASSUME NEW i \in Ids, NEW todo \in Seq(Ids), Entering(i, todo) PROVE Behind'
    <2>1. Going /\ \A p : Kids(p)' = Kids(p) /\ Elses(p)' = Elses(p)
      BY <1>4, EnteredSteps, Entered, Same
    <2>n. Len(stack) \in Nat \ {0} /\ Len(stack') = Len(stack) + 1
      BY <1>4, EnteredStack DEF TreeInv
    <2>2. \A S \in SUBSET Ids : AreDone(steps, S) => AreDone(steps', S)
      BY <1>4, EnteredSteps, Entered DEF AreDone
    <2>3. ASSUME NEW k \in 2..Len(stack'), stack'[k].kind \in Composites
          PROVE  \/ AreDone(steps', Kids(stack'[k].id) \ In(stack'[k].todo))
                 \/ stack'[k].kind = "if" /\ AreDone(steps', Elses(stack'[k].id) \ In(stack'[k].todo))
      <3>1. CASE k = Len(stack) + 1
        <4>1. stack'[k].todo = todo /\ stack'[k].id = i /\ stack'[k].kind = Kind(i)
          BY <1>4, <3>1, EnteredStack DEF TreeInv
        <4>2. todo = Step(i).kids \/ (Kind(i) = "if" /\ todo = Step(i).else)
          BY <1>4, <2>3, <4>1 DEF Entering, Going, Composites, Leaves
        <4>3. In(Step(i).kids) = Kids(i) /\ In(Step(i).else) = Elses(i)
          BY <1>w, Lists
        <4> QED BY <4>1, <4>2, <4>3 DEF AreDone
      <3>2. CASE k # Len(stack) + 1
        <4>1. k \in 2..Len(stack) /\ k \in 1..Len(stack)
          BY <2>n, <3>2
        <4>2. stack'[k].id = stack[k].id /\ stack'[k].kind = stack[k].kind
          BY <1>4, <4>1, EnteredStack DEF TreeInv
        <4>3. stack[k].id \in Ids
          BY <4>1, Frames DEF TreeInv, Walk
        <4>4. \/ AreDone(steps, Kids(stack[k].id) \ In(stack[k].todo))
              \/ stack[k].kind = "if" /\ AreDone(steps, Elses(stack[k].id) \ In(stack[k].todo))
          BY <2>1, <2>3, <4>1, <4>2 DEF TreeInv, Behind
        <4>5. ASSUME NEW S \in SUBSET Ids, AreDone(steps, S \ In(stack[k].todo))
              PROVE  AreDone(steps', S \ In(stack'[k].todo))
          <5>1. AreDone(steps', S \ In(stack[k].todo))
            BY <2>2, <4>5
          <5>2. CASE k # Len(stack)
            BY <1>4, <4>1, <5>1, <5>2, EnteredStack DEF TreeInv
          <5>3. CASE k = Len(stack)
            <6>1. stack'[k].todo = Tail(Top.todo) /\ stack[k] = Top
              BY <1>4, <5>3, EnteredStack, Entered DEF TreeInv
            <6>2. In(Top.todo) = {i} \cup In(Tail(Top.todo)) /\ steps'[i] = "running"
              BY <1>4, Entered, EnteredSteps
            <6> QED BY <5>1, <6>1, <6>2 DEF AreDone
          <5> QED BY <5>2, <5>3
        <4> QED BY <1>k, <4>2, <4>3, <4>4, <4>5
      <3> QED BY <3>1, <3>2
    <2>4. \A k : (stack[k].kind)' = stack'[k].kind /\ In(stack[k].todo)' = In(stack'[k].todo)
      BY DEF In
    <2> QED BY <2>1, <2>3, <2>4 DEF Behind
  <1> QED BY <1>m, <1>2, <1>3, <1>4, Moves DEF TreeInv

\* The container of what runs runs.
LEMMA RunningUp ==
  ASSUME TreeInv
  PROVE  \A p, i \in Ids : i \in Held(p) /\ steps[i] = "running" => steps[p] = "running"
  <1> SUFFICES ASSUME NEW p \in Ids, NEW i \in Ids, i \in Held(p), steps[i] = "running"
               PROVE  steps[p] = "running"
    OBVIOUS
  <1>w. workflow \in Workflows
    BY DEF TreeInv, Typed, Plain
  <1>1. PICK k \in 2..Len(stack) : stack[k].id = i
    BY DEF TreeInv, Walk, Current
  <1>2. Len(stack) \in Nat \ {0} /\ stack[k - 1].id \in {0} \cup Ids
    BY <1>1, Frames DEF TreeInv, Walk
  <1>3. i \in Held(stack[k - 1].id)
    BY <1>1 DEF TreeInv, Walk, Linked
  <1>4. p = stack[k - 1].id
    BY <1>w, <1>2, <1>3, Nesting
  <1>5. k # 2
    <2>1. 0 \notin Ids
      BY <1>w, Nesting
    <2>2. k = 2 => stack[k - 1].id = 0
      BY DEF TreeInv, Walk, Linked
    <2> QED BY <1>4, <2>1, <2>2
  <1>6. k - 1 \in 2..Len(stack)
    BY <1>2, <1>5
  <1> QED BY <1>4, <1>6 DEF TreeInv, Walk, Current

LEMMA StepSpreads == ASSUME TreeInv, [Next]_vars PROVE Spreads'
  <1>w. workflow \in Workflows
    BY DEF TreeInv, Typed, Plain
  <1>1. CASE Rests
    <2>1. Ids' = Ids /\ \A p : Held(p)' = Held(p)
      BY <1>1, Same DEF Rests
    <2>2. CASE mode' = mode
      BY <1>1, <2>1, <2>2 DEF Rests, TreeInv, Spreads, Failing
    <2>3. CASE mode' = "raise" /\ Going
      <3>1. \A i \in Ids : steps[i] # "failed"
        BY <2>3 DEF TreeInv, Ends, Going
      <3> QED BY <1>1, <2>1, <2>3, <3>1, RunningUp DEF Rests, Spreads, Failing
    <2> QED BY <1>1, <2>2, <2>3 DEF Rests
  <1>2. CASE Ending
    <2>1. Ids' = Ids /\ \A p : Held(p)' = Held(p)
      BY <1>2, Same DEF Ending
    <2>2. \A i \in Ids : steps[i] # "running"
      <3>1. Len(stack) \in Nat \ {0} /\ ~(Len(stack) > 1)
        BY <1>2, Frames DEF TreeInv, Walk, Ending, Inside
      <3>2. \A n \in Nat \ {0} : ~(n > 1) => 2..n = {}
        OBVIOUS
      <3> QED BY <3>1, <3>2 DEF TreeInv, Walk, Current
    <2> QED BY <1>2, <2>1, <2>2 DEF Ending, TreeInv, Spreads, Failing
  <1>3. CASE Leaving
    <2>1. Ids' = Ids /\ mode' = "next" /\ mode \in {"next", "effect"}
      BY <1>3, Same DEF Leaving
    <2>2. \A i \in Ids : steps'[i] # "failed"
      BY <1>3, <2>1, Left DEF TreeInv, Ends
    <2> QED BY <2>1, <2>2 DEF Spreads, Failing
  <1>4. CASE Failed
    <2>1. Ids' = Ids /\ \A p : Held(p)' = Held(p)
      BY <1>4, Same DEF Failed
    <2>2. mode = "raise" /\ mode' = "raise" /\ ~Leaving
      BY <1>4 DEF Failed, Leaving
    <2>3. \A i \in Ids : Failing(i)' <=> Failing(i)
      BY <1>4, <2>2, Left DEF Failing
    <2> QED BY <2>1, <2>3 DEF TreeInv, Spreads
  <1>5. ASSUME NEW i \in Ids, NEW todo \in Seq(Ids), Entering(i, todo) PROVE Spreads'
    <2>1. Ids' = Ids /\ (\A p : Held(p)' = Held(p)) /\ mode = "next"
      BY <1>5, EnteredSteps, Same
    <2>2. \A j \in Ids : steps'[j] # "failed"
      BY <1>5, <2>1, EnteredSteps DEF TreeInv, Ends
    <2>3. ASSUME NEW p \in Ids, NEW j \in Ids, j \in Held(p), steps'[j] = "running"
          PROVE  steps'[p] = "running"
      <3>1. CASE j = i
        <4>1. p = stack[Len(stack)].id
          BY <1>5, <2>3, <3>1, Entered, Nesting
        <4>2. 0 \notin Ids /\ Len(stack) \in Nat \ {0}
          BY <1>5, Entered, Nesting
        <4>3. Len(stack) # 1
          BY <4>1, <4>2 DEF TreeInv, Walk, Linked
        <4>4. Len(stack) \in 2..Len(stack)
          <5>1. \A n \in Nat \ {0} : n # 1 => n \in 2..n
            OBVIOUS
          <5> QED BY <4>2, <4>3, <5>1
        <4>5. steps[p] = "running"
          BY <4>1, <4>4 DEF TreeInv, Walk, Current
        <4> QED BY <1>5, <4>5, EnteredSteps
      <3>2. CASE j # i
        <4>1. steps[p] = "running"
          BY <1>5, <2>3, <3>2, EnteredSteps, RunningUp
        <4> QED BY <1>5, <4>1, EnteredSteps
      <3> QED BY <3>1, <3>2
    <2> QED BY <2>1, <2>2, <2>3 DEF Spreads, Failing
  <1> QED BY <1>1, <1>2, <1>3, <1>4, <1>5, Moves DEF TreeInv

LEMMA StepWhole == ASSUME TreeInv, [Next]_vars PROVE Whole'
  <1>w. workflow \in Workflows
    BY DEF TreeInv, Typed, Plain
  <1>k. \A p \in Ids : Kids(p) \subseteq Ids /\ Elses(p) \subseteq Ids
    BY <1>w, Lists, Nesting
  <1>s. ASSUME workflow' = workflow,
               \A i \in Ids : steps[i] = "succeeded" => steps'[i] = "succeeded",
               \A i \in Ids : steps'[i] = "succeeded" /\ steps[i] # "succeeded" /\ Kind(i) \in Composites =>
                 \/ \A k \in Kids(i) : steps'[k] = "succeeded"
                 \/ Kind(i) = "if" /\ \A k \in Elses(i) : steps'[k] = "succeeded"
        PROVE  Whole'
    <2>1. /\ Ids' = Ids /\ \A p : Kids(p)' = Kids(p) /\ Elses(p)' = Elses(p) /\ Kind(p)' = Kind(p)
      BY <1>s, Same
    <2>2. ASSUME NEW i \in Ids, steps'[i] = "succeeded", Kind(i) \in Composites
          PROVE  \/ \A k \in Kids(i) : steps'[k] = "succeeded"
                 \/ Kind(i) = "if" /\ \A k \in Elses(i) : steps'[k] = "succeeded"
      <3>1. CASE steps[i] = "succeeded"
        BY <1>k, <1>s, <2>2, <3>1 DEF TreeInv, Whole
      <3>2. CASE steps[i] # "succeeded"
        BY <1>s, <2>2, <3>2
      <3> QED BY <3>1, <3>2
    <2> QED BY <2>1, <2>2 DEF Whole
  <1>1. CASE Calm
    BY <1>1, <1>s DEF Calm
  <1>2. CASE Leaving
    <2>1. workflow' = workflow /\ \A i \in Ids : steps[i] = "succeeded" => steps'[i] = "succeeded"
      BY <1>2, Left
    <2> DEFINE t == Top.id
               n == Len(stack)
    <2>2. /\ n \in 2..Len(stack) /\ Top = stack[n] /\ t \in Ids /\ Top.kind = Kind(t)
          /\ n \in Nat /\ t \in Nat
      <3>1. n \in 2..Len(stack) /\ Top = stack[n] /\ t \in Ids /\ n \in Nat
        BY <1>2, Left
      <3> QED BY <1>w, <3>1, Nesting DEF TreeInv, Walk, Linked
    <2>3. ASSUME NEW i \in Ids, t < i PROVE steps[i] # "running"
      <3>1. \A k \in 2..n : stack[k].id < t \/ stack[k].id = t
        <4> SUFFICES ASSUME NEW k \in 2..n, k # n PROVE stack[k].id < t
          BY <2>2
        <4>1. k \in 1..Len(stack) - 1
          BY <2>2
        <4> QED BY <1>2, <4>1, Left
      <3>2. i \in Nat
        BY <1>w, Nesting
      <3>3. \A k \in 2..n : stack[k].id # i
        BY <2>2, <2>3, <3>1, <3>2
      <3> QED BY <3>3 DEF TreeInv, Walk, Current
    <2>4. ASSUME NEW S \in SUBSET Held(t), AreDone(steps, S) PROVE \A i \in S : steps'[i] = "succeeded"
      <3>1. \A i \in S : i \in Ids /\ t < i
        BY <1>w, <2>2, Nesting
      <3> QED BY <2>1, <2>3, <2>4, <3>1 DEF AreDone
    <2>5. ASSUME Kind(t) \in Composites
          PROVE  \/ \A k \in Kids(t) : steps'[k] = "succeeded"
                 \/ Kind(t) = "if" /\ \A k \in Elses(t) : steps'[k] = "succeeded"
      <3>1. mode = "next" /\ Top.todo = << >> /\ Going
        BY <1>2, <2>2, <2>5 DEF Leaving, TreeInv, Ends, Leaves, Composites, Going
      <3>2. \/ AreDone(steps, Kids(t) \ In(Top.todo))
            \/ Top.kind = "if" /\ AreDone(steps, Elses(t) \ In(Top.todo))
        BY <2>2, <2>5, <3>1 DEF TreeInv, Behind
      <3>3. In(Top.todo) = {}
        BY <3>1 DEF In
      <3>4. Kids(t) \subseteq Held(t) /\ Elses(t) \subseteq Held(t)
        BY <1>w, <2>2, Lists
      <3>5. AreDone(steps, Kids(t)) \/ (Kind(t) = "if" /\ AreDone(steps, Elses(t)))
        BY <2>2, <3>2, <3>3 DEF AreDone
      <3> QED BY <2>4, <3>4, <3>5
    <2>6. \A i \in Ids : steps'[i] = "succeeded" /\ steps[i] # "succeeded" => i = t
      BY <1>2, Left
    <2> HIDE DEF t, n
    <2> QED BY <1>s, <2>1, <2>5, <2>6
  <1>3. CASE Failed
    <2>1. ~Leaving /\ workflow' = workflow
      BY <1>3 DEF Failed, Leaving
    <2>2. \A i \in Ids : steps[i] = "succeeded" <=> steps'[i] = "succeeded"
      BY <1>3, <2>1, Left
    <2> QED BY <1>s, <2>1, <2>2
  <1>4. ASSUME NEW i \in Ids, NEW todo \in Seq(Ids), Entering(i, todo) PROVE Whole'
    <2>1. workflow' = workflow /\ steps[i] = "none" /\ steps'[i] = "running"
      BY <1>4, Entered, EnteredSteps
    <2>2. \A j \in Ids : steps[j] = "succeeded" <=> steps'[j] = "succeeded"
      BY <1>4, <2>1, EnteredSteps
    <2> QED BY <1>s, <2>1, <2>2
  <1> QED BY <1>1, <1>2, <1>3, <1>4, Cases

\* The containers of what ran have run, those of what runs run.
LEMMA ContainersRan ==
  ASSUME TreeInv, NEW i \in Ids
  PROVE  /\ steps[i] # "none" => \A c \in Containers[i] : steps[c] # "none"
         /\ steps[i] = "running" => \A c \in Containers[i] : steps[c] = "running"
         /\ Failing(i) => \A c \in Containers[i] : Failing(c)
  <1>w. workflow \in Workflows
    BY DEF TreeInv, Typed, Plain
  <1>1. ASSUME NEW S \in SUBSET Ids, i \in S, \A j \in S, p \in Ids : j \in Held(p) => p \in S
        PROVE  Containers[i] \subseteq S
    <2>1. Upward(S, i)
      BY <1>w, <1>1, AboveIs DEF Upward
    <2> QED BY <1>w, <2>1, WithinUpward
  <1>2. ASSUME steps[i] # "none" PROVE \A c \in Containers[i] : steps[c] # "none"
    <2> DEFINE S == {j \in Ids : steps[j] # "none"}
    <2>1. i \in S /\ \A j \in S, p \in Ids : j \in Held(p) => p \in S
      BY <1>2 DEF TreeInv, Ran
    <2>2. Containers[i] \subseteq S
      BY <1>1, <2>1
    <2> QED BY <2>2
  <1>3. ASSUME steps[i] = "running" PROVE \A c \in Containers[i] : steps[c] = "running"
    <2> DEFINE S == {j \in Ids : steps[j] = "running"}
    <2>1. i \in S /\ \A j \in S, p \in Ids : j \in Held(p) => p \in S
      BY <1>3, RunningUp
    <2>2. Containers[i] \subseteq S
      BY <1>1, <2>1
    <2> QED BY <2>2
  <1>4. ASSUME Failing(i) PROVE \A c \in Containers[i] : Failing(c)
    <2> DEFINE S == {j \in Ids : Failing(j)}
    <2>1. i \in S /\ \A j \in S, p \in Ids : j \in Held(p) => p \in S
      BY <1>4 DEF TreeInv, Spreads
    <2>2. Containers[i] \subseteq S
      BY <1>1, <2>1
    <2> QED BY <2>2
  <1> QED BY <1>2, <1>3, <1>4

\* What a step leaves of the outputs: an `if` takes those of its inside away.
LEMMA LeftOutputs ==
  ASSUME TreeInv, Leaving
  PROVE  /\ Top.id \notin DOMAIN outputs
         /\ \A i : i \in DOMAIN outputs' <=>
              \/ i = Top.id
              \/ i \in DOMAIN outputs /\ ~(Kind(Top.id) = "if" /\ Top.id \in Containers[i])
  <1>1. /\ Len(stack) \in 2..Len(stack) /\ Top = stack[Len(stack)] /\ Top.id \in Ids
        /\ steps[Top.id] = "running"
    BY Left
  <1>2. Top.kind = Kind(Top.id)
    BY <1>1 DEF TreeInv, Walk, Linked
  <1>3. Top.keys = {i \in DOMAIN outputs : Top.id \notin Containers[i]}
    BY <1>1 DEF TreeInv, KeysKept
  <1>4. Top.id \notin DOMAIN outputs
    BY <1>1 DEF TreeInv, ScopeHolds
  <1>5. DOMAIN outputs' = {Top.id} \cup (IF Top.kind = "if" THEN Top.keys ELSE DOMAIN outputs)
    BY DEF Leaving
  <1> QED BY <1>2, <1>3, <1>4, <1>5

LEMMA StepKeysKept == ASSUME TreeInv, [Next]_vars PROVE KeysKept'
  <1>w. workflow \in Workflows
    BY DEF TreeInv, Typed, Plain
  <1>1. CASE Calm
    BY <1>1, Same DEF TreeInv, KeysKept, Calm
  <1>2. CASE Leaving
    <2>1. ASSUME NEW k \in 2..Len(stack')
          PROVE  stack'[k].keys = {i \in DOMAIN outputs' : stack'[k].id \notin Containers[i]}
      <3>1. /\ k \in 1..Len(stack) - 1 /\ k \in 2..Len(stack) /\ stack'[k] = stack[k]
            /\ Len(stack) \in 2..Len(stack) /\ k < Len(stack) /\ Top = stack[Len(stack)]
            /\ Top.id \in Ids
        BY <1>2, Left
      <3>2. stack[k].keys = {i \in DOMAIN outputs : stack[k].id \notin Containers[i]}
        BY <3>1 DEF TreeInv, KeysKept
      <3>3. stack[k].id \in Containers[Top.id]
        BY <3>1 DEF TreeInv, Walk, Encloses
      <3>4. \A i \in DOMAIN outputs : Top.id \in Containers[i] => stack[k].id \in Containers[i]
        <4>1. DOMAIN outputs \subseteq Ids
          BY DEF TreeInv, Typed, Plain
        <4> QED BY <1>w, <3>3, <4>1, ContainersUpward
      <3>5. ASSUME NEW i PROVE i \in stack[k].keys <=>
                                i \in DOMAIN outputs' /\ stack[k].id \notin Containers[i]
        BY <1>2, <3>2, <3>3, <3>4, LeftOutputs
      <3>6. \A i : i \in stack'[k].keys <=> i \in DOMAIN outputs' /\ stack'[k].id \notin Containers[i]
        BY <3>1, <3>5
      <3> QED BY <3>6
    <2>2. Containers' = Containers
      BY <1>2, Left, Same
    <2> QED BY <2>1, <2>2 DEF KeysKept
  <1>3. CASE Failed
    <2>1. Containers' = Containers /\ outputs' = outputs
      BY <1>3, Same DEF Failed
    <2>2. \A k \in 2..Len(stack') : k \in 2..Len(stack) /\ stack'[k] = stack[k]
      BY <1>3, Left
    <2> QED BY <2>1, <2>2 DEF TreeInv, KeysKept
  <1>4. ASSUME NEW i \in Ids, NEW todo \in Seq(Ids), Entering(i, todo) PROVE KeysKept'
    <2>1. Containers' = Containers /\ outputs' = outputs /\ steps[i] = "none"
      BY <1>4, EnteredSteps, Entered, Same
    <2>n. Len(stack) \in Nat \ {0} /\ Len(stack') = Len(stack) + 1
      BY <1>4, EnteredStack DEF TreeInv
    <2>2. \A j \in DOMAIN outputs : i \notin Containers[j]
      <3>1. \A j \in DOMAIN outputs : j \in Ids /\ steps[j] # "none"
        BY DEF TreeInv, ScopeHolds
      <3> QED BY <2>1, <3>1, ContainersRan
    <2>3. ASSUME NEW k \in 2..Len(stack')
          PROVE  stack'[k].keys = {j \in DOMAIN outputs : stack'[k].id \notin Containers[j]}
      <3>1. CASE k = Len(stack) + 1
        <4>1. stack'[k].keys = DOMAIN outputs /\ stack'[k].id = i
          BY <1>4, <3>1, EnteredStack DEF TreeInv
        <4> QED BY <2>2, <4>1
      <3>2. CASE k # Len(stack) + 1
        <4>1. k \in 2..Len(stack) /\ k \in 1..Len(stack)
          BY <2>n, <3>2
        <4>2. stack'[k].keys = stack[k].keys /\ stack'[k].id = stack[k].id
          BY <1>4, <4>1, EnteredStack DEF TreeInv
        <4>3. stack[k].keys = {j \in DOMAIN outputs : stack[k].id \notin Containers[j]}
          BY <4>1 DEF TreeInv, KeysKept
        <4> QED BY <4>2, <4>3
      <3> QED BY <3>1, <3>2
    <2> QED BY <2>1, <2>3 DEF KeysKept
  <1> QED BY <1>1, <1>2, <1>3, <1>4, Cases

InScope(f, i) ==
  f[i] = "succeeded" /\ \A c \in Containers[i] : ~(Kind(c) = "if" /\ f[c] = "succeeded")

LEMMA StepScope == ASSUME TreeInv, [Next]_vars PROVE ScopeHolds'
  <1>w. workflow \in Workflows
    BY DEF TreeInv, Typed, Plain
  <1>c. \A i \in Ids : Containers[i] \subseteq Ids
    BY <1>w, ContainersUpward
  <1>o. DOMAIN outputs = {i \in Ids : InScope(steps, i)}
    BY DEF TreeInv, ScopeHolds, InScope
  <1>s. ASSUME workflow' = workflow, DOMAIN outputs' = {i \in Ids : InScope(steps', i)}
        PROVE  ScopeHolds'
    <2>1. Ids' = Ids /\ Containers' = Containers /\ \A p : Kind(p)' = Kind(p)
      BY <1>s, Same
    <2> QED BY <1>s, <2>1 DEF ScopeHolds, InScope
  <1>e. ASSUME workflow' = workflow, outputs' = outputs,
               \A i \in Ids : steps'[i] = "succeeded" <=> steps[i] = "succeeded"
        PROVE  ScopeHolds'
    <2>1. \A i \in Ids : InScope(steps', i) <=> InScope(steps, i)
      BY <1>c, <1>e DEF InScope
    <2> QED BY <1>e, <1>o, <1>s, <2>1
  <1>1. CASE Calm
    BY <1>1, <1>e DEF Calm
  <1>2. CASE Leaving
    <2> DEFINE t == Top.id
    <2>1. /\ t \in Ids /\ steps[t] = "running" /\ steps'[t] = "succeeded" /\ workflow' = workflow
          /\ \A i \in Ids : i # t => steps'[i] = steps[i]
      BY <1>2, Left
    <2>2. \A c \in Containers[t] : steps'[c] = "running"
      <3>1. \A c \in Containers[t] : steps[c] = "running" /\ c \in Ids
        BY <1>c, <2>1, ContainersRan
      <3>2. t \notin Containers[t]
        <4>1. t \in Nat /\ \A c \in Containers[t] : c < t
          BY <1>w, <2>1, Nesting, ContainersUpward
        <4>2. ~(t < t)
          BY <4>1
        <4> QED BY <4>1, <4>2
      <3> QED BY <2>1, <3>1, <3>2
    <2> HIDE DEF t
    <2>3. InScope(steps', t)
      BY <2>1, <2>2 DEF InScope
    <2>4. ASSUME NEW i \in Ids, i # t
          PROVE  InScope(steps', i) <=> i \in DOMAIN outputs /\ ~(Kind(t) = "if" /\ t \in Containers[i])
      <3>1. InScope(steps', i) => InScope(steps, i)
        BY <1>c, <2>1, <2>4 DEF InScope
      <3>2. InScope(steps', i) => ~(Kind(t) = "if" /\ t \in Containers[i])
        BY <2>1 DEF InScope
      <3>3. InScope(steps, i) /\ ~(Kind(t) = "if" /\ t \in Containers[i]) => InScope(steps', i)
        BY <1>c, <2>1, <2>4 DEF InScope
      <3> QED BY <1>o, <3>1, <3>2, <3>3
    <2>5. \A i : i \in DOMAIN outputs' <=>
                   i = t \/ (i \in DOMAIN outputs /\ ~(Kind(t) = "if" /\ t \in Containers[i]))
      BY <1>2, LeftOutputs DEF t
    <2>6. t \notin DOMAIN outputs /\ DOMAIN outputs \subseteq Ids
      BY <1>2, LeftOutputs DEF t, TreeInv, Typed, Plain
    <2>7. DOMAIN outputs' = {i \in Ids : InScope(steps', i)}
      BY <2>1, <2>3, <2>4, <2>5, <2>6
    <2> QED BY <1>s, <2>1, <2>7
  <1>3. CASE Failed
    <2>1. ~Leaving /\ workflow' = workflow /\ outputs' = outputs
      BY <1>3 DEF Failed, Leaving
    <2>2. \A i \in Ids : steps[i] = "succeeded" <=> steps'[i] = "succeeded"
      BY <1>3, <2>1, Left
    <2> QED BY <1>e, <2>1, <2>2
  <1>4. ASSUME NEW i \in Ids, NEW todo \in Seq(Ids), Entering(i, todo) PROVE ScopeHolds'
    <2>1. workflow' = workflow /\ outputs' = outputs /\ steps[i] = "none" /\ steps'[i] = "running"
      BY <1>4, Entered, EnteredSteps
    <2>2. \A j \in Ids : steps[j] = "succeeded" <=> steps'[j] = "succeeded"
      BY <1>4, <2>1, EnteredSteps
    <2> QED BY <1>e, <2>1, <2>2
  <1> QED BY <1>1, <1>2, <1>3, <1>4, Cases

LEMMA InitTree == Init => TreeInv
  <1> SUFFICES ASSUME Init PROVE TreeInv
    OBVIOUS
  <1>1. Typed
    BY InitTyped
  <1>w. workflow \in Workflows
    BY DEF Init
  <1>2. /\ Len(stack) = 1 /\ stack[1].id = 0 /\ stack[1].todo = workflow.top
        /\ mode = "next" /\ status = "running" /\ DOMAIN outputs = {}
        /\ steps = [i \in Ids |-> "none"]
    BY DEF Init
  <1>3. Walk
    BY <1>2 DEF Walk, Linked, Rising, Encloses, Current
  <1>4. Ends
    BY <1>2 DEF Ends
  <1>5. Ahead
    <2>1. In(workflow.top) = Held(0)
          /\ \A a, b \in DOMAIN workflow.top : workflow.top[a] = workflow.top[b] => a = b
      BY <1>w, Lists
    <2>2. \A i \in Held(0) : steps[i] = "none"
      BY <1>2, <1>w, Nesting
    <2>3. \A k \in 1..Len(stack) : k = 1
      BY <1>2
    <2> QED BY <1>2, <2>1, <2>2, <2>3 DEF Ahead
  <1>6. Ran /\ Behind /\ Spreads /\ Whole /\ KeysKept
    BY <1>2 DEF Ran, Behind, Spreads, Failing, Whole, KeysKept
  <1>7. ScopeHolds
    BY <1>2 DEF ScopeHolds
  <1> QED BY <1>1, <1>3, <1>4, <1>5, <1>6, <1>7 DEF TreeInv

LEMMA TreeInvariance == Spec => []TreeInv
  <1>1. TreeInv /\ [Next]_vars => TreeInv'
    <2> SUFFICES ASSUME TreeInv, [Next]_vars PROVE TreeInv'
      OBVIOUS
    <2>1. Typed'
      BY TypeStep DEF TreeInv
    <2> QED BY <2>1, StepLinked, StepRising, StepEncloses, StepCurrent, StepEnds, StepAhead,
               StepRan, StepBehind, StepSpreads, StepWhole, StepKeysKept, StepScope
            DEF TreeInv, Walk
  <1> QED BY InitTree, <1>1, PTL DEF Spec

\* The record tells what ran, wherever a run is cut short: what ended has no step
\* left running, a failure has reached every container, and what succeeded has a
\* branch that succeeded in full.
THEOREM RecordIsTrue == Spec => []RecordTellsTheTree
  <1>1. TreeInv => RecordTellsTheTree
    <2> SUFFICES ASSUME TreeInv PROVE RecordTellsTheTree
      OBVIOUS
    <2>1. ASSUME status # "running", NEW i \in Ids PROVE steps[i] # "running"
      <3>1. Len(stack) \in Nat \ {0} /\ ~(Len(stack) > 1)
        BY <2>1, Frames DEF TreeInv, Walk, Ends, Inside
      <3>2. \A n \in Nat \ {0} : ~(n > 1) => 2..n = {}
        OBVIOUS
      <3> QED BY <3>1, <3>2 DEF TreeInv, Walk, Current
    <2>2. ASSUME status = "succeeded", NEW i \in Ids PROVE steps[i] # "failed"
      BY <2>2 DEF TreeInv, Ends
    <2>3. ASSUME NEW i \in Ids, steps[i] = "failed", NEW c \in Containers[i]
          PROVE  steps[c] = "failed" \/ (mode = "raise" /\ steps[c] = "running")
      BY <2>3, ContainersRan DEF Failing
    <2> QED BY <2>1, <2>2, <2>3 DEF RecordTellsTheTree, TreeInv, Whole
  <1> QED BY TreeInvariance, <1>1, PTL

\* A step can refer to what succeeded before it and to nothing inside of an `if`
\* that has ended, through whatever phases, pipelines and branches.
THEOREM ScopesAreKept == Spec => []ScopeHolds
  <1>1. TreeInv => ScopeHolds
    BY DEF TreeInv
  <1> QED BY TreeInvariance, <1>1, PTL

-----------------------------------------------------------------------------
(* The cards on the board.                                                    *)

\* What an await of call c is owed: the events its backend may answer it with.
AnswersTo(c) ==
  {i \in Events : i > (IF backend = "durable" THEN c.floor ELSE c.after)
                  /\ Accepted(lines[i].kind)}

\* A call that looks at the log finds what it is owed, and gives up owed nothing.
Owed(c) ==
  ~crossed => /\ c.at = "read" /\ c.owed => AnswersTo(c) # {}
              /\ c.at = "check" => ~c.owed

\* A call of the real board that awaits, or saves what it got, has its alias; one that
\* opens the card gets it next.
Routed(c) ==
  (backend = "hermes" /\ ~early /\ ~unread) =>
    /\ c.at = "reattach" => card.kind # "none"
    /\ c.at \in {"ask", "read", "check", "wait", "drain", "judge"} => alias
    /\ c.at \in {"decide", "replace"} => \/ c.next = "alias" /\ c.real
                                         \/ c.next = "judge" /\ alias

\* What is being saved is an outcome or the marker, and above what is on record.
Saves(c) ==
  /\ c.at \in {"decide", "replace"} => c.saving # "none"
  /\ c.at = "replace" /\ ~overlap /\ ~unread => ~Protects(card.kind, c.saving)

Fine(c) == c \in Call /\ Owed(c) /\ Routed(c) /\ Saves(c)

OneAtWork ==
  ~overlap => \A p, q \in Parents : call[p].at # "idle" /\ call[q].at # "idle" => p = q

\* Before there is a record there is no event, and a record without its task has an alias.
Carded ==
  (backend = "hermes" /\ ~early) =>
    /\ ~unread /\ card.kind # "none" /\ ~card.real => alias
    /\ Events # {} \/ (\E g \in Publishers : pub[g].at = "shaped") => card.kind # "none"

\* Who has looked at the log's shape knows of a fragment at its end; what was written
\* is there.
Shaped ==
  /\ \A g \in Publishers : pub[g].at # "idle" => pub[g].event \in Event
  /\ ~crossed => \A g \in Publishers :
       /\ pub[g].at = "shaped" /\ open => pub[g].prefix
       /\ pub[g].at = "written" => \E i \in DOMAIN lines : lines[i] = Text(pub[g].event)

CardsInv ==
  /\ CardsTypeOK /\ Carded /\ Shaped /\ AckedStaysReadable /\ OneAtWork
  /\ \A p \in Parents : Fine(call[p])

-----------------------------------------------------------------------------

\* The highest of some lines is one of them.
LEMMA HighestIs ==
  ASSUME CardsTypeOK, NEW S \in SUBSET (DOMAIN lines), S # {}
  PROVE  HighestOf(S) \in S
  <1> DEFINE T == {Len(lines) - i : i \in S}
  <1>1. Len(lines) \in Nat /\ DOMAIN lines = 1..Len(lines)
    BY DEF CardsTypeOK
  <1>2. T \in SUBSET Nat /\ T # {}
    BY <1>1
  <1>3. PICK n \in T : \A m \in T : n <= m
    BY <1>2, Smallest
  <1>4. PICK i \in S : n = Len(lines) - i
    BY <1>3
  <1>5. \A j \in S : i >= j
    <2> TAKE j \in S
    <2>1. Len(lines) - j \in T
      OBVIOUS
    <2>2. n <= Len(lines) - j
      BY <1>3, <2>1
    <2> QED BY <1>1, <1>4, <2>2
  <1> QED BY <1>4, <1>5 DEF HighestOf

\* Kinds of lines that can be read.
LEMMA KindsOfLines ==
  ASSUME CardsTypeOK, NEW i \in Events
  PROVE  lines[i] \in Event /\ lines[i].kind \in AllOutcomes
  BY CardsAssumption DEF CardsTypeOK, Events, Event

\* What a parent's step may do to what others rely on.
Benign(p) ==
  /\ UNCHANGED <<cast, backend, policy, splits, lines, open, garbled, pub, sent, acked, crossed, early>>
  /\ alias' \in {alias, TRUE}
  /\ \/ card' = card
     \/ call[p].at = "replace" /\ card' = [kind |-> call[p].saving, real |-> call[p].real]
  /\ board' \in BOOLEAN /\ fifo' \in BOOLEAN
  /\ starts' \in 0..MaxStarts /\ faults' \in 0..MaxFaults /\ unread' \in {unread, TRUE}

\* Work goes on, or begins.
Works(p) ==
  \/ overlap' = overlap /\ call[p].at # "idle"
  \/ overlap' = (overlap \/ \E q \in Parents : call[q].at # "idle")

LEMMA Benignly ==
  ASSUME CardsInv, NEW p \in Parents, NEW c, Benign(p), Works(p),
         call' = [call EXCEPT ![p] = c], Fine(c)'
  PROVE  CardsInv'
  <1>t. CardsTypeOK /\ call \in [Parents -> Call] /\ card \in Card
    BY DEF CardsInv, CardsTypeOK
  <1>c. c \in Call
    BY DEF Fine, Call, Places, Kinds, AllOutcomes
  <1>1. /\ call'[p] = c /\ DOMAIN call' = Parents
        /\ \A q \in Parents \ {p} : call'[q] = call[q]
    BY <1>t
  <1>2. overlap => overlap'
    BY DEF Works
  <1>3. alias => alias'
    BY DEF Benign
  <1>4. card' \in Card /\ (card'.kind = "none" => card = card')
    <2>1. Fine(call[p])
      BY DEF CardsInv
    <2>2. CASE call[p].at = "replace" /\ card' = [kind |-> call[p].saving, real |-> call[p].real]
      BY <2>1, <2>2, <1>t DEF Fine, Saves, Call, Card
    <2> QED BY <1>t, <2>2 DEF Benign
  <1>5. CardsTypeOK'
    <2>1. call' \in [Parents -> Call]
      BY <1>c, <1>t
    <2>2. Event' = Event /\ Call' = Call /\ Card' = Card /\ Junk' = Junk
      BY DEF Event, Call, Card, Junk
    <2>3. overlap' \in BOOLEAN /\ alias' \in BOOLEAN /\ unread' \in BOOLEAN
      BY <1>t DEF Works, Benign, CardsTypeOK
    <2> QED BY <1>t, <1>4, <2>1, <2>2, <2>3 DEF Benign, CardsTypeOK, Call, Card, Event, Junk
  <1>6. Shaped' /\ AckedStaysReadable'
    BY DEF CardsInv, Shaped, AckedStaysReadable, Benign, Event, Text, Junk
  <1>7. Carded'
    <2> SUFFICES ASSUME backend = "hermes", ~early PROVE Carded'
      BY DEF Benign, Carded
    <2>1. Events' = Events
      BY DEF Benign, Events, Junk
    <2>2. ~unread /\ card.kind # "none" /\ ~card.real => alias
      BY DEF CardsInv, Carded
    <2>3. ~unread' /\ card'.kind # "none" /\ ~card'.real => alias'
      <3> SUFFICES ASSUME ~unread', card'.kind # "none", ~card'.real PROVE alias'
        OBVIOUS
      <3>1. ~unread
        BY DEF Benign
      <3>2. CASE call[p].at = "replace" /\ card' = [kind |-> call[p].saving, real |-> call[p].real]
        <4>1. ~call[p].real /\ Routed(call[p])
          BY <3>2 DEF CardsInv, Fine
        <4>2. alias
          BY <3>1, <3>2, <4>1 DEF Routed
        <4> QED BY <4>2, <1>3
      <3>3. CASE card' = card
        BY <3>1, <3>3, <2>2, <1>3
      <3> QED BY <3>2, <3>3 DEF Benign
    <2>4. Events # {} \/ (\E g \in Publishers : pub[g].at = "shaped") => card'.kind # "none"
      BY <1>4 DEF CardsInv, Carded
    <2> QED BY <2>1, <2>3, <2>4 DEF Benign, Carded
  <1>8. OneAtWork'
    <2> SUFFICES ASSUME ~overlap', NEW q \in Parents, NEW r \in Parents,
                        call'[q].at # "idle", call'[r].at # "idle"
                 PROVE  q = r
      BY DEF OneAtWork
    <2>1. CASE \A s \in Parents : call[s].at = "idle"
      BY <1>1, <2>1
    <2>2. CASE ~overlap /\ call[p].at # "idle"
      BY <1>1, <2>2 DEF CardsInv, OneAtWork
    <2>3. overlap \in BOOLEAN
      BY <1>t DEF CardsTypeOK
    <2>4. ~overlap
      BY <1>2
    <2> QED BY <2>1, <2>2, <2>3, <2>4 DEF Works
  <1>9. ASSUME NEW q \in Parents PROVE Fine(call[q])'
    <2>1. CASE q = p
      <3>1. call'[q] = c
        BY <1>1, <2>1
      <3> QED BY <3>1 DEF Fine, Owed, Routed, Saves, AnswersTo, Call, Accepted, Protects
    <2>2. CASE q # p
      <3>1. call'[q] = call[q]
        BY <1>1, <2>2
      <3>2. Fine(call[q])
        BY DEF CardsInv
      <3>3. Owed(call[q])'
        BY <3>1, <3>2 DEF Fine, Owed, AnswersTo, Benign, Events, Accepted, Pausing, Junk
      <3>4. Routed(call[q])'
        BY <1>3, <1>4, <3>1, <3>2 DEF Fine, Routed, Benign
      <3>5. Saves(call[q])'
        <4>1. call[q].at = "replace" /\ ~overlap' => card' = card
          BY <1>2, <2>2 DEF CardsInv, OneAtWork, Benign
        <4>2. unread => unread'
          BY DEF Benign
        <4> QED BY <1>2, <3>1, <3>2, <4>1, <4>2 DEF Fine, Saves, Protects
      <3> QED BY <3>1, <3>2, <3>3, <3>4, <3>5 DEF Fine, Call
    <2> QED BY <2>1, <2>2
  <1> QED BY <1>5, <1>6, <1>7, <1>8, <1>9 DEF CardsInv

\* Where a call is idle, or asks or creates, nothing is to be shown of it but the alias.
LEMMA EndIsFine ==
  ASSUME NEW p \in Parents, End(p), CardsInv
  PROVE  call' = [call EXCEPT ![p] = NoCall] /\ Fine(NoCall)' /\ fifo' \in BOOLEAN
  <1>1. NoCall \in Call
    BY DEF NoCall, Call, Places, Kinds
  <1>2. NoCall.at = "idle"
    BY DEF NoCall
  <1>3. fifo' \in BOOLEAN
    BY DEF CardsInv, CardsTypeOK, End, HangUp
  <1>4. call' = [call EXCEPT ![p] = NoCall]
    BY DEF End, Set
  <1>5. (NoCall \in Call)'
    BY <1>1 DEF NoCall, Call, Kinds, Places, AllOutcomes
  <1>6. NoCall' = NoCall
    BY DEF NoCall
  <1> QED BY <1>2, <1>3, <1>4, <1>5, <1>6 DEF Fine, Owed, Routed, Saves

LEMMA ParentMoves ==
  ASSUME CardsInv, NEW p \in Parents,
         StartCall(p) \/ ParentStep(p) \/ WakeByDeadline(p) \/ Crash(p)
  PROVE  CardsInv'
  <1>t. CardsTypeOK /\ call[p] \in Call /\ Fine(call[p])
    BY DEF CardsInv, CardsTypeOK
  <1> DEFINE Follows(c) == call' = [call EXCEPT ![p] = c] /\ Fine(c)'
             Still == UNCHANGED <<cast, backend, policy, splits, lines, open, garbled, pub,
                                  sent, acked, starts, crossed, early, overlap>>
  <1>r. (UNCHANGED most => Still) /\ (UNCHANGED rest => Still /\ unread' = unread)
    BY DEF rest, most, fixed, logVars, pubVars, cardHistory
  <1>b. ASSUME NEW c, Follows(c), Still, call[p].at # "idle", alias' \in {alias, TRUE},
               board' \in BOOLEAN, fifo' \in BOOLEAN, faults' \in 0..MaxFaults,
               unread' \in {unread, TRUE},
               \/ card' = card
               \/ /\ call[p].at = "replace"
                  /\ card' = [kind |-> call[p].saving, real |-> call[p].real]
        PROVE  CardsInv'
    <2>1. Benign(p) /\ Works(p)
      BY <1>b, <1>t DEF Benign, Works, CardsTypeOK
    <2> QED BY <1>b, <2>1, Benignly
  <1>o. alias \in BOOLEAN /\ board \in BOOLEAN /\ fifo \in BOOLEAN /\ faults \in 0..MaxFaults
        /\ (faults < MaxFaults => faults + 1 \in 0..MaxFaults)
    BY <1>t, CardsAssumption DEF CardsTypeOK
  <1>1. CASE StartCall(p)
    <2>1. PICK c0 \in Call : c0 = call[p]
      BY <1>t
    <2>2. PICK c \in Call : c = [c0 EXCEPT !.at = "look"]
      BY DEF Call, Places
    <2>3. call' = [call EXCEPT ![p] = c]
      BY <1>1, <2>1, <2>2, <1>t DEF StartCall, Goto, CardsTypeOK
    <2>4. c.at = "look"
      BY <2>2 DEF Call
    <2>5. Fine(c)'
      BY <2>4 DEF Fine, Owed, Routed, Saves, Call
    <2>6. Benign(p) /\ Works(p)
      BY <1>1, <1>t, <1>o, CardsAssumption DEF StartCall, Benign, Works, CardsTypeOK, fixed, logVars, pubVars
    <2> QED BY <2>3, <2>5, <2>6, Benignly
  \* A read that fails counts against the bound, and is remembered.
  <1>q. ReadError => faults' \in 0..MaxFaults /\ unread'
    BY <1>o DEF ReadError
  <1>f. ASSUME Fresh(p), UNCHANGED <<most, card, alias, board, fifo>>,
               faults' \in 0..MaxFaults, unread' \in {unread, TRUE}, call[p].at = "look"
        PROVE  CardsInv'
    <2>1. PICK c0 \in Call : c0 = call[p]
      BY <1>t
    <2>2. CASE backend = "hermes"
      <3>1. PICK c \in Call : c = [c0 EXCEPT !.at = "create"]
        BY DEF Call, Places
      <3>2. call' = [call EXCEPT ![p] = c]
        BY <1>f, <2>1, <2>2, <3>1, <1>t DEF Fresh, Goto, CardsTypeOK
      <3>3. c.at = "create"
        BY <3>1 DEF Call
      <3>4. Fine(c)'
        BY <3>3 DEF Fine, Owed, Routed, Saves, Call
      <3> QED BY <1>f, <1>b, <1>r, <1>o, <3>2, <3>4
    <2>3. CASE backend # "hermes"
      <3>0. "waiting" \in Kinds
        BY DEF Kinds
      <3>1. PICK c \in Call : c = Save(c0, "waiting", FALSE, "ask") /\ c.at = "decide"
                              /\ c.saving = "waiting"
        <4>1. Save(c0, "waiting", FALSE, "ask") \in Call
              /\ Save(c0, "waiting", FALSE, "ask").at = "decide"
              /\ Save(c0, "waiting", FALSE, "ask").saving = "waiting"
          BY <3>0 DEF Save, Call, Places
        <4> QED BY <4>1
      <3>2. call' = [call EXCEPT ![p] = c]
        BY <1>f, <2>1, <2>3, <3>1 DEF Fresh, Set
      <3>4. Fine(c)'
        BY <1>f, <2>3, <3>1 DEF most, fixed, Fine, Owed, Routed, Saves, Call
      <3> QED BY <1>f, <1>b, <1>r, <1>o, <3>2, <3>4
    <2> QED BY <2>2, <2>3
  <1>2. CASE Look(p)
    <2>1. PICK c0 \in Call : c0 = call[p]
      BY <1>t
    <2>2. CASE card.kind # "none" \/ Events # {}
      <3>1. PICK c \in Call : c = [c0 EXCEPT !.at = IF backend = "hermes" THEN "reattach" ELSE "ask"]
        BY DEF Call, Places
      <3>2. call' = [call EXCEPT ![p] = c]
        BY <1>2, <2>1, <2>2, <3>1, <1>t DEF Look, Goto, CardsTypeOK
      <3>3. c.at = (IF backend = "hermes" THEN "reattach" ELSE "ask")
        BY <3>1 DEF Call
      <3>4. Fine(c)'
        BY <1>2, <2>2, <3>3 DEF Look, rest, most, fixed, cardHistory, Fine, Owed, Routed, Saves, CardsInv, Carded, Call
      <3> QED BY <1>2, <1>b, <1>r, <1>o, <3>2, <3>4 DEF Look
    <2>3. CASE ~(card.kind # "none" \/ Events # {})
      BY <1>2, <2>3, <1>f, <1>o DEF Look, rest
    <2> QED BY <2>2, <2>3
  <1>2b. CASE LookInVain(p)
    BY <1>2b, <1>f, <1>q DEF LookInVain
  <1>e. ASSUME End(p), UNCHANGED <<rest, card, alias>>, board' \in BOOLEAN,
               faults' \in 0..MaxFaults, call[p].at # "idle"
        PROVE  CardsInv'
    BY <1>e, <1>b, <1>r, <1>o, EndIsFine
  <1>3. CASE Reattach(p)
    <2>1. PICK c0 \in Call : c0 = call[p]
      BY <1>t
    <2>2. PICK c \in Call : c = [c0 EXCEPT !.at = IF card.real THEN "alias" ELSE "ask"]
      BY DEF Call, Places
    <2>3. call' = [call EXCEPT ![p] = c]
      BY <1>3, <2>1, <2>2, <1>t DEF Reattach, Goto, CardsTypeOK
    <2>4. c.at = (IF card.real THEN "alias" ELSE "ask")
      BY <2>2 DEF Call
    <2>5. Fine(c)'
      BY <1>3, <1>t, <2>4
         DEF Reattach, rest, most, fixed, cardHistory, Fine, Owed, Routed, Saves, CardsInv, Carded, Call
    <2> QED BY <1>3, <1>b, <1>r, <1>o, <2>3, <2>5 DEF Reattach
  <1>3b. CASE ReattachInVain(p)
    <2>1. PICK c0 \in Call : c0 = call[p]
      BY <1>t
    <2>2. PICK c \in Call : c = [c0 EXCEPT !.at = "ask"]
      BY DEF Call, Places
    <2>3. call' = [call EXCEPT ![p] = c]
      BY <1>3b, <2>1, <2>2, <1>t DEF ReattachInVain, Goto, CardsTypeOK
    <2>4. c.at = "ask"
      BY <2>2 DEF Call
    <2>5. Fine(c)'
      BY <1>3b, <1>q, <2>4 DEF ReattachInVain, Fine, Owed, Routed, Saves, Call
    <2> QED BY <1>3b, <1>b, <1>r, <1>o, <1>q, <2>3, <2>5 DEF ReattachInVain
  <1>4. CASE Create(p)
    <2>1. PICK c0 \in Call : c0 = call[p]
      BY <1>t
    <2>0. "waiting" \in Kinds
      BY DEF Kinds
    <2>2. PICK c \in Call : /\ c = Save(c0, "waiting", TRUE, "alias") /\ c.at = "decide"
                            /\ c.saving = "waiting" /\ c.next = "alias" /\ c.real
      <3>1. /\ Save(c0, "waiting", TRUE, "alias") \in Call
            /\ Save(c0, "waiting", TRUE, "alias").at = "decide"
            /\ Save(c0, "waiting", TRUE, "alias").saving = "waiting"
            /\ Save(c0, "waiting", TRUE, "alias").next = "alias"
            /\ Save(c0, "waiting", TRUE, "alias").real
        BY <2>0 DEF Save, Call, Places
      <3> QED BY <3>1
    <2>3. call' = [call EXCEPT ![p] = c]
      BY <1>4, <2>1, <2>2 DEF Create, Set
    <2>4. Fine(c)'
      BY <2>2 DEF Fine, Owed, Routed, Saves, Call
    <2> QED BY <1>4, <1>b, <1>r, <1>o, <2>3, <2>4 DEF Create
  <1>5. CASE CreateFails(p)
    BY <1>5, <1>e, <1>o DEF CreateFails
  <1>s. ASSUME NEW c, c = [call[p] EXCEPT !.at = call[p].next, !.saving = "none",
                                          !.real = FALSE, !.next = "ask"]
        PROVE  c \in Call /\ c.at = call[p].next /\ c.at \in {"ask", "alias", "judge"}
    BY <1>s, <1>t DEF Call, Places, Kinds
  <1>6. CASE Decide(p)
    <2>1. CASE Protects(card.kind, call[p].saving)
      <3>1. PICK c : c = [call[p] EXCEPT !.at = call[p].next, !.saving = "none",
                                         !.real = FALSE, !.next = "ask"]
        OBVIOUS
      <3>2. c \in Call /\ c.at = call[p].next /\ c.at \in {"ask", "alias", "judge"}
        BY <1>s, <3>1
      <3>3. call' = [call EXCEPT ![p] = c]
        BY <1>6, <2>1, <3>1 DEF Decide, Saved, Set
      <3>4. Fine(c)'
        BY <1>6, <1>t, <3>2 DEF Decide, rest, most, fixed, cardHistory, Fine, Owed, Routed, Saves, Call
      <3> QED BY <1>6, <1>b, <1>r, <1>o, <3>3, <3>4 DEF Decide
    <2>2. CASE ~Protects(card.kind, call[p].saving)
      <3>1. PICK c0 \in Call : c0 = call[p]
        BY <1>t
      <3>2. PICK c \in Call : c = [c0 EXCEPT !.at = "replace"]
        BY DEF Call, Places
      <3>3. call' = [call EXCEPT ![p] = c]
        BY <1>6, <2>2, <3>1, <3>2, <1>t DEF Decide, Goto, CardsTypeOK
      <3>4. c.at = "replace" /\ c.saving = call[p].saving /\ c.next = call[p].next
            /\ c.real = call[p].real
        BY <3>1, <3>2 DEF Call
      <3>5. Fine(c)'
        BY <1>6, <1>t, <2>2, <3>4
           DEF Decide, rest, most, fixed, cardHistory, Fine, Owed, Routed, Saves, Call, Protects
      <3> QED BY <1>6, <1>b, <1>r, <1>o, <3>3, <3>5 DEF Decide
    <2> QED BY <2>1, <2>2
  <1>6b. CASE DecideInVain(p)
    <2>1. PICK c0 \in Call : c0 = call[p]
      BY <1>t
    <2>2. PICK c \in Call : c = [c0 EXCEPT !.at = "replace"]
      BY DEF Call, Places
    <2>3. call' = [call EXCEPT ![p] = c]
      BY <1>6b, <2>1, <2>2, <1>t DEF DecideInVain, Goto, CardsTypeOK
    <2>4. c.at = "replace" /\ c.saving = call[p].saving
      BY <2>1, <2>2 DEF Call
    <2>5. Fine(c)'
      BY <1>6b, <1>q, <1>t, <2>4 DEF DecideInVain, Fine, Owed, Routed, Saves, Call
    <2> QED BY <1>6b, <1>b, <1>r, <1>o, <1>q, <2>3, <2>5 DEF DecideInVain
  <1>7. CASE Replace(p)
    <2>1. PICK c : c = [call[p] EXCEPT !.at = call[p].next, !.saving = "none",
                                       !.real = FALSE, !.next = "ask"]
      OBVIOUS
    <2>2. c \in Call /\ c.at = call[p].next /\ c.at \in {"ask", "alias", "judge"}
      BY <1>s, <2>1
    <2>3. call' = [call EXCEPT ![p] = c]
      BY <1>7, <2>1 DEF Replace, Saved, Set
    <2>4. Fine(c)'
      BY <1>7, <1>t, <2>2 DEF Replace, rest, most, fixed, cardHistory, Fine, Owed, Routed, Saves, Call
    <2> QED BY <1>7, <1>b, <1>r, <1>o, <2>3, <2>4 DEF Replace
  <1>8. CASE ReplaceFails(p)
    <2>1. CASE call[p].real
      BY <1>8, <2>1, <1>e, <1>o DEF ReplaceFails
    <2>2. CASE ~call[p].real
      <3>1. PICK c : c = [call[p] EXCEPT !.at = call[p].next, !.saving = "none",
                                         !.real = FALSE, !.next = "ask"]
        OBVIOUS
      <3>2. c \in Call /\ c.at = call[p].next /\ c.at \in {"ask", "alias", "judge"}
        BY <1>s, <3>1
      <3>3. call' = [call EXCEPT ![p] = c]
        BY <1>8, <2>2, <3>1 DEF ReplaceFails, Saved, Set
      <3>4. Fine(c)'
        BY <1>8, <1>t, <2>2, <3>2
           DEF ReplaceFails, rest, most, fixed, cardHistory, Fine, Owed, Routed, Saves, Call
      <3> QED BY <1>8, <2>2, <1>b, <1>r, <1>o, <3>3, <3>4 DEF ReplaceFails
    <2> QED BY <2>1, <2>2
  <1>9. CASE RecordAlias(p)
    <2>1. PICK c0 \in Call : c0 = call[p]
      BY <1>t
    <2>2. PICK c \in Call : c = [c0 EXCEPT !.at = "ask"]
      BY DEF Call, Places
    <2>3. call' = [call EXCEPT ![p] = c] /\ alias'
      BY <1>9, <2>1, <2>2, <1>t DEF RecordAlias, Goto, CardsTypeOK
    <2>4. c.at = "ask"
      BY <2>2 DEF Call
    <2>5. Fine(c)'
      BY <2>3, <2>4 DEF Fine, Owed, Routed, Saves, Call
    <2> QED BY <1>9, <1>b, <1>r, <1>o, <2>3, <2>5 DEF RecordAlias
  <1>10. CASE RecordAliasFails(p)
    BY <1>10, <1>e, <1>o DEF RecordAliasFails
  \* The durable wrapper serves an outcome of the card.
  <1>v. ASSUME NEW kind, Accepted(kind), Serves(p, kind), backend = "durable",
               UNCHANGED <<most, card, alias, board, fifo>>, faults' \in 0..MaxFaults,
               unread' \in {unread, TRUE}, call[p].at = "ask"
        PROVE  CardsInv'
    <2>1. kind \in Kinds \ {"none"}
      BY <1>v DEF Accepted, Terminal, Kinds, AllOutcomes
    <2>2. PICK c0 \in Call : c0 = [call[p] EXCEPT !.served = TRUE, !.stamp = @ + 1,
                                   !.got = kind, !.version = call[p].stamp + 1]
      <3>1. call[p].stamp + 1 \in Nat
        BY <1>t DEF Call
      <3> QED BY <1>t, <2>1, <3>1 DEF Call
    <2>3. PICK c \in Call : /\ c = Save(c0, kind, FALSE, "judge") /\ c.at = "decide"
                            /\ c.saving = kind
      <3>1. /\ Save(c0, kind, FALSE, "judge") \in Call
            /\ Save(c0, kind, FALSE, "judge").at = "decide"
            /\ Save(c0, kind, FALSE, "judge").saving = kind
        BY <2>1 DEF Save, Call, Places
      <3> QED BY <3>1
    <2>4. call' = [call EXCEPT ![p] = c]
      BY <1>v, <2>2, <2>3 DEF Serves, Set
    <2>5. backend' = "durable"
      BY <1>v DEF most, fixed
    <2>6. Fine(c)'
      BY <2>1, <2>3, <2>5 DEF Fine, Owed, Routed, Saves, Call
    <2> QED BY <1>v, <1>b, <1>r, <1>o, <2>4, <2>6
  <1>11. CASE Serve(p)
    BY <1>11, <1>v, <1>o DEF Serve, MayServe, Consults, rest
  <1>11b. CASE ServeRecord(p)
    BY <1>11b, <1>v, <1>q DEF ServeRecord, Consults
  \* A look at the log: what it finds is there when the read follows.
  <1>l. ASSUME NEW c0 \in Call, LookAgain(c0, p, "read"),
               UNCHANGED <<most, card, alias, board>>,
               fifo' \in BOOLEAN, faults' \in 0..MaxFaults, unread' \in {unread, TRUE},
               c0.floor = call[p].floor, c0.after = call[p].after,
               call[p].at \in {"ask", "drain", "wait"}
        PROVE  CardsInv'
    <2>1. PICK b \in BOOLEAN : b = (Answers(p) # {})
      OBVIOUS
    <2>2. PICK c \in Call : c = [c0 EXCEPT !.at = "read", !.owed = b]
      BY DEF Call, Places
    <2>3. call' = [call EXCEPT ![p] = c]
      BY <1>l, <2>1, <2>2 DEF LookAgain, Set
    <2>4. c.at = "read" /\ c.owed = b /\ c.floor = call[p].floor /\ c.after = call[p].after
      BY <1>l, <2>2 DEF Call
    <2>5. Answers(p) = AnswersTo(c)
      BY <2>4 DEF Answers, AnswersTo, Floor
    <2>6. AnswersTo(c)' = AnswersTo(c)
      BY <1>l DEF rest, most, fixed, logVars, AnswersTo, Events, Accepted, Pausing, Junk
    <2>7. Fine(c)'
      BY <1>l, <1>t, <2>1, <2>4, <2>5, <2>6
         DEF rest, most, fixed, cardHistory, Fine, Owed, Routed, Saves, Call
    <2> QED BY <1>l, <1>b, <1>r, <1>o, <2>3, <2>7
  <1>12. CASE Subscribe(p)
    BY <1>12, <1>l, <1>t, <1>o DEF Subscribe, rest
  <1>12b. CASE SubscribeInVain(p)
    BY <1>12b, <1>l, <1>t, <1>o, <1>q DEF SubscribeInVain
  <1>13. CASE Read(p)
    <2>1. Answers(p) # {} /\ Answers(p) \subseteq DOMAIN lines /\ Answers(p) \subseteq Events
      BY <1>13 DEF Read, Answers, Events
    <2>2. PICK top \in Answers(p) : top = HighestOf(Answers(p))
      BY <1>t, <2>1, HighestIs
    <2>3. lines[top].kind \in Kinds \ {"none"} /\ top \in Nat
      <3>1. lines[top].kind \in AllOutcomes
        BY <1>t, <2>1, KindsOfLines
      <3>2. top \in Nat
        BY <1>t, <2>1 DEF CardsTypeOK
      <3> QED BY <3>1, <3>2 DEF Kinds, AllOutcomes
    <2>4. PICK c1 \in Call :
            c1 = IF backend = "durable"
                 THEN [call[p] EXCEPT !.got = lines[top].kind, !.floor = top, !.stamp = @ + 1,
                                      !.version = call[p].stamp + 1]
                 ELSE [call[p] EXCEPT !.got = lines[top].kind, !.version = top]
      <3>1. call[p].stamp + 1 \in Nat /\ lines[top].kind \in Kinds
        BY <1>t, <2>3 DEF Call
      <3>2. [call[p] EXCEPT !.got = lines[top].kind, !.floor = top, !.stamp = @ + 1,
                            !.version = call[p].stamp + 1] \in Call
        BY <1>t, <2>3, <3>1 DEF Call
      <3>3. [call[p] EXCEPT !.got = lines[top].kind, !.version = top] \in Call
        BY <1>t, <2>3, <3>1 DEF Call
      <3> QED BY <3>2, <3>3
    <2>5. PICK c \in Call : /\ c = Save(c1, lines[top].kind, FALSE, "judge") /\ c.at = "decide"
                            /\ c.saving = lines[top].kind /\ c.next = "judge"
      <3>1. /\ Save(c1, lines[top].kind, FALSE, "judge") \in Call
            /\ Save(c1, lines[top].kind, FALSE, "judge").at = "decide"
            /\ Save(c1, lines[top].kind, FALSE, "judge").saving = lines[top].kind
            /\ Save(c1, lines[top].kind, FALSE, "judge").next = "judge"
        BY <2>3 DEF Save, Call, Places
      <3> QED BY <3>1
    <2>6. call' = [call EXCEPT ![p] = c]
      <3>1. call' = [call EXCEPT ![p] =
              LET d == [call[p] EXCEPT !.got = lines[top].kind]
              IN  Save(IF backend = "durable"
                       THEN [d EXCEPT !.floor = top, !.stamp = @ + 1, !.version = d.stamp + 1]
                       ELSE [d EXCEPT !.version = top],
                       lines[top].kind, FALSE, "judge")]
        BY <1>13, <2>2 DEF Read, Set
      <3>2. c1 = LET d == [call[p] EXCEPT !.got = lines[top].kind]
                 IN  IF backend = "durable"
                     THEN [d EXCEPT !.floor = top, !.stamp = @ + 1, !.version = d.stamp + 1]
                     ELSE [d EXCEPT !.version = top]
        BY <1>t, <2>4 DEF Call
      <3> QED BY <2>5, <3>1, <3>2
    <2>7. Fine(c)'
      BY <1>13, <1>t, <2>3, <2>5
         DEF Read, rest, most, fixed, cardHistory, Fine, Owed, Routed, Saves, Call
    <2>8. fifo' \in BOOLEAN
      BY <1>13, <1>o DEF Read, HangUp
    <2> QED BY <1>13, <1>b, <1>r, <1>o, <2>6, <2>7, <2>8 DEF Read
  <1>14. CASE ReadNothing(p)
    <2>1. PICK c0 \in Call : c0 = call[p]
      BY <1>t
    <2>2. PICK c \in Call : c = [c0 EXCEPT !.at = "check"]
      BY DEF Call, Places
    <2>3. call' = [call EXCEPT ![p] = c]
      BY <1>14, <2>1, <2>2, <1>t DEF ReadNothing, Goto, CardsTypeOK
    <2>4. c.at = "check" /\ c.owed = call[p].owed
      BY <2>1, <2>2 DEF Call
    <2>5. AnswersTo(call[p]) = {}
      BY <1>14 DEF ReadNothing, Answers, AnswersTo, Floor
    <2>6. Fine(c)'
      BY <1>14, <1>t, <2>4, <2>5
         DEF ReadNothing, rest, most, fixed, cardHistory, Fine, Owed, Routed, Saves, Call
    <2> QED BY <1>14, <1>b, <1>r, <1>o, <2>3, <2>6 DEF ReadNothing
  <1>14b. CASE ReadInVain(p)
    <2>1. PICK c \in Call : c = [call[p] EXCEPT !.at = "check", !.owed = FALSE]
      BY <1>t DEF Call, Places
    <2>2. call' = [call EXCEPT ![p] = c]
      BY <1>14b, <2>1 DEF ReadInVain, Set
    <2>3. c.at = "check" /\ ~c.owed
      BY <1>t, <2>1 DEF Call
    <2>4. Fine(c)'
      BY <1>14b, <1>q, <2>3 DEF ReadInVain, Fine, Owed, Routed, Saves, Call
    <2> QED BY <1>14b, <1>b, <1>r, <1>o, <1>q, <2>2, <2>4 DEF ReadInVain
  <1>14c. CASE Undecodable(p)
    BY <1>14c, <1>e, <1>o DEF Undecodable
  <1>15. CASE TimeOut(p)
    BY <1>15, <1>e, <1>o DEF TimeOut
  \* To a place where nothing new is asked of the call.
  <1>g. ASSUME NEW place \in {"wait", "drain"}, Goto(p, place),
               UNCHANGED <<rest, card, alias, board, fifo, faults>>,
               call[p].at \in {"check", "wait"}
        PROVE  CardsInv'
    <2>1. PICK c0 \in Call : c0 = call[p]
      BY <1>t
    <2>2. PICK c \in Call : c = [c0 EXCEPT !.at = place]
      BY DEF Call, Places
    <2>3. call' = [call EXCEPT ![p] = c]
      BY <1>g, <2>1, <2>2, <1>t DEF Goto, CardsTypeOK
    <2>4. c.at = place
      BY <2>2 DEF Call
    <2>5. Fine(c)'
      BY <1>g, <1>t, <2>4 DEF rest, most, fixed, cardHistory, Fine, Owed, Routed, Saves, Call
    <2> QED BY <1>g, <1>b, <1>r, <1>o, <2>3, <2>5
  <1>16. CASE Sleep(p)
    BY <1>16, <1>g DEF Sleep
  <1>17. CASE WakeByByte(p)
    BY <1>17, <1>g DEF WakeByByte
  <1>18. CASE Drain(p)
    BY <1>18, <1>l, <1>t, <1>o DEF Drain, rest
  <1>19. CASE WakeByDeadline(p)
    <2>1. PICK c0 \in Call : c0 = [call[p] EXCEPT !.due = TRUE]
      BY <1>t DEF Call
    <2>2. c0.floor = call[p].floor /\ c0.after = call[p].after
      BY <2>1, <1>t DEF Call
    <2> QED BY <1>19, <1>l, <1>o, <2>1, <2>2 DEF WakeByDeadline, rest
  <1>20. CASE Judge(p)
    <2>1. CASE End(p)
      BY <1>20, <2>1, <1>e, <1>o DEF Judge
    <2>2. CASE /\ UNCHANGED fifo
               /\ Set(p, [call[p] EXCEPT !.at = "ask", !.after = call[p].version,
                                         !.got = "none", !.version = 0])
      <3>1. PICK c \in Call : c = [call[p] EXCEPT !.at = "ask", !.after = call[p].version,
                                                  !.got = "none", !.version = 0]
        BY <1>t DEF Call, Places, Kinds
      <3>2. call' = [call EXCEPT ![p] = c] /\ c.at = "ask"
        BY <2>2, <3>1, <1>t DEF Set, Call
      <3>3. Fine(c)'
        BY <1>20, <1>t, <3>2
           DEF Judge, rest, most, fixed, cardHistory, Fine, Owed, Routed, Saves, Call
      <3> QED BY <1>20, <2>2, <1>b, <1>r, <1>o, <3>2, <3>3 DEF Judge
    <2> QED BY <1>20, <2>1, <2>2 DEF Judge
  <1>21. CASE Crash(p)
    BY <1>21, <1>e, <1>o DEF Crash
  <1> QED
    BY <1>1, <1>2, <1>3, <1>4, <1>5, <1>6, <1>7, <1>8, <1>9, <1>10, <1>11, <1>12, <1>13,
       <1>14, <1>15, <1>16, <1>17, <1>18, <1>19, <1>20, <1>21,
       <1>2b, <1>3b, <1>6b, <1>11b, <1>12b, <1>14b, <1>14c DEF ParentStep

\* A line is written whole; the others stay unless it completes a fragment.
LEMMA LineIsWritten ==
  ASSUME CardsTypeOK, NEW prefix \in BOOLEAN, NEW text \in Event \cup {Junk}
  PROVE  /\ Written(prefix, text) \in Seq(Event \cup {Junk})
         /\ (open => prefix) =>
              /\ \A i \in DOMAIN lines : /\ i \in DOMAIN Written(prefix, text)
                                         /\ Written(prefix, text)[i] = lines[i]
              /\ \E i \in DOMAIN Written(prefix, text) : Written(prefix, text)[i] = text
  <1>1. lines \in Seq(Event \cup {Junk}) /\ open \in BOOLEAN /\ Len(lines) \in Nat
    BY DEF CardsTypeOK
  <1>2. CASE open /\ ~prefix
    <2>1. Written(prefix, text) = [lines EXCEPT ![Len(lines)] = Junk]
      BY <1>2 DEF Written
    <2> DEFINE L == Event \cup {Junk}
    <2>2. lines \in [1..Len(lines) -> L] /\ Junk \in L
      BY <1>1
    <2>3. [lines EXCEPT ![Len(lines)] = Junk] \in [1..Len(lines) -> L]
      BY <2>2
    <2>4. Written(prefix, text) \in Seq(L)
      BY <1>1, <2>1, <2>3
    <2> QED BY <1>2, <2>4
  <1>3. CASE ~open /\ prefix
    <2>1. Written(prefix, text) = lines \o <<Junk, text>>
      BY <1>3 DEF Written
    <2>2. <<Junk, text>> \in Seq(Event \cup {Junk})
      OBVIOUS
    <2>3. Written(prefix, text) \in Seq(Event \cup {Junk})
      BY <1>1, <2>1, <2>2
    <2>4. \A i \in DOMAIN lines : /\ i \in DOMAIN Written(prefix, text)
                                  /\ Written(prefix, text)[i] = lines[i]
      BY <1>1, <2>1, <2>2
    <2>5. /\ Len(lines) + 2 \in DOMAIN Written(prefix, text)
          /\ Written(prefix, text)[Len(lines) + 2] = text
      BY <1>1, <2>1, <2>2
    <2> QED BY <2>3, <2>4, <2>5
  <1>4. CASE ~(open /\ ~prefix) /\ ~(~open /\ prefix)
    <2>1. Written(prefix, text) = Append(lines, text)
      BY <1>4 DEF Written
    <2>2. /\ Len(lines) + 1 \in DOMAIN Written(prefix, text)
          /\ Written(prefix, text)[Len(lines) + 1] = text
      BY <1>1, <2>1
    <2> QED BY <1>1, <2>1, <2>2
  <1> QED BY <1>2, <1>3, <1>4

\* What publishers do leaves every call as it was: the log grows, if no line was cut
\* into another's.
LEMMA CallsStayFine ==
  ASSUME CardsInv,
         UNCHANGED <<cast, backend, policy, splits, card, alias, call, overlap, unread>>,
         early => early', crossed => crossed',
         ~crossed' => \A i \in DOMAIN lines : i \in DOMAIN lines' /\ lines'[i] = lines[i],
         NEW p \in Parents
  PROVE  Fine(call[p])'
  <1>1. Fine(call[p])
    BY DEF CardsInv
  <1>2. PICK c \in Call : c = call[p]
    BY <1>1 DEF Fine
  <1>3. ~crossed' /\ AnswersTo(c) # {} => AnswersTo(c)' # {}
    <2> SUFFICES ASSUME ~crossed', NEW i \in AnswersTo(c) PROVE i \in AnswersTo(c)'
      OBVIOUS
    <2>1. i \in DOMAIN lines /\ lines[i] # Junk
      BY DEF AnswersTo, Events
    <2>2. i \in DOMAIN lines' /\ lines'[i] = lines[i]
      BY <2>1
    <2>3. i \in Events'
      BY <2>1, <2>2 DEF Events, Junk
    <2> QED BY <2>2, <2>3 DEF AnswersTo, Accepted, Pausing
  <1>4. Fine(c)'
    BY <1>1, <1>2, <1>3 DEF Fine, Owed, Routed, Saves, Call, Protects
  <1>5. call'[p] = c
    BY <1>2
  <1> QED BY <1>4, <1>5 DEF Fine, Owed, Routed, Saves, AnswersTo

LEMMA PublisherMoves ==
  ASSUME CardsInv, NEW g \in Publishers, PublisherStep(g)
  PROVE  CardsInv'
  <1>t. CardsTypeOK /\ Shaped /\ Carded /\ AckedStaysReadable
    BY DEF CardsInv
  <1>p. /\ pub \in [Publishers -> [at : {"idle", "shaped", "written"},
                                   event : Event \cup {Junk}, prefix : BOOLEAN]]
        /\ lines \in Seq(Event \cup {Junk}) /\ {open, garbled} \subseteq BOOLEAN
        /\ {early, crossed, overlap, unread} \subseteq BOOLEAN
    BY <1>t DEF CardsTypeOK
  <1>i. Idle \in [at : {"idle", "shaped", "written"}, event : Event \cup {Junk},
                  prefix : BOOLEAN] /\ Idle.at = "idle"
    BY DEF Idle
  <1>o. Event' = Event /\ Junk' = Junk /\ Call' = Call /\ Card' = Card
    BY DEF Event, Junk, Call, Card
  <1>x. \A e \in Event : Text(e) \in Event \cup {Junk} /\ Text(e)' \in {Text(e), Text(e)'}
    BY DEF Text
  \* What there is left to show of a step.
  <1>s. ASSUME UNCHANGED <<cast, backend, policy, splits, card, alias, board, call, starts,
                           overlap, unread>>,
               early => early', crossed => crossed',
               ~crossed' => \A i \in DOMAIN lines : i \in DOMAIN lines' /\ lines'[i] = lines[i],
               lines' \in Seq(Event \cup {Junk}), open' \in BOOLEAN, garbled' \in BOOLEAN,
               fifo' \in BOOLEAN,
               pub' \in [Publishers -> [at : {"idle", "shaped", "written"},
                                        event : Event \cup {Junk}, prefix : BOOLEAN]],
               sent' \in 0..MaxEvents, acked' \subseteq Event, faults' \in 0..MaxFaults,
               crossed' \in BOOLEAN, early' \in BOOLEAN,
               Shaped', Carded', AckedStaysReadable'
        PROVE  CardsInv'
    <2>1. CardsTypeOK'
      BY <1>s, <1>t, <1>o DEF CardsTypeOK
    <2>2. OneAtWork'
      BY <1>s DEF CardsInv, OneAtWork
    <2>3. \A p \in Parents : Fine(call[p])'
      BY <1>s, CallsStayFine
    <2> QED BY <1>s, <2>1, <2>2, <2>3 DEF CardsInv
  <1>n. /\ sent \in 0..MaxEvents /\ acked \subseteq Event /\ faults \in 0..MaxFaults
        /\ fifo \in BOOLEAN /\ (faults < MaxFaults => faults + 1 \in 0..MaxFaults)
        /\ (sent < MaxEvents => sent + 1 \in 1..MaxEvents)
    BY <1>t, CardsAssumption DEF CardsTypeOK
  <1>1. ASSUME NEW kind \in Outcomes, NEW id \in {"real", "logical"}, Shape(g, kind, id)
        PROVE  CardsInv'
    <2>1. PICK ev \in Event : ev = [n |-> sent', kind |-> kind]
      BY <1>1, <1>n DEF Shape, Event
    <2>0. PICK seen \in BOOLEAN :
            /\ seen \in {Prefix, FALSE}
            /\ pub' = [pub EXCEPT ![g] = [at |-> "shaped", event |-> [n |-> sent', kind |-> kind],
                                          prefix |-> seen]]
            /\ seen # Prefix => faults < MaxFaults
            /\ faults' = faults + (IF seen # Prefix THEN 1 ELSE 0)
            /\ crossed' = (crossed \/ seen # Prefix)
      BY <1>1, <1>p DEF Shape, Prefix
    <2>2. PICK new : new = [at |-> "shaped", event |-> ev, prefix |-> seen]
      OBVIOUS
    <2>3. /\ new \in [at : {"idle", "shaped", "written"}, event : Event \cup {Junk},
                      prefix : BOOLEAN]
          /\ new.at = "shaped" /\ new.event = ev /\ new.prefix = seen
      BY <2>2, <1>p
    <2>4. pub' = [pub EXCEPT ![g] = new]
      BY <2>0, <2>1, <2>2
    <2>5. /\ UNCHANGED <<lines, open, garbled, fifo, acked, cast, backend, policy, splits,
                         card, alias, board, call, starts, overlap, unread>>
          /\ early' = (early \/ card.kind = "none") /\ sent' \in 0..MaxEvents
      BY <1>1, <1>n DEF Shape, pubRest, fixed, logVars
    <2>5a. /\ crossed => crossed'
           /\ ~crossed' => seen = open
           /\ crossed' \in BOOLEAN /\ faults' \in 0..MaxFaults
      <3>1. (crossed => crossed') /\ (~crossed' => seen = open)
        BY <2>0 DEF Prefix
      <3>2. faults' \in 0..MaxFaults
        BY <2>0, <1>n
      <3> QED BY <2>0, <3>1, <3>2, <1>p
    <2>6. Shaped'
      BY <1>t, <1>p, <1>o, <2>3, <2>4, <2>5, <2>5a DEF Shaped, Text
    <2>7. Carded'
      BY <1>t, <2>5 DEF Carded
    <2>8. AckedStaysReadable'
      BY <1>t, <2>5, <2>5a DEF AckedStaysReadable
    <2>9. pub' \in [Publishers -> [at : {"idle", "shaped", "written"},
                                   event : Event \cup {Junk}, prefix : BOOLEAN]]
      BY <1>p, <2>3, <2>4
    <2>10. early' \in BOOLEAN /\ (early => early')
      BY <2>5, <1>p
    <2> QED BY <1>s, <1>p, <1>n, <2>5, <2>5a, <2>6, <2>7, <2>8, <2>9, <2>10
  <1>2. CASE AppendEvent(g)
    <2>1. PICK ev \in Event, prefix \in BOOLEAN : ev = pub[g].event /\ prefix = pub[g].prefix
      BY <1>2, <1>t, <1>p DEF AppendEvent, Shaped
    <2>1a. PICK text \in Event \cup {Junk} : text = Text(ev)
      BY DEF Text
    <2>2. pub[g].at = "shaped" /\ lines' = Written(prefix, text) /\ open' = FALSE
          /\ pub' = [pub EXCEPT ![g] = [pub[g] EXCEPT !.at = "written"]]
      BY <1>2, <2>1, <2>1a, <1>p DEF AppendEvent
    <2>3. UNCHANGED <<garbled, fifo, sent, acked, faults, crossed, early, cast, backend, policy,
                      splits, card, alias, board, call, starts, overlap, unread>>
      BY <1>2 DEF AppendEvent, pubRest, fixed
    <2>4. ~crossed => (open => prefix)
      BY <1>t, <2>1, <2>2 DEF Shaped
    <2>5. lines' \in Seq(Event \cup {Junk})
      BY <1>t, <2>2, LineIsWritten
    <2>6. ~crossed => /\ \A i \in DOMAIN lines : i \in DOMAIN lines' /\ lines'[i] = lines[i]
                      /\ \E i \in DOMAIN lines' : lines'[i] = text
      BY <1>t, <2>2, <2>4, LineIsWritten
    <2>7. PICK new : new = [pub[g] EXCEPT !.at = "written"]
      OBVIOUS
    <2>8. /\ new \in [at : {"idle", "shaped", "written"}, event : Event \cup {Junk},
                      prefix : BOOLEAN]
          /\ new.at = "written" /\ new.event = ev /\ pub' = [pub EXCEPT ![g] = new]
      BY <1>p, <2>1, <2>2, <2>7
    <2>9. pub' \in [Publishers -> [at : {"idle", "shaped", "written"},
                                   event : Event \cup {Junk}, prefix : BOOLEAN]]
      BY <1>p, <2>8
    <2>10. \A h \in Publishers \ {g} : pub'[h] = pub[h]
      BY <2>8, <1>p
    <2>11. pub'[g] = new
      BY <2>8, <1>p
    <2>12. Shaped'
      <3>1. \A h \in Publishers : pub'[h].at # "idle" => pub'[h].event \in Event
        BY <1>t, <2>8, <2>10, <2>11 DEF Shaped
      <3>2. ASSUME ~crossed, NEW h \in Publishers, pub'[h].at = "written"
            PROVE  \E i \in DOMAIN lines' : lines'[i] = Text(pub'[h].event)
        <4>1. CASE h = g
          BY <3>2, <4>1, <2>1a, <2>6, <2>8, <2>11
        <4>2. CASE h # g
          BY <3>2, <4>2, <1>t, <2>6, <2>10 DEF Shaped
        <4> QED BY <4>1, <4>2
      <3>3. ASSUME ~crossed, NEW h \in Publishers, pub'[h].at = "written"
            PROVE  (\E i \in DOMAIN lines : lines[i] = Text(pub[h].event))'
        BY <3>2, <3>3, <2>3, <1>o DEF Text
      <3> QED BY <3>1, <3>3, <2>2, <2>3, <1>o DEF Shaped
    <2>13. AckedStaysReadable'
      BY <1>t, <2>3, <2>6 DEF AckedStaysReadable
    <2>14. Carded'
      BY <1>t, <2>2, <2>3 DEF Carded
    <2>15. ~crossed' => \A i \in DOMAIN lines : i \in DOMAIN lines' /\ lines'[i] = lines[i]
      BY <2>3, <2>6
    <2>16. open' \in BOOLEAN
      BY <2>2
    <2> QED BY <1>s, <1>p, <1>n, <2>3, <2>5, <2>9, <2>12, <2>13, <2>14, <2>15, <2>16
  <1>3. CASE CutShort(g)
    <2>1. PICK text \in Event \cup {Junk}, prefix \in BOOLEAN :
            /\ prefix = pub[g].prefix /\ lines' = Written(prefix, text)
            /\ garbled' \in {garbled, garbled \/ text = Junk}
      <3>1. pub[g].event \in Event
        BY <1>3, <1>t DEF CutShort, Shaped
      <3>2. {Junk, Text(pub[g].event)} \subseteq Event \cup {Junk}
        BY <3>1 DEF Text
      <3> QED BY <1>3, <1>p, <3>2 DEF CutShort
    <2>1a. (garbled => garbled') /\ garbled' \in BOOLEAN
      BY <2>1, <1>p
    <2>2. /\ pub[g].at = "shaped" /\ open' = TRUE /\ pub' = [pub EXCEPT ![g] = Idle]
          /\ crossed' = (crossed \/ \E h \in Publishers \ {g} : pub[h].at = "shaped")
          /\ faults' \in 0..MaxFaults
      BY <1>3, <1>n DEF CutShort
    <2>3. UNCHANGED <<fifo, sent, acked, early, cast, backend, policy, splits, card, alias, board,
                      call, starts, overlap, unread>>
      BY <1>3 DEF CutShort, pubRest, fixed
    <2>4. ~crossed => (open => prefix)
      BY <1>t, <2>1, <2>2 DEF Shaped
    <2>5. lines' \in Seq(Event \cup {Junk})
      BY <1>t, <2>1, LineIsWritten
    <2>6. ~crossed => \A i \in DOMAIN lines : i \in DOMAIN lines' /\ lines'[i] = lines[i]
      BY <1>t, <2>1, <2>4, LineIsWritten
    <2>7. (crossed => crossed') /\ crossed' \in BOOLEAN
      BY <2>2, <1>p
    <2>8. /\ \A h \in Publishers \ {g} : pub'[h] = pub[h]
          /\ pub'[g] = Idle /\ pub'[g].at = "idle"
          /\ pub' \in [Publishers -> [at : {"idle", "shaped", "written"},
                                      event : Event \cup {Junk}, prefix : BOOLEAN]]
      BY <1>i, <1>p, <2>2
    <2>9. Shaped'
      <3>1. \A h \in Publishers : pub'[h].at # "idle" => pub'[h].event \in Event
        BY <1>t, <2>8 DEF Shaped
      <3>2. ASSUME ~crossed', NEW h \in Publishers, pub'[h].at = "written"
            PROVE  (\E i \in DOMAIN lines : lines[i] = Text(pub[h].event))'
        <4>1. h # g /\ ~crossed
          BY <3>2, <2>7, <2>8
        <4>2. \E i \in DOMAIN lines' : lines'[i] = Text(pub'[h].event)
          BY <3>2, <4>1, <1>t, <2>6, <2>8 DEF Shaped
        <4> QED BY <4>2, <2>3, <1>o DEF Text
      <3>3. ~crossed' => \A h \in Publishers : pub'[h].at # "shaped"
        BY <2>2, <2>8
      <3> QED BY <3>1, <3>2, <3>3, <1>o DEF Shaped
    <2>10. AckedStaysReadable'
      BY <1>t, <2>1a, <2>3, <2>6, <2>7 DEF AckedStaysReadable
    <2>11. Carded'
      BY <1>t, <2>2, <2>3 DEF Carded
    <2>12. (~crossed' => \A i \in DOMAIN lines : i \in DOMAIN lines' /\ lines'[i] = lines[i])
           /\ open' \in BOOLEAN
      BY <2>2, <2>6, <2>7
    <2> QED BY <1>s, <1>p, <1>n, <2>1a, <2>2, <2>3, <2>5, <2>7, <2>8, <2>9, <2>10, <2>11, <2>12
  <1>4. ASSUME pub[g].at = "written", pub' = [pub EXCEPT ![g] = Idle],
               UNCHANGED <<lines, open, garbled, sent, faults, crossed, early, cast, backend,
                           policy, splits, card, alias, board, call, starts, overlap, unread>>,
               fifo' \in BOOLEAN, acked' \in {acked, acked \cup {pub[g].event}}
        PROVE  CardsInv'
    <2>1. /\ \A h \in Publishers \ {g} : pub'[h] = pub[h]
          /\ pub'[g] = Idle /\ pub'[g].at = "idle"
          /\ pub' \in [Publishers -> [at : {"idle", "shaped", "written"},
                                      event : Event \cup {Junk}, prefix : BOOLEAN]]
      BY <1>4, <1>i, <1>p
    <2>2. pub[g].event \in Event
      BY <1>4, <1>t DEF Shaped
    <2>3. Shaped'
      BY <1>4, <1>t, <1>o, <2>1 DEF Shaped, Text
    <2>4. AckedStaysReadable'
      BY <1>4, <1>t DEF AckedStaysReadable, Shaped, Text
    <2>5. Events' = Events
      BY <1>4, <1>o DEF Events
    <2>6. Carded'
      BY <1>4, <1>t, <2>1, <2>5 DEF Carded
    <2>7. acked' \subseteq Event
      BY <1>4, <1>n, <2>2
    <2> QED BY <1>4, <1>s, <1>p, <1>n, <2>1, <2>3, <2>4, <2>6, <2>7
  <1>5. CASE Notify(g)
    <2>1. fifo' \in BOOLEAN
      BY <1>5, <1>n DEF Notify
    <2> QED BY <1>4, <1>5, <2>1 DEF Notify, pubRest, fixed, logVars
  <1>6. CASE DieUnnotified(g)
    BY <1>4, <1>6, <1>n DEF DieUnnotified, pubRest, fixed, logVars
  <1> QED BY <1>1, <1>2, <1>3, <1>5, <1>6 DEF PublisherStep

LEMMA CardsFirst ==
  ASSUME CardsInit
  PROVE  CardsInv
  <1>1. NoCall \in Call /\ NoCall.at = "idle"
    BY DEF NoCall, Call, Places, Kinds
  <1>2. call = [p \in Parents |-> NoCall] /\ \A p \in Parents : call[p] = NoCall
    BY DEF CardsInit
  <1>3. \A p \in Parents : Fine(call[p])
    BY <1>1, <1>2 DEF Fine, Owed, Routed, Saves
  <1>4. \A g \in Publishers : pub[g].at = "idle"
    BY DEF CardsInit, Idle
  <1>5. lines = << >> /\ acked = {} /\ open = FALSE /\ garbled = FALSE /\ card = [kind |-> "none", real |-> FALSE]
    BY DEF CardsInit
  <1>6. CardsTypeOK
    <2>1. pub \in [Publishers -> [at : {"idle", "shaped", "written"},
                                  event : Event \cup {Junk}, prefix : BOOLEAN]]
      BY DEF CardsInit, Idle
    <2>2. call \in [Parents -> Call]
      BY <1>1, <1>2
    <2>3. card \in Card
      BY <1>5 DEF Card, Kinds
    <2>4. [cast |-> cast, backend |-> backend, policy |-> policy, splits |-> splits] \in Setups
      <3>1. PICK u \in Setups : /\ cast = u.cast /\ backend = u.backend /\ policy = u.policy
                                /\ splits = u.splits
        BY DEF CardsInit
      <3>2. u = [cast |-> u.cast, backend |-> u.backend, policy |-> u.policy,
                 splits |-> u.splits]
        BY CardsAssumption
      <3> QED BY <3>1, <3>2
    <2>5. /\ sent \in 0..MaxEvents /\ starts \in 0..MaxStarts /\ faults \in 0..MaxFaults
          /\ {alias, board, fifo} \subseteq BOOLEAN
          /\ {overlap, crossed, early, unread} \subseteq BOOLEAN
      <3>1. 0 \in 0..MaxEvents /\ 0 \in 0..MaxStarts /\ 0 \in 0..MaxFaults
        BY CardsAssumption
      <3>2. sent = 0 /\ starts = 0 /\ faults = 0
        BY DEF CardsInit
      <3>3. alias = FALSE /\ board = FALSE /\ fifo = FALSE
            /\ overlap = FALSE /\ crossed = FALSE /\ early = FALSE /\ unread = FALSE
        BY DEF CardsInit
      <3> QED BY <3>1, <3>2, <3>3
    <2>6. /\ lines \in Seq(Event \cup {Junk}) /\ {open, garbled} \subseteq BOOLEAN
          /\ acked \subseteq Event
      <3>1. << >> \in Seq(Event \cup {Junk})
        OBVIOUS
      <3> QED BY <1>5, <3>1
    <2> QED BY <2>1, <2>2, <2>3, <2>4, <2>5, <2>6 DEF CardsTypeOK
  <1>7. Shaped /\ AckedStaysReadable /\ OneAtWork
    BY <1>1, <1>2, <1>4, <1>5 DEF Shaped, AckedStaysReadable, OneAtWork
  <1>8. Carded
    BY <1>4, <1>5 DEF Carded, Events
  <1> QED BY <1>3, <1>6, <1>7, <1>8 DEF CardsInv

LEMMA CardsStep ==
  ASSUME CardsInv, [CardsNext]_cardsVars
  PROVE  CardsInv'
  <1>1. CASE \E p \in Parents : StartCall(p) \/ ParentStep(p) \/ WakeByDeadline(p) \/ Crash(p)
    BY <1>1, ParentMoves
  <1>2. CASE \E g \in Publishers : PublisherStep(g)
    BY <1>2, PublisherMoves
  <1>3. CASE UNCHANGED cardsVars
    <2>1. /\ UNCHANGED <<cast, backend, policy, splits, lines, open, garbled, pub, sent, acked,
                         starts, overlap, crossed, early, unread, card, alias, board, fifo, call,
                         faults>>
      BY <1>3 DEF cardsVars, rest, most, fixed, logVars, pubVars, cardHistory
    <2>2. \A p \in Parents : Fine(call[p])'
      BY <2>1, CallsStayFine
    <2>3. CardsTypeOK' /\ Carded' /\ Shaped' /\ AckedStaysReadable' /\ OneAtWork'
      BY <2>1 DEF CardsInv, CardsTypeOK, Carded, Shaped, AckedStaysReadable, OneAtWork,
                  Events, Event, Junk, Call, Card, Text
    <2> QED BY <2>2, <2>3 DEF CardsInv
  <1> QED BY <1>1, <1>2, <1>3 DEF CardsNext

LEMMA CardsAlways == CardsSpec => []CardsInv
  BY CardsFirst, CardsStep, PTL DEF CardsSpec

\* Whatever parents and publishers do, fail or die, the card's state is of its types.
THEOREM CardsTypeCorrect == CardsSpec => []CardsTypeOK
  <1>1. CardsInv => CardsTypeOK
    BY DEF CardsInv
  <1> QED BY <1>1, CardsAlways, PTL

\* The events of a card whose publish returned are read by every later await, for any
\* publishers that interleave and die, but for payloads that hold a line separator, and
\* unless a line is cut inside a character, or after another publisher has looked at the
\* log's shape, or that shape cannot be read.
THEOREM AckedEventsStay == CardsSpec => []AckedStaysReadable
  <1>1. CardsInv => AckedStaysReadable
    BY DEF CardsInv
  <1> QED BY <1>1, CardsAlways, PTL

\* A parent that awaits a card of the real board is found by the task's own events,
\* for any crashes, failing writes and reattachments, if the card had a record before
\* its first outcome and no read of it failed.
THEOREM AwaitsAreRoutable == CardsSpec => []AwaitedIsRoutable
  <1>1. CardsInv => AwaitedIsRoutable
    BY DEF CardsInv, Fine, Routed, AwaitedIsRoutable
  <1> QED BY <1>1, CardsAlways, PTL

\* The record of a terminal outcome is not replaced by a lesser one, for any number of
\* parents that come one after the other and whose reads of it do not fail.
THEOREM TerminalsStand == CardsSpec => TerminalStands
  <1>1. ASSUME CardsInv, [CardsNext]_cardsVars, card.kind \in Terminal, ~overlap, ~unread
        PROVE  card'.kind \in Terminal
    <2>1. ASSUME NEW p \in Parents, Replace(p) PROVE card'.kind \in Terminal
      BY <1>1, <2>1 DEF CardsInv, Fine, Saves, Protects, Replace
    <2>2. ASSUME NEW p \in Parents, ParentStep(p), ~Replace(p) PROVE card' = card
      BY <2>2 DEF ParentStep, Look, Reattach, Create, CreateFails, Decide, ReplaceFails,
           RecordAlias, RecordAliasFails, Serve, Subscribe, Read, ReadNothing, TimeOut,
           Sleep, WakeByByte, Drain, Judge, LookInVain, ReattachInVain, DecideInVain,
           ServeRecord, SubscribeInVain, ReadInVain, Undecodable
    <2>3. ASSUME NEW p \in Parents, StartCall(p) \/ WakeByDeadline(p) \/ Crash(p)
          PROVE  card' = card
      BY <2>3 DEF StartCall, WakeByDeadline, Crash
    <2>4. ASSUME NEW g \in Publishers, PublisherStep(g) PROVE card' = card
      BY <2>4 DEF PublisherStep, Shape, AppendEvent, CutShort, Notify, DieUnnotified, pubRest
    <2>5. CASE UNCHANGED cardsVars
      BY <1>1, <2>5 DEF cardsVars
    <2> QED BY <1>1, <2>1, <2>2, <2>3, <2>4, <2>5 DEF CardsNext
  <1>2. CardsInv /\ [CardsNext]_cardsVars
          => [card.kind \in Terminal /\ ~overlap /\ ~unread => card'.kind \in Terminal]_cardsVars
    BY <1>1
  <1> QED BY <1>2, CardsAlways, PTL DEF CardsSpec, TerminalStands

\* No await ends in a timeout or a suspension that had an acceptable outcome in the log
\* when it began, or when its last wait ended, and could read it.
THEOREM TimeoutsAreTrue == CardsSpec => TimeoutIsTrue
  <1>1. ASSUME CardsInv, NEW p \in Parents, TimeOut(p), ~crossed
        PROVE  ~call[p].owed
    BY <1>1 DEF CardsInv, Fine, Owed, TimeOut
  <1>2. CardsInv /\ [CardsNext]_cardsVars
          => [\A p \in Parents : (TimeOut(p) /\ ~crossed) => ~call[p].owed]_cardsVars
    BY <1>1
  <1> QED BY <1>2, CardsAlways, PTL DEF CardsSpec, TimeoutIsTrue
===============================================================================
