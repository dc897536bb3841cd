----------------------- MODULE CapabilityBrokerProofs -----------------------
(***************************************************************************)
(* The broker's limits and the views of its children, for any script, limits, *)
(* costs and faults.                                                         *)
(***************************************************************************)
EXTENDS CapabilityBroker, FiniteSetTheorems, SequenceTheorems, WellFoundedInduction, TLAPS

-----------------------------------------------------------------------------
(* The invariant. *)

\* A call is made when the rounds before its own have their answers.
Rounds ==
  \A c, d \in Calls : stage[d] # "new" /\ c[1] < d[1] => stage[c] = "replied"

\* What was launched for a call, and the calls that launch.
Launching == {c \in Calls : Kind(c) \in {"agent", "prompt", "start"}}
Launched ==
  /\ \A c \in children : c \in Launching /\ stage[c] # "new"
  /\ \A c \in Launching : stage[c] = "running" => c \in children

\* What a child may have said: only one that is done has a cost.
Word(a) ==
  /\ a.code = "ok" /\ a.state \in {"pending", "done", "cancelled"}
  /\ a.cost <= MaxCost /\ (a.state # "done" => a.cost = 0)

Words == \A h \in Calls : child[h] # NoAnswer => Word(child[h])

\* A record is that of a start that ran and whose child exists.
Handled ==
  \A h \in Calls : handles[h] # NoAnswer =>
    /\ Kind(h) = "start" /\ stage[h] \in {"ran", "replied"} /\ h \in children
    /\ Word(handles[h]) /\ child[h] # NoAnswer

\* Only a handle that has a record is asked about.
Asked ==
  \A c \in Calls :
    /\ stage[c] = "polled" => Kind(c) \in Async /\ Word(answer[c])
    /\ stage[c] \in {"running", "polled", "ran"} /\ Kind(c) \in Async => handles[Of(c)] # NoAnswer

\* What a prompt cost is what its child reported.
Priced ==
  /\ \A c \in Calls : stage[c] = "ran" /\ Kind(c) = "prompt" => answer[c].cost <= MaxCost
  /\ run = 1 => \A e \in memo : e.cost <= MaxCost

\* The entries of polls and cancellations that told how a child is.
Views == {e \in cache : Kind(e.id) \in Async /\ e.answer.code = "ok"}

\* The failures that are still buffered are no views, and a replay has none.
Failures ==
  /\ \A e \in buffer : e.answer.code # "ok"
  /\ run = 2 => buffer = {}

\* A replay that lost no line of its run.
Kept == run = 1 \/ "unrecorded" \notin setup.faults

\* A view that the script was told is what the record says or what was recorded.
Sourced ==
  Kept => \A c \in Calls : Kind(c) \in Async /\ stage[c] = "replied" /\ answer[c].code = "ok" =>
    IF handles[Of(c)] = NoAnswer THEN run = 2 /\ [id |-> c, answer |-> answer[c]] \in cache
    ELSE answer[c].state \in Terminal => handles[Of(c)] = answer[c]

\* What the recording run has written is what its script was told.
Written == run = 1 => \A e \in Views : stage[e.id] = "replied" /\ answer[e.id] = e.answer

\* Where no line is lost a start whose child was looked at has its entry.
HasEntry(h) == \E e \in cache : e.id = h
Kin ==
  "unrecorded" \notin setup.faults =>
    /\ run = 1 => \A h \in Calls : handles[h] # NoAnswer /\ stage[h] = "replied" => HasEntry(h)
    /\ \A e \in Views : HasEntry(Of(e.id))

\* A replay starts no child whose start it can answer.
Anew ==
  run = 2 => \A h \in Calls :
    /\ handles[h] # NoAnswer => ~HasEntry(h)
    /\ Kind(h) = "start" /\ stage[h] = "running" => ~HasEntry(h)

\* Two entries about one child agree as two answers do.
Alike(c, x, d, y) ==
  Of(c) = Of(d) /\ x.state \in Terminal /\ (y.state \in Terminal \/ c[1] < d[1]) => x = y

EntriesAgree == Kept => \A e, f \in Views : Alike(e.id, e.answer, f.id, f.answer)

-----------------------------------------------------------------------------
(* The script does not change. *)

LEMMA Elements ==
  ASSUME NEW T, NEW q \in Seq(T)
  PROVE  Len(q) \in Nat /\ DOMAIN q = 1..Len(q) /\ \A k \in DOMAIN q : q[k] \in T
  OBVIOUS

LEMMA Places ==
  ASSUME setup \in Setups, NEW c \in Calls
  PROVE  /\ c = <<c[1], c[2]>>
         /\ c[1] \in DOMAIN Script /\ c[2] \in DOMAIN Script[c[1]]
         /\ c[1] \in Nat /\ c[2] \in 1..Len(Script[c[1]])
         /\ Len(Script[c[1]]) \in Nat
         /\ Kind(c) \in Kinds /\ Of(c) \in Nat \X Nat
  <1>1. PICK r \in DOMAIN Script : \E k \in DOMAIN Script[r] : c = <<r, k>>
    BY DEF Calls
  <1>2. Script \in Seq(Seq([kind : Kinds, of : Nat \X Nat]))
    BY BrokerAssumption DEF BrokerAssumption, Script
  <1>3. Script[r] \in Seq([kind : Kinds, of : Nat \X Nat]) /\ r \in Nat
    BY <1>2
  <1>4. c[1] = r /\ c[2] \in DOMAIN Script[r] /\ c = <<c[1], c[2]>>
    BY <1>1
  <1> DEFINE round == Script[r]
  <1>5. /\ Len(round) \in Nat /\ DOMAIN round = 1..Len(round)
        /\ \A k \in DOMAIN round : round[k] \in [kind : Kinds, of : Nat \X Nat]
    BY <1>3, Elements
  <1>6. c[1] \in DOMAIN Script /\ c[1] \in Nat /\ c[2] \in 1..Len(Script[c[1]])
    BY <1>3, <1>4, <1>5
  <1>7. Script[c[1]][c[2]] \in [kind : Kinds, of : Nat \X Nat]
    BY <1>4, <1>5
  <1>8. Kind(c) \in Kinds /\ Of(c) \in Nat \X Nat
    BY <1>7 DEF Kind, Of
  <1> QED BY <1>4, <1>5, <1>6, <1>8

\* A handle is that of an agent_start of an earlier round.
LEMMA Handle ==
  ASSUME setup \in Setups, NEW c \in Calls, Kind(c) \in Async
  PROVE  Of(c) \in Calls /\ Kind(Of(c)) = "start" /\ Of(c)[1] < c[1]
  <1> DEFINE h == Of(c)
  <1>1. c[1] \in DOMAIN Script /\ c[2] \in DOMAIN Script[c[1]]
    BY Places
  <1>a. \A r \in DOMAIN Script : \A k \in DOMAIN Script[r] :
          Script[r][k].kind \in Async =>
            /\ Script[r][k].of[1] \in DOMAIN Script /\ Script[r][k].of[1] < r
            /\ Script[r][k].of[2] \in DOMAIN Script[Script[r][k].of[1]]
            /\ Script[Script[r][k].of[1]][Script[r][k].of[2]].kind = "start"
    BY BrokerAssumption DEF BrokerAssumption, Script, Async
  <1>2. /\ h[1] \in DOMAIN Script /\ h[1] < c[1] /\ h[2] \in DOMAIN Script[h[1]]
        /\ Script[h[1]][h[2]].kind = "start"
    BY <1>1, <1>a DEF Kind, Of
  <1>3. h = <<h[1], h[2]>>
    BY Places
  <1>4. h \in Calls
    BY <1>2, <1>3 DEF Calls
  <1> QED BY <1>2, <1>4 DEF Kind

LEMMA Static ==
  ASSUME [Next]_vars
  PROVE  /\ setup' = setup /\ Calls' = Calls /\ Script' = Script
         /\ \A c : Kind(c)' = Kind(c) /\ Of(c)' = Of(c)
  <1>1. setup' = setup
    <2>1. ASSUME NEW c \in Calls, Broker(c) \/ ChildDone(c) PROVE setup' = setup
      BY <2>1 DEF Broker, PromptHit, ReplayHit, OverBudget, UnknownType, Admit, Return, BadSchema,
                  Raise, Start, Known, AskRunner, Apply, Persist, ChildDone
    <2>2. End \/ Replay \/ UNCHANGED vars => setup' = setup
      BY DEF End, Replay, vars
    <2> QED BY <2>1, <2>2 DEF Next
  <1> QED BY <1>1 DEF Calls, Script, Kind, Of

\* The largest cost there is.
LEMMA Largest ==
  /\ MaxCost \in Nat /\ MaxCost \in Costs
  /\ \A n \in Costs : n \in Nat /\ n <= MaxCost
  <1>1. PICK m \in Costs : \A n \in Costs : m >= n
    BY BrokerAssumption DEF BrokerAssumption
  <1>2. Costs \subseteq Nat
    BY BrokerAssumption DEF BrokerAssumption
  <1>3. MaxCost = CHOOSE x \in Costs : \A y \in Costs : x >= y
    BY DEF MaxCost, Max
  <1>4. MaxCost \in Costs /\ \A n \in Costs : MaxCost >= n
    BY <1>1, <1>3
  <1> QED BY <1>2, <1>4

-----------------------------------------------------------------------------
(* Type correctness. *)

Typed == setup \in Setups /\ TypeOK

LEMMA Answers ==
  /\ NoAnswer \in AnswerType /\ NoAnswer.code = "" /\ NoAnswer.state = "" /\ NoAnswer.cost = 0
  /\ \A code \in {"limit_agent", "limit_token", "runner_error", "schema", "result_too_large",
                  "unknown_handle", "unknown_agent_type"} :
       Denied(code) \in AnswerType /\ Denied(code).code = code /\ Denied(code).state = ""
         /\ Denied(code).cost = 0
  /\ \A cost \in Nat : Ok(cost) \in AnswerType /\ Ok(cost).code = "ok" /\ Ok(cost).cost = cost
                         /\ Ok(cost).state = ""
  /\ \A state \in {"pending"} \cup Terminal : \A cost \in Nat :
       /\ Answer("ok", state, cost) \in AnswerType /\ Answer("ok", state, cost).code = "ok"
       /\ Answer("ok", state, cost).state = state /\ Answer("ok", state, cost).cost = cost
  BY DEF NoAnswer, Denied, Ok, Answer, AnswerType, Terminal

CallsTyped ==
  /\ stage \in [Calls -> {"new", "running", "polled", "ran", "replied"}]
  /\ tries \in [Calls -> Nat] /\ answer \in [Calls -> AnswerType]

LEMMA Replied ==
  ASSUME CallsTyped, Calls' = Calls, NEW c \in Calls, NEW a \in AnswerType, Reply(c, a)
  PROVE  CallsTyped'
  BY DEF CallsTyped, Reply

LEMMA InitTyped == Init => Typed
  <1> SUFFICES ASSUME Init PROVE Typed
    OBVIOUS
  <1>1. CallsTyped
    BY Answers DEF Init, NoAnswers, CallsTyped
  <1>2. handles \in [Calls -> AnswerType] /\ child \in [Calls -> AnswerType]
    BY Answers DEF Init, NoAnswers
  <1>3. /\ setup \in Setups /\ run \in 1..2
        /\ agents \in Nat /\ tokens \in Nat /\ spent \in Nat
    BY DEF Init
  <1>b. over \in BOOLEAN /\ abort \in BOOLEAN
    BY Zenon DEF Init
  <1>4. /\ memo \cup prompts = {} /\ buffer \cup cache = {}
        /\ children \subseteq Calls /\ credited \subseteq Calls
    BY DEF Init
  <1>5. /\ memo \cup prompts \subseteq [of : Nat \X Nat, cost : Nat]
        /\ buffer \cup cache \subseteq [id : Calls, answer : AnswerType]
    BY <1>4
  <1> QED BY <1>1, <1>2, <1>3, <1>b, <1>4, <1>5 DEF CallsTyped, Typed, TypeOK

LEMMA StepTyped == Typed /\ [Next]_vars => Typed'
  <1> SUFFICES ASSUME Typed, [Next]_vars PROVE Typed'
    OBVIOUS
  <1>s. setup' = setup /\ Calls' = Calls
    BY Static
  <1>h. \A c \in Calls : Kind(c) \in Async => Of(c) \in Calls
    BY Handle DEF Typed
  <1>o. \A c \in Calls : Of(c) \in Nat \X Nat
    BY Places DEF Typed
  <1>c. CallsTyped
    BY DEF Typed, TypeOK, CallsTyped
  <1>1. ASSUME NEW c \in Calls, PromptHit(c) PROVE Typed'
    <2>1. PICK e \in Remembered(c) :
            /\ agents' = agents + 1
            /\ \/ Reply(c, Denied("limit_agent")) /\ UNCHANGED tokens
               \/ Reply(c, Ok(e.cost)) /\ tokens' = tokens + e.cost
      BY <1>1 DEF PromptHit
    <2>2. e.cost \in Nat
      BY DEF Remembered, Typed, TypeOK
    <2>3. CallsTyped'
      BY <1>s, <1>c, <2>1, <2>2, Answers, Replied
    <2>4. UNCHANGED <<setup, run, over, abort, memory, disk, child, history>>
      BY <1>1 DEF PromptHit
    <2>5. agents' \in Nat /\ tokens' \in Nat
      BY <2>1, <2>2 DEF Typed, TypeOK
    <2> QED BY <1>s, <2>3, <2>4, <2>5 DEF CallsTyped, Typed, TypeOK, memory, disk, history
  <1>2. ASSUME NEW c \in Calls, ReplayHit(c) PROVE Typed'
    <2>1. PICK e \in Entries(c) :
            /\ agents' = agents + (IF Kind(c) \in Async THEN 0 ELSE 1)
            /\ tokens' = tokens + Credit(c, e.answer)
            /\ credited' = IF Kind(c) \in Async /\ e.answer.state = "done"
                           THEN credited \cup {Of(c)} ELSE credited
            /\ Reply(c, e.answer)
      BY <1>2 DEF ReplayHit
    <2>2. e.answer \in AnswerType /\ e.answer.cost \in Nat
      BY DEF Entries, Typed, TypeOK, AnswerType
    <2>3. Credit(c, e.answer) \in Nat
      BY <2>2 DEF Credit
    <2>4. credited' \subseteq Calls
      BY <2>1, <1>h DEF Typed, TypeOK
    <2> QED BY <1>2, <1>s, <2>1, <2>2, <2>3, <2>4
            DEF ReplayHit, Typed, TypeOK, Reply, disk, history
  <1>3. ASSUME NEW c \in Calls, OverBudget(c) PROVE Typed'
    BY <1>3, <1>s, Answers DEF OverBudget, Typed, TypeOK, Reply, memory, disk, history
  <1>4. ASSUME NEW c \in Calls, UnknownType(c) PROVE Typed'
    <2>1. answer'[c] \in AnswerType
      BY <1>4, Answers DEF UnknownType, Reply, Typed, TypeOK
    <2>2. buffer' \subseteq [id : Calls, answer : AnswerType]
      BY <1>4, <2>1 DEF UnknownType, Typed, TypeOK
    <2> QED BY <1>4, <1>s, <2>2, Answers
            DEF UnknownType, Typed, TypeOK, Reply, counters, disk, history
  <1>5. ASSUME NEW c \in Calls, Admit(c) PROVE Typed'
    <2>1. CallsTyped'
      <3>1. CASE WithinCap
        BY <1>5, <1>s, <1>c, <3>1 DEF Admit, CallsTyped
      <3>2. CASE ~WithinCap
        BY <1>5, <1>s, <1>c, <3>2, Answers, Replied DEF Admit
      <3> QED BY <3>1, <3>2
    <2>2. children' \subseteq Calls /\ agents' \in Nat
      BY <1>5 DEF Admit, Typed, TypeOK
    <2>3. UNCHANGED <<setup, run, over, tokens, abort, memory, disk, child, spent, ended>>
      BY <1>5 DEF Admit
    <2> QED BY <1>s, <2>1, <2>2, <2>3 DEF CallsTyped, Typed, TypeOK, memory, disk
  <1>6. ASSUME NEW c \in Calls, Return(c) PROVE Typed'
    <2>1. PICK cost \in Costs :
       /\ tokens' = tokens + cost
       /\ spent' = spent + cost
       /\ \/ /\ stage' = [stage EXCEPT ![c] = "ran"]
             /\ answer' = [answer EXCEPT ![c] = Ok(cost)]
             /\ UNCHANGED tries
          \/ Reply(c, Denied("result_too_large"))
      BY <1>6 DEF Return
    <2>2. cost \in Nat
      BY Largest
    <2>3. CallsTyped'
      <3>1. CASE Reply(c, Denied("result_too_large"))
        BY <1>s, <1>c, <3>1, Answers, Replied
      <3>2. CASE ~Reply(c, Denied("result_too_large"))
        <4>1. Ok(cost) \in AnswerType
          BY <2>2, Answers
        <4> QED BY <1>s, <1>c, <2>1, <3>2, <4>1 DEF CallsTyped
      <3> QED BY <3>1, <3>2
    <2>4. tokens' \in Nat /\ spent' \in Nat
      BY <2>1, <2>2 DEF Typed, TypeOK
    <2>5. UNCHANGED <<setup, run, over, agents, abort, memory, disk, child, children, ended>>
      BY <1>6 DEF Return
    <2> QED BY <1>s, <2>3, <2>4, <2>5 DEF CallsTyped, Typed, TypeOK, memory, disk
  <1>7. ASSUME NEW c \in Calls, BadSchema(c) PROVE Typed'
    <2>1. spent' \in Nat
      BY <1>7, Largest DEF BadSchema, Typed, TypeOK
    <2>2. CallsTyped'
      <3>1. CASE Kind(c) = "prompt" /\ tries[c] < setup.retries
        BY <1>7, <1>s, <1>c, <3>1 DEF BadSchema, CallsTyped
      <3>2. CASE ~(Kind(c) = "prompt" /\ tries[c] < setup.retries)
        BY <1>7, <1>s, <1>c, <3>2, Answers, Replied DEF BadSchema
      <3> QED BY <3>1, <3>2
    <2>3. UNCHANGED <<setup, run, over, counters, memory, disk, child, children, ended>>
      BY <1>7 DEF BadSchema
    <2> QED BY <1>s, <2>1, <2>2, <2>3 DEF CallsTyped, Typed, TypeOK, counters, memory, disk
  <1>8. ASSUME NEW c \in Calls, Raise(c) PROVE Typed'
    <2>1. answer'[c] \in AnswerType
      BY <1>8, Answers DEF Raise, Reply, Typed, TypeOK
    <2>2. buffer' \subseteq [id : Calls, answer : AnswerType]
      BY <1>8, <2>1 DEF Raise, Typed, TypeOK
    <2> QED BY <1>8, <1>s, <2>2, Answers
            DEF Raise, Typed, TypeOK, Reply, counters, disk, history
  <1>9. ASSUME NEW c \in Calls, Start(c) PROVE Typed'
    <2>1. Answer("ok", "pending", 0) \in AnswerType
      BY DEF Answer, AnswerType
    <2>2. handles' \in [Calls -> AnswerType] /\ child' \in [Calls -> AnswerType]
      BY <1>9, <2>1 DEF Start, Typed, TypeOK
    <2>3. CallsTyped'
      BY <1>9, <1>s, <1>c, <2>1 DEF Start, CallsTyped
    <2>4. UNCHANGED <<setup, run, over, counters, memo, credited, buffer, disk, tries, history>>
      BY <1>9 DEF Start
    <2> QED BY <1>s, <2>2, <2>3, <2>4 DEF CallsTyped, Typed, TypeOK, counters, disk, history
  <1>10. ASSUME NEW c \in Calls, Known(c) PROVE Typed'
    <2>1. CallsTyped'
      <3>1. CASE handles[Of(c)] = NoAnswer
        BY <1>10, <1>s, <1>c, <3>1, Answers, Replied DEF Known
      <3>2. CASE handles[Of(c)] # NoAnswer
        BY <1>10, <1>s, <1>c, <3>2 DEF Known, CallsTyped
      <3> QED BY <3>1, <3>2
    <2>2. UNCHANGED <<setup, run, over, counters, memory, disk, child, history>>
      BY <1>10 DEF Known
    <2> QED BY <1>s, <2>1, <2>2 DEF CallsTyped, Typed, TypeOK, counters, memory, disk, history
  <1>11. ASSUME NEW c \in Calls, AskRunner(c) PROVE Typed'
    <2>1. PICK a : /\ a = Answer("ok", "cancelled", 0) \/ a = child[Of(c)]
                   /\ answer' = [answer EXCEPT ![c] = a]
                   /\ child' = IF child[Of(c)].state = "pending"
                               THEN [child EXCEPT ![Of(c)] = a] ELSE child
      BY <1>11 DEF AskRunner
    <2>2. Of(c) \in Calls
      BY <1>11, <1>h DEF AskRunner
    <2>3. a \in AnswerType
      <3>1. Answer("ok", "cancelled", 0) \in AnswerType
        BY DEF Answer, AnswerType, Terminal
      <3>2. child[Of(c)] \in AnswerType
        BY <2>2 DEF Typed, TypeOK
      <3> QED BY <2>1, <3>1, <3>2
    <2>4. child' \in [Calls -> AnswerType]
      BY <2>1, <2>2, <2>3 DEF Typed, TypeOK
    <2>5. CallsTyped'
      BY <1>11, <1>s, <1>c, <2>1, <2>3 DEF AskRunner, CallsTyped
    <2>6. UNCHANGED <<setup, run, over, counters, memory, disk, tries, history>>
      BY <1>11 DEF AskRunner
    <2> QED BY <1>s, <2>4, <2>5, <2>6
            DEF CallsTyped, Typed, TypeOK, counters, memory, disk, history
  <1>12. ASSUME NEW c \in Calls, Apply(c) PROVE Typed'
    <2>1. answer[c] \in AnswerType /\ answer[c].cost \in Nat
      BY DEF Typed, TypeOK, AnswerType
    <2> QED BY <1>12, <1>s, <2>1 DEF Apply, Typed, TypeOK, disk, history
  <1>13. ASSUME NEW c \in Calls, Persist(c) PROVE Typed'
    <2>1. View(c) \in AnswerType /\ View(c).cost \in Nat
      BY <1>h DEF View, Typed, TypeOK, AnswerType
    <2>2. /\ [of |-> Of(c), cost |-> View(c).cost] \in [of : Nat \X Nat, cost : Nat]
          /\ [id |-> c, answer |-> View(c)] \in [id : Calls, answer : AnswerType]
      BY <1>o, <2>1
    <2>3. memo' \cup prompts' \subseteq [of : Nat \X Nat, cost : Nat]
      BY <1>13, <2>2 DEF Persist, Typed, TypeOK, disk
    <2>4. buffer' \cup cache' \subseteq [id : Calls, answer : AnswerType]
      BY <1>13, <2>2 DEF Persist, Typed, TypeOK, disk
    <2>5. /\ stage' \in [Calls -> {"new", "running", "polled", "ran", "replied"}]
          /\ answer' \in [Calls -> AnswerType] /\ tries' = tries
      BY <1>13, <2>1 DEF Persist, Reply, Typed, TypeOK
    <2>6. UNCHANGED <<run, over, abort, agents, tokens, spent, handles, child, children, credited>>
      BY <1>13 DEF Persist, counters, history
    <2> QED BY <1>s, <2>3, <2>4, <2>5, <2>6 DEF Typed, TypeOK
  <1>14. ASSUME NEW c \in Calls, ChildDone(c) PROVE Typed'
    <2>1. PICK cost \in Costs : /\ child' = [child EXCEPT ![c] = Answer("ok", "done", cost)]
                                /\ spent' = spent + cost
      BY <1>14 DEF ChildDone
    <2>2. cost \in Nat /\ Answer("ok", "done", cost) \in AnswerType
      BY Largest, Answers DEF Terminal
    <2> QED BY <1>14, <1>s, <2>1, <2>2
            DEF ChildDone, Typed, TypeOK, counters, memory, disk, calls
  <1>15. End => Typed'
    BY <1>s DEF End, Typed, TypeOK, counters, memory, calls
  <1>16. Replay => Typed'
    <2> SUFFICES ASSUME Replay PROVE Typed'
      OBVIOUS
    <2>1. /\ run' \in 1..2 /\ agents' \in Nat /\ tokens' \in Nat /\ spent' \in Nat
          /\ UNCHANGED <<child, cache, prompts>>
          /\ memo' = {} /\ credited' = {} /\ buffer' = {} /\ children' = {}
      BY DEF Replay, disk
    <2>b. over' \in BOOLEAN /\ abort' \in BOOLEAN
      BY Zenon DEF Replay
    <2>2. CallsTyped'
      BY <1>s, Answers DEF Replay, NoAnswers, CallsTyped
    <2>3. handles' \in [Calls' -> AnswerType]
      BY <1>s, Answers DEF Replay, NoAnswers
    <2> QED BY <1>s, <2>1, <2>b, <2>2, <2>3 DEF CallsTyped, Typed, TypeOK
  <1>17. UNCHANGED vars => Typed'
    BY <1>s DEF vars, Typed, TypeOK, counters, memory, disk, calls, history
  <1> QED BY <1>1, <1>2, <1>3, <1>4, <1>5, <1>6, <1>7, <1>8, <1>9, <1>10, <1>11, <1>12, <1>13,
             <1>14, <1>15, <1>16, <1>17 DEF Next, Broker

\* The counters, the records and the caches are of their types.
THEOREM TypeCorrect == Spec => []TypeOK
  <1>1. Typed => TypeOK
    BY DEF Typed
  <1> QED BY InitTyped, StepTyped, <1>1, PTL DEF Spec

-----------------------------------------------------------------------------
(* Rounds. *)

\* A call moves on from where it is, and never back to being new.
Moves(c) ==
  /\ stage[c] # "replied" /\ (stage[c] = "new" => Sent(c))
  /\ \E s \in {"running", "polled", "ran", "replied"} : stage' = [stage EXCEPT ![c] = s]

LEMMA OneMoves ==
  ASSUME Typed, [Next]_vars, ~Replay
  PROVE  stage' = stage \/ \E c \in Calls : Moves(c)
  <1>1. ASSUME NEW c \in Calls, Broker(c) PROVE stage' = stage \/ Moves(c)
    <2>1. CASE PromptHit(c) \/ ReplayHit(c) \/ OverBudget(c) \/ UnknownType(c)
      BY <2>1 DEF PromptHit, ReplayHit, OverBudget, UnknownType, Miss, Sent, Reply, Moves
    <2>2. CASE Admit(c)
      BY <2>2 DEF Admit, Miss, Sent, Reply, Moves
    <2>3. CASE Return(c) \/ BadSchema(c) \/ Raise(c)
      BY <2>3 DEF Return, BadSchema, Raise, Blocking, Reply, Moves
    <2>4. CASE Start(c) \/ AskRunner(c) \/ Apply(c) \/ Persist(c)
      BY <2>4 DEF Start, AskRunner, Apply, Persist, Reply, Moves
    <2>5. CASE Known(c)
      BY <2>5 DEF Known, Miss, Sent, Reply, Moves
    <2> QED BY <1>1, <2>1, <2>2, <2>3, <2>4, <2>5 DEF Broker
  <1>2. ASSUME NEW c \in Calls, ChildDone(c) PROVE stage' = stage
    BY <1>2 DEF ChildDone, calls
  <1>3. End \/ UNCHANGED vars => stage' = stage
    BY DEF End, vars, calls
  <1> QED BY <1>1, <1>2, <1>3 DEF Next

LEMMA StepRounds == Typed /\ Rounds /\ [Next]_vars => Rounds'
  <1> SUFFICES ASSUME Typed, Rounds, [Next]_vars PROVE Rounds'
    OBVIOUS
  <1>1. CASE Replay
    BY <1>1, Static DEF Replay, Rounds
  <1>2. CASE stage' = stage
    BY <1>2, Static DEF Rounds
  <1>3. ASSUME NEW m \in Calls, Moves(m) PROVE Rounds'
    <2>1. stage \in [Calls -> {"new", "running", "polled", "ran", "replied"}]
      BY DEF Typed, TypeOK
    <2>2. \A c \in Calls : c # m => stage'[c] = stage[c]
      BY <1>3, <2>1 DEF Moves
    <2>3. \A c \in Calls : c[1] < m[1] => stage[c] = "replied"
      BY <1>3 DEF Moves, Sent, Rounds
    <2>4. \A c \in Calls : c[1] < m[1] => c # m
      BY Places DEF Typed
    <2>5. \A c, d \in Calls : stage'[d] # "new" /\ c[1] < d[1] => stage'[c] = "replied"
      BY <1>3, <2>2, <2>3, <2>4 DEF Moves, Rounds
    <2> QED BY <2>5, Static DEF Rounds
  <1> QED BY <1>1, <1>2, <1>3, OneMoves

-----------------------------------------------------------------------------
(* The children of a run. *)

LEMMA Sorts ==
  ASSUME setup \in Setups, NEW c \in Calls
  PROVE  /\ Kind(c) \in {"agent", "prompt", "typed", "start", "check", "cancel"}
         /\ c \in Launching => Kind(c) \notin Async
  BY Places DEF Kinds, Launching, Async

LEMMA StepLaunched == Typed /\ Launched /\ [Next]_vars => Launched'
  <1> SUFFICES ASSUME Typed, Launched, [Next]_vars PROVE Launched'
    OBVIOUS
  <1>s. Launching' = Launching /\ Calls' = Calls
    BY Static DEF Launching
  <1>t. stage \in [Calls -> {"new", "running", "polled", "ran", "replied"}]
    BY DEF Typed, TypeOK
  <1>1. CASE Replay
    BY <1>1, <1>s DEF Replay, Launched, Launching
  <1>2. ASSUME NEW c \in Calls, Admit(c) PROVE Launched'
    <2>1. c \in Launching
      BY <1>2 DEF Admit, Launching
    <2>2. CASE WithinCap
      BY <1>2, <1>s, <1>t, <2>1, <2>2 DEF Admit, Launched, Launching
    <2>3. CASE ~WithinCap
      BY <1>2, <1>s, <1>t, <2>1, <2>3 DEF Admit, Launched, Launching, Reply
    <2> QED BY <2>2, <2>3
  <1>3. UNCHANGED <<children, stage>> => Launched'
    BY <1>s DEF Launched, Launching
  <1>4. ASSUME NEW c \in Calls,
               \/ PromptHit(c) \/ ReplayHit(c) \/ OverBudget(c) \/ UnknownType(c) \/ Return(c)
               \/ BadSchema(c) \/ Raise(c) \/ Start(c) \/ AskRunner(c) \/ Apply(c) \/ Persist(c)
        PROVE  Launched'
    <2>1. children' = children
      BY <1>4 DEF PromptHit, ReplayHit, OverBudget, UnknownType, Return, BadSchema, Raise, Start,
                  AskRunner, Apply, Persist, history
    <2>2. \/ stage' = [stage EXCEPT ![c] = "polled"] \/ stage' = [stage EXCEPT ![c] = "ran"]
          \/ stage' = [stage EXCEPT ![c] = "replied"] \/ stage' = stage
      BY <1>4 DEF PromptHit, ReplayHit, OverBudget, UnknownType, Return, BadSchema, Raise, Start,
                  AskRunner, Apply, Persist, Reply
    <2> QED BY <1>s, <1>t, <2>1, <2>2 DEF Launched, Launching
  <1>5. ASSUME NEW c \in Calls, Known(c) PROVE Launched'
    <2>1. children' = children /\ c \notin Launching
      BY <1>5, Sorts DEF Known, history, Typed
    <2>2. \E s \in {"running", "ran", "replied"} : stage' = [stage EXCEPT ![c] = s]
      BY <1>5 DEF Known, Reply
    <2> QED BY <1>s, <1>t, <2>1, <2>2 DEF Launched, Launching
  <1>6. ASSUME NEW c \in Calls, ChildDone(c) PROVE Launched'
    BY <1>6, <1>3 DEF ChildDone, calls
  <1>7. End \/ UNCHANGED vars => Launched'
    BY <1>3 DEF End, vars, calls, history
  <1> QED BY <1>1, <1>2, <1>4, <1>5, <1>6, <1>7 DEF Next, Broker

-----------------------------------------------------------------------------
(* What the children say and what is kept of it. *)

LEMMA Saying ==
  /\ Word(Answer("ok", "pending", 0)) /\ Word(Answer("ok", "cancelled", 0))
  /\ \A cost \in Costs : Word(Answer("ok", "done", cost))
  /\ ~Word(NoAnswer) /\ Answer("ok", "pending", 0) # NoAnswer
  <1>1. MaxCost \in Nat /\ 0 <= MaxCost /\ \A cost \in Costs : cost <= MaxCost
    BY Largest
  <1>2. Word(Answer("ok", "pending", 0)) /\ Word(Answer("ok", "cancelled", 0))
    BY <1>1 DEF Word, Answer
  <1>3. \A cost \in Costs : Word(Answer("ok", "done", cost))
    BY <1>1 DEF Word, Answer
  <1>4. NoAnswer.code # "ok" /\ Answer("ok", "pending", 0).code = "ok"
    BY DEF Answer, NoAnswer
  <1> QED BY <1>2, <1>3, <1>4 DEF Word

LEMMA InitWords == Init => Words
  BY DEF Init, NoAnswers, Words

\* Who changes what the children are.
LEMMA ChildrenChange ==
  ASSUME [Next]_vars
  PROVE  child' = child \/ \E c \in Calls : Start(c) \/ AskRunner(c) \/ ChildDone(c)
  <1>1. ASSUME NEW c \in Calls, Broker(c), ~Start(c), ~AskRunner(c) PROVE child' = child
    BY <1>1 DEF Broker, PromptHit, ReplayHit, OverBudget, UnknownType, Admit, Return, BadSchema,
                Raise, Known, Apply, Persist
  <1>2. End \/ Replay \/ UNCHANGED vars => child' = child
    BY DEF End, Replay, vars
  <1> QED BY <1>1, <1>2 DEF Next

LEMMA StepWords == Typed /\ Words /\ [Next]_vars => Words'
  <1> SUFFICES ASSUME Typed, Words, [Next]_vars PROVE Words'
    OBVIOUS
  <1>s. Calls' = Calls
    BY Static
  <1>t. child \in [Calls -> AnswerType]
    BY DEF Typed, TypeOK
  <1>1. CASE child' = child
    BY <1>1, <1>s DEF Words
  <1>2. ASSUME NEW c \in Calls, Start(c) PROVE Words'
    BY <1>2, <1>s, <1>t, Saying DEF Start, Words
  <1>3. ASSUME NEW c \in Calls, AskRunner(c) PROVE Words'
    <2>1. \/ child' = child
          \/ \E a \in {child[Of(c)], Answer("ok", "cancelled", 0)} :
               child[Of(c)].state = "pending" /\ child' = [child EXCEPT ![Of(c)] = a]
      BY <1>3 DEF AskRunner
    <2>2. child[Of(c)].state = "pending" => child[Of(c)] # NoAnswer
      BY Answers
    <2>3. Of(c) \in Calls
      BY <1>3, Handle DEF AskRunner, Typed
    <2> QED BY <1>s, <1>t, <2>1, <2>2, <2>3, Saying DEF Words
  <1>4. ASSUME NEW c \in Calls, ChildDone(c) PROVE Words'
    <2>1. PICK cost \in Costs : child' = [child EXCEPT ![c] = Answer("ok", "done", cost)]
      BY <1>4 DEF ChildDone
    <2> QED BY <1>s, <1>t, <2>1, Saying DEF Words
  <1> QED BY <1>1, <1>2, <1>3, <1>4, ChildrenChange

\* A child does not cease to exist.
LEMMA ChildrenStay ==
  ASSUME Typed, Words, [Next]_vars, NEW h \in Calls, child[h] # NoAnswer
  PROVE  child'[h] # NoAnswer
  <1>t. child \in [Calls -> AnswerType] /\ Calls' = Calls
    BY Static DEF Typed, TypeOK
  <1>1. CASE child' = child
    BY <1>1
  <1>2. ASSUME NEW c \in Calls, Start(c) PROVE child'[h] # NoAnswer
    BY <1>2, <1>t, Saying DEF Start
  <1>3. ASSUME NEW c \in Calls, AskRunner(c) PROVE child'[h] # NoAnswer
    <2>1. \/ child' = child
          \/ \E a \in {child[Of(c)], Answer("ok", "cancelled", 0)} :
               child[Of(c)].state = "pending" /\ child' = [child EXCEPT ![Of(c)] = a]
      BY <1>3 DEF AskRunner
    <2>2. Of(c) \in Calls
      BY <1>3, Handle DEF AskRunner, Typed
    <2> QED BY <1>t, <2>1, <2>2, Saying
  <1>4. ASSUME NEW c \in Calls, ChildDone(c) PROVE child'[h] # NoAnswer
    <2>1. PICK cost \in Costs : child' = [child EXCEPT ![c] = Answer("ok", "done", cost)]
      BY <1>4 DEF ChildDone
    <2> QED BY <1>t, <2>1, Saying
  <1> QED BY <1>1, <1>2, <1>3, <1>4, ChildrenChange

\* Who changes the records.
LEMMA HandlesChange ==
  ASSUME [Next]_vars
  PROVE  handles' = handles \/ Replay \/ \E c \in Calls : Start(c) \/ Apply(c)
  <1>1. ASSUME NEW c \in Calls, Broker(c) \/ ChildDone(c), ~Start(c), ~Apply(c)
        PROVE  handles' = handles
    BY <1>1 DEF Broker, PromptHit, ReplayHit, OverBudget, UnknownType, Admit, Return, BadSchema,
                Raise, Known, AskRunner, Persist, ChildDone, memory
  <1>2. End \/ UNCHANGED vars => handles' = handles
    BY DEF End, vars, memory
  <1> QED BY <1>1, <1>2 DEF Next

\* A record is not lost within a run.
LEMMA HandlesStay ==
  ASSUME Typed, Asked, [Next]_vars, ~Replay, NEW h \in Calls, handles[h] # NoAnswer
  PROVE  handles'[h] # NoAnswer
  <1>t. handles \in [Calls -> AnswerType]
    BY DEF Typed, TypeOK
  <1>1. CASE handles' = handles
    BY <1>1
  <1>2. ASSUME NEW c \in Calls, Start(c) PROVE handles'[h] # NoAnswer
    BY <1>2, <1>t, Saying DEF Start
  <1>3. ASSUME NEW c \in Calls, Apply(c) PROVE handles'[h] # NoAnswer
    <2>1. Kind(c) \in Async /\ Word(answer[c])
      BY <1>3 DEF Apply, Asked
    <2>2. answer[c] # NoAnswer
      BY <2>1, Saying
    <2>3. handles' = handles \/ handles' = [handles EXCEPT ![Of(c)] = answer[c]]
      BY <1>3 DEF Apply
    <2> QED BY <1>t, <2>2, <2>3
  <1> QED BY <1>1, <1>2, <1>3, HandlesChange

LEMMA StepHandled ==
  Typed /\ Launched /\ Words /\ Asked /\ Handled /\ [Next]_vars => Handled'
  <1> SUFFICES ASSUME Typed, Launched, Words, Asked, Handled, [Next]_vars,
                      NEW h \in Calls, handles'[h] # NoAnswer
               PROVE  /\ Kind(h) = "start" /\ stage'[h] \in {"ran", "replied"} /\ h \in children'
                      /\ Word(handles'[h]) /\ child'[h] # NoAnswer
    BY Static DEF Handled
  <1>t. /\ handles \in [Calls -> AnswerType]
        /\ stage \in [Calls -> {"new", "running", "polled", "ran", "replied"}]
    BY DEF Typed, TypeOK
  <1>1. CASE Replay
    BY <1>1 DEF Replay, NoAnswers
  <1>2. CASE handles[h] # NoAnswer /\ ~Replay
    <2>1. /\ Kind(h) = "start" /\ stage[h] \in {"ran", "replied"} /\ h \in children
          /\ Word(handles[h]) /\ child[h] # NoAnswer
      BY <1>2 DEF Handled
    <2>2. child'[h] # NoAnswer
      BY <2>1, ChildrenStay
    <2>3. children \subseteq children'
      <3>1. ASSUME NEW c \in Calls, Broker(c) \/ ChildDone(c) PROVE children \subseteq children'
        BY <3>1 DEF Broker, PromptHit, ReplayHit, OverBudget, UnknownType, Admit, Return, BadSchema,
             Raise, Start, Known, AskRunner, Apply, Persist, ChildDone, history
      <3>2. End \/ UNCHANGED vars => children \subseteq children'
        BY DEF End, vars, history
      <3> QED BY <1>2, <3>1, <3>2 DEF Next
    <2>4. stage'[h] \in {"ran", "replied"}
      <3>1. CASE stage' = stage
        BY <2>1, <3>1
      <3>2. ASSUME NEW c \in Calls, Broker(c), stage[c] = "ran" PROVE Persist(c)
        BY <3>2 DEF Broker, PromptHit, ReplayHit, OverBudget, UnknownType, Admit, Return, BadSchema,
             Raise, Start, Known, AskRunner, Apply, Miss, Sent, Blocking
      <3>3. ASSUME NEW c \in Calls, Broker(c) PROVE stage'[h] \in {"ran", "replied"}
        <4>1. c # h => stage'[h] = stage[h]
          BY <1>t, <3>3 DEF Broker, PromptHit, ReplayHit, OverBudget, UnknownType, Admit, Return,
             BadSchema, Raise, Start, Known, AskRunner, Apply, Persist, Reply
        <4>2. c = h /\ stage[h] = "ran" => stage'[h] = "replied"
          BY <1>t, <3>2, <3>3 DEF Persist, Reply
        <4>3. Broker(c) => stage[c] # "replied"
          BY DEF Broker, PromptHit, ReplayHit, OverBudget, UnknownType, Admit, Return, BadSchema,
             Raise, Start, Known, AskRunner, Apply, Persist, Miss, Sent, Blocking
        <4> QED BY <2>1, <3>3, <4>1, <4>2, <4>3
      <3>4. ASSUME NEW c \in Calls, ChildDone(c) PROVE stage' = stage
        BY <3>4 DEF ChildDone, calls
      <3>5. End \/ UNCHANGED vars => stage' = stage
        BY DEF End, vars, calls
      <3> QED BY <1>2, <3>1, <3>3, <3>4, <3>5 DEF Next
    <2>5. Word(handles'[h])
      <3>1. ASSUME NEW c \in Calls, Start(c) PROVE Word(handles'[h])
        BY <1>t, <2>1, <3>1, Saying DEF Start
      <3>2. ASSUME NEW c \in Calls, Apply(c) PROVE Word(handles'[h])
        <4>1. Word(answer[c])
          BY <3>2 DEF Apply, Asked
        <4>2. handles' = handles \/ handles' = [handles EXCEPT ![Of(c)] = answer[c]]
          BY <3>2 DEF Apply
        <4> QED BY <1>t, <2>1, <4>1, <4>2
      <3> QED BY <1>2, <2>1, <3>1, <3>2, HandlesChange
    <2> QED BY <2>1, <2>2, <2>3, <2>4, <2>5
  <1>3. CASE handles[h] = NoAnswer /\ ~Replay
    <2>1. PICK c \in Calls : Start(c) \/ Apply(c)
      BY <1>3, HandlesChange
    <2>2. CASE Apply(c)
      <3>1. Kind(c) \in Async /\ handles[Of(c)] # NoAnswer
        BY <2>2 DEF Apply, Asked
      <3>2. handles' = handles \/ handles' = [handles EXCEPT ![Of(c)] = answer[c]]
        BY <2>2 DEF Apply
      <3> QED BY <1>3, <1>t, <3>1, <3>2
    <2>3. CASE Start(c)
      <3>1. c = h
        BY <1>3, <1>t, <2>3 DEF Start
      <3>2. Kind(h) = "start" /\ stage[h] = "running" /\ h \in children
        BY <2>3, <3>1 DEF Start, Launched, Launching
      <3>3. child'[h] # NoAnswer
        BY <2>3, <3>1, Saying DEF Start, Typed, TypeOK
      <3>4. Word(handles'[h]) /\ stage'[h] = "ran" /\ children' = children
        BY <1>t, <2>3, <3>1, Saying DEF Start, history
      <3> QED BY <3>2, <3>3, <3>4
    <2> QED BY <2>1, <2>2, <2>3
  <1> QED BY <1>1, <1>2, <1>3

LEMMA StepAsked ==
  Typed /\ Words /\ Asked /\ Handled /\ [Next]_vars => Asked'
  <1> SUFFICES ASSUME Typed, Words, Asked, Handled, [Next]_vars PROVE Asked'
    OBVIOUS
  <1>s. Calls' = Calls /\ \A c : Kind(c)' = Kind(c) /\ Of(c)' = Of(c)
    BY Static
  <1>t. stage \in [Calls -> {"new", "running", "polled", "ran", "replied"}]
    BY DEF Typed, TypeOK
  <1>a. answer \in [Calls -> AnswerType]
    BY DEF Typed, TypeOK
  <1>h. \A c \in Calls : Kind(c) \in Async => Of(c) \in Calls
    BY Handle DEF Typed
  <1>1. CASE Replay
    BY <1>1, <1>s DEF Replay, Asked
  \* A call that is where it was.
  <1>2. ASSUME ~Replay, NEW c \in Calls, stage'[c] = stage[c], answer'[c] = answer[c]
        PROVE  /\ stage'[c] = "polled" => Kind(c) \in Async /\ Word(answer'[c])
               /\ stage'[c] \in {"running", "polled", "ran"} /\ Kind(c) \in Async
                    => handles'[Of(c)] # NoAnswer
    BY <1>2, <1>h, HandlesStay DEF Asked
  <1>3. ASSUME ~Replay, NEW m \in Calls,
               \A c \in Calls : c # m => stage'[c] = stage[c] /\ answer'[c] = answer[c],
               stage'[m] = "polled" => Kind(m) \in Async /\ Word(answer'[m]),
               stage'[m] \in {"running", "polled", "ran"} /\ Kind(m) \in Async
                    => handles'[Of(m)] # NoAnswer
        PROVE  Asked'
    BY <1>2, <1>3, <1>s DEF Asked
  <1>4. ASSUME NEW m \in Calls, PromptHit(m) \/ ReplayHit(m) \/ OverBudget(m) \/ UnknownType(m) \/ Raise(m)
                                \/ Persist(m), ~Replay
        PROVE  Asked'
    <2>1. \E a : Reply(m, a)
      BY <1>4 DEF PromptHit, ReplayHit, OverBudget, UnknownType, Raise, Persist
    <2> QED BY <1>3, <1>4, <1>t, <1>a, <2>1 DEF Reply
  <1>5. ASSUME NEW m \in Calls, Admit(m) \/ Return(m) \/ BadSchema(m) \/ Start(m), ~Replay PROVE Asked'
    <2>1. Kind(m) \notin Async
      BY <1>5 DEF Admit, Return, BadSchema, Start, Blocking, Async
    <2>2. stage' = stage \/ \E s \in {"running", "ran", "replied"} : stage' = [stage EXCEPT ![m] = s]
      BY <1>5 DEF Admit, Return, BadSchema, Start, Reply
    <2>3. answer' = answer \/ \E a : answer' = [answer EXCEPT ![m] = a]
      BY <1>5 DEF Admit, Return, BadSchema, Start, Reply
    <2>4. stage[m] # "polled"
      BY <1>5 DEF Admit, Return, BadSchema, Start, Blocking, Miss, Sent
    <2> QED BY <1>3, <1>5, <1>t, <1>a, <2>1, <2>2, <2>3, <2>4
  <1>6. ASSUME NEW m \in Calls, Known(m), ~Replay PROVE Asked'
    <2>1. CASE handles[Of(m)] = NoAnswer
      <3>1. Reply(m, Denied("unknown_handle"))
        BY <1>6, <2>1 DEF Known
      <3> QED BY <1>3, <1>6, <1>t, <1>a, <3>1 DEF Reply
    <2>2. CASE handles[Of(m)] # NoAnswer
      <3>1. handles' = handles /\ answer' = answer
        BY <1>6, <2>2 DEF Known, memory
      <3>2. stage' = [stage EXCEPT ![m] = "ran"] \/ stage' = [stage EXCEPT ![m] = "running"]
        BY <1>6, <2>2 DEF Known
      <3> QED BY <1>3, <1>6, <1>t, <2>2, <3>1, <3>2
    <2> QED BY <2>1, <2>2
  <1>7. ASSUME NEW m \in Calls, AskRunner(m), ~Replay PROVE Asked'
    <2>1. PICK a \in {child[Of(m)], Answer("ok", "cancelled", 0)} : answer' = [answer EXCEPT ![m] = a]
      BY <1>7 DEF AskRunner
    <2>2. Kind(m) \in Async /\ Of(m) \in Calls /\ stage[m] = "running" /\ handles' = handles
      BY <1>7, <1>h DEF AskRunner, memory
    <2>3. handles[Of(m)] # NoAnswer
      BY <2>2 DEF Asked
    <2>4. Word(a)
      BY <2>1, <2>2, <2>3, Saying DEF Handled, Words
    <2>5. stage' = [stage EXCEPT ![m] = "polled"]
      BY <1>7 DEF AskRunner
    <2> QED BY <1>3, <1>7, <1>t, <1>a, <2>1, <2>2, <2>3, <2>4, <2>5
  <1>8. ASSUME NEW m \in Calls, Apply(m), ~Replay PROVE Asked'
    <2>1. Kind(m) \in Async /\ Of(m) \in Calls /\ handles[Of(m)] # NoAnswer
      BY <1>8, <1>h DEF Apply, Asked
    <2>2. handles'[Of(m)] # NoAnswer
      BY <1>8, <2>1, HandlesStay
    <2>3. stage' = [stage EXCEPT ![m] = "ran"] /\ answer' = answer
      BY <1>8 DEF Apply
    <2> QED BY <1>3, <1>8, <1>t, <2>1, <2>2, <2>3
  <1>9. ASSUME ~Replay, UNCHANGED <<stage, answer>> PROVE Asked'
    BY <1>2, <1>9, <1>s DEF Asked
  <1>10. ASSUME NEW c \in Calls, ChildDone(c) PROVE UNCHANGED <<stage, answer>>
    BY <1>10 DEF ChildDone, calls
  <1>11. End \/ UNCHANGED vars => UNCHANGED <<stage, answer>>
    BY DEF End, vars, calls
  <1> QED BY <1>1, <1>4, <1>5, <1>6, <1>7, <1>8, <1>9, <1>10, <1>11 DEF Next, Broker

LEMMA StepPriced == Typed /\ Asked /\ Priced /\ [Next]_vars => Priced'
  <1> SUFFICES ASSUME Typed, Asked, Priced, [Next]_vars PROVE Priced'
    OBVIOUS
  <1>s. Calls' = Calls /\ \A c : Kind(c)' = Kind(c)
    BY Static
  <1>t. /\ stage \in [Calls -> {"new", "running", "polled", "ran", "replied"}]
        /\ answer \in [Calls -> AnswerType]
    BY DEF Typed, TypeOK
  <1>1. CASE Replay
    BY <1>1, <1>s DEF Replay, Priced
  <1>2. ASSUME NEW m \in Calls, PromptHit(m) \/ ReplayHit(m) \/ OverBudget(m) \/ UnknownType(m) \/ Raise(m)
                                \/ Known(m)
        PROVE  Priced'
    <2>1. run' = run /\ memo' = memo
      BY <1>2 DEF PromptHit, ReplayHit, OverBudget, UnknownType, Raise, Known, memory
    <2>2. \A c \in Calls : stage'[c] = "ran" /\ Kind(c) = "prompt" =>
            stage[c] = "ran" /\ answer'[c] = answer[c]
      <3>1. CASE \E a : Reply(m, a)
        BY <1>t, <3>1 DEF Reply
      <3>2. CASE Known(m) /\ ~\E a : Reply(m, a)
        <4>1. Kind(m) # "prompt" /\ answer' = answer
          BY <3>2 DEF Known, Async
        <4>2. stage' = [stage EXCEPT ![m] = "ran"] \/ stage' = [stage EXCEPT ![m] = "running"]
          BY <3>2 DEF Known
        <4> QED BY <1>t, <4>1, <4>2
      <3>3. ~Known(m) => \E a : Reply(m, a)
        BY <1>2 DEF PromptHit, ReplayHit, OverBudget, UnknownType, Raise
      <3> QED BY <3>1, <3>2, <3>3
    <2> QED BY <1>s, <2>1, <2>2 DEF Priced
  <1>3. ASSUME NEW m \in Calls, Admit(m) \/ Start(m) \/ AskRunner(m) \/ Apply(m) PROVE Priced'
    <2>1. run' = run /\ memo' = memo
      BY <1>3 DEF Admit, Start, AskRunner, Apply, memory
    <2>2. stage'[m] # "ran" \/ Kind(m) # "prompt"
      BY <1>3, <1>t DEF Admit, Start, AskRunner, Apply, Asked, Async, Reply
    <2>3. \A c \in Calls : c # m => stage'[c] = stage[c] /\ answer'[c] = answer[c]
      BY <1>3, <1>t DEF Admit, Start, AskRunner, Apply, Reply
    <2> QED BY <1>s, <2>1, <2>2, <2>3 DEF Priced
  <1>4. ASSUME NEW m \in Calls, Return(m) PROVE Priced'
    <2>1. run' = run /\ memo' = memo
      BY <1>4 DEF Return, memory
    <2>2. PICK cost \in Costs :
            \/ stage' = [stage EXCEPT ![m] = "ran"] /\ answer' = [answer EXCEPT ![m] = Ok(cost)]
            \/ Reply(m, Denied("result_too_large"))
      BY <1>4 DEF Return
    <2>3. Ok(cost).cost = cost /\ cost <= MaxCost
      BY Answers, Largest
    <2>4. \A c \in Calls : c # m => stage'[c] = stage[c] /\ answer'[c] = answer[c]
      BY <1>t, <2>2 DEF Reply
    <2>5. stage'[m] = "ran" => answer'[m].cost <= MaxCost
      BY <1>t, <2>2, <2>3 DEF Reply
    <2> QED BY <1>s, <2>1, <2>4, <2>5 DEF Priced
  <1>5. ASSUME NEW m \in Calls, BadSchema(m) PROVE Priced'
    <2>1. run' = run /\ memo' = memo
      BY <1>5 DEF BadSchema, memory
    <2>2. UNCHANGED <<stage, answer>> \/ \E a : Reply(m, a)
      BY <1>5 DEF BadSchema
    <2> QED BY <1>s, <1>t, <2>1, <2>2 DEF Reply, Priced
  <1>6. ASSUME NEW m \in Calls, Persist(m) PROVE Priced'
    <2>1. run' = run /\ Reply(m, View(m)) /\ stage[m] = "ran"
      BY <1>6 DEF Persist
    <2>2. Kind(m) = "prompt" => View(m).cost <= MaxCost
      BY <2>1 DEF View, Async, Priced
    <2>3. memo' \subseteq memo \/ (Kind(m) = "prompt" /\ memo' \subseteq memo \cup {[of |-> Of(m), cost |-> View(m).cost]})
      BY <1>6 DEF Persist
    <2>4. run = 1 => \A e \in memo' : e.cost <= MaxCost
      BY <2>2, <2>3 DEF Priced
    <2>5. \A c \in Calls : stage'[c] = "ran" => c # m /\ stage[c] = "ran" /\ answer'[c] = answer[c]
      BY <1>t, <2>1 DEF Reply
    <2> QED BY <1>s, <2>1, <2>4, <2>5 DEF Priced
  <1>7. UNCHANGED <<run, memo, stage, answer>> => Priced'
    BY <1>s DEF Priced
  <1>8. ASSUME NEW c \in Calls, ChildDone(c) PROVE UNCHANGED <<run, memo, stage, answer>>
    BY <1>8 DEF ChildDone, calls, memory
  <1>9. End \/ UNCHANGED vars => UNCHANGED <<run, memo, stage, answer>>
    BY DEF End, vars, calls, memory
  <1> QED BY <1>1, <1>2, <1>3, <1>4, <1>5, <1>6, <1>7, <1>8, <1>9 DEF Next, Broker

-----------------------------------------------------------------------------
(* What is written and what is told. *)

\* The part of the invariant that the runs of all scripts keep.
Base ==
  /\ Typed /\ Rounds /\ Launched /\ Words /\ Handled /\ Asked /\ Priced /\ Failures

LEMMA StepFailures == Typed /\ Failures /\ [Next]_vars => Failures'
  <1> SUFFICES ASSUME Typed, Failures, [Next]_vars PROVE Failures'
    OBVIOUS
  <1>1. ASSUME NEW c \in Calls, UnknownType(c) \/ Raise(c) PROVE Failures'
    <2>1. PICK code \in {"unknown_agent_type", "runner_error"} : Reply(c, Denied(code))
      BY <1>1 DEF UnknownType, Raise
    <2>2. answer'[c].code # "ok"
      BY <2>1, Answers DEF Reply, Typed, TypeOK
    <2>3. run' = run /\ (buffer' = buffer \/ (run = 1 /\ buffer' = buffer \cup {[id |-> c, answer |-> answer'[c]]}))
      BY <1>1 DEF UnknownType, Raise
    <2> QED BY <2>2, <2>3 DEF Failures
  <1>2. ASSUME NEW c \in Calls, Broker(c) \/ ChildDone(c), ~UnknownType(c), ~Raise(c) PROVE Failures'
    <2>1. UNCHANGED <<run, buffer>>
      BY <1>2 DEF Broker, PromptHit, ReplayHit, OverBudget, Admit, Return, BadSchema, Start, Known,
                  AskRunner, Apply, Persist, ChildDone, memory
    <2> QED BY <2>1 DEF Failures
  <1>3. Replay => Failures'
    BY DEF Replay, Failures
  <1>4. End \/ UNCHANGED vars => Failures'
    BY DEF End, vars, memory, Failures
  <1> QED BY <1>1, <1>2, <1>3, <1>4 DEF Next

LEMMA InitBase == Init => Base
  <1> SUFFICES ASSUME Init PROVE Base
    OBVIOUS
  <1>1. Typed /\ Words
    BY InitTyped, InitWords
  <1>2. Rounds /\ Launched
    BY DEF Init, Rounds, Launched, Launching
  <1>3. Handled /\ Asked
    BY DEF Init, NoAnswers, Handled, Asked
  <1>4. Priced /\ Failures
    BY DEF Init, Priced, Failures
  <1> QED BY <1>1, <1>2, <1>3, <1>4 DEF Base

LEMMA StepBase == Base /\ [Next]_vars => Base'
  BY StepTyped, StepRounds, StepLaunched, StepWords, StepHandled, StepAsked, StepPriced, StepFailures
     DEF Base

\* Who writes cache.jsonl.
LEMMA CacheChange ==
  ASSUME [Next]_vars
  PROVE  \/ cache' = cache
         \/ End /\ run' = run /\ cache' = cache \cup buffer
         \/ \E c \in Calls : Persist(c) /\ run = 1 /\ cache' = cache \cup {[id |-> c, answer |-> View(c)]}
  <1>1. ASSUME NEW c \in Calls, Broker(c) \/ ChildDone(c), ~Persist(c) PROVE cache' = cache
    BY <1>1 DEF Broker, PromptHit, ReplayHit, OverBudget, UnknownType, Admit, Return, BadSchema,
                Raise, Start, Known, AskRunner, Apply, ChildDone, disk
  <1>2. ASSUME NEW c \in Calls, Persist(c)
        PROVE  cache' = cache \/ (run = 1 /\ cache' = cache \cup {[id |-> c, answer |-> View(c)]})
    BY <1>2 DEF Persist, disk
  <1>3. End => cache' = cache \/ (run' = run /\ cache' = cache \cup buffer)
    BY DEF End
  <1>4. Replay \/ UNCHANGED vars => cache' = cache
    BY DEF Replay, vars, disk
  <1> QED BY <1>1, <1>2, <1>3, <1>4 DEF Next

LEMMA ViewsChange ==
  ASSUME Failures, [Next]_vars
  PROVE  /\ cache \subseteq cache' /\ Views \subseteq Views'
         /\ \/ Views' = Views
            \/ \E c \in Calls : /\ Persist(c) /\ run = 1
                                /\ Views' \subseteq Views \cup {[id |-> c, answer |-> View(c)]}
         /\ run = 2 => cache' = cache /\ Views' = Views
  <1>s. \A c : Kind(c)' = Kind(c)
    BY Static
  <1>1. CASE cache' = cache
    BY <1>1, <1>s DEF Views
  <1>2. CASE End /\ run' = run /\ cache' = cache \cup buffer
    BY <1>2, <1>s DEF Views, Failures
  <1>3. ASSUME NEW c \in Calls, Persist(c), run = 1, cache' = cache \cup {[id |-> c, answer |-> View(c)]}
        PROVE  /\ cache \subseteq cache' /\ Views \subseteq Views'
               /\ Views' \subseteq Views \cup {[id |-> c, answer |-> View(c)]}
    BY <1>3, <1>s DEF Views
  <1> QED BY <1>1, <1>2, <1>3, CacheChange

\* An answer that was given stays what it is.
LEMMA RepliedStays ==
  ASSUME Typed, [Next]_vars, ~Replay, NEW d \in Calls, stage[d] = "replied"
  PROVE  stage'[d] = "replied" /\ answer'[d] = answer[d]
  <1>t. /\ stage \in [Calls -> {"new", "running", "polled", "ran", "replied"}]
        /\ answer \in [Calls -> AnswerType]
    BY DEF Typed, TypeOK
  <1>1. ASSUME NEW c \in Calls, Broker(c) PROVE stage'[d] = "replied" /\ answer'[d] = answer[d]
    <2>1. c # d
      BY <1>1 DEF Broker, PromptHit, ReplayHit, OverBudget, UnknownType, Admit, Return, BadSchema,
         Raise, Start, Known, AskRunner, Apply, Persist, Miss, Sent, Blocking
    <2>2. CASE \E a : Reply(c, a)
      BY <1>t, <2>1, <2>2 DEF Reply
    <2>3. CASE ~\E a : Reply(c, a)
      BY <1>1, <1>t, <2>1, <2>3 DEF Broker, PromptHit, ReplayHit, OverBudget, UnknownType, Admit, Return,
         BadSchema, Raise, Start, Known, AskRunner, Apply, Persist
    <2> QED BY <2>2, <2>3
  <1>2. ASSUME NEW c \in Calls, ChildDone(c) PROVE UNCHANGED calls
    BY <1>2 DEF ChildDone
  <1>3. End \/ UNCHANGED vars => UNCHANGED calls
    BY DEF End, vars
  <1> QED BY <1>1, <1>2, <1>3 DEF Next, calls

\* How a poll or a cancellation is told how its child is.
LEMMA Telling ==
  ASSUME Typed, [Next]_vars, ~Replay, NEW c \in Calls, Kind(c) \in Async,
         stage[c] # "replied", stage'[c] = "replied", answer'[c].code = "ok"
  PROVE  /\ run' = run /\ handles' = handles
         /\ \A d \in Calls : d # c => stage'[d] = stage[d] /\ answer'[d] = answer[d]
         /\ \A d \in Calls : d[1] < c[1] /\ Rounds => stage[d] = "replied"
         /\ \/ run = 2 /\ [id |-> c, answer |-> answer'[c]] \in cache
            \/ stage[c] = "ran" /\ answer'[c] = handles[Of(c)]
  <1>t. /\ stage \in [Calls -> {"new", "running", "polled", "ran", "replied"}]
        /\ answer \in [Calls -> AnswerType]
        /\ cache \subseteq [id : Calls, answer : AnswerType]
    BY DEF Typed, TypeOK
  <1>1. PICK m \in Calls : Broker(m)
    <2>1. ASSUME NEW m \in Calls, ChildDone(m) PROVE stage' = stage
      BY <2>1 DEF ChildDone, calls
    <2>2. End \/ UNCHANGED vars => stage' = stage
      BY DEF End, vars, calls
    <2> QED BY <2>1, <2>2 DEF Next
  <1>2. m = c
    BY <1>1, <1>t DEF Broker, PromptHit, ReplayHit, OverBudget, UnknownType, Admit, Return, BadSchema,
       Raise, Start, Known, AskRunner, Apply, Persist, Reply
  <1>3. PICK a : Reply(c, a)
    <2>1. CASE Known(c) \/ Admit(c) \/ Start(c) \/ AskRunner(c) \/ Apply(c)
      BY <1>t, <2>1 DEF Known, Admit, Start, AskRunner, Apply
    <2>2. CASE Return(c) \/ BadSchema(c)
      BY <2>2 DEF Return, BadSchema, Blocking, Async
    <2>3. CASE PromptHit(c) \/ ReplayHit(c) \/ OverBudget(c) \/ UnknownType(c) \/ Raise(c) \/ Persist(c)
      BY <2>3 DEF PromptHit, ReplayHit, OverBudget, UnknownType, Raise, Persist
    <2> QED BY <1>1, <1>2, <2>1, <2>2, <2>3 DEF Broker
  <1>4. answer'[c] = a /\ \A d \in Calls : d # c => stage'[d] = stage[d] /\ answer'[d] = answer[d]
    BY <1>t, <1>3 DEF Reply
  <1>5. CASE ReplayHit(c)
    <2>1. PICK e \in Entries(c) : answer'[c] = e.answer
      BY <1>5, <1>t DEF ReplayHit, Reply
    <2>2. e \in cache /\ e.id = c /\ run = 2
      BY DEF Entries
    <2>3. e = [id |-> c, answer |-> answer'[c]]
      BY <1>t, <2>1, <2>2
    <2>4. \A d \in Calls : d[1] < c[1] => stage[d] = "replied"
      BY <1>5 DEF ReplayHit, Sent
    <2> QED BY <1>4, <1>5, <2>2, <2>3, <2>4 DEF ReplayHit
  <1>6. CASE Persist(c)
    <2>1. answer'[c] = handles[Of(c)] /\ stage[c] = "ran" /\ run' = run /\ handles' = handles
      BY <1>6, <1>t DEF Persist, Reply, View
    <2>2. \A d \in Calls : d[1] < c[1] /\ Rounds => stage[d] = "replied"
      BY <2>1 DEF Rounds
    <2> QED BY <1>4, <2>1, <2>2
  <1>7. CASE PromptHit(c)
    BY <1>7 DEF PromptHit, Remembered, Async
  <1>8. ASSUME ~ReplayHit(c), ~Persist(c), ~PromptHit(c) PROVE FALSE
    <2>1. \E code \in {"limit_agent", "limit_token", "runner_error", "schema", "result_too_large",
                       "unknown_handle", "unknown_agent_type"} : Reply(c, Denied(code))
      <3>1. CASE Known(c)
        BY <1>t, <3>1 DEF Known
      <3>2. CASE Admit(c) \/ Start(c) \/ AskRunner(c) \/ Apply(c)
        BY <1>t, <3>2 DEF Admit, Start, AskRunner, Apply
      <3>3. CASE Return(c) \/ BadSchema(c)
        BY <3>3 DEF Return, BadSchema, Blocking, Async
      <3>4. CASE OverBudget(c) \/ UnknownType(c) \/ Raise(c)
        BY <3>4 DEF OverBudget, UnknownType, Raise
      <3> QED BY <1>1, <1>2, <1>8, <3>1, <3>2, <3>3, <3>4 DEF Broker
    <2>2. PICK code \in {"limit_agent", "limit_token", "runner_error", "schema", "result_too_large",
                         "unknown_handle", "unknown_agent_type"} : Reply(c, Denied(code))
      BY <2>1
    <2>3. answer'[c].code = code
      BY <1>t, <2>2 DEF Reply, Denied, Answer
    <2> QED BY <2>3
  <1> QED BY <1>5, <1>6, <1>7, <1>8

LEMMA StepWritten == Base /\ Written /\ [Next]_vars => Written'
  <1> SUFFICES ASSUME Base, Written, [Next]_vars, run' = 1, NEW e \in Views'
               PROVE  stage'[e.id] = "replied" /\ answer'[e.id] = e.answer
    BY DEF Written
  <1>t. /\ Typed /\ Failures /\ run \in 1..2
        /\ stage \in [Calls -> {"new", "running", "polled", "ran", "replied"}]
        /\ answer \in [Calls -> AnswerType] /\ cache \subseteq [id : Calls, answer : AnswerType]
    BY DEF Base, Typed, TypeOK
  <1>1. ~Replay /\ run = 1
    <2>1. ~Replay
      BY DEF Replay
    <2>2. ASSUME NEW c \in Calls, Broker(c) \/ ChildDone(c) PROVE run' = run
      BY <2>2 DEF Broker, PromptHit, ReplayHit, OverBudget, UnknownType, Admit, Return, BadSchema,
         Raise, Start, Known, AskRunner, Apply, Persist, ChildDone
    <2>3. End \/ UNCHANGED vars => run' = run
      BY DEF End, vars
    <2> QED BY <2>1, <2>2, <2>3 DEF Next
  <1>2. CASE e \in Views
    <2>1. e.id \in Calls /\ stage[e.id] = "replied" /\ answer[e.id] = e.answer
      BY <1>1, <1>2, <1>t DEF Written, Views
    <2> QED BY <1>1, <1>t, <2>1, RepliedStays
  <1>3. CASE e \notin Views
    <2>1. PICK c \in Calls : Persist(c) /\ e = [id |-> c, answer |-> View(c)]
      BY <1>3, <1>t, ViewsChange
    <2>2. Reply(c, View(c))
      BY <2>1 DEF Persist
    <2> QED BY <1>t, <2>1, <2>2 DEF Reply
  <1> QED BY <1>2, <1>3

\* A start whose child was looked at was recorded before.
LEMMA StepKin == Base /\ Kin /\ [Next]_vars => Kin'
  <1> SUFFICES ASSUME Base, Kin, [Next]_vars, "unrecorded" \notin setup.faults
               PROVE  /\ run' = 1 => \A h \in Calls : handles'[h] # NoAnswer /\ stage'[h] = "replied"
                                       => \E f \in cache' : f.id = h
                      /\ \A e \in Views' : \E f \in cache' : f.id = Of(e.id)
    BY Static DEF Kin, HasEntry
  <1>t. /\ Typed /\ Failures /\ Asked /\ Handled /\ Rounds /\ run \in 1..2
        /\ stage \in [Calls -> {"new", "running", "polled", "ran", "replied"}]
        /\ handles \in [Calls -> AnswerType]
        /\ cache \subseteq [id : Calls, answer : AnswerType]
    BY DEF Base, Typed, TypeOK
  <1>s. Calls' = Calls /\ (\A c : Kind(c)' = Kind(c) /\ Of(c)' = Of(c))
    BY Static
  <1>g. \A h : HasEntry(h) => \E f \in cache' : f.id = h
    BY <1>t, ViewsChange DEF HasEntry
  <1>1. ASSUME run' = 1, NEW h \in Calls, handles'[h] # NoAnswer, stage'[h] = "replied"
        PROVE  \E f \in cache' : f.id = h
    <2>1. ~Replay
      BY <1>1 DEF Replay
    <2>2. CASE handles[h] # NoAnswer /\ stage[h] = "replied" /\ run = 1
      BY <1>g, <2>2 DEF Kin
    <2>3. run = 1
      <3>1. ASSUME NEW c \in Calls, Broker(c) \/ ChildDone(c) PROVE run' = run
        BY <3>1 DEF Broker, PromptHit, ReplayHit, OverBudget, UnknownType, Admit, Return, BadSchema,
           Raise, Start, Known, AskRunner, Apply, Persist, ChildDone
      <3>2. End \/ UNCHANGED vars => run' = run
        BY DEF End, vars
      <3> QED BY <1>1, <2>1, <3>1, <3>2 DEF Next
    <2>4. CASE handles[h] = NoAnswer
      <3>1. PICK c \in Calls : Start(c) \/ Apply(c)
        BY <1>1, <2>1, <2>4, HandlesChange
      <3>2. CASE Start(c)
        BY <1>1, <1>t, <2>4, <3>2 DEF Start
      <3>3. CASE Apply(c)
        BY <1>1, <1>t, <2>4, <3>3 DEF Apply, Asked
      <3> QED BY <3>1, <3>2, <3>3
    <2>5. CASE handles[h] # NoAnswer /\ stage[h] # "replied"
      <3>1. stage[h] = "ran" /\ Kind(h) = "start"
        BY <1>t, <2>5 DEF Handled
      <3>2. PICK m \in Calls : Moves(m) /\ m = h
        BY <1>1, <1>t, <2>1, <2>5, OneMoves DEF Moves
      <3>3. Persist(h)
        <4>1. PICK c \in Calls : Broker(c)
          <5>1. ASSUME NEW c \in Calls, ChildDone(c) PROVE stage' = stage
            BY <5>1 DEF ChildDone, calls
          <5>2. End \/ UNCHANGED vars => stage' = stage
            BY DEF End, vars, calls
          <5> QED BY <1>1, <2>1, <2>5, <5>1, <5>2 DEF Next
        <4>2. c = h
          BY <1>1, <1>t, <2>5, <4>1 DEF Broker, PromptHit, ReplayHit, OverBudget, UnknownType, Admit,
             Return, BadSchema, Raise, Start, Known, AskRunner, Apply, Persist, Reply
        <4> QED BY <3>1, <4>1, <4>2 DEF Broker, PromptHit, ReplayHit, OverBudget, UnknownType, Admit,
             Return, BadSchema, Raise, Start, Known, AskRunner, Apply, Miss, Sent, Blocking
      <3>4. cache' = cache \cup {[id |-> h, answer |-> View(h)]}
        BY <2>3, <3>1, <3>3 DEF Persist, Cacheable
      <3>5. [id |-> h, answer |-> View(h)] \in cache' /\ [id |-> h, answer |-> View(h)].id = h
        BY <3>4
      <3> QED BY <3>5
    <2> QED BY <2>2, <2>3, <2>4, <2>5
  <1>2. ASSUME NEW e \in Views' PROVE \E f \in cache' : f.id = Of(e.id)
    <2>1. CASE e \in Views
      BY <1>g, <2>1 DEF Kin
    <2>2. CASE e \notin Views
      <3>1. PICK c \in Calls : Persist(c) /\ run = 1 /\ e = [id |-> c, answer |-> View(c)]
        BY <1>t, <2>2, ViewsChange
      <3>2. Kind(c) \in Async /\ View(c).code = "ok" /\ stage[c] = "ran"
        BY <1>s, <3>1 DEF Views, Persist
      <3>3. Of(c) \in Calls /\ Of(c)[1] < c[1]
        BY <1>t, <3>2, Handle DEF Typed
      <3>4. handles[Of(c)] # NoAnswer /\ stage[Of(c)] = "replied"
        BY <1>t, <3>2, <3>3 DEF Asked, Rounds
      <3> QED BY <1>g, <3>1, <3>3, <3>4 DEF Kin
    <2> QED BY <2>1, <2>2
  <1> QED BY <1>1, <1>2

LEMMA StepAnew == Base /\ Anew /\ [Next]_vars => Anew'
  <1> SUFFICES ASSUME Base, Anew, [Next]_vars, run' = 2, NEW h \in Calls
               PROVE  /\ handles'[h] # NoAnswer => ~HasEntry(h)'
                      /\ Kind(h) = "start" /\ stage'[h] = "running" => ~HasEntry(h)'
    BY Static DEF Anew
  <1>t. /\ Typed /\ Failures /\ Asked /\ run \in 1..2
        /\ stage \in [Calls -> {"new", "running", "polled", "ran", "replied"}]
        /\ handles \in [Calls -> AnswerType]
    BY DEF Base, Typed, TypeOK
  <1>1. CASE Replay
    BY <1>1 DEF Replay, NoAnswers
  <1>2. CASE ~Replay
    <2>1. run = 2
      <3>1. ASSUME NEW c \in Calls, Broker(c) \/ ChildDone(c) PROVE run' = run
        BY <3>1 DEF Broker, PromptHit, ReplayHit, OverBudget, UnknownType, Admit, Return, BadSchema,
           Raise, Start, Known, AskRunner, Apply, Persist, ChildDone
      <3>2. End \/ UNCHANGED vars => run' = run
        BY DEF End, vars
      <3> QED BY <1>2, <3>1, <3>2 DEF Next
    <2>2. HasEntry(h)' <=> HasEntry(h)
      BY <1>t, <2>1, ViewsChange DEF HasEntry
    <2>3. handles'[h] # NoAnswer => ~HasEntry(h)
      <3>1. CASE handles[h] # NoAnswer
        BY <2>1, <3>1 DEF Anew
      <3>2. ASSUME handles[h] = NoAnswer, handles'[h] # NoAnswer PROVE ~HasEntry(h)
        <4>1. PICK c \in Calls : Start(c) \/ Apply(c)
          BY <1>2, <3>2, HandlesChange
        <4>2. CASE Apply(c)
          BY <1>t, <3>2, <4>2 DEF Apply, Asked
        <4>3. CASE Start(c)
          <5>1. c = h
            BY <1>t, <3>2, <4>3 DEF Start
          <5> QED BY <2>1, <4>3, <5>1 DEF Start, Anew
        <4> QED BY <4>1, <4>2, <4>3
      <3> QED BY <3>1, <3>2
    <2>4. ASSUME Kind(h) = "start", stage'[h] = "running" PROVE ~HasEntry(h)
      <3>1. CASE stage[h] = "running"
        BY <2>1, <2>4, <3>1 DEF Anew
      <3>2. CASE stage[h] # "running"
        <4>1. PICK c \in Calls : Broker(c)
          <5>1. ASSUME NEW c \in Calls, ChildDone(c) PROVE stage' = stage
            BY <5>1 DEF ChildDone, calls
          <5>2. End \/ UNCHANGED vars => stage' = stage
            BY DEF End, vars, calls
          <5> QED BY <1>2, <2>4, <3>2, <5>1, <5>2 DEF Next
        <4>2. c = h
          BY <1>t, <2>4, <3>2, <4>1 DEF Broker, PromptHit, ReplayHit, OverBudget, UnknownType, Admit,
             Return, BadSchema, Raise, Start, Known, AskRunner, Apply, Persist, Reply
        <4>3. Admit(h)
          <5>1. CASE Known(h)
            BY <2>4, <5>1 DEF Known, Async
          <5>2. CASE Return(h) \/ BadSchema(h)
            BY <2>4, <5>2 DEF Return, BadSchema, Blocking
          <5> QED BY <1>t, <2>4, <4>1, <4>2, <5>1, <5>2 DEF Broker, PromptHit, ReplayHit, OverBudget,
               UnknownType, Raise, Start, AskRunner, Apply, Persist, Reply
        <4> QED BY <2>1, <4>3 DEF Admit, Miss, Entries, HasEntry
      <3> QED BY <3>1, <3>2
    <2> QED BY <2>2, <2>3, <2>4
  <1> QED BY <1>1, <1>2

LEMMA SameRun ==
  ASSUME [Next]_vars, ~Replay
  PROVE  run' = run /\ (Kept' <=> Kept)
  <1>1. ASSUME NEW c \in Calls, Broker(c) \/ ChildDone(c) PROVE run' = run
    BY <1>1 DEF Broker, PromptHit, ReplayHit, OverBudget, UnknownType, Admit, Return, BadSchema,
       Raise, Start, Known, AskRunner, Apply, Persist, ChildDone
  <1>2. End \/ UNCHANGED vars => run' = run
    BY DEF End, vars
  <1>3. run' = run
    BY <1>1, <1>2 DEF Next
  <1> QED BY <1>3, Static DEF Kept

\* A replay that answers a look at a child from the cache has no record of it.
LEMMA FromCache ==
  ASSUME Base, Kin, Anew, Kept, run = 2, NEW e \in Views
  PROVE  Of(e.id) \in Calls /\ handles[Of(e.id)] = NoAnswer
  <1>1. e.id \in Calls /\ Kind(e.id) \in Async
    BY DEF Views, Base, Typed, TypeOK
  <1>2. Of(e.id) \in Calls
    BY <1>1, Handle DEF Base, Typed
  <1>3. HasEntry(Of(e.id))
    BY DEF Kin, Kept
  <1> QED BY <1>2, <1>3 DEF Anew

LEMMA StepSourced == Base /\ Kin /\ Anew /\ Sourced /\ [Next]_vars => Sourced'
  <1> SUFFICES ASSUME Base, Kin, Anew, Sourced, [Next]_vars, Kept', NEW c \in Calls,
                      Kind(c) \in Async, stage'[c] = "replied", answer'[c].code = "ok"
               PROVE  IF handles'[Of(c)] = NoAnswer
                      THEN run' = 2 /\ [id |-> c, answer |-> answer'[c]] \in cache'
                      ELSE answer'[c].state \in Terminal => handles'[Of(c)] = answer'[c]
    BY Static DEF Sourced
  <1>t. /\ Typed /\ Failures /\ Asked /\ Handled /\ Rounds
        /\ handles \in [Calls -> AnswerType]
    BY DEF Base, Typed, TypeOK
  <1>h. Of(c) \in Calls /\ Of(c)[1] < c[1]
    BY <1>t, Handle DEF Typed
  <1>1. ~Replay
    BY DEF Replay
  <1>2. run' = run /\ Kept
    BY <1>1, SameRun
  <1>3. CASE stage[c] = "replied"
    <2>1. answer'[c] = answer[c] /\ answer[c].code = "ok" /\ stage[Of(c)] = "replied"
      BY <1>1, <1>3, <1>t, <1>h, RepliedStays DEF Rounds
    <2>2. CASE handles[Of(c)] = NoAnswer
      <3>1. run = 2 /\ [id |-> c, answer |-> answer[c]] \in cache
        BY <1>2, <1>3, <2>1, <2>2 DEF Sourced
      <3>2. handles'[Of(c)] = NoAnswer
        <4>1. ASSUME NEW m \in Calls, Start(m) PROVE m # Of(c)
          BY <2>1, <4>1 DEF Start
        <4>2. ASSUME NEW m \in Calls, Apply(m) PROVE Of(m) # Of(c)
          BY <2>2, <4>2 DEF Apply, Asked, Base
        <4>3. ASSUME NEW m \in Calls, Start(m) PROVE handles'[Of(c)] = NoAnswer
          BY <1>h, <1>t, <2>2, <4>1, <4>3 DEF Start
        <4>4. ASSUME NEW m \in Calls, Apply(m) PROVE handles'[Of(c)] = NoAnswer
          BY <1>h, <1>t, <2>2, <4>2, <4>4 DEF Apply
        <4> QED BY <1>1, <2>2, <4>3, <4>4, HandlesChange
      <3>3. cache \subseteq cache'
        BY <1>t, ViewsChange
      <3> QED BY <1>2, <2>1, <3>1, <3>2, <3>3
    <2>3. CASE handles[Of(c)] # NoAnswer
      <3>1. handles'[Of(c)] # NoAnswer
        BY <1>1, <1>h, <1>t, <2>3, HandlesStay
      <3>2. ASSUME answer[c].state \in Terminal PROVE handles'[Of(c)] = answer[c]
        <4>1. handles[Of(c)] = answer[c]
          BY <1>2, <1>3, <2>1, <2>3, <3>2 DEF Sourced
        <4>2. ASSUME NEW m \in Calls, Start(m) PROVE handles'[Of(c)] = handles[Of(c)]
          BY <1>h, <1>t, <2>1, <4>2 DEF Start
        <4>3. ASSUME NEW m \in Calls, Apply(m) PROVE handles'[Of(c)] = handles[Of(c)]
          BY <1>h, <1>t, <3>2, <4>1, <4>3 DEF Apply, Keeps
        <4> QED BY <1>1, <4>1, <4>2, <4>3, HandlesChange
      <3> QED BY <2>1, <3>1, <3>2
    <2> QED BY <2>2, <2>3
  <1>4. CASE stage[c] # "replied"
    <2>1. /\ handles' = handles
          /\ \/ run = 2 /\ [id |-> c, answer |-> answer'[c]] \in cache
             \/ stage[c] = "ran" /\ answer'[c] = handles[Of(c)]
      BY <1>1, <1>4, <1>t, Telling
    <2>2. CASE stage[c] = "ran" /\ answer'[c] = handles[Of(c)]
      <3>1. handles[Of(c)] # NoAnswer
        BY <1>t, <2>2 DEF Asked
      <3> QED BY <2>1, <2>2, <3>1
    <2>3. CASE run = 2 /\ [id |-> c, answer |-> answer'[c]] \in cache
      <3>1. [id |-> c, answer |-> answer'[c]] \in Views
        BY <2>3 DEF Views
      <3>2. handles[Of(c)] = NoAnswer
        BY <1>2, <2>3, <3>1, FromCache
      <3>3. cache \subseteq cache'
        BY <1>t, ViewsChange
      <3> QED BY <1>2, <2>1, <2>3, <3>2, <3>3
    <2> QED BY <2>1, <2>2, <2>3
  <1> QED BY <1>3, <1>4

ViewsKept == Kept => ViewsAgree

\* ViewsAgree, one pair of answers at a time.
LEMMA InPairs ==
  ViewsAgree <=>
    \A c, d \in Calls :
      /\ Kind(c) \in Async /\ answer[c].code = "ok" /\ stage[c] = "replied"
      /\ Kind(d) \in Async /\ answer[d].code = "ok" /\ stage[d] = "replied"
      => Alike(c, answer[c], d, answer[d])
  BY DEF ViewsAgree, Alike

LEMMA StepViewsKept ==
  ASSUME Base, Kin, Anew, Sourced, EntriesAgree, ViewsKept, [Next]_vars, Sourced'
  PROVE  ViewsKept'
  <1>s. /\ Calls' = Calls
        /\ \A c : Kind(c)' = Kind(c) /\ Of(c)' = Of(c)
    BY Static
  <1>p. ASSUME \A c, d \in Calls :
                 /\ Kind(c) \in Async /\ answer'[c].code = "ok" /\ stage'[c] = "replied"
                 /\ Kind(d) \in Async /\ answer'[d].code = "ok" /\ stage'[d] = "replied"
                 => Alike(c, answer'[c], d, answer'[d])
        PROVE ViewsAgree'
    BY <1>p, <1>s DEF ViewsAgree, Alike
  <1> SUFFICES ASSUME Kept', NEW c \in Calls, NEW d \in Calls,
                      Kind(c) \in Async, answer'[c].code = "ok", stage'[c] = "replied",
                      Kind(d) \in Async, answer'[d].code = "ok", stage'[d] = "replied",
                      Of(c) = Of(d), answer'[c].state \in Terminal,
                      answer'[d].state \in Terminal \/ c[1] < d[1]
               PROVE  answer'[c] = answer'[d]
    BY <1>p DEF ViewsKept, Alike
  <1>t. /\ Typed /\ Failures /\ Asked /\ Handled /\ Rounds
        /\ handles \in [Calls -> AnswerType]
    BY DEF Base, Typed, TypeOK
  <1>1. ~Replay
    BY DEF Replay
  <1>2. run' = run /\ Kept
    BY <1>1, SameRun
  <1>3. run = 2 => Views' = Views
    BY <1>t, ViewsChange
  <1>4. \A x \in {c, d} :
          IF handles'[Of(x)] = NoAnswer THEN run' = 2 /\ [id |-> x, answer |-> answer'[x]] \in cache'
          ELSE answer'[x].state \in Terminal => handles'[Of(x)] = answer'[x]
    BY <1>s DEF Sourced
  <1>5. CASE handles'[Of(c)] = NoAnswer
    <2>1. run = 2 /\ [id |-> c, answer |-> answer'[c]] \in Views' /\ [id |-> d, answer |-> answer'[d]] \in Views'
      BY <1>2, <1>4, <1>5, <1>s DEF Views
    <2>2. Alike(c, answer'[c], d, answer'[d])
      BY <1>2, <1>3, <2>1 DEF EntriesAgree
    <2> QED BY <2>2 DEF Alike
  <1>6. CASE handles'[Of(c)] # NoAnswer /\ answer'[d].state \in Terminal
    BY <1>4, <1>6
  <1>7. CASE handles'[Of(c)] # NoAnswer /\ c[1] < d[1]
    <2>1. CASE stage[c] = "replied" /\ stage[d] = "replied"
      <3>1. answer'[c] = answer[c] /\ answer'[d] = answer[d]
        BY <1>1, <1>t, <2>1, RepliedStays
      <3>2. Alike(c, answer[c], d, answer[d])
        BY <1>2, <2>1, <3>1, InPairs DEF ViewsKept
      <3> QED BY <3>1, <3>2, <1>7 DEF Alike
    <2>2. CASE stage[d] # "replied"
      <3>1. /\ handles' = handles
            /\ stage[c] = "replied"
            /\ \/ run = 2 /\ [id |-> d, answer |-> answer'[d]] \in cache
               \/ stage[d] = "ran" /\ answer'[d] = handles[Of(d)]
        BY <1>1, <1>7, <1>t, <2>2, Telling
      <3>2. CASE run = 2 /\ [id |-> d, answer |-> answer'[d]] \in cache
        <4>1. [id |-> d, answer |-> answer'[d]] \in Views
          BY <3>2 DEF Views
        <4>2. handles[Of(d)] = NoAnswer
          BY <1>2, <3>2, <4>1, FromCache
        <4> QED BY <1>7, <3>1, <4>2
      <3>3. CASE answer'[d] = handles[Of(d)]
        BY <1>4, <1>7, <3>1, <3>3
      <3> QED BY <3>1, <3>2, <3>3
    <2>3. CASE stage[c] # "replied" /\ stage[d] = "replied"
      BY <1>7, <1>t, <2>3 DEF Rounds
    <2> QED BY <2>1, <2>2, <2>3
  <1> QED BY <1>5, <1>6, <1>7

LEMMA StepEntriesAgree ==
  ASSUME Base, EntriesAgree, [Next]_vars, Base', Written', ViewsKept'
  PROVE  EntriesAgree'
  <1>s. \A c : Kind(c)' = Kind(c) /\ Of(c)' = Of(c)
    BY Static
  <1>t. Failures /\ run \in 1..2 /\ run' \in 1..2 /\ cache' \subseteq [id : Calls', answer : AnswerType]
    BY DEF Base, Typed, TypeOK
  <1>1. CASE run' = 1
    <2> SUFFICES ASSUME Kept', NEW e \in Views', NEW f \in Views',
                        Of(e.id) = Of(f.id), e.answer.state \in Terminal,
                        f.answer.state \in Terminal \/ e.id[1] < f.id[1]
                 PROVE  e.answer = f.answer
      BY <1>s DEF EntriesAgree, Alike
    <2>1. /\ e.id \in Calls' /\ Kind(e.id)' \in Async /\ e.answer.code = "ok"
          /\ f.id \in Calls' /\ Kind(f.id)' \in Async /\ f.answer.code = "ok"
      BY <1>t DEF Views
    <2>2. /\ stage'[e.id] = "replied" /\ answer'[e.id] = e.answer
          /\ stage'[f.id] = "replied" /\ answer'[f.id] = f.answer
      BY <1>1 DEF Written
    <2>3. ViewsAgree'
      BY DEF ViewsKept
    <2> QED BY <1>s, <2>1, <2>2, <2>3 DEF ViewsAgree
  <1>2. CASE run' = 2 /\ run = 2
    <2>1. Views' = Views /\ ~Replay
      BY <1>2, <1>t, ViewsChange DEF Replay
    <2>2. Kept' <=> Kept
      BY <2>1, SameRun
    <2> QED BY <1>s, <2>1, <2>2 DEF EntriesAgree, Alike
  <1>3. CASE run' = 2 /\ run = 1
    <2>1. Replay
      BY <1>3, SameRun
    <2>2. Views' = Views
      BY <1>s, <2>1 DEF Replay, disk, Views
    <2> QED BY <1>3, <1>s, <2>2 DEF EntriesAgree, Alike, Kept
  <1> QED BY <1>1, <1>2, <1>3, <1>t

-----------------------------------------------------------------------------
(* The invariant holds. *)

IInv ==
  /\ Base /\ Written /\ Kin /\ Anew /\ Sourced /\ EntriesAgree /\ ViewsKept

LEMMA InitIInv == Init => IInv
  <1> SUFFICES ASSUME Init PROVE IInv
    OBVIOUS
  <1>1. Written /\ Kin /\ Anew /\ EntriesAgree
    BY DEF Init, NoAnswers, Views, Written, Kin, Anew, EntriesAgree
  <1>2. Sourced /\ ViewsKept
    BY DEF Init, Sourced, ViewsKept, ViewsAgree
  <1> QED BY <1>1, <1>2, InitBase DEF IInv

LEMMA StepIInv == IInv /\ [Next]_vars => IInv'
  <1> SUFFICES ASSUME IInv, [Next]_vars PROVE IInv'
    OBVIOUS
  <1>1. Base' /\ Written' /\ Kin' /\ Anew' /\ Sourced'
    BY StepBase, StepWritten, StepKin, StepAnew, StepSourced DEF IInv
  <1>2. ViewsKept'
    BY <1>1, StepViewsKept DEF IInv
  <1>3. EntriesAgree'
    BY <1>1, <1>2, StepEntriesAgree DEF IInv
  <1> QED BY <1>1, <1>2, <1>3 DEF IInv

LEMMA Invariance == Spec => []IInv
  BY InitIInv, StepIInv, PTL DEF Spec

\* However polls and cancellations overlap, the script is told one end of a
\* child, in the run and in a replay that lost no line of it.
THEOREM OneEndIsTold == Spec => [](Kept => ViewsAgree)
  <1>1. IInv => (Kept => ViewsAgree)
    BY DEF IInv, ViewsKept
  <1> QED BY Invariance, <1>1, PTL

\* Where every write of a cache line succeeds that is so in every state.
NoLineIsLost == \A s \in Setups : "unrecorded" \notin s.faults

THEOREM ViewsAgreeAlways == NoLineIsLost => (Spec => []ViewsAgree)
  <1> SUFFICES ASSUME NoLineIsLost PROVE Spec => []ViewsAgree
    OBVIOUS
  <1>1. IInv => ViewsAgree
    BY DEF IInv, ViewsKept, Kept, Base, Typed, NoLineIsLost
  <1> QED BY Invariance, <1>1, PTL

-----------------------------------------------------------------------------
(* The cap. *)

\* Every child was counted by _agent_calls before it was launched, and was only
\* launched while that count was within the cap.
Counted ==
  /\ setup \in Setups /\ agents \in Nat
  /\ IsFiniteSet(children)
  /\ Cardinality(children) <= agents
  /\ Cardinality(children) <= setup.agents

-----------------------------------------------------------------------------

LEMMA InitCounted == Init => Counted
  <1> SUFFICES ASSUME Init PROVE Counted
    OBVIOUS
  <1>1. setup \in Setups /\ agents = 0 /\ children = {}
    BY DEF Init
  <1>2. setup.agents \in Nat
    BY <1>1, BrokerAssumption DEF BrokerAssumption
  <1>3. IsFiniteSet({}) /\ Cardinality({}) = 0
    BY FS_EmptySet
  <1> QED BY <1>1, <1>2, <1>3 DEF Counted

\* What changes neither the children nor the limits, and does not lower the count.
LEMMA NotLowered ==
  ASSUME Counted, UNCHANGED <<setup, children>>, agents' \in Nat, agents' >= agents
  PROVE  Counted'
  <1>1. Cardinality(children) \in Nat
    BY FS_CardinalityType DEF Counted
  <1> QED BY <1>1 DEF Counted

LEMMA StepCounted == Counted /\ [Next]_vars => Counted'
  <1> SUFFICES ASSUME Counted, [Next]_vars PROVE Counted'
    OBVIOUS
  <1>0. agents \in Nat
    BY DEF Counted
  <1>a. ASSUME NEW c \in Calls, Admit(c) PROVE Counted'
    <2>1. CASE WithinCap
      <3>1. /\ children' = children \cup {c} /\ agents' = agents + 1 /\ setup' = setup
            /\ agents + 1 <= setup.agents
        BY <1>a, <2>1 DEF Admit, WithinCap
      <3>2. /\ IsFiniteSet(children) /\ Cardinality(children) \in Nat
            /\ IsFiniteSet(children \cup {c})
            /\ \/ Cardinality(children \cup {c}) = Cardinality(children)
               \/ Cardinality(children \cup {c}) = Cardinality(children) + 1
        <4>1. IsFiniteSet(children)
          BY DEF Counted
        <4> QED BY <4>1, FS_CardinalityType, FS_AddElement
      <3>3. Cardinality(children \cup {c}) \in Nat /\ setup.agents \in Nat
        BY <3>1, <3>2, FS_CardinalityType, BrokerAssumption DEF Counted, BrokerAssumption
      <3> QED BY <3>1, <3>2, <3>3 DEF Counted
    <2>2. CASE ~WithinCap
      <3>1. UNCHANGED <<setup, children>> /\ agents' = agents + 1
        BY <1>a, <2>2 DEF Admit
      <3> QED BY <1>0, <3>1, NotLowered
    <2> QED BY <2>1, <2>2
  <1>h. ASSUME NEW c \in Calls, PromptHit(c) \/ ReplayHit(c) PROVE Counted'
    <2>1. UNCHANGED <<setup, children>> /\ (agents' = agents \/ agents' = agents + 1)
      <3>1. CASE PromptHit(c)
        BY <1>0, <3>1 DEF PromptHit, history
      <3>2. CASE ReplayHit(c)
        BY <1>0, <3>2 DEF ReplayHit, history
      <3> QED BY <1>h, <3>1, <3>2
    <2> QED BY <1>0, <2>1, NotLowered
  <1>o. ASSUME NEW c \in Calls,
               \/ OverBudget(c) \/ UnknownType(c) \/ Return(c) \/ BadSchema(c) \/ Raise(c)
               \/ Start(c) \/ Known(c) \/ AskRunner(c) \/ Apply(c) \/ Persist(c) \/ ChildDone(c)
        PROVE  Counted'
    <2>1. UNCHANGED <<setup, children, agents>>
      BY <1>o DEF OverBudget, UnknownType, Return, BadSchema, Raise, Start, Known, AskRunner,
                  Apply, Persist, ChildDone, history, counters
    <2> QED BY <1>0, <2>1, NotLowered
  <1>e. End \/ UNCHANGED vars => Counted'
    <2>1. End \/ UNCHANGED vars => UNCHANGED <<setup, children, agents>>
      BY DEF End, vars, counters, history
    <2> QED BY <1>0, <2>1, NotLowered
  <1>r. Replay => Counted'
    <2> SUFFICES ASSUME Replay PROVE Counted'
      OBVIOUS
    <2>1. setup' = setup /\ agents' = 0 /\ children' = {}
      BY DEF Replay
    <2>2. setup.agents \in Nat
      BY BrokerAssumption DEF Counted, BrokerAssumption
    <2>3. IsFiniteSet({}) /\ Cardinality({}) = 0
      BY FS_EmptySet
    <2> QED BY <2>1, <2>2, <2>3 DEF Counted
  <1> QED BY <1>a, <1>h, <1>o, <1>e, <1>r DEF Next, Broker

\* No run and no replay launches more children than max_agent_calls, whichever
\* calls are made together and however their threads interleave.
THEOREM CapIsKept == Spec => []CapHolds
  <1>1. Counted => CapHolds
    BY DEF Counted, CapHolds
  <1> QED BY InitCounted, StepCounted, <1>1, PTL DEF Spec

-----------------------------------------------------------------------------
(* The budget. *)

LEMMA Least ==
  ASSUME NEW T \in SUBSET Nat, T # {}
  PROVE  \E n \in T : \A m \in T : n <= m
  <1>1. \E x \in T : \A y \in T : <<y, x>> \notin OpToRel(<, Nat)
    BY WFMin, NatLessThanWellFounded
  <1>2. \A x, y \in T : <<y, x>> \notin OpToRel(<, Nat) => x <= y
    BY DEF OpToRel
  <1> QED BY <1>1, <1>2

\* Finitely many numbers have a bound: there is no least n for which they have none.
LEMMA Bound ==
  ASSUME NEW len, NEW n \in Nat, \A r \in 1..n : len[r] \in Nat
  PROVE  \E m \in Nat : \A r \in 1..n : len[r] <= m
  <1> DEFINE Bounds(k, m) == \A r \in 1..k : len[r] <= m
             Bad == {k \in 0..n : \A m \in Nat : ~Bounds(k, m)}
  <1>1. ASSUME Bad # {} PROVE FALSE
    <2>1. PICK k \in Bad : \A j \in Bad : k <= j
      <3>1. Bad \in SUBSET Nat
        BY DEF Bad
      <3> HIDE DEF Bad
      <3> QED BY <1>1, <3>1, Least
    <2>2. k \in 0..n /\ \A m \in Nat : ~Bounds(k, m)
      BY <2>1
    <2>3. k # 0
      <3>1. Bounds(0, 0)
        OBVIOUS
      <3> QED BY <2>2, <3>1
    <2>4. k - 1 \in 0..n /\ k - 1 \notin Bad
      <3> HIDE DEF Bad
      <3> QED BY <2>1, <2>2, <2>3
    <2>5. PICK m \in Nat : Bounds(k - 1, m)
      BY <2>4
    <2>6. len[k] \in Nat
      BY <2>2, <2>3
    <2>7. \A r \in 1..k : r \in 1..(k - 1) \/ r = k
      BY <2>2
    <2>8. CASE len[k] <= m
      BY <2>2, <2>5, <2>7, <2>8
    <2>9. CASE m <= len[k]
      <3>1. \A r \in 1..(k - 1) : len[r] <= len[k]
        BY <2>2, <2>5, <2>6, <2>9
      <3>2. len[k] <= len[k]
        BY <2>6
      <3>3. Bounds(k, len[k])
        BY <2>7, <3>1, <3>2
      <3> QED BY <2>2, <2>6, <3>3
    <2> QED BY <2>5, <2>6, <2>8, <2>9
  <1>2. n \notin Bad
    <2> HIDE DEF Bad
    <2> QED BY <1>1
  <1> QED BY <1>2

LEMMA LengthsBounded ==
  ASSUME setup \in Setups
  PROVE  \E m \in Nat : \A r \in DOMAIN Script : Len(Script[r]) <= m
  <1> DEFINE len == [r \in DOMAIN Script |-> Len(Script[r])]
  <1>1. Script \in Seq(Seq([kind : Kinds, of : Nat \X Nat]))
    BY BrokerAssumption DEF BrokerAssumption, Script
  <1>2. /\ Len(Script) \in Nat /\ DOMAIN Script = 1..Len(Script)
        /\ \A r \in DOMAIN Script : Script[r] \in Seq([kind : Kinds, of : Nat \X Nat])
    BY <1>1, Elements
  <1>3. \A r \in DOMAIN Script : len[r] = Len(Script[r]) /\ len[r] \in Nat
    BY <1>2, Elements
  <1> HIDE DEF len
  <1>4. \E m \in Nat : \A r \in 1..Len(Script) : len[r] <= m
    BY <1>2, <1>3, Bound
  <1> QED BY <1>2, <1>3, <1>4

LEMMA WidthIsLargest ==
  ASSUME setup \in Setups, NEW c \in Calls
  PROVE  Width \in Nat /\ Len(Script[c[1]]) <= Width
  <1> DEFINE S == {Len(Script[r]) : r \in DOMAIN Script}
             B == {m \in Nat : \A x \in S : x <= m}
  <1>1. PICK b \in Nat : \A r \in DOMAIN Script : Len(Script[r]) <= b
    BY LengthsBounded
  <1>2. Len(Script[c[1]]) \in S
    BY Places
  <1>3. S \subseteq Nat
    <2>1. Script \in Seq(Seq([kind : Kinds, of : Nat \X Nat]))
      BY BrokerAssumption DEF BrokerAssumption, Script
    <2>2. \A r \in DOMAIN Script : Script[r] \in Seq([kind : Kinds, of : Nat \X Nat])
      BY <2>1, Elements
    <2>3. \A r \in DOMAIN Script : Len(Script[r]) \in Nat
      BY <2>2, Elements
    <2> QED BY <2>3
  <1>4. b \in B
    BY <1>1
  <1>5. PICK m \in B : \A n \in B : m <= n
    BY <1>4, Least
  <1> HIDE DEF S
  <1>6. m \in S
    <2> SUFFICES ASSUME m \notin S PROVE FALSE
      OBVIOUS
    <2>1. \A x \in S : x <= m - 1
      BY <1>3, <1>5
    <2>2. m - 1 \in Nat
      BY <1>2, <1>3, <1>5, <2>1
    <2> QED BY <1>5, <2>1, <2>2
  <1>7. Width = CHOOSE x \in S : \A y \in S : x >= y
    BY DEF Width, Max, S
  <1>8. Width \in S /\ \A y \in S : Width >= y
    BY <1>3, <1>5, <1>6, <1>7
  <1> QED BY <1>2, <1>3, <1>8

LEMMA Times ==
  ASSUME NEW m \in Nat, NEW x \in Nat, NEW y \in Nat, x <= y
  PROVE  /\ m * x \in Nat /\ m * y \in Nat /\ m * x <= m * y
         /\ m * (x + 1) = m * x + m
  <1>1. m * (y - x) >= 0
    OBVIOUS
  <1> QED BY <1>1

\* While a call of a round can be made, those that block are of that round.
LEMMA Room ==
  ASSUME Base, IsFiniteSet(children), NEW c \in Calls, Sent(c)
  PROVE  /\ IsFiniteSet(Owing) /\ IsFiniteSet(Starts)
         /\ Cardinality(Owing) \in Nat /\ Cardinality(Starts) \in Nat /\ Width \in Nat
         /\ Cardinality(Owing) + 1 <= Width + Cardinality(Starts)
  <1> DEFINE Round == {d \in Calls : d[1] = c[1]}
             Now == {d \in children : stage[d] = "running" /\ Kind(d) # "start"}
             f == [d \in Round |-> d[2]]
             n == Len(Script[c[1]])
  <1>t. Typed /\ Rounds /\ Launched /\ children \subseteq Calls /\ stage[c] = "new"
    BY DEF Base, Typed, TypeOK, Sent
  <1>1. \A d \in Calls : d = <<d[1], d[2]>> /\ d[1] \in Nat /\ d[2] \in 1..Len(Script[d[1]])
    BY <1>t, Places DEF Typed
  <1>2. n \in Nat /\ Width \in Nat /\ n <= Width
    BY <1>t, Places, WidthIsLargest DEF Typed
  <1>3. f \in Injection(Round, 1..n)
    <2>1. f \in [Round -> 1..n]
      BY <1>1
    <2>2. \A x, y \in Round : f[x] = f[y] => x = y
      BY <1>1
    <2> HIDE DEF f
    <2>3. DOMAIN f = Round
      BY <2>1
    <2> HIDE DEF Round
    <2> QED BY <2>1, <2>2, <2>3 DEF Injection, IsInjective
  <1>4. IsFiniteSet(Round) /\ Cardinality(Round) <= n
    <2> HIDE DEF f, Round, n
    <2>1. IsFiniteSet(1..n) /\ Cardinality(1..n) = n
      <3>1. 1 \in Int /\ n \in Int
        BY <1>2
      <3>2. /\ IsFiniteSet(1..n)
            /\ Cardinality(1..n) = IF 1 > n THEN 0 ELSE n - 1 + 1
        BY <3>1, FS_Interval
      <3> QED BY <1>2, <3>2
    <2> QED BY <1>3, <2>1, FS_Injection
  <1>5. Now \subseteq Round \ {c}
    <2> SUFFICES ASSUME NEW d \in Now PROVE d \in Round /\ d # c
      OBVIOUS
    <2>1. d \in Calls /\ stage[d] = "running"
      BY <1>t
    <2>2. ~(d[1] < c[1])
      BY <2>1 DEF Sent
    <2>3. ~(c[1] < d[1])
      BY <1>t, <2>1 DEF Rounds
    <2> QED BY <1>1, <1>t, <2>1, <2>2, <2>3
  <1>6. IsFiniteSet(Now) /\ Cardinality(Now) + 1 <= Width
    <2>1. /\ IsFiniteSet(Round \ {c}) /\ Cardinality(Round \ {c}) = Cardinality(Round) - 1
          /\ Cardinality(Round) \in Nat
      BY <1>4, FS_RemoveElement, FS_CardinalityType
    <2>2. IsFiniteSet(Now) /\ Cardinality(Now) <= Cardinality(Round \ {c})
      BY <1>5, <2>1, FS_Subset
    <2>3. Cardinality(Now) \in Nat
      BY <2>2, FS_CardinalityType
    <2> QED BY <1>2, <1>4, <2>1, <2>2, <2>3
  <1>7. IsFiniteSet(Owing) /\ IsFiniteSet(Starts)
    <2>1. Owing \in SUBSET children /\ Starts \in SUBSET children
      BY DEF Owing, Starts
    <2> QED BY <2>1, FS_Subset
  <1>8. /\ IsFiniteSet(Now \cup Starts)
        /\ Cardinality(Now \cup Starts) <= Cardinality(Now) + Cardinality(Starts)
    <2>1. IsFiniteSet(Now \cap Starts)
      BY <1>6, FS_Subset
    <2>2. /\ IsFiniteSet(Now \cup Starts)
          /\ Cardinality(Now \cup Starts) = Cardinality(Now) + Cardinality(Starts) - Cardinality(Now \cap Starts)
      BY <1>6, <1>7, FS_Union
    <2> QED BY <1>6, <1>7, <2>1, <2>2, FS_CardinalityType
  <1>9. Owing \in SUBSET (Now \cup Starts)
    BY DEF Owing, Starts
  <1>10. Cardinality(Owing) <= Cardinality(Now \cup Starts)
    BY <1>8, <1>9, FS_Subset
  <1>11. /\ Cardinality(Now) \in Nat /\ Cardinality(Starts) \in Nat /\ Cardinality(Owing) \in Nat
         /\ Cardinality(Now \cup Starts) \in Nat
    BY <1>6, <1>7, <1>8, FS_CardinalityType
  <1> QED BY <1>2, <1>6, <1>7, <1>8, <1>10, <1>11

\* The bound, with the children counted.
Charged == OvershootBounded /\ Counted

\* Numbers that the steps below compare.
LEMMA Numbers ==
  ASSUME Base, IsFiniteSet(children), children # {}
  PROVE  /\ tokens \in Nat /\ setup.budget \in Nat /\ MaxCost \in Nat /\ Width \in Nat
         /\ IsFiniteSet(Owing) /\ IsFiniteSet(Starts)
         /\ Cardinality(Owing) \in Nat /\ Cardinality(Starts) \in Nat
  <1>1. tokens \in Nat /\ setup \in Setups /\ children \subseteq Calls
    BY DEF Base, Typed, TypeOK
  <1>2. setup.budget \in Nat
    BY <1>1, BrokerAssumption DEF BrokerAssumption
  <1>3. Width \in Nat
    BY <1>1, WidthIsLargest
  <1>4. Owing \in SUBSET children /\ Starts \in SUBSET children
    BY DEF Owing, Starts
  <1>5. IsFiniteSet(Owing) /\ IsFiniteSet(Starts)
    BY <1>4, FS_Subset
  <1> QED BY <1>1, <1>2, <1>3, <1>5, Largest, FS_CardinalityType

\* A step that charges nothing and after which no more is owed.
LEMMA Calm ==
  ASSUME Base, Charged, [Next]_vars, run' = run,
         tokens' = tokens, children' = children, Owing' \subseteq Owing
  PROVE  OvershootBounded'
  <1> SUFFICES ASSUME run = 1, children # {}
               PROVE  tokens + MaxCost * Cardinality(Owing')
                        <= setup.budget + MaxCost * (Width + Cardinality(Starts)) - 1
    <2>1. Starts' = Starts /\ Width' = Width /\ setup' = setup
      BY Static DEF Starts, Width
    <2> QED BY <2>1 DEF OvershootBounded
  <1>1. tokens + MaxCost * Cardinality(Owing)
          <= setup.budget + MaxCost * (Width + Cardinality(Starts)) - 1
    BY DEF Charged, OvershootBounded
  <1>2. IsFiniteSet(children)
    BY DEF Charged, Counted
  <1>3. IsFiniteSet(Owing') /\ Cardinality(Owing') <= Cardinality(Owing)
    BY <1>2, Numbers, FS_Subset
  <1>4. Cardinality(Owing') \in Nat
    BY <1>3, FS_CardinalityType
  <1>5. MaxCost * Cardinality(Owing') <= MaxCost * Cardinality(Owing)
    BY <1>2, <1>3, <1>4, Numbers, Times
  <1> DEFINE a == MaxCost * Cardinality(Owing')
             b == MaxCost * Cardinality(Owing)
             d == MaxCost * (Width + Cardinality(Starts))
  <1>6. a \in Nat /\ b \in Nat /\ d \in Nat /\ tokens \in Nat /\ setup.budget \in Nat
    BY <1>2, <1>4, Numbers
  <1>7. tokens + b <= setup.budget + d - 1 /\ a <= b
    BY <1>1, <1>5
  <1> HIDE DEF a, b, d
  <1>8. tokens + a <= setup.budget + d - 1
    BY <1>6, <1>7
  <1> QED BY <1>8 DEF a, d

\* A step that charges what was owed for a child.
LEMMA Paid ==
  ASSUME Base, Charged, [Next]_vars, run' = run, NEW x \in Owing, NEW cost \in Nat, cost <= MaxCost,
         tokens' = tokens + cost, children' = children, Owing' \subseteq Owing \ {x}
  PROVE  OvershootBounded'
  <1> SUFFICES ASSUME run = 1, children # {}
               PROVE  tokens + cost + MaxCost * Cardinality(Owing')
                        <= setup.budget + MaxCost * (Width + Cardinality(Starts)) - 1
    <2>1. Starts' = Starts /\ Width' = Width /\ setup' = setup
      BY Static DEF Starts, Width
    <2> QED BY <2>1 DEF OvershootBounded
  <1>1. tokens + MaxCost * Cardinality(Owing)
          <= setup.budget + MaxCost * (Width + Cardinality(Starts)) - 1
    BY DEF Charged, OvershootBounded
  <1>2. IsFiniteSet(children)
    BY DEF Charged, Counted
  <1>3. IsFiniteSet(Owing \ {x}) /\ Cardinality(Owing \ {x}) = Cardinality(Owing) - 1
    BY <1>2, Numbers, FS_RemoveElement
  <1>4. IsFiniteSet(Owing') /\ Cardinality(Owing') <= Cardinality(Owing \ {x})
    BY <1>3, FS_Subset
  <1>5. Cardinality(Owing') \in Nat /\ Cardinality(Owing') + 1 <= Cardinality(Owing)
    BY <1>2, <1>3, <1>4, Numbers, FS_CardinalityType
  <1>6. /\ MaxCost * (Cardinality(Owing') + 1) <= MaxCost * Cardinality(Owing)
        /\ MaxCost * (Cardinality(Owing') + 1) = MaxCost * Cardinality(Owing') + MaxCost
    <2>1. Cardinality(Owing') + 1 \in Nat
      BY <1>5
    <2> QED BY <1>2, <1>5, <2>1, Numbers, Times
  <1> DEFINE a == MaxCost * Cardinality(Owing')
             b == MaxCost * Cardinality(Owing)
             d == MaxCost * (Width + Cardinality(Starts))
  <1>7. /\ a \in Nat /\ b \in Nat /\ d \in Nat /\ tokens \in Nat /\ setup.budget \in Nat
        /\ MaxCost \in Nat
    BY <1>2, <1>5, Numbers
  <1>8. tokens + b <= setup.budget + d - 1 /\ a + MaxCost <= b
    BY <1>1, <1>6
  <1> HIDE DEF a, b, d
  <1>9. tokens + cost + a <= setup.budget + d - 1
    BY <1>7, <1>8
  <1> QED BY <1>9 DEF a, d

\* A step that is taken below the budget, and charges or owes for one call more.
LEMMA Below ==
  ASSUME Base, IsFiniteSet(children), [Next]_vars, NEW c \in Calls, Sent(c), tokens < setup.budget,
         NEW cost \in Nat, NEW more \in Nat, cost <= MaxCost * (1 - more), more <= 1,
         tokens' = tokens + cost,
         Cardinality(Owing') \in Nat, Cardinality(Owing') <= Cardinality(Owing) + more,
         Cardinality(Starts') \in Nat, Cardinality(Starts) <= Cardinality(Starts')
  PROVE  OvershootBounded'
  <1>1. /\ Cardinality(Owing) \in Nat /\ Cardinality(Starts) \in Nat /\ Width \in Nat
        /\ Cardinality(Owing) + 1 <= Width + Cardinality(Starts)
    BY Room
  <1>2. /\ tokens \in Nat /\ setup.budget \in Nat /\ MaxCost \in Nat
    <2>1. setup \in Setups /\ tokens \in Nat
      BY DEF Base, Typed, TypeOK
    <2> QED BY <2>1, Largest, BrokerAssumption DEF BrokerAssumption
  <1> DEFINE o == Cardinality(Owing')
             w == Width + Cardinality(Starts')
  <1>3. o \in Nat /\ w \in Nat /\ o + (1 - more) <= w
    BY <1>1
  <1> SUFFICES tokens + cost + MaxCost * o <= setup.budget + MaxCost * w - 1
    <2>1. Width' = Width /\ setup' = setup
      BY Static DEF Width
    <2> QED BY <2>1 DEF OvershootBounded
  <1> HIDE DEF o, w
  <1>4. CASE more = 1
    <2>1. cost = 0
      BY <1>2, <1>4
    <2>2. MaxCost * o <= MaxCost * w /\ MaxCost * o \in Nat /\ MaxCost * w \in Nat
      BY <1>2, <1>3, <1>4, Times
    <2> DEFINE a == MaxCost * o
               b == MaxCost * w
    <2>3. a \in Nat /\ b \in Nat /\ a <= b
      BY <2>2
    <2> HIDE DEF a, b
    <2>4. tokens + cost + a <= setup.budget + b - 1
      BY <1>2, <2>1, <2>3
    <2> QED BY <2>4 DEF a, b
  <1>5. CASE more = 0
    <2>1. cost <= MaxCost
      BY <1>2, <1>5
    <2>2. /\ MaxCost * (o + 1) <= MaxCost * w /\ MaxCost * o \in Nat /\ MaxCost * w \in Nat
          /\ MaxCost * (o + 1) = MaxCost * o + MaxCost
      <3>1. o + 1 \in Nat /\ o + 1 <= w
        BY <1>3, <1>5
      <3> QED BY <1>2, <1>3, <3>1, Times
    <2> DEFINE a == MaxCost * o
               b == MaxCost * w
    <2>3. a \in Nat /\ b \in Nat /\ a + MaxCost <= b
      BY <2>2
    <2> HIDE DEF a, b
    <2>4. tokens + cost + a <= setup.budget + b - 1
      BY <1>2, <2>1, <2>3
    <2> QED BY <2>4 DEF a, b
  <1> QED BY <1>4, <1>5

\* Nothing more is owed when calls are only answered.
LEMMA OwedNoMore ==
  ASSUME [Next]_vars, children' = children, handles' = handles,
         \A d \in children : stage'[d] = stage[d] \/ stage'[d] = "replied"
                               \/ (Kind(d) # "start" /\ stage'[d] = "ran") \/ stage[d] = "running"
  PROVE  Owing' \subseteq Owing
  BY Static DEF Owing

LEMMA StepOvershoot == Base /\ Charged /\ [Next]_vars => OvershootBounded'
  <1> SUFFICES ASSUME Base, Charged, [Next]_vars PROVE OvershootBounded'
    OBVIOUS
  <1>s. Calls' = Calls /\ \A c : Kind(c)' = Kind(c)
    BY Static
  <1>t. /\ Typed /\ Rounds /\ Launched /\ Words /\ Handled /\ Asked /\ Priced
        /\ stage \in [Calls -> {"new", "running", "polled", "ran", "replied"}]
        /\ handles \in [Calls -> AnswerType]
        /\ children \subseteq Calls /\ tokens \in Nat /\ IsFiniteSet(children)
    BY DEF Base, Typed, TypeOK, Charged, Counted
  <1>0. CASE Replay
    BY <1>0 DEF Replay, OvershootBounded
  <1>1. ASSUME NEW c \in Calls, PromptHit(c) PROVE OvershootBounded'
    <2>1. PICK e \in Remembered(c) :
            \/ Reply(c, Denied("limit_agent")) /\ UNCHANGED tokens
            \/ Reply(c, Ok(e.cost)) /\ tokens' = tokens + e.cost
      BY <1>1 DEF PromptHit
    <2>2. Sent(c) /\ tokens < setup.budget /\ UNCHANGED <<run, children, handles>>
      BY <1>1 DEF PromptHit, history, memory
    <2>3. \A d \in Calls : stage'[d] = stage[d] \/ stage'[d] = "replied"
      BY <1>t, <2>1 DEF Reply
    <2>4. Owing' \subseteq Owing
      BY <1>t, <2>2, <2>3, OwedNoMore
    <2>5. CASE tokens' = tokens
      BY <2>2, <2>4, <2>5, Calm
    <2>6. CASE run = 1 /\ tokens' = tokens + e.cost
      <3>1. e.cost \in Nat /\ e.cost <= MaxCost
        BY <1>t, <2>6 DEF Remembered, Typed, TypeOK, Priced
      <3>2. /\ IsFiniteSet(Owing) /\ IsFiniteSet(Starts) /\ Cardinality(Owing) \in Nat
            /\ Cardinality(Starts) \in Nat
        BY <1>t, <2>2, Room
      <3>3. Cardinality(Owing') \in Nat /\ Cardinality(Owing') <= Cardinality(Owing)
        BY <2>4, <3>2, FS_Subset, FS_CardinalityType
      <3>4. Starts' = Starts
        BY <2>2, <1>s DEF Starts
      <3>5. e.cost <= MaxCost * (1 - 0)
        BY <3>1, Largest
      <3> QED BY <1>t, <2>2, <2>6, <3>1, <3>2, <3>3, <3>4, <3>5, Below
    <2>7. CASE run # 1
      BY <2>2, <2>7 DEF OvershootBounded
    <2> QED BY <2>1, <2>5, <2>6, <2>7
  <1>2. ASSUME NEW c \in Calls, ReplayHit(c) PROVE OvershootBounded'
    <2>1. run = 2 /\ run' = run
      BY <1>2 DEF ReplayHit, Entries
    <2> QED BY <2>1 DEF OvershootBounded
  <1>3. ASSUME NEW c \in Calls, OverBudget(c) \/ UnknownType(c) \/ BadSchema(c) \/ Raise(c) \/ Persist(c)
        PROVE  OvershootBounded'
    <2>1. UNCHANGED <<run, tokens, children, handles>>
      BY <1>3 DEF OverBudget, UnknownType, BadSchema, Raise, Persist, counters, memory, history
    <2>2. \A d \in Calls : stage'[d] = stage[d] \/ stage'[d] = "replied"
      BY <1>3, <1>t DEF OverBudget, UnknownType, BadSchema, Raise, Persist, Reply
    <2>3. Owing' \subseteq Owing
      BY <1>t, <2>1, <2>2, OwedNoMore
    <2> QED BY <2>1, <2>3, Calm
  <1>4. ASSUME NEW c \in Calls, Admit(c) PROVE OvershootBounded'
    <2>1. Sent(c) /\ tokens < setup.budget /\ UNCHANGED <<run, tokens, handles>>
      BY <1>4 DEF Admit, Miss, Affordable, memory
    <2>2. c \notin children
      BY <1>t, <2>1 DEF Sent, Launched
    <2>3. CASE ~WithinCap
      <3>1. children' = children /\ \A d \in Calls : stage'[d] = stage[d] \/ stage'[d] = "replied"
        BY <1>4, <1>t, <2>3 DEF Admit, Reply
      <3>2. Owing' \subseteq Owing
        BY <1>t, <2>1, <3>1, OwedNoMore
      <3> QED BY <2>1, <3>1, <3>2, Calm
    <2>4. CASE WithinCap
      <3>1. children' = children \cup {c} /\ stage' = [stage EXCEPT ![c] = "running"]
        BY <1>4, <2>4 DEF Admit
      <3>2. Owing' \subseteq Owing \cup {c} /\ Starts \subseteq Starts'
        BY <1>s, <1>t, <2>1, <3>1 DEF Owing, Starts
      <3>3. /\ IsFiniteSet(Owing) /\ IsFiniteSet(Starts) /\ Cardinality(Owing) \in Nat
            /\ Cardinality(Starts) \in Nat
        BY <1>t, <2>1, Room
      <3>4. IsFiniteSet(Owing \cup {c}) /\ Cardinality(Owing \cup {c}) <= Cardinality(Owing) + 1
        BY <3>3, FS_AddElement
      <3>5. IsFiniteSet(Owing') /\ Cardinality(Owing') <= Cardinality(Owing \cup {c})
        BY <3>2, <3>4, FS_Subset
      <3>6. Cardinality(Owing') \in Nat /\ Cardinality(Owing') <= Cardinality(Owing) + 1
        BY <3>3, <3>4, <3>5, FS_CardinalityType
      <3>7. Starts' \in SUBSET (children \cup {c}) /\ IsFiniteSet(children \cup {c})
        BY <1>t, <3>1, FS_AddElement DEF Starts
      <3>8. IsFiniteSet(Starts') /\ Cardinality(Starts') \in Nat
        BY <3>7, FS_Subset, FS_CardinalityType
      <3>9. Cardinality(Starts) <= Cardinality(Starts')
        BY <3>2, <3>8, FS_Subset
      <3>10. 0 <= MaxCost * (1 - 1) /\ tokens' = tokens + 0
        BY <1>t, <2>1, Largest
      <3> QED BY <1>t, <2>1, <3>3, <3>6, <3>8, <3>9, <3>10, Below
    <2> QED BY <2>3, <2>4
  <1>5. ASSUME NEW c \in Calls, Return(c) PROVE OvershootBounded'
    <2>1. PICK cost \in Costs :
       /\ tokens' = tokens + cost
       /\ \/ stage' = [stage EXCEPT ![c] = "ran"]
          \/ Reply(c, Denied("result_too_large"))
      BY <1>5 DEF Return
    <2>2. /\ UNCHANGED <<run, children, handles>>
          /\ stage[c] = "running" /\ Kind(c) \in {"agent", "prompt"}
      BY <1>5 DEF Return, Blocking, memory
    <2>3. c \in children /\ c \in Owing
      BY <1>t, <2>2 DEF Launched, Launching, Owing
    <2>4. stage'[c] \in {"ran", "replied"} /\ \A d \in Calls : d # c => stage'[d] = stage[d]
      BY <1>t, <2>1 DEF Reply
    <2>5. Owing' \subseteq Owing \ {c}
      BY <1>s, <1>t, <2>2, <2>4 DEF Owing
    <2>6. cost \in Nat /\ cost <= MaxCost
      BY Largest
    <2> QED BY <2>1, <2>2, <2>3, <2>5, <2>6, Paid
  <1>6. ASSUME NEW c \in Calls, Start(c) PROVE OvershootBounded'
    <2>1. /\ UNCHANGED <<run, tokens, children>> /\ stage[c] = "running" /\ Kind(c) = "start"
          /\ \A d \in Calls : d # c => stage'[d] = stage[d] /\ handles'[d] = handles[d]
      BY <1>6, <1>t DEF Start, counters, history
    <2>2. Owing' \subseteq Owing
      BY <1>s, <1>t, <2>1 DEF Owing
    <2> QED BY <2>1, <2>2, Calm
  <1>7. ASSUME NEW c \in Calls, Known(c) \/ AskRunner(c) PROVE OvershootBounded'
    <2>1. UNCHANGED <<run, tokens, children, handles>> /\ Kind(c) \in Async
      BY <1>7 DEF Known, AskRunner, counters, memory, history
    <2>2. c \notin children
      BY <1>t, <2>1, Sorts DEF Typed, Launched
    <2>3. \A d \in Calls : d # c => stage'[d] = stage[d]
      BY <1>7, <1>t DEF Known, AskRunner, Reply
    <2>4. Owing' \subseteq Owing
      BY <1>t, <2>1, <2>2, <2>3, OwedNoMore
    <2> QED BY <2>1, <2>4, Calm
  <1>8. ASSUME NEW c \in Calls, Apply(c) PROVE OvershootBounded'
    <2>1. /\ UNCHANGED <<run, children>> /\ Kind(c) \in Async /\ Word(answer[c])
          /\ handles[Of(c)] # NoAnswer /\ stage[c] = "polled"
          /\ stage' = [stage EXCEPT ![c] = "ran"]
      BY <1>8, <1>t DEF Apply, Asked, history
    <2>2. c \notin children /\ Of(c) \in Calls /\ Of(c)[1] < c[1]
      BY <1>t, <2>1, Sorts, Handle DEF Typed, Launched
    <2>3. \A d \in children : stage'[d] = stage[d]
      BY <1>t, <2>1, <2>2
    <2>4. CASE Keeps(Of(c))
      <3>1. UNCHANGED <<tokens, handles>>
        BY <1>8, <2>4 DEF Apply
      <3>2. Owing' \subseteq Owing
        BY <2>1, <2>3, <3>1, OwedNoMore
      <3> QED BY <2>1, <3>1, <3>2, Calm
    <2>5. CASE ~Keeps(Of(c))
      <3>1. handles' = [handles EXCEPT ![Of(c)] = answer[c]] /\ tokens' = tokens + answer[c].cost
        BY <1>8, <2>5 DEF Apply
      <3>2. Of(c) \in children /\ Kind(Of(c)) = "start" /\ handles[Of(c)].state = "pending"
        BY <1>t, <2>1, <2>2, <2>5 DEF Handled, Word, Keeps, Terminal
      <3>3. Of(c) \in Owing
        BY <3>2 DEF Owing
      <3>4. \A d \in children : d # Of(c) => handles'[d] = handles[d]
        BY <1>t, <3>1
      <3>5. Owing' \subseteq Owing
        BY <1>s, <2>1, <2>3, <3>3, <3>4 DEF Owing
      <3>6. answer[c].cost \in Nat /\ answer[c].cost <= MaxCost
        BY <2>1 DEF Word, Base, Typed, TypeOK, AnswerType
      <3>7. CASE answer[c].state = "done"
        <4>1. stage[Of(c)] = "replied"
          BY <1>t, <2>1, <2>2 DEF Rounds
        <4>2. handles'[Of(c)].state = "done" /\ stage'[Of(c)] = "replied"
          BY <1>t, <2>2, <2>3, <3>1, <3>2, <3>7, <4>1
        <4>3. Of(c) \notin Owing'
          BY <4>2 DEF Owing
        <4> QED BY <2>1, <3>1, <3>3, <3>5, <3>6, <4>3, Paid
      <3>8. CASE answer[c].state # "done"
        <4>1. tokens' = tokens
          BY <1>t, <2>1, <3>1, <3>8 DEF Word
        <4> QED BY <2>1, <3>5, <4>1, Calm
      <3> QED BY <3>7, <3>8
    <2> QED BY <2>4, <2>5
  <1>9. ASSUME UNCHANGED <<run, tokens, children, handles, stage>> PROVE OvershootBounded'
    <2>1. Owing' \subseteq Owing
      BY <1>9, OwedNoMore
    <2> QED BY <1>9, <2>1, Calm
  <1>10. ASSUME NEW c \in Calls, ChildDone(c) PROVE UNCHANGED <<run, tokens, children, handles, stage>>
    BY <1>10 DEF ChildDone, calls, counters, memory
  <1>11. End \/ UNCHANGED vars => UNCHANGED <<run, tokens, children, handles, stage>>
    BY DEF End, vars, calls, counters, memory, history
  <1> QED BY <1>0, <1>1, <1>2, <1>3, <1>4, <1>5, <1>6, <1>7, <1>8, <1>9, <1>10, <1>11 DEF Next, Broker

\* However the threads interleave, the recording run passes its token budget by
\* no more than one child's cost for each call of a round and each start: what
\* was in flight when the budget was reached, for any costs and any script.
THEOREM OvershootIsBounded == Spec => []OvershootBounded
  <1>1. Init => OvershootBounded
    BY DEF Init, OvershootBounded
  <1>2. IInv /\ Charged /\ [Next]_vars => Charged'
    BY StepOvershoot, StepCounted DEF IInv, Charged
  <1>3. Init => Charged
    BY <1>1, InitCounted DEF Charged
  <1>4. Charged => OvershootBounded
    BY DEF Charged
  <1> QED BY Invariance, <1>2, <1>3, <1>4, PTL DEF Spec

-----------------------------------------------------------------------------
(* A replay that finds everything recorded. *)

\* Who pays for what a call was told, and the coins that pay for some answers.
Owner(c) == IF Kind(c) \in Async THEN Of(c) ELSE c
Coins(A) == {x \in Calls \X Nat : \E d \in Calls : x[1] = Owner(d) /\ x[2] \in 1..A[d].cost}

\* While a run records, a child in the background has cost what its record says.
Price(c) ==
  IF Kind(c) = "start" THEN handles[c].cost
  ELSE IF Kind(c) \in Async THEN 0 ELSE answer[c].cost
Purse == {x \in Calls \X Nat : x[2] \in 1..Price(x[1])}

\* What a call of each kind may be told.
Plain(c, a) ==
  /\ a.code # "ok" => a = Denied(a.code)
  /\ a.code = "ok" => /\ Kind(c) = "prompt" => a = Ok(a.cost)
                      /\ Kind(c) = "start" => a.cost = 0
                      /\ Kind(c) \in Async => Word(a)
  /\ a.code = "unknown_handle" => Kind(c) \in Async
  /\ Kind(c) = "typed" => a.code \notin {"ok", "runner_error"}

Sensible ==
  run = 1 => \A c \in Calls :
    /\ stage[c] \in {"new", "running"} => answer[c] = NoAnswer
    /\ stage[c] \in {"running", "polled", "ran"} => Kind(c) # "typed"
    /\ stage[c] = "ran" /\ Kind(c) \notin Async => Plain(c, answer[c]) /\ answer[c].code = "ok"
    /\ stage[c] = "replied" => Plain(c, answer[c]) /\ answer[c].code # ""

\* What is on disk, or waits to be, is what was told; no failure is forgotten.
Filed ==
  run = 1 =>
    /\ \A e \in cache \cup buffer : stage[e.id] = "replied" /\ answer[e.id] = e.answer
    /\ setup.deterministic => \A c \in Calls :
         stage[c] = "replied" /\ answer[c].code = "runner_error" => \E e \in buffer : e.id = c

Distinct == \A e, f \in prompts : e.of = f.of => e = f

\* The end of a child is known because somebody was told, or is about to be.
Fetched ==
  run = 1 => \A h \in Calls : handles[h].state = "done" =>
    \E c \in Calls : /\ Kind(c) \in Async /\ Of(c) = h
                     /\ stage[c] = "ran" \/ (stage[c] = "replied" /\ answer[c] = handles[h])

\* The calls that the counter counts.
Taken == {c \in Launching : stage[c] # "new" /\ answer[c].code # "limit_token"}

Ending == [answer |-> answer, agents |-> agents, tokens |-> tokens, aborted |-> abort]
Closed ==
  /\ run = 1 => ended = IF over THEN <<Ending>> ELSE << >>
  /\ run = 2 => ended = IF over THEN <<ended[1], Ending>> ELSE <<ended[1]>>
  /\ over => \A c \in Calls : stage[c] = "replied" \/ (abort /\ stage[c] = "new")
  /\ run = 1 /\ over /\ ~abort => buffer \subseteq cache

\* A replay of a run that completed, and one that has found all it needs so far.
Complete == run = 2 /\ ~ended[1].aborted /\ setup.deterministic
Good ==
  /\ Complete /\ ~abort /\ \A c \in Calls : Recorded(c)
  /\ \A c \in Calls : stage[c] = "replied" => answer[c].code # "limit_agent"

\* What the recorded run has left, whose answers are A.
Legacy(A) ==
  /\ A \in [Calls -> AnswerType]
  /\ \A c \in Calls : Plain(c, A[c]) /\ A[c].code # ""
  /\ \A e \in cache : A[e.id] = e.answer
  /\ \A c \in Calls : A[c].code = "runner_error" => HasEntry(c)
  /\ \A c, d \in Calls : /\ Kind(c) \in Async /\ Kind(d) \in Async /\ Of(c) = Of(d)
                         /\ A[c].state = "done" /\ A[d].state = "done"
                         => A[c] = A[d]
  /\ ended[1].agents = Cardinality({c \in Launching : A[c].code # "limit_token"})
  /\ (\A c \in Calls : A[c].code # "result_too_large") => ended[1].tokens = Cardinality(Coins(A))
Entire == ended[1] = [answer |-> ended[1].answer, agents |-> ended[1].agents,
                      tokens |-> ended[1].tokens, aborted |-> ended[1].aborted]
Inherited == Complete => Legacy(ended[1].answer) /\ Entire

Tally == run = 1 \/ Good => IsFiniteSet(Taken) /\ agents = Cardinality(Taken)

Cash ==
  run = 1 /\ (\A c \in Calls : stage[c] = "replied" => answer[c].code # "result_too_large") =>
    IsFiniteSet(Purse) /\ tokens = Cardinality(Purse)

\* Such a replay launches nothing and has charged what the answers it gave have cost.
Following(A) ==
  /\ \A c \in Calls : \/ stage[c] = "new" /\ answer[c] = NoAnswer
                      \/ stage[c] = "replied" /\ answer[c] = A[c]
  /\ memo = {} /\ handles = NoAnswers
  /\ credited = {Of(c) : c \in {d \in Calls : Kind(d) \in Async /\ answer[d].state = "done"}}
  /\ IsFiniteSet(Coins(answer)) /\ tokens = Cardinality(Coins(answer))
Followed == Good => Following(ended[1].answer)

\* The second of two.
LEMMA Second ==
  ASSUME NEW x, NEW y, NEW q, q = <<x>>
  PROVE  Append(q, y) = <<x, y>> /\ Append(q, y)[1] = x
  <1> DEFINE T == {x, y}
  <1>1. q \in Seq(T) /\ <<x, y>> \in Seq(T) /\ Len(q) = 1 /\ q[1] = x
    OBVIOUS
  <1>2. /\ Append(q, y) \in Seq(T) /\ Len(Append(q, y)) = 2
        /\ Append(q, y)[1] = x /\ Append(q, y)[2] = y
    <2>1. /\ Append(q, y) \in Seq(T) /\ Len(Append(q, y)) = Len(q) + 1
          /\ \A i \in 1..Len(q) : Append(q, y)[i] = q[i]
          /\ Append(q, y)[Len(q) + 1] = y
      BY <1>1, AppendProperties
    <2>2. Len(q) + 1 = 2 /\ 1 \in 1..Len(q)
      BY <1>1
    <2> QED BY <1>1, <2>1, <2>2
  <1>3. <<x, y>>[1] = x /\ <<x, y>>[2] = y /\ Len(<<x, y>>) = 2
    OBVIOUS
  <1>4. \A i \in 1..2 : i = 1 \/ i = 2
    OBVIOUS
  <1>5. \A i \in 1..Len(Append(q, y)) : Append(q, y)[i] = <<x, y>>[i]
    BY <1>2, <1>3, <1>4
  <1> QED BY <1>1, <1>2, <1>3, <1>5, SeqEqual

\* Coins for one more call.
LEMMA Minted ==
  ASSUME NEW S, IsFiniteSet(S), NEW c, \A x \in S : x[1] # c, NEW n \in Nat
  PROVE  LET N == {c} \X (1..n)
         IN IsFiniteSet(S \cup N) /\ Cardinality(S \cup N) = Cardinality(S) + n
  <1> DEFINE N == {c} \X (1..n)
  <1>1. IsFiniteSet(1..n) /\ Cardinality(1..n) = n
    BY FS_Interval
  <1>2. IsFiniteSet({c}) /\ Cardinality({c}) = 1
    BY FS_Singleton
  <1>3. IsFiniteSet(N) /\ Cardinality(N) = 1 * n
    BY <1>1, <1>2, FS_Product
  <1>4. S \cap N = {}
    OBVIOUS
  <1> HIDE DEF N
  <1>5. Cardinality(S \cap N) = 0
    BY <1>4, FS_EmptySet
  <1>6. /\ IsFiniteSet(S \cup N)
        /\ Cardinality(S \cup N) = Cardinality(S) + Cardinality(N) - Cardinality(S \cap N)
    BY <1>3, FS_Union
  <1>7. Cardinality(S) \in Nat
    BY FS_CardinalityType
  <1>8. Cardinality(S \cup N) = Cardinality(S) + n
    BY <1>3, <1>5, <1>6, <1>7
  <1> QED BY <1>6, <1>8 DEF N

\* A step of one call leaves the others' answers, and the recorded run goes on.
LEMMA OthersStay ==
  ASSUME Typed, NEW c \in Calls, Broker(c)
  PROVE  /\ run' = run /\ over' = over /\ ended' = ended
         /\ \A d \in Calls : d # c => stage'[d] = stage[d] /\ answer'[d] = answer[d]
  <1>t. /\ stage \in [Calls -> {"new", "running", "polled", "ran", "replied"}]
        /\ answer \in [Calls -> AnswerType]
    BY DEF Typed, TypeOK
  <1>1. run' = run /\ over' = over /\ ended' = ended
    BY DEF Broker, PromptHit, ReplayHit, OverBudget, UnknownType, Admit, Return, BadSchema,
       Raise, Start, Known, AskRunner, Apply, Persist, history
  <1>2. CASE \E a : Reply(c, a)
    BY <1>1, <1>2, <1>t DEF Reply
  <1>3. CASE ~\E a : Reply(c, a)
    BY <1>1, <1>3, <1>t DEF Broker, PromptHit, ReplayHit, OverBudget, UnknownType, Admit, Return,
         BadSchema, Raise, Start, Known, AskRunner, Apply, Persist
  <1> QED BY <1>2, <1>3

LEMMA NobodyActs ==
  ASSUME [Next]_vars, ~Replay, ~\E c \in Calls : Broker(c)
  PROVE  /\ UNCHANGED <<run, setup, stage, answer, agents, tokens, abort, handles, memo, credited,
                        buffer, prompts>>
         /\ ~End => UNCHANGED <<over, ended, cache>>
  BY DEF Next, ChildDone, End, vars, counters, memory, disk, calls, history

\* While the run records nothing is served from its cache.
LEMMA NothingServed ==
  ASSUME run = 1, NEW c PROVE Entries(c) = {} /\ ~ReplayHit(c)
  BY DEF Entries, ReplayHit

\* Which answers are plain.
LEMMA PlainAnswers ==
  ASSUME NEW c
  PROVE  /\ \A code \in {"limit_agent", "limit_token", "schema", "result_too_large"} :
              Plain(c, Denied(code))
         /\ Plain(c, Denied("unknown_handle")) <=> Kind(c) \in Async
         /\ Plain(c, Denied("runner_error")) <=> Kind(c) # "typed"
         /\ Plain(c, Denied("unknown_agent_type"))
         /\ \A cost \in Nat : Kind(c) \in {"agent", "prompt"} => Plain(c, Ok(cost))
         /\ Kind(c) = "start" => Plain(c, Answer("ok", "pending", 0))
         /\ \A a : Kind(c) \in Async /\ Word(a) => Plain(c, a)
  <1>1. \A code \in {"limit_agent", "limit_token", "schema", "result_too_large", "unknown_handle",
                     "runner_error", "unknown_agent_type"} :
          Denied(code).code = code /\ code # "ok"
    BY DEF Denied, Answer
  <1>2. \A cost \in Nat : Ok(cost).code = "ok" /\ Ok(cost).cost = cost
    BY Answers
  <1>3. Answer("ok", "pending", 0).code = "ok" /\ Answer("ok", "pending", 0).cost = 0
    BY DEF Answer
  <1>4. \A a : Word(a) => a.code = "ok"
    BY DEF Word
  <1> HIDE DEF Ok, Denied, Answer
  <1> QED BY <1>1, <1>2, <1>3, <1>4 DEF Plain, Async

LEMMA StepSensible == Base /\ Sensible /\ [Next]_vars => Sensible'
  <1> SUFFICES ASSUME Base, Sensible, [Next]_vars, run' = 1, NEW d \in Calls
               PROVE  /\ stage'[d] \in {"new", "running"} => answer'[d] = NoAnswer
                      /\ stage'[d] \in {"running", "polled", "ran"} => Kind(d) # "typed"
                      /\ stage'[d] = "ran" /\ Kind(d) \notin Async =>
                           Plain(d, answer'[d]) /\ answer'[d].code = "ok"
                      /\ stage'[d] = "replied" => Plain(d, answer'[d]) /\ answer'[d].code # ""
    BY Static DEF Sensible, Plain
  <1>t. /\ Typed /\ stage \in [Calls -> {"new", "running", "polled", "ran", "replied"}]
        /\ answer \in [Calls -> AnswerType] /\ handles \in [Calls -> AnswerType]
    BY DEF Base, Typed, TypeOK
  <1>1. ~Replay /\ run = 1
    BY SameRun DEF Replay
  <1>2. CASE ~\E c \in Calls : Broker(c)
    BY <1>1, <1>2, NobodyActs DEF Sensible
  <1>3. ASSUME NEW c \in Calls, Broker(c), c # d PROVE stage'[d] = stage[d] /\ answer'[d] = answer[d]
    BY <1>3, <1>t, OthersStay
  <1>4. CASE Broker(d)
    <2> DEFINE Fits(a) == Plain(d, a) /\ a.code # ""
    <2>0. \A a : Reply(d, a) => stage'[d] = "replied" /\ answer'[d] = a
      BY <1>t DEF Reply
    <2>s. /\ stage[d] \in {"new", "running"} => answer[d] = NoAnswer
          /\ stage[d] \in {"running", "polled", "ran"} => Kind(d) # "typed"
          /\ stage[d] = "ran" /\ Kind(d) \notin Async => Plain(d, answer[d]) /\ answer[d].code = "ok"
      BY <1>1 DEF Sensible
    <2>c. \A code \in {"limit_agent", "limit_token", "schema", "result_too_large"} : Fits(Denied(code))
      BY PlainAnswers, Answers
    <2>1. CASE PromptHit(d)
      <3>1. PICK e \in Remembered(d) : Reply(d, Denied("limit_agent")) \/ Reply(d, Ok(e.cost))
        BY <2>1 DEF PromptHit
      <3>2. Kind(d) = "prompt" /\ e.cost \in Nat
        BY <1>t DEF Remembered, Typed, TypeOK
      <3>3. Fits(Ok(e.cost))
        BY <3>2, PlainAnswers, Answers
      <3> QED BY <2>0, <2>c, <3>1, <3>3
    <2>2. CASE OverBudget(d)
      BY <2>0, <2>2, <2>c DEF OverBudget
    <2>3. CASE UnknownType(d)
      <3>1. Fits(Denied("unknown_agent_type"))
        BY PlainAnswers, Answers
      <3> QED BY <2>0, <2>3, <3>1 DEF UnknownType
    <2>4. CASE Admit(d)
      <3>1. stage[d] = "new" /\ Kind(d) # "typed"
        BY <2>4 DEF Admit, Miss, Sent
      <3>2. \/ Reply(d, Denied("limit_agent"))
            \/ stage' = [stage EXCEPT ![d] = "running"] /\ answer' = answer
        BY <2>4 DEF Admit
      <3> QED BY <1>t, <2>0, <2>c, <2>s, <3>1, <3>2
    <2>5. CASE Return(d)
      <3>1. PICK cost \in Costs :
              \/ Reply(d, Denied("result_too_large"))
              \/ stage' = [stage EXCEPT ![d] = "ran"] /\ answer' = [answer EXCEPT ![d] = Ok(cost)]
        BY <2>5 DEF Return
      <3>2. Kind(d) \in {"agent", "prompt"} /\ cost \in Nat
        BY <2>5, Largest DEF Return, Blocking
      <3>3. Plain(d, Ok(cost)) /\ Ok(cost).code = "ok"
        BY <3>2, PlainAnswers, Answers
      <3> QED BY <1>t, <2>0, <2>c, <3>1, <3>2, <3>3
    <2>6. CASE BadSchema(d)
      BY <2>0, <2>6, <2>c, <2>s DEF BadSchema, Blocking
    <2>7. CASE Raise(d)
      <3>1. Fits(Denied("runner_error"))
        BY <2>7, <2>s, PlainAnswers, Answers DEF Raise
      <3> QED BY <2>0, <2>7, <3>1 DEF Raise
    <2>8. CASE Start(d)
      <3>1. Plain(d, Answer("ok", "pending", 0)) /\ Kind(d) = "start"
            /\ Answer("ok", "pending", 0).code = "ok"
        BY <2>8, PlainAnswers DEF Start, Answer
      <3> QED BY <1>t, <2>8, <3>1 DEF Start
    <2>9. CASE Known(d)
      <3>1. Kind(d) \in Async /\ Kind(d) # "typed" /\ stage[d] = "new"
        BY <2>9 DEF Known, Async, Miss, Sent
      <3>2. Fits(Denied("unknown_handle"))
        BY <3>1, PlainAnswers, Answers
      <3>3. \/ Reply(d, Denied("unknown_handle"))
            \/ /\ answer' = answer
               /\ \E s \in {"ran", "running"} : stage' = [stage EXCEPT ![d] = s]
        BY <2>9 DEF Known
      <3> QED BY <1>t, <2>0, <2>s, <3>1, <3>2, <3>3
    <2>10. CASE AskRunner(d) \/ Apply(d)
      <3>1. Kind(d) \in Async /\ stage'[d] \in {"polled", "ran"}
        BY <1>t, <2>10 DEF AskRunner, Apply, Base, Asked
      <3> QED BY <3>1 DEF Async
    <2>11. CASE Persist(d)
      <3>1. stage[d] = "ran" /\ Reply(d, View(d))
        BY <2>11 DEF Persist
      <3>2. CASE Kind(d) \in Async
        <4>1. Of(d) \in Calls /\ handles[Of(d)] # NoAnswer
          BY <3>1, <3>2, <1>t, Handle DEF Base, Asked, Typed
        <4>2. Word(View(d))
          BY <3>2, <4>1 DEF Base, Handled, View
        <4>3. Fits(View(d))
          BY <3>2, <4>2, PlainAnswers DEF Word
        <4> QED BY <2>0, <3>1, <4>3
      <3>3. CASE Kind(d) \notin Async
        BY <2>0, <2>s, <3>1, <3>3 DEF View
      <3> QED BY <3>2, <3>3
    <2>12. ~ReplayHit(d)
      BY <1>1, NothingServed
    <2> QED BY <1>4, <2>1, <2>2, <2>3, <2>4, <2>5, <2>6, <2>7, <2>8, <2>9, <2>10, <2>11, <2>12
            DEF Broker
  <1>5. CASE stage'[d] = stage[d] /\ answer'[d] = answer[d]
    BY <1>1, <1>5 DEF Sensible
  <1> QED BY <1>2, <1>3, <1>4, <1>5

LEMMA StepFiled == Base /\ Sensible /\ Filed /\ [Next]_vars => Filed'
  <1> SUFFICES ASSUME Base, Sensible, Filed, [Next]_vars, run' = 1 PROVE Filed'
    BY DEF Filed
  <1>s. Calls' = Calls /\ setup' = setup
    BY Static
  <1>t. /\ Typed /\ stage \in [Calls -> {"new", "running", "polled", "ran", "replied"}]
        /\ answer \in [Calls -> AnswerType] /\ handles \in [Calls -> AnswerType]
        /\ buffer \cup cache \subseteq [id : Calls, answer : AnswerType]
    BY DEF Base, Typed, TypeOK
  <1>1. ~Replay /\ run = 1
    BY SameRun DEF Replay
  <1>2. \A d \in Calls : stage[d] = "replied" => stage'[d] = "replied" /\ answer'[d] = answer[d]
    BY <1>1, <1>t, RepliedStays
  <1>3. \A e \in cache \cup buffer : stage'[e.id] = "replied" /\ answer'[e.id] = e.answer
    BY <1>1, <1>2, <1>t DEF Filed
  <1>4. /\ \A e \in cache' \cup buffer' : e \in cache \cup buffer
             \/ \E c \in Calls : e = [id |-> c, answer |-> answer'[c]] /\ stage'[c] = "replied"
        /\ buffer \subseteq buffer'
    <2>1. ASSUME NEW c \in Calls, UnknownType(c) \/ Raise(c)
          PROVE  /\ buffer' \subseteq buffer \cup {[id |-> c, answer |-> answer'[c]]}
                 /\ buffer \subseteq buffer' /\ cache' = cache /\ stage'[c] = "replied"
      BY <2>1, <1>t DEF UnknownType, Raise, Reply, disk
    <2>2. ASSUME NEW c \in Calls, Persist(c)
          PROVE  /\ cache' \subseteq cache \cup {[id |-> c, answer |-> answer'[c]]}
                 /\ buffer' = buffer /\ stage'[c] = "replied"
      BY <2>2, <1>t DEF Persist, Reply, disk
    <2>3. ASSUME NEW c \in Calls, Broker(c), ~UnknownType(c), ~Raise(c), ~Persist(c)
          PROVE  cache' = cache /\ buffer' = buffer
      BY <2>3 DEF Broker, PromptHit, ReplayHit, OverBudget, Admit, Return, BadSchema,
           Start, Known, AskRunner, Apply, disk, memory
    <2>4. End => cache' \subseteq cache \cup buffer /\ buffer' = buffer
      BY DEF End, memory
    <2>5. CASE ~\E c \in Calls : Broker(c)
      BY <1>1, <2>4, <2>5, NobodyActs
    <2> QED BY <2>1, <2>2, <2>3, <2>5
  <1>5. ASSUME setup.deterministic, NEW c \in Calls, stage'[c] = "replied",
               answer'[c].code = "runner_error"
        PROVE  \E e \in buffer' : e.id = c
    <2>1. CASE stage[c] = "replied"
      BY <1>1, <1>2, <1>4, <1>5, <2>1 DEF Filed
    <2>2. CASE stage[c] # "replied"
      <3>1. PICK b \in Calls : Broker(b)
        BY <1>1, <1>5, <2>2, NobodyActs
      <3>2. b = c
        BY <1>t, <1>5, <2>2, <3>1, OthersStay
      <3>3. CASE Raise(c)
        <4>1. [id |-> c, answer |-> answer'[c]] \in buffer'
          BY <1>1, <1>5, <3>3 DEF Raise, Cacheable
        <4>2. [id |-> c, answer |-> answer'[c]].id = c
          OBVIOUS
        <4> QED BY <4>1, <4>2
      <3>4. CASE Persist(c)
        <4>1. answer'[c] = View(c) /\ stage[c] = "ran"
          BY <1>t, <3>4 DEF Persist, Reply
        <4>2. CASE Kind(c) \in Async
          <5>1. Of(c) \in Calls /\ handles[Of(c)] # NoAnswer
            BY <4>1, <4>2, <1>t, Handle DEF Base, Asked, Typed
          <5> QED BY <1>5, <4>1, <4>2, <5>1 DEF Base, Handled, View, Word
        <4>3. CASE Kind(c) \notin Async
          BY <1>1, <1>5, <4>1, <4>3 DEF Sensible, View
        <4> QED BY <4>2, <4>3
      <3>5. CASE PromptHit(c)
        <4>1. PICK e \in Remembered(c) : Reply(c, Denied("limit_agent")) \/ Reply(c, Ok(e.cost))
          BY <3>5 DEF PromptHit
        <4>2. Ok(e.cost).code = "ok" /\ Denied("limit_agent").code = "limit_agent"
          BY DEF Ok, Denied, Answer
        <4> QED BY <1>t, <1>5, <4>1, <4>2 DEF Reply
      <3>6. CASE \E code \in {"limit_token", "unknown_agent_type", "limit_agent", "schema",
                              "result_too_large", "unknown_handle"} : Reply(c, Denied(code))
        <4>1. PICK code \in {"limit_token", "unknown_agent_type", "limit_agent", "schema",
                              "result_too_large", "unknown_handle"} : Reply(c, Denied(code))
          BY <3>6
        <4>2. answer'[c].code = code
          BY <1>t, <4>1 DEF Reply, Denied, Answer
        <4> QED BY <1>5, <4>2
      <3>7. CASE OverBudget(c) \/ UnknownType(c)
        BY <3>6, <3>7 DEF OverBudget, UnknownType
      <3>8. CASE Admit(c)
        BY <1>t, <1>5, <3>6, <3>8 DEF Admit
      <3>9. CASE Return(c)
        BY <1>t, <1>5, <3>6, <3>9 DEF Return
      <3>10. CASE BadSchema(c)
        BY <1>t, <1>5, <2>2, <3>6, <3>10 DEF BadSchema
      <3>11. CASE Known(c)
        BY <1>t, <1>5, <3>6, <3>11 DEF Known
      <3>12. CASE Start(c) \/ AskRunner(c) \/ Apply(c)
        BY <1>t, <1>5, <3>12 DEF Start, AskRunner, Apply
      <3> QED BY <1>1, <3>1, <3>2, <3>3, <3>4, <3>5, <3>7, <3>8, <3>9, <3>10, <3>11, <3>12,
                 NothingServed DEF Broker
    <2> QED BY <2>1, <2>2
  <1> QED BY <1>3, <1>4, <1>5, <1>s DEF Filed

LEMMA StepDistinct == Distinct /\ [Next]_vars => Distinct'
  <1> SUFFICES ASSUME Distinct, [Next]_vars PROVE Distinct'
    OBVIOUS
  <1>1. ASSUME NEW c \in Calls, Persist(c) PROVE Distinct'
    <2>1. \/ prompts' = prompts
          \/ /\ \A e \in prompts : e.of # Of(c)
             /\ prompts' = prompts \cup {[of |-> Of(c), cost |-> View(c).cost]}
      BY <1>1 DEF Persist, disk
    <2> QED BY <2>1 DEF Distinct
  <1>2. ASSUME NEW c \in Calls, Broker(c) \/ ChildDone(c), ~Persist(c) PROVE prompts' = prompts
    BY <1>2 DEF Broker, PromptHit, ReplayHit, OverBudget, UnknownType, Admit, Return, BadSchema,
       Raise, Start, Known, AskRunner, Apply, ChildDone, disk
  <1>3. End \/ Replay \/ UNCHANGED vars => prompts' = prompts
    BY DEF End, Replay, vars, disk
  <1> QED BY <1>1, <1>2, <1>3 DEF Next, Distinct

LEMMA StepFetched == Base /\ Fetched /\ [Next]_vars => Fetched'
  <1> SUFFICES ASSUME Base, Fetched, [Next]_vars, run' = 1, NEW h \in Calls,
                      handles'[h].state = "done"
               PROVE  \E c \in Calls :
                        /\ Kind(c) \in Async /\ Of(c) = h
                        /\ stage'[c] = "ran" \/ (stage'[c] = "replied" /\ answer'[c] = handles'[h])
    BY Static DEF Fetched
  <1>t. /\ Typed /\ stage \in [Calls -> {"new", "running", "polled", "ran", "replied"}]
        /\ answer \in [Calls -> AnswerType] /\ handles \in [Calls -> AnswerType]
    BY DEF Base, Typed, TypeOK
  <1>1. ~Replay /\ run = 1
    BY SameRun DEF Replay
  <1>2. CASE handles'[h] = handles[h]
    <2>1. PICK c \in Calls : /\ Kind(c) \in Async /\ Of(c) = h
                             /\ stage[c] = "ran" \/ (stage[c] = "replied" /\ answer[c] = handles[h])
      BY <1>1, <1>2 DEF Fetched
    <2>2. CASE stage[c] = "replied" \/ stage'[c] = "ran"
      BY <1>1, <1>2, <1>t, <2>1, <2>2, RepliedStays
    <2>3. CASE stage[c] = "ran" /\ stage'[c] # "ran"
      <3>1. PICK b \in Calls : Broker(b)
        BY <1>1, <2>3, NobodyActs
      <3>2. b = c
        BY <1>t, <2>3, <3>1, OthersStay
      <3>3. Persist(c)
        BY <2>3, <3>1, <3>2 DEF Broker, PromptHit, ReplayHit, OverBudget, UnknownType, Admit, Return,
           BadSchema, Raise, Start, Known, AskRunner, Apply, Miss, Sent, Blocking
      <3>4. stage'[c] = "replied" /\ answer'[c] = handles[h]
        BY <1>t, <2>1, <3>3 DEF Persist, Reply, View
      <3> QED BY <1>2, <2>1, <3>4
    <2> QED BY <2>1, <2>2, <2>3
  <1>3. CASE handles'[h] # handles[h]
    <2>1. PICK c \in Calls : Start(c) \/ Apply(c)
      BY <1>1, <1>3, HandlesChange
    <2>2. ~Start(c)
      BY <1>3, <1>t DEF Start, Answer
    <2>3. h = Of(c) /\ stage'[c] = "ran" /\ Kind(c) \in Async
      BY <1>3, <1>t, <2>1, <2>2 DEF Apply, Base, Asked
    <2> QED BY <2>3
  <1> QED BY <1>2, <1>3

LEMMA StepClosed == Base /\ Closed /\ [Next]_vars => Closed'
  <1> SUFFICES ASSUME Base, Closed, [Next]_vars PROVE Closed'
    OBVIOUS
  <1>t. Typed /\ run \in 1..2 /\ over \in BOOLEAN
    BY DEF Base, Typed, TypeOK
  <1>s. Calls' = Calls
    BY Static
  <1>1. ASSUME NEW c \in Calls, Broker(c) PROVE Closed'
    <2>1. ~over
      BY <1>1 DEF Closed, Broker, PromptHit, ReplayHit, OverBudget, UnknownType, Admit, Return,
         BadSchema, Raise, Start, Known, AskRunner, Apply, Persist, Miss, Sent, Blocking
    <2>2. run' = run /\ over' = over /\ ended' = ended
      BY <1>1, <1>t, OthersStay
    <2> QED BY <2>1, <2>2 DEF Closed
  <1>2. CASE End
    <2>1. /\ ~over /\ over' = TRUE /\ ended' = Append(ended, Ending) /\ Ending' = Ending
          /\ UNCHANGED <<run, stage, abort, buffer>>
          /\ \A c \in Calls : stage[c] = "replied" \/ (abort /\ stage[c] = "new")
          /\ ~abort => cache' = cache \cup buffer
      BY <1>2 DEF End, Ending, counters, memory, calls
    <2>2. run = 1 => ended' = <<Ending>>
      BY <2>1 DEF Closed
    <2> HIDE DEF Ending
    <2>3. run = 2 => ended' = <<ended[1], Ending>> /\ ended'[1] = ended[1]
      <3>1. run = 2 => ended = <<ended[1]>>
        BY <2>1 DEF Closed
      <3> QED BY <2>1, <3>1, Second
    <2>4. run' = 2 => ended' = <<ended'[1], Ending'>>
      BY <2>1, <2>3
    <2>5. run' = 1 => ended' = <<Ending'>>
      BY <2>1, <2>2
    <2> QED BY <1>s, <2>1, <2>4, <2>5 DEF Closed
  <1>3. CASE Replay
    <2>1. over /\ ~over' /\ run = 1 /\ run' = 2 /\ ended' = ended
      BY <1>3 DEF Replay
    <2>2. ended' = <<Ending>>
      BY <2>1 DEF Closed
    <2>3. ended' = <<ended'[1]>>
      BY <2>2
    <2> QED BY <2>1, <2>3 DEF Closed
  <1>4. CASE ~Replay /\ ~End /\ ~\E c \in Calls : Broker(c)
    <2>1. UNCHANGED <<run, stage, answer, agents, tokens, abort, buffer, over, ended, cache>>
      BY <1>4, NobodyActs
    <2>2. Ending' = Ending
      BY <2>1 DEF Ending
    <2> HIDE DEF Ending
    <2> QED BY <1>s, <2>1, <2>2 DEF Closed
  <1> QED BY <1>1, <1>2, <1>3, <1>4

\* A replay leaves the disk and the recorded run's ending as they are.
LEMMA ReplayKeeps ==
  ASSUME Base, Closed, [Next]_vars, run = 2
  PROVE  /\ run' = 2 /\ ended'[1] = ended[1] /\ cache' = cache /\ prompts' = prompts
         /\ (Complete' <=> Complete) /\ \A c \in Calls : Recorded(c)' <=> Recorded(c)
  <1>t. Typed /\ Failures
    BY DEF Base
  <1>s. /\ Calls' = Calls /\ setup' = setup
        /\ \A c : Kind(c)' = Kind(c) /\ Of(c)' = Of(c)
    BY Static
  <1>1. run' = 2 /\ ~Replay
    BY SameRun DEF Replay
  <1>2. cache' = cache
    BY <1>t, ViewsChange
  <1>3. prompts' = prompts
    <2>1. ASSUME NEW c \in Calls, Persist(c) PROVE prompts' = prompts
      BY <2>1 DEF Persist, disk
    <2>2. ASSUME NEW c \in Calls, Broker(c), ~Persist(c) PROVE prompts' = prompts
      BY <2>2 DEF Broker, PromptHit, ReplayHit, OverBudget, UnknownType, Admit, Return, BadSchema,
         Raise, Start, Known, AskRunner, Apply, disk
    <2> QED BY <1>1, <2>1, <2>2, NobodyActs
  <1>4. ended'[1] = ended[1]
    <2>1. CASE End
      <3>1. ended' = Append(ended, Ending) /\ ~over
        BY <2>1 DEF End, Ending
      <3>2. ended = <<ended[1]>>
        BY <3>1 DEF Closed
      <3> QED BY <3>1, <3>2, Second
    <2>2. ASSUME NEW c \in Calls, Broker(c) PROVE ended' = ended
      BY <1>t, <2>2, OthersStay
    <2> QED BY <1>1, <2>1, <2>2, NobodyActs
  <1>5. Complete' <=> Complete
    BY <1>1, <1>4, <1>s DEF Complete
  <1>6. \A c \in Calls : Recorded(c)' <=> Recorded(c)
    BY <1>2, <1>3, <1>4, <1>s DEF Recorded, Told
  <1> QED BY <1>1, <1>2, <1>3, <1>4, <1>5, <1>6

LEMMA GoodStays ==
  ASSUME Base, Closed, [Next]_vars, run = 2, Good'
  PROVE  Good
  <1>t. Typed
    BY DEF Base
  <1>s. Calls' = Calls
    BY Static
  <1>1. ~Replay /\ Complete /\ \A c \in Calls : Recorded(c)
    BY <1>s, ReplayKeeps DEF Good, Replay
  <1>2. ~abort
    <2>1. ASSUME NEW c \in Calls, Broker(c) PROVE abort' = abort \/ abort'
      BY <2>1 DEF Broker, PromptHit, ReplayHit, OverBudget, UnknownType, Admit, Return, BadSchema,
         Raise, Start, Known, AskRunner, Apply, Persist, counters
    <2> QED BY <1>1, <2>1, NobodyActs DEF Good
  <1>3. ASSUME NEW c \in Calls, stage[c] = "replied" PROVE answer[c].code # "limit_agent"
    BY <1>1, <1>3, <1>s, <1>t, RepliedStays DEF Good
  <1> QED BY <1>1, <1>2, <1>3 DEF Good

\* In a replay that finds everything recorded each call is answered at once, with the
\* recorded answer.
LEMMA GoodSteps ==
  ASSUME Base, Closed, Inherited, Followed, Distinct, [Next]_vars, Good, Good',
         NEW c \in Calls, Broker(c)
  PROVE  LET a == ended[1].answer[c]
         IN  /\ stage[c] = "new" /\ answer[c] = NoAnswer /\ Reply(c, a)
             /\ Kind(c) # "typed" /\ a.code # "limit_token" /\ Plain(c, a) /\ a \in AnswerType
             /\ memo' = memo /\ handles' = handles
             /\ agents' = agents + (IF Kind(c) \in Async THEN 0 ELSE 1)
             /\ tokens' = tokens + Credit(c, a)
             /\ credited' = IF Kind(c) \in Async /\ a.state = "done"
                            THEN credited \cup {Of(c)} ELSE credited
  <1> DEFINE A == ended[1].answer
             a == A[c]
  <1>t. /\ Typed /\ stage \in [Calls -> {"new", "running", "polled", "ran", "replied"}]
        /\ answer \in [Calls -> AnswerType] /\ cache \subseteq [id : Calls, answer : AnswerType]
        /\ prompts \subseteq [of : Nat \X Nat, cost : Nat] /\ agents \in Nat /\ tokens \in Nat
    BY DEF Base, Typed, TypeOK
  <1>1. Legacy(A) /\ Following(A) /\ run = 2 /\ Recorded(c) /\ ~abort'
    BY Static DEF Good, Inherited, Followed, Complete
  <1>2. /\ Plain(c, a) /\ a \in AnswerType /\ a.code # "" /\ memo = {} /\ handles = NoAnswers
        /\ a.code = "runner_error" => HasEntry(c)
        /\ \A e \in cache : e.id = c => e.answer = a
    BY <1>1 DEF Legacy, Following
  <1>3. /\ a.code \in {"ok", "unknown_handle", "runner_error"}
        /\ a.code = "ok" => IF Kind(c) = "prompt" THEN [of |-> Of(c), cost |-> a.cost] \in prompts
                            ELSE HasEntry(c)
        /\ a.code = "runner_error" => Kind(c) # "prompt"
    BY <1>1 DEF Recorded, Told, HasEntry
  <1>4. /\ Kind(c) # "typed" /\ a.code # "limit_token"
        /\ a.code = "unknown_handle" => Kind(c) \in Async
        /\ Kind(c) = "prompt" => a = Ok(a.cost) /\ a.code = "ok"
    <2>1. a.code = "unknown_handle" => Kind(c) \in Async
      BY <1>2 DEF Plain
    <2>2. Kind(c) = "typed" => a.code \notin {"ok", "runner_error"}
      BY <1>2 DEF Plain
    <2>3. Kind(c) = "prompt" => a.code = "ok"
      BY <1>3, <2>1 DEF Async
    <2>4. Kind(c) = "prompt" => a = Ok(a.cost)
      BY <1>2, <2>3 DEF Plain
    <2> QED BY <1>3, <2>1, <2>2, <2>3, <2>4 DEF Async
  <1>5. stage[c] = "new" /\ answer[c] = NoAnswer /\ Sent(c)
    <2>1. stage[c] \in {"new", "replied"}
      BY <1>1 DEF Following
    <2>2. Sent(c)
      BY <2>1 DEF Broker, PromptHit, ReplayHit, OverBudget, UnknownType, Admit, Return,
         BadSchema, Raise, Start, Known, AskRunner, Apply, Persist, Miss, Blocking
    <2>3. stage[c] = "new"
      BY <2>2 DEF Sent
    <2> QED BY <1>1, <2>2, <2>3 DEF Following
  <1> HIDE DEF A
  <1>6. CASE PromptHit(c)
    <2>1. PICK e \in Remembered(c) :
            /\ agents' = agents + 1
            /\ \/ Reply(c, Denied("limit_agent"))
               \/ Reply(c, Ok(e.cost)) /\ tokens' = tokens + e.cost
      BY <1>6 DEF PromptHit
    <2>2. Kind(c) = "prompt" /\ e \in prompts /\ e.of = Of(c)
      BY <1>1, <1>2, <2>1 DEF Remembered
    <2>3. [of |-> Of(c), cost |-> a.cost] \in prompts
      BY <1>3, <1>4, <2>2
    <2>4. e = [of |-> Of(c), cost |-> a.cost]
      BY <2>2, <2>3 DEF Distinct
    <2>5. e.cost = a.cost /\ Ok(e.cost) = a
      BY <1>4, <2>2, <2>4
    <2>6. ~Reply(c, Denied("limit_agent"))
      <3>1. ASSUME Reply(c, Denied("limit_agent")) PROVE FALSE
        <4>1. stage'[c] = "replied" /\ answer'[c].code = "limit_agent"
          BY <1>t, <3>1 DEF Reply, Denied, Answer
        <4> QED BY <4>1, Static DEF Good
      <3> QED BY <3>1
    <2>7. Credit(c, a) = a.cost
      BY <1>4, <2>2 DEF Credit, Async
    <2>8. UNCHANGED <<memo, handles, credited>>
      BY <1>6 DEF PromptHit, memory
    <2> QED BY <1>2, <1>4, <1>5, <2>1, <2>2, <2>5, <2>6, <2>7, <2>8 DEF A, Async
  <1>7. CASE ReplayHit(c)
    <2>1. PICK e \in Entries(c) :
            /\ agents' = agents + (IF Kind(c) \in Async THEN 0 ELSE 1)
            /\ tokens' = tokens + Credit(c, e.answer)
            /\ credited' = IF Kind(c) \in Async /\ e.answer.state = "done"
                           THEN credited \cup {Of(c)} ELSE credited
            /\ Reply(c, e.answer)
      BY <1>7 DEF ReplayHit
    <2>2. e.answer = a
      BY <1>2, <2>1 DEF Entries
    <2>3. UNCHANGED <<memo, handles>>
      BY <1>7 DEF ReplayHit
    <2> QED BY <1>2, <1>4, <1>5, <2>1, <2>2, <2>3 DEF A
  <1>8. ASSUME Miss(c) PROVE Kind(c) \in Async /\ a.code = "unknown_handle"
    <2>1. Remembered(c) = {} /\ Entries(c) = {}
      BY <1>8 DEF Miss
    <2>2. ~HasEntry(c)
      BY <1>1, <2>1 DEF Entries, HasEntry
    <2>3. Kind(c) # "prompt"
      <3>1. ASSUME Kind(c) = "prompt" PROVE FALSE
        <4>1. [of |-> Of(c), cost |-> a.cost] \in Remembered(c)
          BY <1>1, <1>3, <1>4, <3>1 DEF Remembered
        <4> QED BY <2>1, <4>1
      <3> QED BY <3>1
    <2> QED BY <1>2, <1>3, <1>4, <2>2, <2>3
  <1>9. CASE Known(c)
    <2>1. Kind(c) \in Async /\ a.code = "unknown_handle" /\ Of(c) \in Calls
      BY <1>8, <1>9, <1>t, Handle DEF Known, Typed
    <2>2. handles[Of(c)] = NoAnswer
      BY <1>2, <2>1 DEF NoAnswers
    <2>3. Reply(c, Denied("unknown_handle")) /\ UNCHANGED <<agents, tokens, memo, handles, credited>>
      BY <1>9, <2>2 DEF Known, counters, memory
    <2>4. a = Denied("unknown_handle") /\ a.state = "" /\ Credit(c, a) = 0
      BY <1>2, <2>1, Answers DEF Plain, Credit
    <2>5. agents' = agents + 0 /\ tokens' = tokens + 0
      BY <1>t, <2>3
    <2>7. tokens' = tokens + Credit(c, a)
      BY <2>4, <2>5, Zenon
    <2>6. Reply(c, a) /\ credited' = credited /\ a.state # "done"
      BY <2>3, <2>4
    <2> QED BY <1>2, <1>4, <1>5, <2>1, <2>3, <2>5, <2>6, <2>7 DEF A
  <1>10. ~OverBudget(c)
    BY <1>1 DEF OverBudget
  <1>11. ~UnknownType(c) /\ ~Admit(c)
    BY <1>8 DEF UnknownType, Admit, Async
  <1>12. /\ ~Return(c) /\ ~BadSchema(c) /\ ~Raise(c) /\ ~Start(c) /\ ~AskRunner(c) /\ ~Apply(c)
         /\ ~Persist(c)
    BY <1>5 DEF Return, BadSchema, Raise, Start, AskRunner, Apply, Persist, Blocking
  <1> QED BY <1>6, <1>7, <1>9, <1>10, <1>11, <1>12 DEF Broker

\* A call is counted when it is made, or not at all.
LEMMA Counts ==
  ASSUME Typed, [Next]_vars, NEW c \in Calls, Broker(c),
         IsFiniteSet(Taken), agents = Cardinality(Taken),
         \/ /\ c \in Launching /\ c \notin Taken /\ agents' = agents + 1
            /\ stage'[c] # "new" /\ answer'[c].code # "limit_token"
         \/ /\ agents' = agents
            /\ c \in Launching =>
                 (c \in Taken <=> stage'[c] # "new" /\ answer'[c].code # "limit_token")
  PROVE  IsFiniteSet(Taken') /\ agents' = Cardinality(Taken')
  <1>s. Launching' = Launching
    BY Static DEF Launching
  <1>l. Launching \subseteq Calls
    BY DEF Launching
  <1>1. \A d \in Launching \ {c} : d \in Taken' <=> d \in Taken
    BY <1>s, <1>l, OthersStay DEF Taken
  <1>2. CASE c \in Taken' /\ c \notin Taken
    <2>1. Taken' = Taken \cup {c} /\ agents' = agents + 1
      BY <1>1, <1>2, <1>s DEF Taken
    <2> QED BY <1>2, <2>1, FS_AddElement
  <1>3. CASE ~(c \in Taken' /\ c \notin Taken)
    <2>1. agents' = agents /\ (c \in Taken <=> c \in Taken')
      BY <1>3, <1>s DEF Taken
    <2>2. Taken' = Taken
      BY <1>1, <1>s, <2>1 DEF Taken
    <2> QED BY <2>1, <2>2
  <1> QED BY <1>2, <1>3

LEMMA StepTally ==
  Base /\ Sensible /\ Closed /\ Inherited /\ Followed /\ Distinct /\ Tally /\ [Next]_vars => Tally'
  <1> SUFFICES ASSUME Base, Sensible, Closed, Inherited, Followed, Distinct, Tally, [Next]_vars,
                      run' = 1 \/ Good'
               PROVE  IsFiniteSet(Taken') /\ agents' = Cardinality(Taken')
    BY DEF Tally
  <1>t. /\ Typed /\ stage \in [Calls -> {"new", "running", "polled", "ran", "replied"}]
        /\ answer \in [Calls -> AnswerType] /\ run \in 1..2
        /\ \A c \in Calls : Kind(c) \in Kinds
    BY Places DEF Base, Typed, TypeOK
  <1>s. Launching' = Launching /\ Launching \subseteq Calls
    BY Static DEF Launching
  <1>1. CASE Replay
    <2>1. agents' = 0 /\ \A c \in Calls : stage'[c] = "new"
      BY <1>1 DEF Replay
    <2>2. Taken' = {}
      BY <1>s, <2>1 DEF Taken
    <2> QED BY <2>1, <2>2, FS_EmptySet
  <1>2. ASSUME ~Replay PROVE /\ run' = run /\ (run = 2 => Good)
                             /\ IsFiniteSet(Taken) /\ agents = Cardinality(Taken)
    <2>1. run' = run
      BY <1>2, SameRun
    <2>2. run = 2 => Good
      BY <2>1, GoodStays
    <2> QED BY <1>t, <2>1, <2>2 DEF Tally
  <1>3. CASE ~Replay /\ ~\E c \in Calls : Broker(c)
    <2>1. Taken' = Taken /\ agents' = agents
      BY <1>3, <1>s, NobodyActs DEF Taken
    <2> QED BY <1>2, <1>3, <2>1
  <1>4. ASSUME ~Replay, NEW c \in Calls, Broker(c), run = 2
        PROVE  IsFiniteSet(Taken') /\ agents' = Cardinality(Taken')
    <2>1. Good /\ Good'
      BY <1>2, <1>4
    <2>2. /\ stage[c] = "new" /\ Reply(c, ended[1].answer[c]) /\ Kind(c) # "typed"
          /\ ended[1].answer[c].code # "limit_token"
          /\ agents' = agents + (IF Kind(c) \in Async THEN 0 ELSE 1)
      BY <1>4, <2>1, GoodSteps
    <2>3. c \notin Taken /\ stage'[c] # "new" /\ answer'[c].code # "limit_token"
      BY <1>t, <2>2 DEF Taken, Reply
    <2>4. CASE Kind(c) \in Async
      <3>1. agents' = agents /\ c \notin Launching
        BY <1>2, <1>4, <1>t, <2>2, <2>4 DEF Launching, Async, Base, Typed, TypeOK
      <3> QED BY <1>2, <1>4, <1>t, <3>1, Counts
    <2>5. CASE Kind(c) \notin Async
      <3>1. agents' = agents + 1 /\ c \in Launching
        BY <1>t, <2>2, <2>5 DEF Launching, Async, Kinds
      <3> QED BY <1>2, <1>4, <1>t, <2>3, <3>1, Counts
    <2> QED BY <2>4, <2>5
  <1>5. ASSUME ~Replay, NEW c \in Calls, Broker(c), run = 1
        PROVE  IsFiniteSet(Taken') /\ agents' = Cardinality(Taken')
    <2> DEFINE In == stage'[c] # "new" /\ answer'[c].code # "limit_token"
    <2>s. /\ stage[c] \in {"new", "running"} => answer[c] = NoAnswer
          /\ stage[c] = "ran" /\ Kind(c) \notin Async => answer[c].code = "ok"
      BY <1>5 DEF Sensible
    <2>r. \A a : Reply(c, a) => stage'[c] = "replied" /\ answer'[c] = a
      BY <1>t DEF Reply
    <2>c. /\ \A code \in {"limit_agent", "limit_token", "schema", "runner_error", "result_too_large"} :
               Denied(code).code = code
          /\ \A cost \in Nat : Ok(cost).code = "ok"
          /\ NoAnswer.code = "" /\ Answer("ok", "pending", 0).code = "ok"
      BY DEF Denied, Ok, NoAnswer, Answer
    <2>g. /\ c \in Launching /\ c \notin Taken /\ agents' = agents + 1 /\ In
             => IsFiniteSet(Taken') /\ agents' = Cardinality(Taken')
          /\ agents' = agents /\ (c \in Launching => (c \in Taken <=> In))
             => IsFiniteSet(Taken') /\ agents' = Cardinality(Taken')
      BY <1>2, <1>5, <1>t, Counts
    <2>m. /\ stage[c] = "new" => c \notin Taken
          /\ c \in Launching /\ stage[c] \in {"running", "ran"} => c \in Taken
      BY <2>s, <2>c DEF Taken, Launching, Async
    <2>1. CASE PromptHit(c)
      <3>1. PICK e \in Remembered(c) : /\ agents' = agents + 1
                                       /\ Reply(c, Denied("limit_agent")) \/ Reply(c, Ok(e.cost))
        BY <2>1 DEF PromptHit
      <3>2. Kind(c) = "prompt" /\ stage[c] = "new" /\ e.cost \in Nat
        BY <2>1, <1>t, <3>1 DEF PromptHit, Sent, Remembered, Typed, TypeOK
      <3>3. In
        BY <2>r, <2>c, <3>1, <3>2
      <3>4. c \in Launching
        BY <3>2 DEF Launching
      <3> QED BY <2>g, <2>m, <3>1, <3>2, <3>3, <3>4
    <2>2. CASE OverBudget(c)
      <3>1. agents' = agents /\ stage[c] = "new" /\ Reply(c, Denied("limit_token"))
        BY <2>2 DEF OverBudget, Sent
      <3>2. ~In
        BY <2>r, <2>c, <3>1
      <3> QED BY <2>g, <2>m, <3>1, <3>2
    <2>3. CASE Admit(c)
      <3>1. /\ agents' = agents + 1 /\ stage[c] = "new" /\ c \in Launching
            /\ \/ Reply(c, Denied("limit_agent"))
               \/ stage' = [stage EXCEPT ![c] = "running"] /\ answer' = answer
        BY <2>3 DEF Admit, Miss, Sent, Launching
      <3>2. CASE Reply(c, Denied("limit_agent"))
        <4>1. In
          BY <2>r, <2>c, <3>2
        <4> QED BY <2>g, <2>m, <3>1, <4>1
      <3>3. CASE stage' = [stage EXCEPT ![c] = "running"] /\ answer' = answer
        <4>1. In
          BY <1>t, <2>s, <2>c, <3>1, <3>3
        <4> QED BY <2>g, <2>m, <3>1, <4>1
      <3> QED BY <3>1, <3>2, <3>3
    <2>4. CASE Return(c) \/ BadSchema(c) \/ Raise(c)
      <3>1. agents' = agents /\ stage[c] = "running"
        BY <2>4 DEF Return, BadSchema, Raise, Blocking, counters
      <3>2. In
        <4>1. CASE Return(c)
          <5>1. PICK cost \in Costs :
                  \/ Reply(c, Denied("result_too_large"))
                  \/ stage' = [stage EXCEPT ![c] = "ran"] /\ answer' = [answer EXCEPT ![c] = Ok(cost)]
            BY <4>1 DEF Return
          <5>2. Ok(cost).code = "ok"
            BY <2>c, Largest
          <5> QED BY <1>t, <2>r, <2>c, <5>1, <5>2
        <4>2. CASE BadSchema(c)
          <5>1. Reply(c, Denied("schema")) \/ (stage' = stage /\ answer' = answer)
            BY <4>2 DEF BadSchema
          <5> QED BY <2>r, <2>s, <2>c, <3>1, <5>1
        <4>3. CASE Raise(c)
          BY <2>r, <2>c, <4>3 DEF Raise
        <4> QED BY <2>4, <4>1, <4>2, <4>3
      <3> QED BY <2>g, <2>m, <3>1, <3>2
    <2>5. CASE Start(c)
      <3>1. agents' = agents /\ stage[c] = "running" /\ c \in Launching
        BY <2>5 DEF Start, counters, Launching
      <3>2. In
        BY <1>t, <2>5, <2>c DEF Start
      <3> QED BY <2>g, <2>m, <3>1, <3>2
    <2>6. CASE Persist(c) /\ Kind(c) \notin Async
      <3>1. agents' = agents /\ stage[c] = "ran" /\ Reply(c, answer[c])
        BY <2>6 DEF Persist, counters, View
      <3>2. In
        BY <2>r, <2>s, <2>6, <3>1
      <3> QED BY <2>g, <2>m, <3>1, <3>2
    <2>7. CASE c \notin Launching /\ agents' = agents
      BY <2>g, <2>7
    <2>8. CASE UnknownType(c) \/ Known(c) \/ AskRunner(c) \/ Apply(c) \/ (Persist(c) /\ Kind(c) \in Async)
      <3>1. Kind(c) \in Async \cup {"typed"} /\ agents' = agents
        BY <2>8, <1>t DEF UnknownType, Known, AskRunner, Apply, Persist, counters, Base, Asked
      <3> QED BY <2>7, <3>1 DEF Launching, Async
    <2>9. ~ReplayHit(c)
      BY <1>5, NothingServed
    <2> QED BY <1>5, <2>1, <2>2, <2>3, <2>4, <2>5, <2>6, <2>8, <2>9 DEF Broker
  <1> QED BY <1>1, <1>3, <1>4, <1>5, <1>t

\* One call is paid for, and nothing else changes its price.
LEMMA Paying ==
  ASSUME Typed, [Next]_vars, NEW c \in Calls, NEW n \in Nat,
         IsFiniteSet(Purse), tokens = Cardinality(Purse),
         Price(c) = 0, Price(c)' = n, tokens' = tokens + n,
         \A d \in Calls : d # c => Price(d)' = Price(d)
  PROVE  IsFiniteSet(Purse') /\ tokens' = Cardinality(Purse')
  <1>s. Calls' = Calls
    BY Static
  <1>1. \A x \in Purse : x[1] # c
    BY DEF Purse
  <1>2. Purse' = Purse \cup ({c} \X (1..n))
    <2>1. Purse' = {x \in Calls \X Nat : x[2] \in 1..(Price(x[1])')}
      BY <1>s DEF Purse
    <2>2. ASSUME NEW x \in Calls \X Nat PROVE x \in Purse' <=> x \in Purse \cup ({c} \X (1..n))
      <3>1. x = <<x[1], x[2]>> /\ x[1] \in Calls /\ x[2] \in Nat
        BY <2>2
      <3>2. CASE x[1] = c
        <4>1. x \in Purse' <=> x[2] \in 1..n
          BY <2>1, <3>2
        <4>2. x \in {c} \X (1..n) <=> x[2] \in 1..n
          BY <3>1, <3>2
        <4> QED BY <1>1, <3>2, <4>1, <4>2
      <3>3. CASE x[1] # c
        <4>1. x \in Purse' <=> x \in Purse
          BY <2>1, <3>1, <3>3 DEF Purse
        <4>2. x \notin {c} \X (1..n)
          BY <3>3
        <4> QED BY <4>1, <4>2
      <3> QED BY <3>2, <3>3
    <2>3. Purse' \subseteq Calls \X Nat /\ Purse \subseteq Calls \X Nat
      BY <2>1 DEF Purse
    <2>4. ({c} \X (1..n)) \subseteq Calls \X Nat
      OBVIOUS
    <2> QED BY <2>2, <2>3, <2>4
  <1> QED BY <1>1, <1>2, Minted

LEMMA StepCash == Base /\ Sensible /\ Cash /\ [Next]_vars => Cash'
  <1> SUFFICES ASSUME Base, Sensible, Cash, [Next]_vars, run' = 1,
                      \A c \in Calls : stage'[c] = "replied" => answer'[c].code # "result_too_large"
               PROVE  IsFiniteSet(Purse') /\ tokens' = Cardinality(Purse')
    BY Static DEF Cash
  <1>t. /\ Typed /\ stage \in [Calls -> {"new", "running", "polled", "ran", "replied"}]
        /\ answer \in [Calls -> AnswerType] /\ handles \in [Calls -> AnswerType] /\ tokens \in Nat
    BY DEF Base, Typed, TypeOK
  <1>s. Calls' = Calls /\ \A d : Kind(d)' = Kind(d)
    BY Static
  <1>1. ~Replay /\ run = 1
    BY SameRun DEF Replay
  <1>2. IsFiniteSet(Purse) /\ tokens = Cardinality(Purse)
    BY <1>1, <1>t, RepliedStays DEF Cash
  <1>3. CASE ~\E c \in Calls : Broker(c)
    <2>1. UNCHANGED <<handles, answer, tokens>>
      BY <1>1, <1>3, NobodyActs
    <2>2. Purse' = Purse
      BY <1>s, <2>1 DEF Purse, Price
    <2> QED BY <1>2, <2>1, <2>2
  <1>4. ASSUME NEW c \in Calls, Broker(c) PROVE IsFiniteSet(Purse') /\ tokens' = Cardinality(Purse')
    <2>o. \A d \in Calls : d # c => answer'[d] = answer[d]
      BY <1>4, <1>t, OthersStay
    <2>r. \A a : Reply(c, a) => stage'[c] = "replied" /\ answer'[c] = a
      BY <1>t DEF Reply
    <2>n. NoAnswer.cost = 0 /\ \A code : Denied(code).code = code /\ Denied(code).cost = 0
      BY DEF NoAnswer, Denied, Answer
    <2>s. stage[c] \in {"new", "running"} => answer[c].cost = 0
      BY <1>1, <2>n DEF Sensible
    <2>q. ASSUME tokens' = tokens, \A d \in Calls : Price(d)' = Price(d)
          PROVE  IsFiniteSet(Purse') /\ tokens' = Cardinality(Purse')
      <3>1. Purse' = Purse
        BY <1>s, <2>q DEF Purse
      <3> QED BY <1>2, <2>q, <3>1
    <2>h. ASSUME handles' = handles
          PROVE  /\ \A d \in Calls : d # c => Price(d)' = Price(d)
                 /\ Kind(c) \in Async \cup {"start"} \/ answer'[c].cost = answer[c].cost
                      => Price(c)' = Price(c)
      BY <1>s, <2>o, <2>h DEF Price, Async
    <2>1. CASE PromptHit(c)
      <3>1. PICK e \in Remembered(c) :
              \/ Reply(c, Denied("limit_agent")) /\ UNCHANGED tokens
              \/ Reply(c, Ok(e.cost)) /\ tokens' = tokens + e.cost
        BY <2>1 DEF PromptHit
      <3>2. Kind(c) = "prompt" /\ stage[c] = "new" /\ e.cost \in Nat /\ handles' = handles
        BY <2>1, <1>t, <3>1 DEF PromptHit, Sent, Remembered, Typed, TypeOK, memory
      <3>3. CASE Reply(c, Denied("limit_agent")) /\ UNCHANGED tokens
        BY <2>h, <2>n, <2>q, <2>r, <2>s, <3>2, <3>3
      <3>4. CASE Reply(c, Ok(e.cost)) /\ tokens' = tokens + e.cost
        <4>1. answer'[c].cost = e.cost
          <5>1. Ok(e.cost).cost = e.cost
            BY <3>2, Answers
          <5> QED BY <2>r, <3>4, <5>1
        <4>2. Price(c) = 0 /\ Price(c)' = e.cost
          BY <1>s, <2>s, <3>2, <4>1 DEF Price, Async
        <4> QED BY <1>2, <1>t, <2>h, <3>2, <3>4, <4>2, Paying
      <3> QED BY <3>1, <3>3, <3>4
    <2>2. CASE OverBudget(c)
      <3>1. /\ stage[c] = "new" /\ Reply(c, Denied("limit_token")) /\ handles' = handles
            /\ tokens' = tokens
        BY <2>2 DEF OverBudget, Sent, memory
      <3> QED BY <2>h, <2>n, <2>q, <2>r, <2>s, <3>1
    <2>3. CASE UnknownType(c)
      <3>1. /\ stage[c] = "new" /\ Reply(c, Denied("unknown_agent_type")) /\ handles' = handles
            /\ tokens' = tokens
        BY <2>3 DEF UnknownType, Miss, Sent, counters
      <3> QED BY <2>h, <2>n, <2>q, <2>r, <2>s, <3>1
    <2>4. CASE Admit(c)
      <3>1. /\ stage[c] = "new" /\ handles' = handles /\ tokens' = tokens
            /\ Reply(c, Denied("limit_agent")) \/ answer' = answer
        BY <2>4 DEF Admit, Miss, Sent, memory
      <3> QED BY <2>h, <2>n, <2>q, <2>r, <2>s, <3>1
    <2>5. CASE Return(c)
      <3>1. PICK cost \in Costs :
              /\ tokens' = tokens + cost
              /\ \/ Reply(c, Denied("result_too_large"))
                 \/ answer' = [answer EXCEPT ![c] = Ok(cost)]
        BY <2>5 DEF Return
      <3>2. /\ stage[c] = "running" /\ Kind(c) \in {"agent", "prompt"} /\ handles' = handles
            /\ cost \in Nat
        BY <2>5, Largest DEF Return, Blocking, memory
      <3>3. answer'[c].cost = cost
        <4>1. Ok(cost).cost = cost
          BY <3>2, Answers
        <4>2. ~Reply(c, Denied("result_too_large"))
          BY <2>n, <2>r
        <4> QED BY <1>t, <3>1, <4>1, <4>2
      <3>4. Price(c) = 0 /\ Price(c)' = cost
        BY <1>s, <2>s, <3>2, <3>3 DEF Price, Async
      <3> QED BY <1>2, <1>t, <2>h, <3>1, <3>2, <3>4, Paying
    <2>6. CASE BadSchema(c) \/ Raise(c)
      <3>1. /\ stage[c] = "running" /\ handles' = handles /\ tokens' = tokens
            /\ Reply(c, Denied("schema")) \/ Reply(c, Denied("runner_error")) \/ answer' = answer
        BY <2>6 DEF BadSchema, Raise, Blocking, memory, counters
      <3> QED BY <2>h, <2>n, <2>q, <2>r, <2>s, <3>1
    <2>7. CASE Start(c)
      <3>1. /\ stage[c] = "running" /\ Kind(c) = "start" /\ tokens' = tokens
            /\ handles' = [handles EXCEPT ![c] = Answer("ok", "pending", 0)]
        BY <2>7 DEF Start, counters
      <3>2. handles[c].cost = 0
        BY <2>n, <3>1 DEF Base, Handled
      <3>3. handles'[c].cost = 0 /\ \A d \in Calls : d # c => handles'[d] = handles[d]
        BY <1>t, <3>1 DEF Answer
      <3> QED BY <1>s, <2>o, <2>q, <3>1, <3>2, <3>3 DEF Price
    <2>8. CASE Known(c) \/ AskRunner(c)
      <3>1. Kind(c) \in Async /\ handles' = handles /\ tokens' = tokens
        BY <2>8 DEF Known, AskRunner, counters, memory
      <3> QED BY <2>h, <2>q, <3>1
    <2>9. CASE Apply(c)
      <3>1. Kind(c) \in Async /\ Word(answer[c]) /\ handles[Of(c)] # NoAnswer /\ answer' = answer
        BY <2>9 DEF Apply, Base, Asked
      <3>2. Of(c) \in Calls /\ Kind(Of(c)) = "start"
        BY <1>t, <3>1, Handle DEF Typed
      <3>3. CASE Keeps(Of(c))
        <4>1. handles' = handles /\ tokens' = tokens
          BY <2>9, <3>3 DEF Apply
        <4> QED BY <2>h, <2>q, <3>1, <4>1
      <3>4. CASE ~Keeps(Of(c))
        <4>1. handles' = [handles EXCEPT ![Of(c)] = answer[c]] /\ tokens' = tokens + answer[c].cost
          BY <2>9, <3>4 DEF Apply
        <4>2. handles[Of(c)].cost = 0
          BY <3>1, <3>2, <3>4 DEF Keeps, Terminal, Base, Handled, Word
        <4>3. answer[c].cost \in Nat
          BY <1>t DEF AnswerType
        <4>4. PICK h \in Calls : h = Of(c)
          BY <3>2
        <4>5. Price(h) = 0 /\ Price(h)' = answer[c].cost
          BY <1>s, <1>t, <3>2, <4>1, <4>2, <4>4 DEF Price
        <4>6. \A d \in Calls : d # h => Price(d)' = Price(d)
          BY <1>s, <1>t, <3>1, <4>1, <4>4 DEF Price
        <4> QED BY <1>2, <1>t, <4>1, <4>3, <4>5, <4>6, Paying
      <3> QED BY <3>3, <3>4
    <2>10. CASE Persist(c)
      <3>1. handles' = handles /\ tokens' = tokens /\ Reply(c, View(c))
        BY <2>10 DEF Persist, counters
      <3>2. Kind(c) \in Async \/ answer'[c] = answer[c]
        BY <2>r, <3>1 DEF View
      <3> QED BY <2>h, <2>q, <3>1, <3>2
    <2>11. ~ReplayHit(c)
      BY <1>1, NothingServed
    <2> QED BY <1>4, <2>1, <2>2, <2>3, <2>4, <2>5, <2>6, <2>7, <2>8, <2>9, <2>10, <2>11 DEF Broker
  <1> QED BY <1>3, <1>4

\* A fact about answers: only what a child said when it was done has to be paid for.
LEMMA Costly ==
  ASSUME NEW c, NEW a \in AnswerType, Plain(c, a), a.cost > 0
  PROVE  a.code = "ok" /\ Kind(c) # "start" /\ (Kind(c) \in Async => Word(a) /\ a.state = "done")
  <1>1. \A code : Denied(code).cost = 0 /\ Denied(code).state = ""
    BY DEF Denied, Answer
  <1>3. a.cost # 0
    OBVIOUS
  <1>2. a.code = "ok"
    <2>1. a.code # "ok" => a = Denied(a.code)
      BY DEF Plain
    <2>2. a.code # "ok" => a.cost = 0
      BY <1>1, <2>1, Zenon
    <2> QED BY <1>3, <2>2
  <1> QED BY <1>2, <1>3 DEF Plain, Word

\* At the end of a run all that was told is paid for, a child's result once.
LEMMA AllPaid ==
  ASSUME Base, Sensible, Fetched, Sourced, run = 1, \A c \in Calls : stage[c] = "replied"
  PROVE  Purse = Coins(answer)
  <1>t. /\ Typed /\ answer \in [Calls -> AnswerType] /\ handles \in [Calls -> AnswerType]
        /\ \A a \in AnswerType : a.cost \in Nat
    BY DEF Base, Typed, TypeOK, AnswerType
  <1>p. \A c \in Calls : Plain(c, answer[c])
    BY DEF Sensible
  <1>s. \A c \in Calls : Kind(c) \in Async /\ answer[c].code = "ok" /\ answer[c].state = "done"
                           => handles[Of(c)] = answer[c]
    BY DEF Sourced, Kept, Terminal
  <1>1. ASSUME NEW x \in Purse PROVE x \in Coins(answer)
    <2>1. x \in Calls \X Nat /\ x[2] \in 1..Price(x[1])
      BY DEF Purse
    <2>2. PICK c \in Calls : c = x[1]
      BY <2>1
    <2>3. Price(c) > 0
      <3>1. Price(c) \in Nat
        <4>1. answer[c].cost \in Nat /\ handles[c].cost \in Nat
          BY <1>t
        <4> QED BY <4>1 DEF Price
      <3>2. x[2] \in 1..Price(c)
        BY <2>1, <2>2, Zenon
      <3>3. \A p \in Nat : \A k \in 1..p : p > 0
        OBVIOUS
      <3> QED BY <3>1, <3>2, <3>3, Zenon
    <2>4. CASE Kind(c) = "start"
      <3>1. Price(c) = handles[c].cost
        BY <2>4 DEF Price
      <3>2. handles[c].cost # 0 /\ NoAnswer.cost = 0
        <4>1. handles[c].cost > 0
          BY <2>3, <3>1, Zenon
        <4>2. \A n \in Nat : n > 0 => n # 0
          OBVIOUS
        <4>3. handles[c].cost \in Nat
          BY <1>t
        <4>4. handles[c].cost # 0
          BY <4>1, <4>2, <4>3, Zenon
        <4> QED BY <4>4, Answers, Zenon
      <3>5. handles[c] # NoAnswer
        BY <3>2
      <3>6. handles[c].state = "done"
        BY <3>2, <3>5 DEF Base, Handled, Word
      <3>3. PICK d \in Calls : Kind(d) \in Async /\ Of(d) = c /\ answer[d] = handles[c]
        BY <3>6 DEF Fetched
      <3>4. Owner(d) = x[1] /\ x[2] \in 1..answer[d].cost
        BY <2>1, <2>2, <3>1, <3>3 DEF Owner
      <3> QED BY <2>1, <3>4 DEF Coins
    <2>5. CASE Kind(c) # "start"
      <3>1. Kind(c) \notin Async /\ Price(c) = answer[c].cost
        BY <2>3, <2>5 DEF Price
      <3>2. Owner(c) = x[1] /\ x[2] \in 1..answer[c].cost
        BY <2>1, <2>2, <3>1 DEF Owner
      <3> QED BY <2>1, <3>2 DEF Coins
    <2> QED BY <2>4, <2>5
  <1>2. ASSUME NEW x \in Coins(answer) PROVE x \in Purse
    <2>1. PICK d \in Calls : x \in Calls \X Nat /\ x[1] = Owner(d) /\ x[2] \in 1..answer[d].cost
      BY DEF Coins
    <2>2. answer[d].cost > 0 /\ answer[d] \in AnswerType
      BY <1>t, <2>1
    <2>3. /\ answer[d].code = "ok" /\ Kind(d) # "start"
          /\ Kind(d) \in Async => answer[d].state = "done"
      BY <1>p, <2>2, Costly
    <2>4. CASE Kind(d) \in Async
      <3>1. x[1] = Of(d) /\ Kind(Of(d)) = "start" /\ handles[Of(d)] = answer[d]
        BY <1>s, <1>t, <2>1, <2>3, <2>4, Handle DEF Owner, Typed
      <3>2. Price(x[1]) = answer[d].cost
        BY <3>1 DEF Price
      <3> QED BY <2>1, <3>2 DEF Purse
    <2>5. CASE Kind(d) \notin Async
      <3>1. x[1] = d /\ Price(d) = answer[d].cost
        BY <2>1, <2>3, <2>5 DEF Owner, Price
      <3> QED BY <2>1, <3>1 DEF Purse
    <2> QED BY <2>4, <2>5
  <1> QED BY <1>1, <1>2

LEMMA StepInherited ==
  IInv /\ Sensible /\ Filed /\ Fetched /\ Closed /\ Inherited /\ Tally /\ Cash /\ [Next]_vars => Inherited'
  <1> SUFFICES ASSUME IInv, Sensible, Filed, Fetched, Closed, Inherited, Tally, Cash, [Next]_vars,
                      Complete'
               PROVE  Legacy(ended[1].answer)' /\ Entire'
    BY DEF Inherited
  <1>b. Base /\ Sourced
    BY DEF IInv
  <1>t. Typed /\ answer \in [Calls -> AnswerType] /\ run \in 1..2 /\ abort \in BOOLEAN
    BY <1>b DEF Base, Typed, TypeOK
  <1>s. Calls' = Calls /\ setup' = setup /\ \A c : Kind(c)' = Kind(c) /\ Of(c)' = Of(c)
    BY Static
  <1>l. Launching' = Launching
    BY <1>s DEF Launching
  <1>1. ASSUME ended'[1] = ended[1], cache' = cache, Legacy(ended[1].answer), Entire
        PROVE  Legacy(ended[1].answer)' /\ Entire'
    <2> DEFINE A == ended[1].answer
    <2>1. A' = A /\ Entire'
      BY <1>1 DEF Entire
    <2>2. Coins(A)' = Coins(A)
      BY <1>s, <2>1 DEF Coins, Owner
    <2>3. \A c : HasEntry(c)' = HasEntry(c)
      BY <1>1 DEF HasEntry
    <2>4. \A c, a : Plain(c, a)' = Plain(c, a)
      BY <1>s DEF Plain
    <2>5. {c \in Launching : A[c].code # "limit_token"}' = {c \in Launching : A[c].code # "limit_token"}
      BY <1>l, <2>1
    <2>6. Legacy(A)
      BY <1>1
    <2> HIDE DEF A
    <2>7. Legacy(A)'
      BY <1>1, <1>s, <2>1, <2>2, <2>3, <2>4, <2>5, <2>6 DEF Legacy
    <2> QED BY <2>1, <2>7 DEF A
  <1>2. CASE ~Replay
    <2>1. run = 2
      BY <1>2, <1>t, SameRun DEF Complete
    <2>2. ended'[1] = ended[1] /\ cache' = cache /\ Complete
      BY <1>b, <2>1, ReplayKeeps
    <2> QED BY <1>1, <2>2 DEF Inherited
  <1>3. CASE Replay
    <2>1. run = 1 /\ over /\ ended' = ended /\ cache' = cache
      BY <1>3 DEF Replay, disk
    <2>2. ended = <<Ending>>
      BY <2>1 DEF Closed
    <2>3. /\ ended[1].answer = answer /\ ended[1].agents = agents /\ ended[1].tokens = tokens
          /\ ended[1].aborted = abort
      BY <2>2 DEF Ending
    <2>e. Entire
      BY <2>2 DEF Entire, Ending
    <2>4. ~abort /\ setup.deterministic
      BY <1>s, <2>1, <2>3 DEF Complete
    <2>5. \A c \in Calls : stage[c] = "replied"
      BY <2>1, <2>4 DEF Closed
    <2>6. \A c \in Calls : Plain(c, answer[c]) /\ answer[c].code # ""
      BY <2>1, <2>5 DEF Sensible
    <2>7. \A e \in cache : answer[e.id] = e.answer
      BY <2>1 DEF Filed
    <2>8. \A c \in Calls : answer[c].code = "runner_error" => HasEntry(c)
      BY <2>1, <2>4, <2>5 DEF Filed, Closed, HasEntry
    <2>9. ASSUME NEW c \in Calls, Kind(c) \in Async, answer[c].state = "done"
          PROVE  handles[Of(c)] = answer[c]
      <3>1. \A code : Denied(code).state = ""
        BY DEF Denied, Answer
      <3>2. answer[c].code = "ok"
        BY <2>6, <2>9, <3>1 DEF Plain
      <3> QED BY <1>b, <2>1, <2>5, <2>9, <3>2 DEF Sourced, Kept, Terminal
    <2>10. agents = Cardinality({c \in Launching : answer[c].code # "limit_token"})
      <3>1. Taken = {c \in Launching : answer[c].code # "limit_token"}
        BY <2>5 DEF Taken, Launching
      <3> QED BY <2>1, <3>1 DEF Tally
    <2>11. (\A c \in Calls : answer[c].code # "result_too_large") => tokens = Cardinality(Coins(answer))
      BY <1>b, <2>1, <2>5, AllPaid DEF Cash
    <2>12. Legacy(answer)
      BY <1>t, <2>3, <2>6, <2>7, <2>8, <2>9, <2>10, <2>11 DEF Legacy
    <2> QED BY <1>1, <2>1, <2>3, <2>e, <2>12
  <1> QED BY <1>2, <1>3

\* One answer more: its coins are its owner's.
LEMMA OneMore ==
  ASSUME [Next]_vars, setup \in Setups, NEW c \in Calls, NEW a \in AnswerType,
         answer[c].cost = 0, answer'[c] = a,
         \A d \in Calls : d # c => answer'[d] = answer[d]
  PROVE  Coins(answer)' = Coins(answer) \cup ({Owner(c)} \X (1..a.cost))
  <1>s. Calls' = Calls /\ \A d : Owner(d)' = Owner(d)
    BY Static DEF Owner
  <1>a. a.cost \in Nat
    BY DEF AnswerType
  <1>o. Owner(c) \in Calls
    BY Handle DEF Owner
  <1> DEFINE new == {Owner(c)} \X (1..a.cost)
  <1>1. Coins(answer)' = {x \in Calls \X Nat :
                            \E d \in Calls : x[1] = Owner(d) /\ x[2] \in 1..answer'[d].cost}
    BY <1>s DEF Coins
  <1>2. ASSUME NEW x \in Coins(answer)' PROVE x \in Coins(answer) \cup new
    <2>1. x \in Calls \X Nat /\ x = <<x[1], x[2]>>
      BY <1>1
    <2>2. PICK d \in Calls : x[1] = Owner(d) /\ x[2] \in 1..answer'[d].cost
      BY <1>1
    <2>3. CASE d = c
      BY <2>1, <2>2, <2>3
    <2>4. CASE d # c
      BY <2>1, <2>2, <2>4 DEF Coins
    <2> QED BY <2>3, <2>4
  <1>3. ASSUME NEW x \in Coins(answer) PROVE x \in Coins(answer)'
    <2>1. PICK d \in Calls : x \in Calls \X Nat /\ x[1] = Owner(d) /\ x[2] \in 1..answer[d].cost
      BY DEF Coins
    <2>2. d # c
      BY <2>1
    <2> QED BY <1>1, <2>1, <2>2
  <1>4. ASSUME NEW x \in new PROVE x \in Coins(answer)'
    <2>1. x[1] = Owner(c) /\ x[2] \in 1..answer'[c].cost /\ x \in Calls \X Nat
      BY <1>a, <1>o
    <2> QED BY <1>1, <2>1
  <1> QED BY <1>2, <1>3, <1>4

\* A replay that has found everything so far charges an answer as the run did.
LEMMA Charging ==
  ASSUME Base, Followed, Inherited, Good, [Next]_vars, NEW c \in Calls,
         answer[c] = NoAnswer, Kind(c) # "typed", answer'[c] = ended[1].answer[c],
         \A d \in Calls : d # c => answer'[d] = answer[d],
         tokens' = tokens + Credit(c, ended[1].answer[c])
  PROVE  IsFiniteSet(Coins(answer)') /\ tokens' = Cardinality(Coins(answer)')
  <1> DEFINE A == ended[1].answer
             a == A[c]
             new == {Owner(c)} \X (1..a.cost)
  <1>t. /\ Typed /\ setup \in Setups /\ answer \in [Calls -> AnswerType] /\ tokens \in Nat
        /\ \A b \in AnswerType : b.cost \in Nat
    BY DEF Base, Typed, TypeOK, AnswerType
  <1>1. Legacy(A) /\ Following(A)
    BY DEF Good, Inherited, Followed
  <1>2. /\ a \in AnswerType /\ \A d \in Calls : A[d] \in AnswerType /\ Plain(d, A[d])
        /\ \A d \in Calls : answer[d] = NoAnswer \/ answer[d] = A[d]
        /\ IsFiniteSet(Coins(answer)) /\ tokens = Cardinality(Coins(answer))
    BY <1>1 DEF Legacy, Following
  <1>n. NoAnswer.cost = 0 /\ NoAnswer.state = ""
    BY Answers
  <1>3. Coins(answer)' = Coins(answer) \cup new
    BY <1>2, <1>n, <1>t, OneMore
  <1>4. ASSUME NEW d \in Calls, answer[d].cost > 0
        PROVE  /\ answer[d] = A[d] /\ Kind(d) # "start"
               /\ Kind(d) \in Async => answer[d].state = "done"
    <2>1. ~(0 > 0)
      OBVIOUS
    <2>2. answer[d] = A[d]
      BY <1>2, <1>4, <1>n, <2>1, Zenon
    <2>3. A[d].cost > 0
      BY <1>4, <2>2, Zenon
    <2> QED BY <1>2, <2>2, <2>3, Costly
  <1>5. ASSUME NEW x \in Coins(answer)
        PROVE  \E d \in Calls : x[1] = Owner(d) /\ answer[d].cost > 0 /\ x[2] \in 1..answer[d].cost
    <2>1. PICK d \in Calls : x[1] = Owner(d) /\ x[2] \in 1..answer[d].cost
      BY DEF Coins
    <2>2. \A n \in Nat : \A k \in 1..n : n > 0
      OBVIOUS
    <2>3. answer[d].cost \in Nat
      BY <1>t
    <2> QED BY <2>1, <2>2, <2>3
  <1>6. CASE a.cost = 0
    <2>1. new = {} /\ Credit(c, a) = 0
      BY <1>6 DEF Credit
    <2>2. tokens' = tokens + 0
      BY <2>1, Zenon
    <2>3. tokens' = tokens
      BY <1>t, <2>2
    <2>4. Coins(answer)' = Coins(answer)
      BY <1>3, <2>1
    <2> QED BY <1>2, <2>3, <2>4
  <1>7. CASE a.cost > 0
    <2>1. /\ a.code = "ok" /\ Kind(c) # "start"
          /\ Kind(c) \in Async => a.state = "done"
      BY <1>2, <1>7, Costly
    <2>2. CASE Kind(c) \in Async /\ Of(c) \in credited
      <3>1. PICK d \in Calls : Kind(d) \in Async /\ answer[d].state = "done" /\ Of(d) = Of(c)
        BY <1>1, <2>2 DEF Following
      <3>2. answer[d] = A[d]
        BY <1>2, <1>n, <3>1
      <3>3. A[d] = a
        <4>1. A[d].state = "done" /\ a.state = "done"
          BY <2>1, <2>2, <3>1, <3>2
        <4> QED BY <1>1, <2>2, <3>1, <4>1 DEF Legacy
      <3>4. new \subseteq Coins(answer)
        <4>1. Owner(d) = Owner(c) /\ Owner(c) \in Calls
          BY <1>t, <2>2, <3>1, Handle DEF Owner
        <4>2. answer[d].cost = a.cost /\ a.cost \in Nat
          BY <1>2, <1>t, <3>2, <3>3
        <4> QED BY <4>1, <4>2 DEF Coins
      <3>5. Coins(answer)' = Coins(answer)
        BY <1>3, <3>4
      <3>6. Credit(c, a) = 0
        BY <2>1, <2>2 DEF Credit
      <3>7. tokens' = tokens + 0
        BY <3>6, Zenon
      <3>8. tokens' = tokens
        BY <1>t, <3>7
      <3> QED BY <1>2, <3>5, <3>8
    <2>3. CASE ~(Kind(c) \in Async /\ Of(c) \in credited)
      <3>1. Credit(c, a) = a.cost
        BY <2>1, <2>3 DEF Credit
      <3>2. ASSUME NEW x \in Coins(answer), x[1] = Owner(c) PROVE FALSE
        <4>1. PICK d \in Calls : Owner(d) = Owner(c) /\ answer[d].cost > 0
          BY <1>5, <3>2
        <4>2. /\ Kind(d) # "start"
              /\ Kind(d) \in Async => answer[d].state = "done"
          BY <1>4, <4>1
        <4>3. CASE Kind(c) \in Async
          <5>1. Kind(Of(c)) = "start"
            BY <1>t, <4>3, Handle
          <5>2. Kind(d) \in Async /\ Of(d) = Of(c)
            BY <4>1, <4>2, <4>3, <5>1 DEF Owner
          <5>3. Of(c) \in credited
            BY <1>1, <4>2, <5>2 DEF Following
          <5> QED BY <2>3, <4>3, <5>3
        <4>4. CASE Kind(c) \notin Async
          <5>1. Kind(d) \in Async => Kind(Of(d)) = "start"
            BY <1>t, Handle
          <5>2. d = c
            BY <2>1, <4>1, <4>4, <5>1 DEF Owner
          <5>3. ~(0 > 0)
            OBVIOUS
          <5> QED BY <1>n, <4>1, <5>2, <5>3, Zenon
        <4> QED BY <4>3, <4>4
      <3>3. tokens' = tokens + a.cost
        BY <3>1, Zenon
      <3>4. a.cost \in Nat
        BY <1>2, <1>t
      <3> HIDE DEF A
      <3> DEFINE n == a.cost
                 o == Owner(c)
                 S == Coins(answer)
      <3>5. IsFiniteSet(S) /\ n \in Nat /\ \A x \in S : x[1] # o
        BY <1>2, <3>2, <3>4
      <3> HIDE DEF n, o, S
      <3>6. IsFiniteSet(S \cup ({o} \X (1..n))) /\ Cardinality(S \cup ({o} \X (1..n))) = Cardinality(S) + n
        BY <3>5, Minted
      <3> QED BY <1>2, <1>3, <3>3, <3>6 DEF n, o, S
    <2> QED BY <2>2, <2>3
  <1> QED BY <1>2, <1>6, <1>7, <1>t

LEMMA StepFollowed ==
  Base /\ Closed /\ Inherited /\ Distinct /\ Followed /\ [Next]_vars => Followed'
  <1> SUFFICES ASSUME Base, Closed, Inherited, Distinct, Followed, [Next]_vars, Good'
               PROVE  Following(ended[1].answer)'
    BY DEF Followed
  <1>t. /\ Typed /\ setup \in Setups /\ run \in 1..2
        /\ stage \in [Calls -> {"new", "running", "polled", "ran", "replied"}]
        /\ answer \in [Calls -> AnswerType]
    BY DEF Base, Typed, TypeOK
  <1>s. Calls' = Calls /\ \A d : Kind(d)' = Kind(d) /\ Of(d)' = Of(d)
    BY Static
  <1>n. NoAnswer.cost = 0 /\ NoAnswer.state = ""
    BY Answers
  <1> DEFINE Fetchers == {d \in Calls : Kind(d) \in Async /\ answer[d].state = "done"}
  <1>1. CASE Replay
    <2>1. /\ stage' = [c \in Calls |-> "new"] /\ answer' = [c \in Calls |-> NoAnswer]
          /\ memo' = {} /\ credited' = {} /\ tokens' = 0 /\ handles' = NoAnswers
      BY <1>1 DEF Replay, NoAnswers
    <2>2. \A c \in Calls : stage'[c] = "new" /\ answer'[c] = NoAnswer
      BY <2>1
    <2>3. Coins(answer)' = {}
      <3>1. \A c \in Calls : answer'[c].cost = 0
        BY <1>n, <2>2
      <3>2. 1..0 = {}
        OBVIOUS
      <3>3. \A c \in Calls : 1..answer'[c].cost = {}
        BY <3>1, <3>2, Zenon
      <3> QED BY <1>s, <3>3 DEF Coins
    <2>4. IsFiniteSet(Coins(answer)') /\ tokens' = Cardinality(Coins(answer)')
      BY <2>1, <2>3, FS_EmptySet
    <2>5. Fetchers' = {}
      BY <1>n, <1>s, <2>2
    <2>6. handles' = NoAnswers'
      BY <1>s, <2>1 DEF NoAnswers
    <2>7. credited' = {Of(c)' : c \in Fetchers'}
      BY <2>1, <2>5
    <2> HIDE DEF Fetchers
    <2> QED BY <1>s, <2>1, <2>2, <2>4, <2>6, <2>7 DEF Following, Fetchers
  <1>2. CASE ~Replay
    <2> DEFINE A == ended[1].answer
    <2>1. run = 2 /\ Good
      <3>1. run = 2
        BY <1>2, <1>t, SameRun DEF Good, Complete
      <3> QED BY <3>1, GoodStays
    <2>2. Following(A) /\ A' = A
      BY <2>1, ReplayKeeps DEF Followed
    <2>3. /\ \A c \in Calls : \/ stage[c] = "new" /\ answer[c] = NoAnswer
                              \/ stage[c] = "replied" /\ answer[c] = A[c]
          /\ memo = {} /\ handles = NoAnswers
          /\ credited = {Of(c) : c \in Fetchers}
          /\ IsFiniteSet(Coins(answer)) /\ tokens = Cardinality(Coins(answer))
      BY <2>2 DEF Following
    <2> HIDE DEF A
    <2>n. NoAnswers' = NoAnswers
      BY <1>s DEF NoAnswers
    <2>4. ASSUME ~\E c \in Calls : Broker(c) PROVE Following(A)'
      <3>1. UNCHANGED <<stage, answer, memo, handles, credited, tokens>>
        BY <1>2, <2>4, NobodyActs
      <3>2. Fetchers' = Fetchers
        BY <1>s, <3>1
      <3>3. Coins(answer)' = Coins(answer)
        BY <1>s, <3>1 DEF Coins, Owner
      <3>4. credited' = {Of(c)' : c \in Fetchers'}
        <4> HIDE DEF Fetchers
        <4>1. {Of(c)' : c \in Fetchers'} = {Of(c) : c \in Fetchers}
          BY <1>s, <3>2
        <4> QED BY <2>3, <3>1, <4>1
      <3>5. \A c \in Calls : \/ stage'[c] = "new" /\ answer'[c] = NoAnswer
                             \/ stage'[c] = "replied" /\ answer'[c] = A[c]
        BY <2>3, <3>1
      <3>6. IsFiniteSet(Coins(answer)') /\ tokens' = Cardinality(Coins(answer)')
        BY <2>3, <3>1, <3>3
      <3>7. memo' = {} /\ handles' = NoAnswers'
        BY <2>3, <2>n, <3>1
      <3> HIDE DEF Fetchers
      <3> QED BY <1>s, <2>2, <3>4, <3>5, <3>6, <3>7 DEF Following, Fetchers
    <2>5. ASSUME NEW c \in Calls, Broker(c) PROVE Following(A)'
      <3>1. /\ stage[c] = "new" /\ answer[c] = NoAnswer /\ Reply(c, A[c]) /\ Kind(c) # "typed"
            /\ memo' = memo /\ handles' = handles /\ tokens' = tokens + Credit(c, A[c])
            /\ credited' = IF Kind(c) \in Async /\ A[c].state = "done"
                           THEN credited \cup {Of(c)} ELSE credited
        BY <2>1, <2>5, GoodSteps DEF A
      <3>2. /\ stage'[c] = "replied" /\ answer'[c] = A[c]
            /\ \A d \in Calls : d # c => stage'[d] = stage[d] /\ answer'[d] = answer[d]
        BY <1>t, <3>1 DEF Reply
      <3>3. IsFiniteSet(Coins(answer)') /\ tokens' = Cardinality(Coins(answer)')
        BY <2>1, <3>1, <3>2, Charging DEF A
      <3>4. \A d \in Calls : \/ stage'[d] = "new" /\ answer'[d] = NoAnswer
                             \/ stage'[d] = "replied" /\ answer'[d] = A[d]
        BY <2>3, <3>2
      <3>5. credited' = {Of(d) : d \in Fetchers'}
        <4>1. Fetchers' = IF Kind(c) \in Async /\ A[c].state = "done"
                          THEN Fetchers \cup {c} ELSE Fetchers
          BY <1>n, <1>s, <3>1, <3>2
        <4> HIDE DEF Fetchers
        <4> QED BY <2>3, <3>1, <4>1
      <3> QED BY <1>s, <2>2, <2>3, <2>n, <3>1, <3>3, <3>4, <3>5 DEF Following
    <2> QED BY <2>2, <2>4, <2>5 DEF A
  <1> QED BY <1>1, <1>2

Faithful ==
  /\ IInv /\ Sensible /\ Filed /\ Distinct /\ Fetched /\ Closed
  /\ Inherited /\ Tally /\ Cash /\ Followed

LEMMA StepFaithful == Faithful /\ [Next]_vars => Faithful'
  BY StepIInv, StepSensible, StepFiled, StepDistinct, StepFetched, StepClosed, StepInherited,
     StepTally, StepCash, StepFollowed DEF Faithful, IInv

LEMMA InitFaithful == Init => Faithful
  <1> SUFFICES ASSUME Init PROVE Faithful
    OBVIOUS
  <1>1. /\ run = 1 /\ ~over /\ agents = 0 /\ tokens = 0 /\ ended = << >>
        /\ buffer = {} /\ cache = {} /\ prompts = {}
        /\ \A c \in Calls : stage[c] = "new" /\ answer[c] = NoAnswer /\ handles[c] = NoAnswer
    BY DEF Init, NoAnswers
  <1>n. NoAnswer.cost = 0 /\ NoAnswer.state = "" /\ NoAnswer.code = ""
    BY Answers
  <1>2. Sensible /\ Filed /\ Distinct
    BY <1>1 DEF Sensible, Filed, Distinct
  <1>3. Fetched /\ Closed
    <2>1. Fetched
      BY <1>1, <1>n DEF Fetched
    <2>2. Closed
      BY <1>1 DEF Closed
    <2> QED BY <2>1, <2>2
  <1>4. Inherited /\ Followed
    BY <1>1 DEF Inherited, Followed, Good, Complete
  <1>5. Tally
    <2>1. Taken = {}
      BY <1>1 DEF Taken, Launching
    <2> QED BY <1>1, <2>1, FS_EmptySet DEF Tally
  <1>6. Cash
    <2>1. \A c \in Calls : Price(c) = 0
      BY <1>1, <1>n DEF Price
    <2>2. Purse = {}
      BY <2>1 DEF Purse
    <2> QED BY <1>1, <2>2, FS_EmptySet DEF Cash
  <1> QED BY <1>2, <1>3, <1>4, <1>5, <1>6, InitIInv DEF Faithful

LEMMA Agreement == Faithful => ReplayAgrees
  <1> SUFFICES ASSUME Faithful, Completed(1), Completed(2), setup.deterministic,
                      \A c \in Calls : Recorded(c) /\ Told(2, c).code # "limit_agent"
               PROVE  ended[1] = ended[2]
    BY DEF ReplayAgrees
  <1> DEFINE A == ended[1].answer
  <1>t. /\ answer \in [Calls -> AnswerType] /\ run \in 1..2 /\ over \in BOOLEAN
    BY DEF Faithful, IInv, Base, Typed, TypeOK
  <1>1. run = 2 /\ over /\ ended = <<ended[1], Ending>>
    <2>1. /\ run = 1 => ended = IF over THEN <<Ending>> ELSE << >>
          /\ run = 2 => ended = IF over THEN <<ended[1], Ending>> ELSE <<ended[1]>>
      BY DEF Faithful, Closed
    <2>2. Len(ended) >= 2
      BY DEF Completed
    <2> HIDE DEF Ending
    <2>3. \A x : Len(<<x>>) = 1 /\ ~(Len(<<x>>) >= 2)
      OBVIOUS
    <2>4. ~(Len(<< >>) >= 2)
      OBVIOUS
    <2>5. ~(\E x : ended = <<x>>) /\ ended # << >>
      BY <2>2, <2>3, <2>4, Zenon
    <2>6. run = 2
      BY <1>t, <2>1, <2>5
    <2>7. over
      BY <1>t, <2>1, <2>5, <2>6
    <2> QED BY <2>1, <2>6, <2>7
  <1>2. ended[2] = Ending
    <2>1. \A x, y, q : q = <<x, y>> => q[2] = y
      OBVIOUS
    <2> QED BY <1>1, <2>1, Zenon
  <1>3. ~ended[1].aborted /\ ~abort
    BY <1>2 DEF Completed, Ending
  <1>4. Complete
    BY <1>1, <1>3 DEF Complete
  <1>5. \A c \in Calls : Told(2, c) = answer[c]
    BY <1>2 DEF Told, Ending
  <1>6. Good
    BY <1>3, <1>4, <1>5 DEF Good
  <1>7. /\ Following(A) /\ Legacy(A) /\ Entire
        /\ IsFiniteSet(Taken) /\ agents = Cardinality(Taken)
    BY <1>4, <1>6 DEF Faithful, Followed, Inherited, Tally
  <1>8. \A c \in Calls : stage[c] = "replied"
    BY <1>1, <1>3 DEF Faithful, Closed
  <1>9. answer = A
    <2>1. A \in [Calls -> AnswerType] /\ \A c \in Calls : answer[c] = A[c]
      BY <1>7, <1>8 DEF Following, Legacy
    <2> HIDE DEF A
    <2> QED BY <1>t, <2>1
  <1>10. agents = ended[1].agents
    <2>1. Taken = {c \in Launching : A[c].code # "limit_token"}
      BY <1>8, <1>9 DEF Taken, Launching
    <2> QED BY <1>7, <2>1 DEF Legacy
  <1>11. tokens = ended[1].tokens
    <2>1. \A c \in Calls : A[c].code # "result_too_large"
      BY DEF Recorded, Told
    <2>2. ended[1].tokens = Cardinality(Coins(A))
      BY <1>7, <2>1 DEF Legacy
    <2>3. tokens = Cardinality(Coins(answer))
      BY <1>7 DEF Following
    <2> QED BY <1>9, <2>2, <2>3
  <1>12. Ending = [answer |-> A, agents |-> ended[1].agents, tokens |-> ended[1].tokens, aborted |-> FALSE]
    <2>1. abort = FALSE
      BY <1>3 DEF Faithful, IInv, Base, Typed, TypeOK
    <2> QED BY <1>9, <1>10, <1>11, <2>1 DEF Ending
  <1>13. ended[1].aborted = FALSE
    BY <1>3
  <1> QED BY <1>2, <1>7, <1>12, <1>13 DEF Entire

\* A replay of a run that completed, and that finds all the run recorded, tells every
\* call the same and ends with the same counters, however the threads of the one and
\* of the other interleaved, for any script, limits, costs and faults.
THEOREM ReplaysAgree == Spec => []ReplayAgrees
  BY InitFaithful, StepFaithful, Agreement, PTL DEF Spec
=============================================================================
