-------------------------- MODULE CapabilityBroker --------------------------
(***************************************************************************)
(* The CapabilityBroker of hermes_workflows/vm.py under the parent's thread  *)
(* pool: the caps and the token budget, the schema retries of prompt agents, *)
(* the asynchronous children of agent_start, agent_check and agent_cancel,   *)
(* what is recorded for a replay and what a replay serves and charges.       *)
(*                                                                          *)
(* A script is a sequence of rounds; the calls of a round are made together  *)
(* (parallel()), and each is handled by a thread of its own.  Run 1 records, *)
(* run 2 replays it.  The children are not under src/ and do as they like.   *)
(***************************************************************************)
EXTENDS Naturals, Sequences, FiniteSets, FiniteSetsExt

CONSTANTS Setups,     \* scripts and limits to choose from
          Costs       \* what a child may report as _tokens

Kinds == {"agent", "prompt", "typed", "start", "check", "cancel"}

\* script[r][k] is call <<r, k>>: of names the prompt, or the place of the
\* agent_start, of an earlier round, whose handle is checked or cancelled.  Costs
\* has a largest, by which the overshoot is measured.  budget, agents and
\* retries are token_budget, max_agent_calls and max_schema_retries;
\* deterministic is the deterministic_runner of the run; faults are what may go
\* wrong: a runner raises, a result fails its schema or is too large, a cache line
\* is not written, a child that is done is reported as cancelled.
ASSUME BrokerAssumption ==
  /\ \A s \in Setups :
       /\ s.script \in Seq(Seq([kind : Kinds, of : Nat \X Nat]))
       /\ \A r \in DOMAIN s.script : \A k \in DOMAIN s.script[r] :
            s.script[r][k].kind \in {"check", "cancel"} =>
              LET h == s.script[r][k].of
              IN  /\ h[1] \in DOMAIN s.script /\ h[1] < r
                  /\ h[2] \in DOMAIN s.script[h[1]]
                  /\ s.script[h[1]][h[2]].kind = "start"
       /\ s.budget \in Nat /\ s.agents \in Nat /\ s.retries \in Nat
       /\ s.deterministic \in BOOLEAN
       /\ s.faults \subseteq {"raise", "schema", "large", "unrecorded", "late cancel"}
  /\ Costs \subseteq Nat /\ \E m \in Costs : \A n \in Costs : m >= n

VARIABLES
  setup,     \* the script and the limits, of Setups
  run,       \* 1 records, 2 replays
  over,      \* whether the script of the run has ended
  agents,    \* _agent_calls
  tokens,    \* _tokens
  abort,     \* should_abort
  handles,   \* _async_agents: of each agent_start, the record
  memo,      \* _prompt_results
  credited,  \* _replay_async_credited
  buffer,    \* _pending_failures
  cache,     \* cache.jsonl: entries by call id
  prompts,   \* cache.jsonl: entries by fingerprint
  stage,     \* of each call: "new", "running", "polled", "ran", "replied"
  tries,     \* of each call: attempts its schema has refused
  answer,    \* of each call: what it came to, or what its child said
  child,     \* of each agent_start: the state of its child
  children,  \* history: the calls of this run for which a child was launched
  spent,     \* history: what the children of this run have reported
  ended      \* history: answers and counters of the runs that have ended

counters == <<agents, tokens, abort>>
memory == <<handles, memo, credited, buffer>>
disk == <<cache, prompts>>
calls == <<stage, tries, answer>>
history == <<children, spent, ended>>
vars == <<setup, run, over, counters, memory, disk, calls, child, history>>

Script == setup.script
Calls == UNION {{<<r, k>> : k \in DOMAIN Script[r]} : r \in DOMAIN Script}
Kind(c) == Script[c[1]][c[2]].kind
Of(c) == Script[c[1]][c[2]].of
MaxCost == Max(Costs)

Async == {"check", "cancel"}
Terminal == {"done", "cancelled"}
Answer(code, state, cost) == [code |-> code, state |-> state, cost |-> cost]
NoAnswer == Answer("", "", 0)
Denied(code) == Answer(code, "", 0)
Ok(cost) == Answer("ok", "", cost)

\* _is_cacheable
Cacheable(c) == setup.deterministic \/ Kind(c) \in {"start", "check", "cancel"}

Reply(c, a) ==
  /\ stage' = [stage EXCEPT ![c] = "replied"]
  /\ answer' = [answer EXCEPT ![c] = a]
  /\ UNCHANGED tries

-----------------------------------------------------------------------------
(* The guest makes the calls of a round together and waits for all of them. *)

\* Once should_abort is set the guest is stopped: what it has sent may still be
\* handled, the next round is not made.
Sent(c) ==
  /\ ~over /\ stage[c] = "new"
  /\ \A d \in Calls : d[1] < c[1] => stage[d] = "replied"
  /\ abort => \E d \in Calls : d[1] = c[1] /\ stage[d] # "new"

-----------------------------------------------------------------------------
(* The caches. *)

Remembered(c) ==
  LET entries == memo \cup (IF run = 2 THEN prompts ELSE {})
  IN  IF Kind(c) = "prompt" THEN {e \in entries : e.of = Of(c)} ELSE {}

\* _maybe_prompt_cache_hit: a hit is counted and charged like a live call.
PromptHit(c) ==
  /\ Sent(c) /\ tokens < setup.budget
  /\ \E e \in Remembered(c) :
       /\ agents' = agents + 1
       /\ IF agents' > setup.agents
            THEN Reply(c, Denied("limit_agent")) /\ UNCHANGED tokens
            ELSE Reply(c, Ok(e.cost)) /\ tokens' = tokens + e.cost
  /\ UNCHANGED <<setup, run, over, abort, memory, disk, child, history>>

Entries(c) ==
  IF run = 2 /\ Remembered(c) = {} THEN {e \in cache : e.id = c} ELSE {}

\* Mutant: every recorded answer of a child that is done is charged.
CreditEach(c, a) == IF a.code = "ok" THEN a.cost ELSE 0

\* What a replayed answer adds to _tokens: a child's result once per handle.
Credit(c, a) ==
  IF a.code # "ok" \/ Kind(c) = "start" THEN 0
  ELSE IF Kind(c) \in Async /\ Of(c) \in credited THEN 0
  ELSE a.cost

\* _maybe_replay
ReplayHit(c) ==
  /\ Sent(c)
  /\ \E e \in Entries(c) :
       /\ agents' = agents + (IF Kind(c) \in Async THEN 0 ELSE 1)
       /\ tokens' = tokens + Credit(c, e.answer)
       /\ credited' = IF Kind(c) \in Async /\ e.answer.state = "done"
                      THEN credited \cup {Of(c)} ELSE credited
       /\ Reply(c, e.answer)
  /\ UNCHANGED <<setup, run, over, abort, handles, memo, buffer, disk, child, history>>

Miss(c) == Sent(c) /\ Remembered(c) = {} /\ Entries(c) = {}

-----------------------------------------------------------------------------
(* Admission: one hold of the lock. *)

\* _check_token_budget, which the prompt cache asks as well.
OverBudget(c) ==
  /\ Sent(c) /\ tokens >= setup.budget
  /\ Kind(c) \in {"agent", "prompt", "start"}
  /\ Entries(c) = {}
  /\ abort' = TRUE
  /\ Reply(c, Denied("limit_token"))
  /\ UNCHANGED <<setup, run, over, agents, tokens, memory, disk, child, history>>

\* _resolve_agent_type comes before the counters; the denial is buffered.
UnknownType(c) ==
  /\ Miss(c) /\ Kind(c) = "typed"
  /\ Reply(c, Denied("unknown_agent_type"))
  /\ buffer' = IF run = 1 THEN buffer \cup {[id |-> c, answer |-> answer'[c]]} ELSE buffer
  /\ UNCHANGED <<setup, run, over, counters, handles, memo, credited, disk, child, history>>

WithinCap == agents + 1 <= setup.agents

\* Mutant: a budget that is spent exactly admits one more.
AffordableWhenSpent == tokens <= setup.budget

Affordable == tokens < setup.budget

\* _handle_agent, _handle_prompt_agent, _handle_agent_start: the call is counted
\* whether or not it is then refused.
Admit(c) ==
  /\ Miss(c) /\ Kind(c) \in {"agent", "prompt", "start"} /\ Affordable
  /\ agents' = agents + 1
  /\ IF WithinCap
       THEN /\ stage' = [stage EXCEPT ![c] = "running"]
            /\ children' = children \cup {c}
            /\ UNCHANGED <<tries, answer>>
       ELSE Reply(c, Denied("limit_agent")) /\ UNCHANGED children
  /\ UNCHANGED <<setup, run, over, tokens, abort, memory, disk, child, spent, ended>>

-----------------------------------------------------------------------------
(* Blocking children: _invoke, _invoke_prompt_agent_with_schema_retry. *)

Blocking(c) == stage[c] = "running" /\ Kind(c) \in {"agent", "prompt"}

\* The result is charged, then measured (_check_result_size).
Return(c) ==
  /\ Blocking(c)
  /\ \E cost \in Costs :
       /\ tokens' = tokens + cost
       /\ spent' = spent + cost
       /\ \/ /\ stage' = [stage EXCEPT ![c] = "ran"]
             /\ answer' = [answer EXCEPT ![c] = Ok(cost)]
             /\ UNCHANGED tries
          \/ "large" \in setup.faults /\ Reply(c, Denied("result_too_large"))
  /\ UNCHANGED <<setup, run, over, agents, abort, memory, disk, child, children, ended>>

\* A result that fails the schema is charged to nobody; a prompt is tried again.
BadSchema(c) ==
  /\ Blocking(c) /\ "schema" \in setup.faults
  /\ \E cost \in Costs : spent' = spent + cost
  /\ IF Kind(c) = "prompt" /\ tries[c] < setup.retries
       THEN tries' = [tries EXCEPT ![c] = @ + 1] /\ UNCHANGED <<stage, answer>>
       ELSE Reply(c, Denied("schema"))
  /\ UNCHANGED <<setup, run, over, counters, memory, disk, child, children, ended>>

\* The runner raises: answered as retryable, recorded if the run does not fail.
Raise(c) ==
  /\ stage[c] = "running" /\ "raise" \in setup.faults
  /\ Reply(c, Denied("runner_error"))
  /\ buffer' = IF run = 1 /\ Cacheable(c)
               THEN buffer \cup {[id |-> c, answer |-> answer'[c]]} ELSE buffer
  /\ UNCHANGED <<setup, run, over, counters, handles, memo, credited, disk, child, history>>

-----------------------------------------------------------------------------
(* Asynchronous children. *)

\* start() is idempotent by handle: a child that exists is found.
Start(c) ==
  /\ stage[c] = "running" /\ Kind(c) = "start"
  /\ handles' = [handles EXCEPT ![c] = Answer("ok", "pending", 0)]
  /\ child' = [child EXCEPT ![c] = IF @ = NoAnswer THEN Answer("ok", "pending", 0) ELSE @]
  /\ stage' = [stage EXCEPT ![c] = "ran"]
  /\ answer' = [answer EXCEPT ![c] = Answer("ok", "pending", 0)]
  /\ UNCHANGED <<setup, run, over, counters, memo, credited, buffer, disk, tries, history>>

\* external
ChildDone(c) ==
  /\ child[c].state = "pending"
  /\ \E cost \in Costs : /\ child' = [child EXCEPT ![c] = Answer("ok", "done", cost)]
                         /\ spent' = spent + cost
  /\ UNCHANGED <<setup, run, over, counters, memory, disk, calls, children, ended>>

\* _require_async_record before the runner is asked.
Known(c) ==
  /\ Miss(c) /\ Kind(c) \in Async
  /\ IF handles[Of(c)] = NoAnswer
       THEN Reply(c, Denied("unknown_handle"))
     ELSE IF handles[Of(c)].state \in Terminal
       THEN /\ stage' = [stage EXCEPT ![c] = "ran"]
            /\ UNCHANGED <<tries, answer>>
     ELSE /\ stage' = [stage EXCEPT ![c] = "running"]
          /\ UNCHANGED <<tries, answer>>
  /\ UNCHANGED <<setup, run, over, counters, memory, disk, child, history>>

\* external: poll() tells what the child is; cancel() stops it.
AskRunner(c) ==
  /\ stage[c] = "running" /\ Kind(c) \in Async
  /\ \E a \in IF Kind(c) = "check" THEN {child[Of(c)]}
              ELSE IF child[Of(c)].state = "pending" THEN {Answer("ok", "cancelled", 0)}
              ELSE IF "late cancel" \in setup.faults THEN {Answer("ok", "cancelled", 0)}
              ELSE {child[Of(c)]} :
       /\ answer' = [answer EXCEPT ![c] = a]
       /\ child' = IF child[Of(c)].state = "pending"
                   THEN [child EXCEPT ![Of(c)] = a] ELSE child
  /\ stage' = [stage EXCEPT ![c] = "polled"]
  /\ UNCHANGED <<setup, run, over, counters, memory, disk, tries, history>>

\* Mutant: the status that comes last is kept.
KeepsLast(h) == FALSE

\* A terminal record is sticky.
Keeps(h) == handles[h].state \in Terminal

\* _apply_async_status
Apply(c) ==
  /\ stage[c] = "polled"
  /\ IF Keeps(Of(c)) THEN UNCHANGED <<handles, tokens>>
     ELSE /\ handles' = [handles EXCEPT ![Of(c)] = answer[c]]
          /\ tokens' = tokens + answer[c].cost
  /\ stage' = [stage EXCEPT ![c] = "ran"]
  /\ UNCHANGED <<setup, run, over, agents, abort, memo, credited, buffer, disk,
                 tries, answer, child, history>>

\* The view of a call that ran: a handle is read again.
View(c) == IF Kind(c) \in Async THEN handles[Of(c)] ELSE answer[c]

\* _persist_success, then the return frame.  A write that fails is swallowed.
Persist(c) ==
  /\ stage[c] = "ran"
  /\ Reply(c, View(c))
  /\ memo' = IF Kind(c) # "prompt" THEN memo
             ELSE {e \in memo : e.of # Of(c)} \cup {[of |-> Of(c), cost |-> View(c).cost]}
  /\ \/ /\ cache' = IF run = 1 /\ Cacheable(c)
                    THEN cache \cup {[id |-> c, answer |-> View(c)]} ELSE cache
        /\ prompts' = IF run = 1 /\ Kind(c) = "prompt" /\ \A e \in prompts : e.of # Of(c)
                      THEN prompts \cup {[of |-> Of(c), cost |-> View(c).cost]} ELSE prompts
     \/ "unrecorded" \in setup.faults /\ run = 1 /\ UNCHANGED disk
  /\ UNCHANGED <<setup, run, over, counters, handles, credited, buffer, child, history>>

-----------------------------------------------------------------------------
(* The run. *)

\* The script has its answers, or the driver stops it once the calls in the
\* pool are done.  A run that succeeds commits its failures.
End ==
  /\ ~over
  /\ \A c \in Calls : stage[c] = "replied" \/ (abort /\ stage[c] = "new")
  /\ over' = TRUE
  /\ cache' = IF abort THEN cache ELSE cache \cup buffer
  /\ ended' = Append(ended, [answer |-> answer, agents |-> agents, tokens |-> tokens, aborted |-> abort])
  /\ UNCHANGED <<setup, run, counters, memory, prompts, calls, child, children, spent>>

NoAnswers == [c \in Calls |-> NoAnswer]

Replay ==
  /\ over /\ run = 1
  /\ run' = 2
  /\ agents' = 0 /\ tokens' = 0 /\ abort' = FALSE /\ over' = FALSE /\ spent' = 0
  /\ handles' = NoAnswers /\ answer' = NoAnswers
  /\ memo' = {} /\ credited' = {} /\ buffer' = {} /\ children' = {}
  /\ stage' = [c \in Calls |-> "new"] /\ tries' = [c \in Calls |-> 0]
  /\ UNCHANGED <<setup, disk, child, ended>>

Init ==
  /\ setup \in Setups
  /\ run = 1 /\ agents = 0 /\ tokens = 0 /\ abort = FALSE /\ over = FALSE /\ spent = 0
  /\ handles = NoAnswers /\ answer = NoAnswers /\ child = NoAnswers
  /\ memo = {} /\ credited = {} /\ buffer = {} /\ children = {}
  /\ stage = [c \in Calls |-> "new"] /\ tries = [c \in Calls |-> 0]
  /\ cache = {} /\ prompts = {}
  /\ ended = << >>

Broker(c) ==
  \/ PromptHit(c) \/ ReplayHit(c) \/ OverBudget(c) \/ UnknownType(c) \/ Admit(c)
  \/ Return(c) \/ BadSchema(c) \/ Raise(c)
  \/ Start(c) \/ Known(c) \/ AskRunner(c) \/ Apply(c) \/ Persist(c)

Next ==
  \/ \E c \in Calls : Broker(c) \/ ChildDone(c)
  \/ End \/ Replay

Spec == Init /\ [][Next]_vars

-----------------------------------------------------------------------------
AnswerType ==
  [code : {"", "ok", "limit_agent", "limit_token", "runner_error", "schema",
           "result_too_large", "unknown_handle", "unknown_agent_type"},
   state : {"", "pending"} \cup Terminal, cost : Nat]

\* Type correctness of the broker's counters, its records and the caches.
TypeOK ==
  /\ run \in 1..2 /\ over \in BOOLEAN /\ abort \in BOOLEAN
  /\ agents \in Nat /\ tokens \in Nat /\ spent \in Nat
  /\ handles \in [Calls -> AnswerType] /\ child \in [Calls -> AnswerType]
  /\ stage \in [Calls -> {"new", "running", "polled", "ran", "replied"}]
  /\ tries \in [Calls -> Nat] /\ answer \in [Calls -> AnswerType]
  /\ children \subseteq Calls /\ credited \subseteq Calls
  /\ memo \cup prompts \subseteq [of : Nat \X Nat, cost : Nat]
  /\ buffer \cup cache \subseteq [id : Calls, answer : AnswerType]

\* The calls whose cost is still to come: children that run, and children in the
\* background whose result nobody has fetched.
Owing == {c \in children :
            \/ stage[c] = "running"
            \/ Kind(c) = "start" /\ (stage[c] = "ran" \/ handles[c].state = "pending")}

Width == Max({Len(Script[r]) : r \in DOMAIN Script})
Starts == {c \in children : Kind(c) = "start"}

\* However the threads interleave, _tokens passes the budget by no more than what
\* was in flight when it was reached: vm.py checks under the lock and charges
\* after the child has returned.
OvershootBounded ==
  run = 1 /\ children # {} =>
    tokens + MaxCost * Cardinality(Owing)
      <= setup.budget + MaxCost * (Width + Cardinality(Starts)) - 1

\* No interleaving of parallel calls launches more children than
\* max_agent_calls, in the run or in its replay.
CapHolds == Cardinality(children) <= setup.agents

\* Whichever of a poll and a cancel finishes first, the script is told one end of
\* a child: never two that differ, and never that it is pending in a later round.
ViewsAgree ==
  \A c, d \in {c \in Calls : Kind(c) \in Async /\ answer[c].code = "ok"} :
    /\ stage[c] = "replied" /\ stage[d] = "replied" /\ Of(c) = Of(d)
    /\ answer[c].state \in Terminal /\ (answer[d].state \in Terminal \/ c[1] < d[1])
    => answer[c] = answer[d]

Completed(r) == Len(ended) >= r /\ ~ended[r].aborted
Told(r, c) == ended[r].answer[c]

\* No lost line, no limit, no refused result and no failed prompt: what is left is
\* recorded, by call or by fingerprint, or is denied for reasons a replay finds again.
Recorded(c) ==
  \/ /\ Told(1, c).code = "ok"
     /\ IF Kind(c) = "prompt" THEN [of |-> Of(c), cost |-> Told(1, c).cost] \in prompts
        ELSE \E e \in cache : e.id = c
  \/ Told(1, c).code = "unknown_handle"
  \/ Told(1, c).code = "runner_error" /\ Kind(c) # "prompt"

\* A replay answers every call as the run did and ends with the same counters,
\* however the threads of either interleaved: vm.py advances them on a hit "so
\* cap-/budget-gated control flow in the script reproduces the recorded run".
ReplayAgrees ==
  /\ Completed(1) /\ Completed(2) /\ setup.deterministic
  /\ \A c \in Calls : Recorded(c) /\ Told(2, c).code # "limit_agent"
  => ended[1] = ended[2]

\* The token budget is "not re-enforced on a faithful replay" (vm.py).
NotEnforcedAgain ==
  Completed(1) /\ Len(ended) = 2 /\ setup.deterministic /\ (\A c \in Calls : Recorded(c))
    => Completed(2)

\* A replay of a run that caught a failure "reproduces the identical
\* CapabilityDenied" (vm.py), also where the script then retried.
FailuresReplay ==
  Completed(2) /\ setup.deterministic =>
    \A c \in Calls : Told(1, c).code = "runner_error" => Told(2, c) = Told(1, c)

\* "A lost cache line is fail-safe": the call simply runs again (vm.py).
LostLineIsSafe ==
  Completed(1) /\ Completed(2) /\ setup.deterministic
    => \A c \in Calls : Told(1, c).code = "ok" => Told(2, c).code = "ok"

\* A denial that was recorded is charged to a replay as it was to the run.
DenialsCountAlike ==
  /\ Completed(1) /\ Completed(2) /\ setup.deterministic
  /\ \A c \in Calls : Told(2, c) = Told(1, c)
  => ended[1].agents = ended[2].agents

\* What the children report is what the budget is charged.
SpendCounted ==
  run = 1 /\ over /\ (\A h \in Calls : handles[h] = child[h]) => tokens >= spent
=============================================================================
