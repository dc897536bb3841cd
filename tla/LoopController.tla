---------------------------- MODULE LoopController ----------------------------
(***************************************************************************)
(* One run of the feedback controller: loop_run of hermes_workflows/loops.py *)
(* with the finalizers of hermes_workflows/resources.py.                     *)
(*                                                                          *)
(* The controller is one thread; its partners are the sensor, the actuator, *)
(* the finalizer adapter, the grant broker and the clock, each of which may  *)
(* do anything its contract allows.  The wall-time brake is read at four     *)
(* places, and the deadline may pass between any two of them.                *)
(*                                                                          *)
(* Every action ends where _record_event has saved the status, so a state    *)
(* of this module is what get_status can return, or find after a crash.      *)
(***************************************************************************)
EXTENDS Naturals, Sequences, FiniteSets

CONSTANTS MaxSteps,     \* brakes.max_steps
          MaxRepeated,  \* brakes.max_repeated_signal
          MaxRetries,   \* brakes.max_sensor_retries
          MaxCost,      \* brakes.max_cost
          Costs,        \* costs an action may report
          Signals,      \* signal keys a sensor may report
          Finalizers    \* finalizer declarations an actuator may return

Policies == {"required", "best_effort", "preserve_only",
             "manual_approval_required"}
Triggers == {"success", "failure", "timeout"}

ASSUME LoopAssumption ==
  /\ MaxSteps \in Nat \ {0} /\ MaxRepeated \in Nat \ {0}
  /\ MaxRetries \in Nat /\ MaxCost \in Nat /\ Costs \subseteq Nat
  /\ \A f \in Finalizers : f.policy \in Policies /\ f.when \subseteq Triggers

VARIABLES
  pc,         \* where loop_run is
  state,      \* status.state
  iterations, \* status.iterations
  attempts,   \* noise retries of the current sensor read
  latest,     \* the last sensor result: "none", "open" or "converged"
  lastSignal, \* last_signal
  repeated,   \* repeated_signal_count
  actions,    \* action_count
  cost,       \* total_cost
  action,     \* the actuator result being handled
  resources,  \* finalizers of status.resources
  due,        \* finalizer results not appended to the status yet
  results,    \* status.finalizer_results
  host,       \* what the caller passed: [actuator, runner : BOOLEAN]
  timeUp,     \* max_wall_seconds have passed
  signals,    \* history: the signal keys of the sensor results
  declared,   \* history: every finalizer the actuator returned, merged
  acting,     \* history: an action ran since the last sensor result
  late,       \* history: sensor and actuator calls begun after the deadline
  verdict     \* history: the state the loop was left in

control == <<pc, state, verdict>>
sensing == <<iterations, attempts, latest, lastSignal, repeated, signals>>
budget == <<actions, cost, action>>
cleanup == <<resources, due, results>>
vars == <<control, sensing, budget, cleanup, host, timeUp, declared, acting,
          late>>

Waiting == {"waiting_for_event", "waiting_for_approval"}
Halts == {"halted_step_cap", "halted_budget_cap", "halted_time_cap",
          "halted_stalled", "halted_sensor_error", "halted_actuator_error",
          "halted_grant_denied"}

\* An actuator result: what it costs, what it waits for, the fate of the grant
\* envelope it carries, and the finalizers of the resources it declares.
Action == [cost : Costs, wait : Waiting \cup {"none"},
           grant : {"none", "valid", "denied"}, res : SUBSET Finalizers]
NoAction == [cost |-> 0, wait |-> "none", grant |-> "none", res |-> {}]

\* A finalizer is known by its resource and its own id.
Key(f) == <<f.res, f.id>>
Distinct(fs) == \A f, g \in fs : Key(f) = Key(g) => f = g

Status == {"succeeded", "failed", "skipped", "preserved", "approval_required"}
Result == [f : Finalizers, status : Status]
RequiredFailed == \E r \in results : r.f.policy = "required"
                                     /\ r.status = "failed"

Late == late' = late + (IF timeUp THEN 1 ELSE 0)

\* Leave the while loop in state s.
Leave(s) == pc' = "closeout" /\ state' = s /\ verdict' = s
Goto(label) == pc' = label /\ UNCHANGED <<state, verdict>>

-----------------------------------------------------------------------------
(* The loop. *)

Top ==
  /\ pc = "top"
  /\ IF timeUp
     THEN Leave("halted_time_cap") /\ UNCHANGED <<iterations, attempts>>
     ELSE /\ pc' = "sense" /\ state' = "sensing" /\ UNCHANGED verdict
          /\ iterations' = iterations + 1
          /\ attempts' = 0
  /\ UNCHANGED <<latest, lastSignal, repeated, signals, budget, cleanup, host,
                 timeUp, declared, acting, late>>

\* The sensor raises, or returns something malformed.
SensorFails ==
  /\ pc = "sense"
  /\ Leave("halted_sensor_error") /\ Late
  /\ UNCHANGED <<sensing, budget, cleanup, host, timeUp, declared, acting>>

\* A noisy reading is retried, without a look at the clock.
SensorNoise ==
  /\ pc = "sense" /\ Late
  /\ IF attempts >= MaxRetries
     THEN Leave("halted_sensor_error") /\ UNCHANGED attempts
     ELSE Goto("sense") /\ attempts' = attempts + 1
  /\ UNCHANGED <<iterations, latest, lastSignal, repeated, signals, budget,
                 cleanup, host, timeUp, declared, acting>>

SensorReads(signal, result) ==
  /\ pc = "sense" /\ Late
  /\ Goto("verify")
  /\ latest' = result
  /\ signals' = Append(signals, signal)
  /\ acting' = FALSE
  /\ UNCHANGED <<iterations, attempts, lastSignal, repeated, budget, cleanup,
                 host, timeUp, declared>>

\* The signal of the latest reading, and how often it came in a row.
Signal == signals[Len(signals)]
Repeats == IF Signal = lastSignal THEN repeated + 1 ELSE 1

\* Mutant of Verify: the step cap is compared with > instead of >=.
VerifyOffByOne ==
  /\ pc = "verify"
  /\ IF timeUp \/ latest = "converged"
     THEN /\ Leave(IF timeUp THEN "halted_time_cap" ELSE "converged")
          /\ UNCHANGED <<lastSignal, repeated>>
     ELSE /\ lastSignal' = Signal
          /\ repeated' = Repeats
          /\ IF iterations > 1 /\ Repeats >= MaxRepeated
             THEN Leave("halted_stalled")
             ELSE IF ~host.actuator THEN Leave("halted_actuator_error")
             ELSE IF actions > MaxSteps THEN Leave("halted_step_cap")
             ELSE Goto("arm")
  /\ UNCHANGED <<iterations, attempts, latest, signals, budget, cleanup, host,
                 timeUp, declared, acting, late>>

Verify ==
  /\ pc = "verify"
  /\ IF timeUp \/ latest = "converged"
     THEN /\ Leave(IF timeUp THEN "halted_time_cap" ELSE "converged")
          /\ UNCHANGED <<lastSignal, repeated>>
     ELSE /\ lastSignal' = Signal
          /\ repeated' = Repeats
          /\ IF iterations > 1 /\ Repeats >= MaxRepeated
             THEN Leave("halted_stalled")
             ELSE IF ~host.actuator THEN Leave("halted_actuator_error")
             ELSE IF actions >= MaxSteps THEN Leave("halted_step_cap")
             ELSE Goto("arm")
  /\ UNCHANGED <<iterations, attempts, latest, signals, budget, cleanup, host,
                 timeUp, declared, acting, late>>

\* Mutant of Arm: a late deadline raises out of the loop instead of halting it.
ArmRaises ==
  /\ pc = "arm" /\ ~timeUp
  /\ pc' = "act" /\ state' = "acting" /\ UNCHANGED verdict
  /\ UNCHANGED <<sensing, budget, cleanup, host, timeUp, declared, acting, late>>

Arm ==
  /\ pc = "arm"
  /\ IF timeUp
     THEN Leave("halted_time_cap")
     ELSE pc' = "act" /\ state' = "acting" /\ UNCHANGED verdict
  /\ UNCHANGED <<sensing, budget, cleanup, host, timeUp, declared, acting, late>>

\* Mutant of Merge: a second declaration is kept beside the first.
MergeKeepsBoth(old, new) == old \cup new

\* _register_resources: a declaration replaces the one with the same ids.
Merge(old, new) == new \cup {f \in old : \A g \in new : Key(f) # Key(g)}

\* The actuator raises (res is empty), or returns resources beside something the
\* controller cannot read: a bad cost, a bad wait, one bad resource.
ActuatorFails(res) ==
  /\ pc = "act" /\ Late
  /\ Leave("halted_actuator_error")
  /\ declared' = Merge(declared, res)
  /\ acting' = TRUE
  /\ UNCHANGED <<sensing, budget, cleanup, host, timeUp>>

ActuatorReturns(result) ==
  /\ pc = "act" /\ Late
  /\ Goto("acted")
  /\ action' = result
  /\ actions' = actions + 1
  /\ resources' = Merge(resources, result.res)
  /\ declared' = Merge(declared, result.res)
  /\ acting' = TRUE
  /\ UNCHANGED <<sensing, cost, due, results, host, timeUp>>

\* A grant envelope beside a wait is refused whatever the broker would say.
GrantDenied == action.grant = "denied"
               \/ (action.grant # "none" /\ action.wait # "none")

Acted ==
  /\ pc = "acted"
  /\ action' = NoAction
  /\ IF timeUp
     THEN Leave("halted_time_cap") /\ UNCHANGED cost
     ELSE /\ cost' = cost + action.cost
          /\ IF cost' > MaxCost THEN Leave("halted_budget_cap")
             ELSE IF GrantDenied THEN Leave("halted_grant_denied")
             ELSE IF action.wait # "none" THEN Leave(action.wait)
             ELSE Goto("top")
  /\ UNCHANGED <<sensing, actions, cleanup, host, timeUp, declared, acting, late>>

-----------------------------------------------------------------------------
(* The closeout. *)

\* _finalizer_trigger
Trigger(s) ==
  IF s = "converged" THEN "success"
  ELSE IF s = "halted_time_cap" THEN "timeout"
  ELSE IF s \in Halts THEN "failure" ELSE "none"

\* What _run_one_finalizer may answer for f.
Outcomes(f) ==
  IF f.policy = "preserve_only" THEN {"preserved"}
  ELSE IF f.policy = "manual_approval_required" THEN {"approval_required"}
  ELSE IF host.runner THEN {"succeeded", "failed"}
  ELSE IF f.policy = "required" THEN {"failed"} ELSE {"skipped"}

Matching(s) == {f \in resources : Trigger(s) \in f.when}

\* run_resource_finalizers runs them all before the first is recorded.
RunFinalizers(answer) ==
  /\ pc = "closeout"
  /\ \A f \in Matching(state) : answer[f] \in Outcomes(f)
  /\ due' = {[f |-> f, status |-> answer[f]] : f \in Matching(state)}
  /\ Goto(IF due' = {} THEN "report" ELSE "record")
  /\ UNCHANGED <<sensing, budget, resources, results, host, timeUp, declared,
                 acting, late>>

RecordResult(r) ==
  /\ pc = "record" /\ r \in due
  /\ results' = results \cup {r}
  /\ due' = due \ {r}
  /\ UNCHANGED <<control, sensing, budget, resources, host, timeUp, declared,
                 acting, late>>

Recorded ==
  /\ pc = "record" /\ due = {}
  /\ pc' = "report"
  /\ state' = IF RequiredFailed THEN "halted_finalizer_error" ELSE state
  /\ UNCHANGED <<verdict, sensing, budget, cleanup, host, timeUp, declared,
                 acting, late>>

Return ==
  /\ pc = "report"
  /\ Goto("returned")
  /\ UNCHANGED <<sensing, budget, cleanup, host, timeUp, declared, acting, late>>

-----------------------------------------------------------------------------

DeadlinePasses ==
  /\ ~timeUp /\ pc # "returned"
  /\ timeUp' = TRUE
  /\ UNCHANGED <<control, sensing, budget, cleanup, host, declared, acting, late>>

Init ==
  /\ pc = "top" /\ state = "planned" /\ verdict = "none"
  /\ iterations = 0 /\ attempts = 0 /\ latest = "none" /\ signals = << >>
  /\ lastSignal = "none" /\ repeated = 0
  /\ actions = 0 /\ cost = 0 /\ action = NoAction
  /\ resources = {} /\ due = {} /\ results = {}
  /\ host \in [actuator : BOOLEAN, runner : BOOLEAN]
  /\ timeUp = FALSE /\ declared = {} /\ acting = FALSE /\ late = 0

Sensor ==
  \/ SensorFails \/ SensorNoise
  \/ \E s \in Signals, result \in {"open", "converged"} : SensorReads(s, result)

Actuator ==
  \/ \E res \in SUBSET Finalizers : Distinct(res) /\ ActuatorFails(res)
  \/ \E result \in Action : Distinct(result.res) /\ ActuatorReturns(result)

Closeout ==
  \/ \E answer \in [resources -> Status] : RunFinalizers(answer)
  \/ \E r \in due : RecordResult(r)
  \/ Recorded

Step == Top \/ Sensor \/ Verify \/ Arm \/ Actuator \/ Acted \/ Closeout \/ Return

Next == Step \/ DeadlinePasses

Spec == Init /\ [][Next]_vars

\* The thread runs, and every callback returns or raises.
FairSpec == Spec /\ WF_vars(Step)

-----------------------------------------------------------------------------
(* Properties. *)

TypeOK ==
  /\ pc \in {"top", "sense", "verify", "arm", "act", "acted", "closeout",
             "record", "report", "returned"}
  /\ state \in {"planned", "sensing", "acting", "converged",
                "halted_finalizer_error"} \cup Halts \cup Waiting
  /\ verdict \in {"none", "converged"} \cup Halts \cup Waiting
  /\ iterations \in Nat /\ attempts \in Nat /\ repeated \in Nat
  /\ latest \in {"none", "open", "converged"}
  /\ signals \in Seq(Signals) /\ lastSignal \in Signals \cup {"none"}
  /\ actions \in Nat /\ cost \in Nat /\ action \in Action \cup {NoAction}
  /\ resources \subseteq Finalizers
  /\ due \subseteq Result /\ results \subseteq Result
  /\ host \in [actuator : BOOLEAN, runner : BOOLEAN]
  /\ timeUp \in BOOLEAN /\ declared \subseteq Finalizers
  /\ acting \in BOOLEAN /\ late \in Nat

\* The brakes hold: at most max_steps actions and one sensor read more, no
\* action once the budget is spent, and when the deadline has passed at most one
\* sensor read with its retries, or one action, still begins.
BrakesHold ==
  /\ actions <= MaxSteps /\ iterations <= MaxSteps + 1
  /\ pc = "act" => actions < MaxSteps /\ cost <= MaxCost
  /\ late <= MaxRetries + 1

\* A run that returns success has a converged reading taken after its last
\* action, and the required finalizers of everything it registered did succeed
\* ("only a later sensor result can converge the run").
NoFalseSuccess ==
  pc = "returned" /\ state = "converged" =>
    /\ latest = "converged" /\ ~acting
    /\ \A f \in resources : f.policy = "required" /\ "success" \in f.when =>
         [f |-> f, status |-> "succeeded"] \in results

\* When the run returns, exactly the registered finalizers that match the way
\* the loop was left have one result each, a waiting run has kept its resources,
\* and only a failed required finalizer has changed the outcome.
CleanupMatchesVerdict ==
  pc = "returned" =>
    /\ {r.f : r \in results} = Matching(verdict)
    /\ \A r, q \in results : Key(r.f) = Key(q.f) => r = q
    /\ verdict \in Waiting => results = {}
    /\ state = IF RequiredFailed THEN "halted_finalizer_error" ELSE verdict

\* A run halts as stalled only when the last max_repeated_signal readings carry
\* the same signal ("repeated signal_key stall detection").
StalledRepeats ==
  verdict = "halted_stalled" =>
    /\ Len(signals) >= MaxRepeated
    /\ \A i \in 1..Len(signals) :
         i > Len(signals) - MaxRepeated => signals[i] = Signal
    /\ \E i \in 1..(Len(signals) - 1) : signals[i] = Signal

\* Whatever the callbacks answer, the run returns.
LoopReturns == <>(pc = "returned")

\* Every finalizer the actuator declared, in its latest form, that matches the way
\* the loop was left has run ("on terminal success, timeout, or
\* failure paths the controller runs matching finalizers").
DeclaredAreRun ==
  pc = "returned" =>
    \A f \in declared :
      Trigger(verdict) \in f.when => \E r \in results : r.f = f

\* No saved status claims success beside a failed required finalizer ("a run
\* that claims success while leaking a required resource is lying").
SavedSuccessIsTrue == ~(state = "converged" /\ RequiredFailed)
=============================================================================
