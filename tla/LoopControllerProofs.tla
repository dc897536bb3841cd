------------------------- MODULE LoopControllerProofs -------------------------
(***************************************************************************)
(* What a workflow script calls and what runs under it.  The brakes of      *)
(* loop_run, and what a returned status says, for any limits, signals,      *)
(* costs and finalizers; and what the capability calls of the script        *)
(* (GuestRpc) may rely on at their end of the pipe, for any tasks, blocks   *)
(* and failures.                                                            *)
(***************************************************************************)
EXTENDS LoopController, GuestRpc, FiniteSetTheorems, TLAPS

Closing == {"closeout", "record", "report", "returned"}

\* Where the loop is, counted in actions and iterations.
Counted ==
  /\ pc \in {"top", "acted"} => iterations = actions
  /\ pc \in {"sense", "verify", "arm", "act"} => iterations = actions + 1
  /\ iterations <= actions + 1 /\ actions <= MaxSteps
  /\ pc \in {"arm", "act"} => actions < MaxSteps

Afforded == pc \notin Closing => cost <= MaxCost

\* Calls begun after the deadline, at each place.
Punctual ==
  /\ ~timeUp => late = 0
  /\ attempts <= MaxRetries
  /\ pc \in {"top", "arm", "act"} => late = 0
  /\ pc = "sense" => late <= attempts
  /\ late <= MaxRetries + 1

\* The verdict is the state the closeout started from.
Verdicts ==
  /\ pc \in Closing => verdict \in {"converged"} \cup Halts \cup Waiting
  /\ pc \in {"closeout", "record"} => state = verdict
  /\ pc \notin Closing => state \in {"planned", "sensing", "acting"}
                          /\ verdict = "none"

\* There is a reading to verify.
Read == pc = "verify" => signals # << >>

Typed == TypeOK /\ Read

\* A converged verdict rests on a reading taken after the last action.
Fresh ==
  /\ pc = "verify" => ~acting
  /\ verdict = "converged" => latest = "converged" /\ ~acting

\* Which results exist, or are about to.
Accounted ==
  /\ Distinct(resources)
  /\ pc # "record" => due = {}
  /\ pc \notin {"record", "report", "returned"} => results = {}
  /\ pc \in {"record", "report", "returned"} =>
       /\ {r.f : r \in results \cup due} = Matching(verdict)
       /\ \A r, q \in results \cup due : Key(r.f) = Key(q.f) => r = q
       /\ \A r \in results \cup due : r.status \in Outcomes(r.f)
  /\ pc \in {"report", "returned"} =>
       state = IF RequiredFailed THEN "halted_finalizer_error" ELSE verdict

Inv ==
  /\ Typed /\ Counted /\ Afforded /\ Punctual /\ Verdicts /\ Fresh /\ Accounted

-----------------------------------------------------------------------------

LEMMA Kinds ==
  /\ \A a \in Action : /\ a.cost \in Nat
                       /\ a.wait = "none" \/ a.wait \in Waiting
                       /\ a.res \subseteq Finalizers
  /\ NoAction.cost \in Nat /\ NoAction.wait = "none"
  BY LoopAssumption DEF Action, NoAction, LoopAssumption

LEMMA TypeInit == Init => Typed
  <1> SUFFICES ASSUME Init PROVE Typed
    OBVIOUS
  <1>1. signals \in Seq(Signals) BY DEF Init
  <1> QED BY <1>1, LoopAssumption DEF Init, Typed, TypeOK, Read

LEMMA TypeStep == Typed /\ [Next]_vars => Typed'
  <1> SUFFICES ASSUME Typed, [Next]_vars PROVE Typed'
    OBVIOUS
  <1> USE LoopAssumption
      DEF Typed, TypeOK, Read, Goto, Leave, Late, control, sensing, budget,
          cleanup, Halts, Waiting
  <1>1. CASE Top BY <1>1 DEF Top
  <1>2. CASE Sensor
    <2>1. CASE SensorFails BY <2>1 DEF SensorFails
    <2>2. CASE SensorNoise BY <2>2 DEF SensorNoise
    <2>3. ASSUME NEW s \in Signals, NEW result \in {"open", "converged"},
                 SensorReads(s, result)
          PROVE Typed'
      <3>1. signals' \in Seq(Signals) /\ signals' # << >>
        BY <2>3 DEF SensorReads
      <3>2. UNCHANGED <<lastSignal, repeated, budget, cleanup, host, timeUp,
                        declared, iterations, attempts>>
        BY <2>3 DEF SensorReads
      <3>3. /\ pc' = "verify" /\ state' = state /\ verdict' = verdict
            /\ latest' = result /\ acting' = FALSE
        BY <2>3 DEF SensorReads
      <3>4. acting' \in BOOLEAN BY <3>3, Zenon
      <3>5. late' \in Nat BY <2>3 DEF SensorReads
      <3>6. /\ action' = action /\ host' = host /\ timeUp' = timeUp
            /\ due' = due /\ results' = results
        BY <3>2
      <3> QED BY <3>1, <3>2, <3>3, <3>4, <3>5, <3>6
    <2> QED BY <1>2, <2>1, <2>2, <2>3 DEF Sensor
  <1>3. CASE Verify
    <2>1. CASE timeUp \/ latest = "converged" BY <1>3, <2>1 DEF Verify
    <2>2. CASE ~(timeUp \/ latest = "converged")
      <3>1. repeated' \in Nat BY <1>3, <2>2 DEF Verify, Repeats
      <3>2. Signal \in Signals BY <1>3 DEF Verify, Signal
      <3> QED BY <1>3, <2>2, <3>1, <3>2 DEF Verify
    <2> QED BY <2>1, <2>2
  <1>4. CASE Arm BY <1>4 DEF Arm
  <1>5. CASE Actuator
    <2>1. ASSUME NEW res \in SUBSET Finalizers, ActuatorFails(res) PROVE Typed'
      BY <2>1 DEF ActuatorFails, Merge
    <2>2. ASSUME NEW result \in Action, ActuatorReturns(result) PROVE Typed'
      <3>1. result.res \subseteq Finalizers BY DEF Action
      <3>2. /\ resources' \subseteq Finalizers
            /\ declared' \subseteq Finalizers
        BY <2>2, <3>1 DEF ActuatorReturns, Merge
      <3> QED BY <2>2, <3>2 DEF ActuatorReturns
    <2> QED BY <1>5, <2>1, <2>2 DEF Actuator
  <1>6. CASE Acted
    <2>0. action \in Action \/ action = NoAction OBVIOUS
    <2>1. action.cost \in Nat BY <2>0, Kinds
    <2>2. action.wait = "none" \/ action.wait \in Waiting BY <2>0, Kinds
    <2>3. cost' \in Nat BY <1>6, <2>1 DEF Acted
    <2> QED BY <1>6, <2>2, <2>3 DEF Acted
  <1>7. CASE Closeout
    <2>1. ASSUME NEW answer \in [resources -> Status], RunFinalizers(answer)
          PROVE Typed'
      <3>1. due' \subseteq Result
        BY <2>1 DEF RunFinalizers, Matching, Result
      <3> QED BY <2>1, <3>1 DEF RunFinalizers
    <2>2. ASSUME NEW r \in due, RecordResult(r) PROVE Typed'
      BY <2>2 DEF RecordResult
    <2>3. CASE Recorded BY <2>3 DEF Recorded
    <2> QED BY <1>7, <2>1, <2>2, <2>3 DEF Closeout
  <1>8. CASE Return BY <1>8 DEF Return
  <1>9. CASE DeadlinePasses BY <1>9 DEF DeadlinePasses
  <1>10. CASE UNCHANGED vars BY <1>10 DEF vars
  <1> QED
    BY <1>1, <1>2, <1>3, <1>4, <1>5, <1>6, <1>7, <1>8, <1>9, <1>10
    DEF Next, Step

LEMMA CountedStep ==
  Typed /\ Counted /\ [Next]_vars => Counted'
  <1> SUFFICES ASSUME Typed, Counted,
                      [Next]_vars
               PROVE Counted'
    OBVIOUS
  <1> USE LoopAssumption DEF Typed, TypeOK, Counted, control, sensing, budget, cleanup, Goto, Leave
  <1>1. CASE Top BY <1>1 DEF Top
  <1>2. CASE SensorFails BY <1>2 DEF SensorFails
  <1>3. CASE SensorNoise BY <1>3 DEF SensorNoise
  <1>4. ASSUME NEW s \in Signals, NEW result \in {"open", "converged"},
               SensorReads(s, result)
        PROVE Counted'
    BY <1>4 DEF SensorReads
  <1>5. CASE Verify BY <1>5 DEF Verify
  <1>6. CASE Arm BY <1>6 DEF Arm
  <1>7. ASSUME NEW res \in SUBSET Finalizers, ActuatorFails(res) PROVE Counted'
    BY <1>7 DEF ActuatorFails
  <1>8. ASSUME NEW result \in Action, Distinct(result.res),
               ActuatorReturns(result)
        PROVE Counted'
    BY <1>8 DEF ActuatorReturns
  <1>9. CASE Acted BY <1>9 DEF Acted
  <1>10. ASSUME NEW answer \in [resources -> Status], RunFinalizers(answer)
        PROVE Counted'
    BY <1>10 DEF RunFinalizers
  <1>11. ASSUME NEW r \in due, RecordResult(r) PROVE Counted'
    BY <1>11 DEF RecordResult
  <1>12. CASE Recorded BY <1>12 DEF Recorded
  <1>13. CASE Return BY <1>13 DEF Return
  <1>14. CASE DeadlinePasses BY <1>14 DEF DeadlinePasses
  <1>15. CASE UNCHANGED vars BY <1>15 DEF vars
  <1> QED
    BY <1>1, <1>2, <1>3, <1>4, <1>5, <1>6, <1>7, <1>8,
       <1>9, <1>10, <1>11, <1>12, <1>13, <1>14, <1>15
    DEF Next, Step, Sensor, Actuator, Closeout

LEMMA AffordedStep ==
  Typed /\ Afforded /\ [Next]_vars => Afforded'
  <1> SUFFICES ASSUME Typed, Afforded,
                      [Next]_vars
               PROVE Afforded'
    OBVIOUS
  <1> USE LoopAssumption DEF Typed, TypeOK, Afforded, Closing,
          control, sensing, budget, cleanup, Goto, Leave, Waiting, Halts
  <1>1. CASE Top BY <1>1 DEF Top
  <1>2. CASE SensorFails BY <1>2 DEF SensorFails
  <1>3. CASE SensorNoise BY <1>3 DEF SensorNoise
  <1>4. ASSUME NEW s \in Signals, NEW result \in {"open", "converged"},
               SensorReads(s, result)
        PROVE Afforded'
    BY <1>4 DEF SensorReads
  <1>5. CASE Verify BY <1>5 DEF Verify
  <1>6. CASE Arm BY <1>6 DEF Arm
  <1>7. ASSUME NEW res \in SUBSET Finalizers, ActuatorFails(res) PROVE Afforded'
    BY <1>7 DEF ActuatorFails
  <1>8. ASSUME NEW result \in Action, Distinct(result.res),
               ActuatorReturns(result)
        PROVE Afforded'
    BY <1>8 DEF ActuatorReturns
  <1>9. CASE Acted
    <2>1. action \in Action \/ action = NoAction OBVIOUS
    <2>2. action.cost \in Nat BY <2>1, Kinds
    <2> QED BY <1>9, <2>2 DEF Acted
  <1>10. ASSUME NEW answer \in [resources -> Status], RunFinalizers(answer)
        PROVE Afforded'
    BY <1>10 DEF RunFinalizers
  <1>11. ASSUME NEW r \in due, RecordResult(r) PROVE Afforded'
    BY <1>11 DEF RecordResult
  <1>12. CASE Recorded BY <1>12 DEF Recorded
  <1>13. CASE Return BY <1>13 DEF Return
  <1>14. CASE DeadlinePasses BY <1>14 DEF DeadlinePasses
  <1>15. CASE UNCHANGED vars BY <1>15 DEF vars
  <1> QED
    BY <1>1, <1>2, <1>3, <1>4, <1>5, <1>6, <1>7, <1>8,
       <1>9, <1>10, <1>11, <1>12, <1>13, <1>14, <1>15
    DEF Next, Step, Sensor, Actuator, Closeout

LEMMA PunctualStep ==
  Typed /\ Punctual /\ [Next]_vars => Punctual'
  <1> SUFFICES ASSUME Typed, Punctual,
                      [Next]_vars
               PROVE Punctual'
    OBVIOUS
  <1> USE LoopAssumption DEF Typed, TypeOK, Punctual, Late,
          control, sensing, budget, cleanup, Goto, Leave
  <1>1. CASE Top BY <1>1 DEF Top
  <1>2. CASE SensorFails BY <1>2 DEF SensorFails
  <1>3. CASE SensorNoise BY <1>3 DEF SensorNoise
  <1>4. ASSUME NEW s \in Signals, NEW result \in {"open", "converged"},
               SensorReads(s, result)
        PROVE Punctual'
    BY <1>4 DEF SensorReads
  <1>5. CASE Verify BY <1>5 DEF Verify
  <1>6. CASE Arm BY <1>6 DEF Arm
  <1>7. ASSUME NEW res \in SUBSET Finalizers, ActuatorFails(res) PROVE Punctual'
    BY <1>7 DEF ActuatorFails
  <1>8. ASSUME NEW result \in Action, Distinct(result.res),
               ActuatorReturns(result)
        PROVE Punctual'
    BY <1>8 DEF ActuatorReturns
  <1>9. CASE Acted BY <1>9 DEF Acted
  <1>10. ASSUME NEW answer \in [resources -> Status], RunFinalizers(answer)
        PROVE Punctual'
    BY <1>10 DEF RunFinalizers
  <1>11. ASSUME NEW r \in due, RecordResult(r) PROVE Punctual'
    BY <1>11 DEF RecordResult
  <1>12. CASE Recorded BY <1>12 DEF Recorded
  <1>13. CASE Return BY <1>13 DEF Return
  <1>14. CASE DeadlinePasses BY <1>14 DEF DeadlinePasses
  <1>15. CASE UNCHANGED vars BY <1>15 DEF vars
  <1> QED
    BY <1>1, <1>2, <1>3, <1>4, <1>5, <1>6, <1>7, <1>8,
       <1>9, <1>10, <1>11, <1>12, <1>13, <1>14, <1>15
    DEF Next, Step, Sensor, Actuator, Closeout

LEMMA VerdictsStep ==
  Typed /\ Verdicts /\ [Next]_vars => Verdicts'
  <1> SUFFICES ASSUME Typed, Verdicts,
                      [Next]_vars
               PROVE Verdicts'
    OBVIOUS
  <1> USE LoopAssumption DEF Typed, TypeOK, Verdicts, Closing, Waiting, Halts,
          control, sensing, budget, cleanup, Goto, Leave
  <1>1. CASE Top BY <1>1 DEF Top
  <1>2. CASE SensorFails BY <1>2 DEF SensorFails
  <1>3. CASE SensorNoise BY <1>3 DEF SensorNoise
  <1>4. ASSUME NEW s \in Signals, NEW result \in {"open", "converged"},
               SensorReads(s, result)
        PROVE Verdicts'
    BY <1>4 DEF SensorReads
  <1>5. CASE Verify BY <1>5 DEF Verify
  <1>6. CASE Arm BY <1>6 DEF Arm
  <1>7. ASSUME NEW res \in SUBSET Finalizers, ActuatorFails(res) PROVE Verdicts'
    BY <1>7 DEF ActuatorFails
  <1>8. ASSUME NEW result \in Action, Distinct(result.res),
               ActuatorReturns(result)
        PROVE Verdicts'
    BY <1>8 DEF ActuatorReturns
  <1>9. CASE Acted
    <2>1. action \in Action \/ action = NoAction OBVIOUS
    <2>2. action.wait = "none" \/ action.wait \in Waiting BY <2>1, Kinds
    <2> QED BY <1>9, <2>2 DEF Acted
  <1>10. ASSUME NEW answer \in [resources -> Status], RunFinalizers(answer)
        PROVE Verdicts'
    BY <1>10 DEF RunFinalizers
  <1>11. ASSUME NEW r \in due, RecordResult(r) PROVE Verdicts'
    BY <1>11 DEF RecordResult
  <1>12. CASE Recorded BY <1>12 DEF Recorded
  <1>13. CASE Return BY <1>13 DEF Return
  <1>14. CASE DeadlinePasses BY <1>14 DEF DeadlinePasses
  <1>15. CASE UNCHANGED vars BY <1>15 DEF vars
  <1> QED
    BY <1>1, <1>2, <1>3, <1>4, <1>5, <1>6, <1>7, <1>8,
       <1>9, <1>10, <1>11, <1>12, <1>13, <1>14, <1>15
    DEF Next, Step, Sensor, Actuator, Closeout

LEMMA FreshStep ==
  Typed /\ Verdicts /\ Fresh /\ [Next]_vars => Fresh'
  <1> SUFFICES ASSUME Typed, Verdicts, Fresh,
                      [Next]_vars
               PROVE Fresh'
    OBVIOUS
  <1> USE LoopAssumption DEF Verdicts, Closing, Fresh, Waiting, Halts,
          control, sensing, budget, cleanup, Goto, Leave
  <1>1. CASE Top BY <1>1 DEF Top
  <1>2. CASE SensorFails BY <1>2 DEF SensorFails
  <1>3. CASE SensorNoise BY <1>3 DEF SensorNoise
  <1>4. ASSUME NEW s \in Signals, NEW result \in {"open", "converged"},
               SensorReads(s, result)
        PROVE Fresh'
    BY <1>4 DEF SensorReads
  <1>5. CASE Verify BY <1>5 DEF Verify
  <1>6. CASE Arm BY <1>6 DEF Arm
  <1>7. ASSUME NEW res \in SUBSET Finalizers, ActuatorFails(res) PROVE Fresh'
    BY <1>7 DEF ActuatorFails
  <1>8. ASSUME NEW result \in Action, Distinct(result.res),
               ActuatorReturns(result)
        PROVE Fresh'
    BY <1>8 DEF ActuatorReturns
  <1>9. CASE Acted
    <2>1. action \in Action \/ action = NoAction BY DEF Typed, TypeOK
    <2>2. action.wait = "none" \/ action.wait \in Waiting BY <2>1, Kinds
    <2> QED BY <1>9, <2>2 DEF Acted
  <1>10. ASSUME NEW answer \in [resources -> Status], RunFinalizers(answer)
        PROVE Fresh'
    BY <1>10 DEF RunFinalizers
  <1>11. ASSUME NEW r \in due, RecordResult(r) PROVE Fresh'
    BY <1>11 DEF RecordResult
  <1>12. CASE Recorded BY <1>12 DEF Recorded
  <1>13. CASE Return BY <1>13 DEF Return
  <1>14. CASE DeadlinePasses BY <1>14 DEF DeadlinePasses
  <1>15. CASE UNCHANGED vars BY <1>15 DEF vars
  <1> QED
    BY <1>1, <1>2, <1>3, <1>4, <1>5, <1>6, <1>7, <1>8,
       <1>9, <1>10, <1>11, <1>12, <1>13, <1>14, <1>15
    DEF Next, Step, Sensor, Actuator, Closeout

LEMMA AccountedStep ==
  Typed /\ Verdicts /\ Accounted /\ [Next]_vars => Accounted'
  <1> SUFFICES ASSUME Typed, Verdicts, Accounted,
                      [Next]_vars
               PROVE Accounted'
    OBVIOUS
  <1> USE LoopAssumption DEF Verdicts, Closing, Accounted,
          control, sensing, budget, cleanup, Goto, Leave
  <1>1. CASE Top
    BY <1>1 DEF Top, Distinct
  <1>2. CASE SensorFails
    BY <1>2 DEF SensorFails, Distinct
  <1>3. CASE SensorNoise
    BY <1>3 DEF SensorNoise, Distinct
  <1>4. ASSUME NEW s \in Signals, NEW result \in {"open", "converged"},
               SensorReads(s, result)
        PROVE Accounted'
    BY <1>4 DEF SensorReads, Distinct
  <1>5. CASE Verify
    BY <1>5 DEF Verify, Distinct
  <1>6. CASE Arm
    BY <1>6 DEF Arm, Distinct
  <1>7. ASSUME NEW res \in SUBSET Finalizers, ActuatorFails(res) PROVE Accounted'
    BY <1>7 DEF ActuatorFails, Distinct
  <1>8. ASSUME NEW result \in Action, Distinct(result.res),
               ActuatorReturns(result)
        PROVE Accounted'
    <2>1. Distinct(resources')
      BY <1>8 DEF ActuatorReturns, Merge, Distinct
    <2>2. /\ pc = "act" /\ pc' = "acted" /\ UNCHANGED <<due, results>>
      BY <1>8 DEF ActuatorReturns
    <2> QED BY <2>1, <2>2
  <1>9. CASE Acted
    BY <1>9 DEF Acted, Distinct
  <1>10. ASSUME NEW answer \in [resources -> Status], RunFinalizers(answer)
        PROVE Accounted'
    <2>1. /\ pc = "closeout" /\ pc' \in {"report", "record"}
          /\ due' = {[f |-> f, status |-> answer[f]] : f \in Matching(verdict)}
          /\ results' = {} /\ results = {} /\ state' = verdict
          /\ UNCHANGED <<resources, host, verdict>>
          /\ \A f \in Matching(verdict) : answer[f] \in Outcomes(f)
          /\ pc' = "report" => due' = {}
      BY <1>10 DEF RunFinalizers
    <2>2. Matching(verdict)' = Matching(verdict)
      BY <2>1 DEF Matching
    <2>3. \A f \in Finalizers : Outcomes(f)' = Outcomes(f)
      BY <2>1 DEF Outcomes
    <2>4. Matching(verdict) \subseteq resources
      BY DEF Matching
    <2>5. {r.f : r \in results' \cup due'} = Matching(verdict)
      <3>1. results' \cup due' = due' BY <2>1
      <3>2. \A r \in due' : r.f \in Matching(verdict) BY <2>1
      <3>3. \A f \in Matching(verdict) : \E r \in due' : r.f = f
        <4> SUFFICES ASSUME NEW f \in Matching(verdict)
                     PROVE \E r \in due' : r.f = f
          OBVIOUS
        <4> DEFINE r0 == [f |-> f, status |-> answer[f]]
        <4>1. r0 \in due' BY <2>1
        <4>2. r0.f = f OBVIOUS
        <4> QED BY <4>1, <4>2
      <3> QED BY <3>1, <3>2, <3>3
    <2>6. \A r, q \in results' \cup due' : Key(r.f) = Key(q.f) => r = q
      BY <2>1, <2>4 DEF Distinct
    <2>7. \A r \in results' \cup due' : r.status \in Outcomes(r.f)'
      <3>1. \A r \in results' \cup due' :
              r.f \in Matching(verdict) /\ r.status = answer[r.f]
        BY <2>1
      <3>2. Matching(verdict) \subseteq Finalizers
        BY <2>4 DEF Typed, TypeOK
      <3> QED BY <2>1, <2>3, <3>1, <3>2
    <2>8. ~RequiredFailed' BY <2>1 DEF RequiredFailed
    <2>9. Distinct(resources)' BY <2>1 DEF Distinct
    <2> QED BY <2>1, <2>2, <2>5, <2>6, <2>7, <2>8, <2>9
  <1>11. ASSUME NEW r \in due, RecordResult(r) PROVE Accounted'
    <2>1. /\ pc = "record" /\ pc' = "record"
          /\ results' \cup due' = results \cup due
          /\ UNCHANGED <<resources, host, verdict>>
      BY <1>11 DEF RecordResult
    <2>2. Matching(verdict)' = Matching(verdict) /\ Distinct(resources)'
      BY <2>1 DEF Matching, Distinct
    <2>3. \A q \in results \cup due : Outcomes(q.f)' = Outcomes(q.f)
      BY <2>1 DEF Outcomes
    <2> QED BY <2>1, <2>2, <2>3
  <1>12. CASE Recorded
    <2>1. /\ pc = "record" /\ pc' = "report" /\ due' = {} /\ due = {}
          /\ results' \cup due' = results \cup due
          /\ UNCHANGED <<resources, host, verdict, results>>
          /\ state' = IF RequiredFailed THEN "halted_finalizer_error" ELSE verdict
      BY <1>12 DEF Recorded
    <2>2. Matching(verdict)' = Matching(verdict) /\ Distinct(resources)'
      BY <2>1 DEF Matching, Distinct
    <2>3. \A r \in results \cup due : Outcomes(r.f)' = Outcomes(r.f)
      BY <2>1 DEF Outcomes
    <2>4. RequiredFailed' = RequiredFailed BY <2>1 DEF RequiredFailed
    <2> QED BY <2>1, <2>2, <2>3, <2>4
  <1>13. CASE Return
    <2>1. /\ pc' = pc \/ (pc = "report" /\ pc' = "returned")
          /\ UNCHANGED <<resources, host, verdict, results, due, state>>
      BY <1>13 DEF Return
    <2>2. Matching(verdict)' = Matching(verdict) /\ Distinct(resources)'
      BY <2>1 DEF Matching, Distinct
    <2>3. \A r \in results \cup due : Outcomes(r.f)' = Outcomes(r.f)
      BY <2>1 DEF Outcomes
    <2>4. RequiredFailed' = RequiredFailed BY <2>1 DEF RequiredFailed
    <2> QED BY <2>1, <2>2, <2>3, <2>4
  <1>14. CASE DeadlinePasses
    <2>1. /\ pc' = pc \/ (pc = "report" /\ pc' = "returned")
          /\ UNCHANGED <<resources, host, verdict, results, due, state>>
      BY <1>14 DEF DeadlinePasses
    <2>2. Matching(verdict)' = Matching(verdict) /\ Distinct(resources)'
      BY <2>1 DEF Matching, Distinct
    <2>3. \A r \in results \cup due : Outcomes(r.f)' = Outcomes(r.f)
      BY <2>1 DEF Outcomes
    <2>4. RequiredFailed' = RequiredFailed BY <2>1 DEF RequiredFailed
    <2> QED BY <2>1, <2>2, <2>3, <2>4
  <1>15. CASE UNCHANGED vars
    <2>1. /\ pc' = pc \/ (pc = "report" /\ pc' = "returned")
          /\ UNCHANGED <<resources, host, verdict, results, due, state>>
      BY <1>15 DEF vars
    <2>2. Matching(verdict)' = Matching(verdict) /\ Distinct(resources)'
      BY <2>1 DEF Matching, Distinct
    <2>3. \A r \in results \cup due : Outcomes(r.f)' = Outcomes(r.f)
      BY <2>1 DEF Outcomes
    <2>4. RequiredFailed' = RequiredFailed BY <2>1 DEF RequiredFailed
    <2> QED BY <2>1, <2>2, <2>3, <2>4
  <1> QED
    BY <1>1, <1>2, <1>3, <1>4, <1>5, <1>6, <1>7, <1>8,
       <1>9, <1>10, <1>11, <1>12, <1>13, <1>14, <1>15
    DEF Next, Step, Sensor, Actuator, Closeout

LEMMA InvInit == Init => Inv
  <1> SUFFICES ASSUME Init PROVE Inv
    OBVIOUS
  <1>1. Typed BY TypeInit
  <1> QED
    BY <1>1, LoopAssumption
    DEF Init, Inv, Counted, Afforded, Punctual, Verdicts, Closing, Fresh,
        Accounted, Distinct

LEMMA InvStep == Inv /\ [Next]_vars => Inv'
  BY TypeStep, CountedStep, AffordedStep, PunctualStep, VerdictsStep, FreshStep,
     AccountedStep
  DEF Inv

\* The conjunction of the invariants above holds of every run of the controller:
\* the strengthening from which the properties below follow.
THEOREM InvHolds == Spec => []Inv
  BY InvInit, InvStep, PTL DEF Spec

-----------------------------------------------------------------------------

\* Every variable of the controller keeps to its type.
THEOREM TypeCorrect == Spec => []TypeOK
  <1>1. Inv => TypeOK BY DEF Inv, Typed
  <1> QED BY <1>1, InvHolds, PTL

\* max_steps, max_cost, max_sensor_retries and the deadline bound the run for all
\* their values: no order of slow, noisy or costly callbacks makes it take an
\* action, or begin a late call, too many.
THEOREM BrakesAlwaysHold == Spec => []BrakesHold
  <1>1. Inv => BrakesHold
    BY LoopAssumption
    DEF Inv, Typed, TypeOK, Counted, Afforded, Punctual, Closing, BrakesHold
  <1> QED BY <1>1, InvHolds, PTL

\* The results a run returns with are those of exactly the registered finalizers
\* that match its verdict, and the state follows from the two.
THEOREM CleanupIsExact == Spec => []CleanupMatchesVerdict
  <1>1. Inv => CleanupMatchesVerdict
    <2> SUFFICES ASSUME Inv, pc = "returned"
                 PROVE /\ {r.f : r \in results} = Matching(verdict)
                       /\ \A r, q \in results : Key(r.f) = Key(q.f) => r = q
                       /\ verdict \in Waiting => results = {}
                       /\ state = IF RequiredFailed
                                  THEN "halted_finalizer_error" ELSE verdict
      BY DEF CleanupMatchesVerdict
    <2>1. due = {} /\ results \cup due = results BY DEF Inv, Accounted
    <2>2. {r.f : r \in results} = Matching(verdict)
      BY <2>1 DEF Inv, Accounted
    <2>3. verdict \in Waiting => results = {}
      <3> SUFFICES ASSUME verdict \in Waiting PROVE results = {}
        OBVIOUS
      <3>1. Trigger(verdict) = "none" BY DEF Trigger, Waiting, Halts
      <3>2. \A f \in resources : "none" \notin f.when
        BY LoopAssumption DEF Inv, Typed, TypeOK, Triggers
      <3>3. Matching(verdict) = {} BY <3>1, <3>2 DEF Matching
      <3> QED BY <2>2, <3>3
    <2> QED BY <2>1, <2>2, <2>3 DEF Inv, Accounted
  <1> QED BY <1>1, InvHolds, PTL

\* A returned success is a converged reading newer than every action, with each
\* required finalizer of the registered resources succeeded.
THEOREM SuccessIsTrue == Spec => []NoFalseSuccess
  <1>1. Inv => NoFalseSuccess
    <2> SUFFICES ASSUME Inv, pc = "returned", state = "converged"
                 PROVE /\ latest = "converged" /\ ~acting
                       /\ \A f \in resources :
                            f.policy = "required" /\ "success" \in f.when =>
                              [f |-> f, status |-> "succeeded"] \in results
      BY DEF NoFalseSuccess
    <2>1. verdict = "converged" /\ ~RequiredFailed
      BY DEF Inv, Accounted
    <2>2. latest = "converged" /\ ~acting BY <2>1 DEF Inv, Fresh
    <2>3. ASSUME NEW f \in resources, f.policy = "required",
                 "success" \in f.when
          PROVE [f |-> f, status |-> "succeeded"] \in results
      <3>1. f \in Matching(verdict) BY <2>1, <2>3 DEF Matching, Trigger
      <3>2. due = {} /\ results \cup due = results BY DEF Inv, Accounted
      <3>3. PICK r \in results : r.f = f BY <3>1, <3>2 DEF Inv, Accounted
      <3>4. r.status \in Outcomes(f) BY <3>2, <3>3 DEF Inv, Accounted
      <3>5. r.status # "failed" BY <2>1, <2>3, <3>3 DEF RequiredFailed
      <3>6. r.status = "succeeded" BY <2>3, <3>4, <3>5 DEF Outcomes
      <3>7. r = [f |-> r.f, status |-> r.status]
        BY DEF Inv, Typed, TypeOK, Result
      <3> QED BY <3>3, <3>6, <3>7
    <2> QED BY <2>2, <2>3
  <1> QED BY <1>1, InvHolds, PTL

-----------------------------------------------------------------------------
(* The guest's end of the pipe: its connection, reader task and fan-outs.     *)

LEMMA GuestTypeStep ==
  ASSUME GuestTypeOK, [GuestNext]_(guestVars)
  PROVE  GuestTypeOK'
  <1> USE DEF GuestTypeOK, Frame, NoFrame, In, wire
  <1>1. ASSUME NEW t \in Tasks, TaskStep(t)
        PROVE  GuestTypeOK'
    <2>1. CASE Send(t)
      BY <2>1 DEF Send
    <2>2. CASE CancelledEarly(t)
      BY <2>2 DEF CancelledEarly
    <2>3. CASE Resume(t)
      <3>1. task' \in [Tasks -> {"todo", "ready", "waiting", "done", "failed", "cancelled"}]
            /\ cancelling' \subseteq Tasks /\ pending' \subseteq Tasks
        BY <2>3 DEF Resume
      <3> QED BY <2>3, <3>1 DEF Resume
    <2> QED BY <1>1, <2>1, <2>2, <2>3 DEF TaskStep
  <1>2. ASSUME ReaderStep
        PROVE  GuestTypeOK'
    <2>1. CASE ReaderStarts
      BY <2>1 DEF ReaderStarts, NextRead
    <2>2. CASE ThreadReceives
      BY <2>2 DEF ThreadReceives
    <2>3. CASE ReaderHandles
      BY <2>3 DEF ReaderHandles, NextRead
    <2> QED BY <1>2, <2>1, <2>2, <2>3 DEF ReaderStep
  <1>3. ASSUME NEW g \in Groups, BlockStep(g)
        PROVE  GuestTypeOK'
    <2>1. ASSUME NEW fresh \in SUBSET In(g), Advance(g, fresh)
          PROVE  GuestTypeOK'
      <3>1. fresh \subseteq Tasks
        OBVIOUS
      <3>2. /\ task' = [t \in Tasks |-> IF t \in fresh THEN "ready" ELSE task[t]]
            /\ running' = [running EXCEPT ![g] =
                 (running[g] \ {t \in running[g] : Over(t)}) \cup fresh]
            /\ \E b \in {"after", "wait"} : block' = [block EXCEPT ![g] = b]
        BY <2>1 DEF Advance, StartReady
      <3>3. UNCHANGED <<group, cancelling, fut, pending, calls, channel, receivers, reader,
                        got, finished>>
        BY <2>1 DEF Advance
      <3>4. running' \in [Groups -> SUBSET Tasks]
        BY <3>1, <3>2
      <3>5. task' \in [Tasks -> {"todo", "ready", "waiting", "done", "failed", "cancelled"}]
        BY <3>1, <3>2
      <3> QED BY <3>2, <3>3, <3>4, <3>5
    <2>2. CASE CancelSiblings(g)
      BY <2>2 DEF CancelSiblings
    <2>3. CASE Gathered(g) \/ EndBlock(g)
      BY <2>3 DEF Gathered, EndBlock
    <2>4. CASE Log(g)
      <3>1. receivers' \in Seq(Groups \cup {"thread"}) /\ calls' \subseteq Tasks \cup Groups
        <4>1. \/ receivers' = receivers /\ calls' = calls
              \/ receivers' = Append(receivers, g) /\ calls' = calls \cup {g}
          BY <2>4 DEF Log
        <4>2. Append(receivers, g) \in Seq(Groups \cup {"thread"})
          OBVIOUS
        <4> QED BY <4>1, <4>2
      <3>2. block' \in [Groups -> {"wait", "cancel", "after", "log", "desync", "done"}]
        BY <2>4 DEF Log
      <3> QED BY <2>4, <3>1, <3>2 DEF Log
    <2> QED BY <1>3, <2>1, <2>2, <2>3, <2>4 DEF BlockStep
  <1>4. ASSUME NEW id \in Tasks \cup Groups, NEW ok \in BOOLEAN, Answer(id, ok)
        PROVE  GuestTypeOK'
    BY <1>4 DEF Answer
  <1>5. CASE Deliver
    <2>1. /\ Head(channel) \in Frame /\ Tail(channel) \in Seq(Frame)
          /\ Head(receivers) \in Groups \cup {"thread"}
          /\ Tail(receivers) \in Seq(Groups \cup {"thread"})
      <3>1. channel # << >> /\ receivers # << >>
        BY <1>5 DEF Deliver
      <3>2. \A S, q : q \in Seq(S) /\ q # << >> => Head(q) \in S /\ Tail(q) \in Seq(S)
        OBVIOUS
      <3> HIDE DEF Frame
      <3> QED BY <3>1, <3>2
    <2>2. CASE Head(receivers) = "thread"
      BY <1>5, <2>1, <2>2 DEF Deliver
    <2>3. CASE Head(receivers) # "thread"
      <3>1. Head(receivers) \in Groups /\ reader' = reader /\ got' = got
            /\ \E b \in {"done", "desync"} : block' = [block EXCEPT ![Head(receivers)] = b]
        <4>1. Head(receivers) \in Groups
          BY <2>1, <2>3
        <4>2. /\ reader' = reader /\ got' = got
              /\ block' = [block EXCEPT ![Head(receivers)] =
                             IF Head(channel).id = Head(receivers) THEN "done" ELSE "desync"]
          BY <1>5, <2>3 DEF Deliver
        <4> QED BY <4>1, <4>2
      <3> QED BY <1>5, <2>1, <3>1 DEF Deliver
    <2> QED BY <2>2, <2>3
  <1>6. CASE Finish
    BY <1>6 DEF Finish
  <1>7. CASE UNCHANGED guestVars
    BY <1>7 DEF guestVars
  <1> QED BY <1>1, <1>2, <1>3, <1>4, <1>5, <1>6, <1>7 DEF GuestNext

\* A frame of this call is due: the parent will send it, it is on its way, or the
\* reader task has it in hand.
Due(id) ==
  \/ id \in calls
  \/ \E k \in DOMAIN channel : channel[k].id = id
  \/ reader = "got" /\ got.id = id

\* Who is in recv is there once, and is at it.
Receiving ==
  /\ \A k \in DOMAIN receivers :
       IF receivers[k] = "thread" THEN reader = "recv" ELSE block[receivers[k]] = "log"
  /\ \A j, k \in DOMAIN receivers : receivers[j] = receivers[k] => j = k

\* Nothing is pending while the loop is blocked: log() is refused before.
Refused == (\E g \in Groups : block[g] = "log") => pending = {}

Logged == \A g \in Groups : g \in calls => block[g] \in {"log", "desync", "done"}

Answerable == \A t \in pending : Due(t)

Fed ==
  /\ GuestTypeOK /\ IsFiniteSet(calls)
  /\ Receiving /\ Refused /\ Logged /\ Answerable /\ ReceiversFed

\* When the loop runs and no thread receives for it, nobody receives.
LEMMA NobodyReceives ==
  ASSUME Fed, LoopFree, reader \notin {"submitted", "recv"}
  PROVE  receivers = << >>
  <1>1. receivers \in Seq(Groups \cup {"thread"})
    BY DEF Fed, GuestTypeOK
  <1>2. \A k \in DOMAIN receivers : receivers[k] \in Groups \cup {"thread"}
    BY <1>1
  <1>3. DOMAIN receivers = {}
    BY <1>2 DEF Fed, Receiving, LoopFree
  <1> QED BY <1>1, <1>3

\* The head of the reader's loop: it receives only for a call it has a frame due for.
LEMMA ReadOn ==
  ASSUME Fed, LoopFree, reader \in {"new", "got"},
         UNCHANGED <<calls, channel, receivers>>, NEW S,
         reader' = NextRead(S) \/ reader' = "none",
         \A t \in S : t \in calls \/ \E k \in DOMAIN channel : channel[k].id = t
  PROVE  ReceiversFed'
  <1>1. receivers' = << >> /\ Len(receivers') = 0
    BY NobodyReceives
  <1>2. Len(channel) \in Nat /\ Cardinality(calls) \in Nat
    BY FS_CardinalityType DEF Fed, GuestTypeOK
  <1>3. CASE S = {}
    BY <1>1, <1>2, <1>3 DEF NextRead, ReceiversFed
  <1>4. CASE S # {}
    <2>1. PICK t \in S : t \in calls \/ \E k \in DOMAIN channel : channel[k].id = t
      BY <1>4
    <2>2. ASSUME t \in calls PROVE Cardinality(calls) > 0
      <3>1. IsFiniteSet(calls) /\ calls # {}
        BY <2>2 DEF Fed
      <3>2. Cardinality(calls) # 0
        BY <3>1, FS_EmptySet
      <3> QED BY <1>2, <3>2
    <2>3. ASSUME \E k \in DOMAIN channel : channel[k].id = t PROVE Len(channel) > 0
      BY <2>3 DEF Fed, GuestTypeOK
    <2>4. Len(channel) + Cardinality(calls) >= 1
      BY <1>2, <2>1, <2>2, <2>3
    <2>5. Len(channel') + Cardinality(calls') >= 1
      BY <2>4
    <2>6. Len(receivers') + (IF reader' = "submitted" THEN 1 ELSE 0) <= 1
      BY <1>1
    <2>7. Len(channel') + Cardinality(calls') \in Nat
      BY <1>2
    <2> QED BY <2>5, <2>6, <2>7, <1>1 DEF ReceiversFed
  <1> QED BY <1>3, <1>4

\* In these steps nobody comes to receive and no frame is taken.
LEMMA Untouched ==
  ASSUME Fed, GuestTypeOK',
         UNCHANGED <<calls, channel, receivers>>,
         reader' = reader \/ (reader = "none" /\ reader' = "new"), UNCHANGED got,
         pending' \subseteq pending,
         \A g \in Groups : block'[g] = block[g] \/ (block[g] # "log" /\ block'[g] # "log"
                                                    /\ block[g] \notin {"desync", "done"})
  PROVE  Fed'
  <1>1. receivers \in Seq(Groups \cup {"thread"})
        /\ \A k \in DOMAIN receivers : receivers[k] \in Groups \cup {"thread"}
    BY DEF Fed, GuestTypeOK
  <1>2. Receiving'
    BY <1>1 DEF Fed, Receiving
  <1>3. Refused' /\ Logged'
    BY DEF Fed, Refused, Logged
  <1>4. Answerable'
    BY DEF Fed, Answerable, Due
  <1>5. ReceiversFed'
    BY DEF Fed, ReceiversFed
  <1> QED BY <1>2, <1>3, <1>4, <1>5 DEF Fed

LEMMA FedStep ==
  ASSUME Fed, [GuestNext]_(guestVars)
  PROVE  Fed'
  <1>t. GuestTypeOK /\ GuestTypeOK'
    BY GuestTypeStep DEF Fed
  <1>n. Len(channel) \in Nat /\ Cardinality(calls) \in Nat /\ Len(receivers) \in Nat
        /\ channel \in Seq(Frame) /\ receivers \in Seq(Groups \cup {"thread"})
    BY <1>t, FS_CardinalityType DEF Fed, GuestTypeOK
  <1>1. ASSUME NEW t \in Tasks, Send(t)
        PROVE  Fed'
    <2>1. /\ UNCHANGED <<channel, receivers, block, got>> /\ LoopFree
          /\ calls' = calls \cup {t} /\ pending' = pending \cup {t}
          /\ reader' = reader \/ (reader = "none" /\ reader' = "new")
      BY <1>1 DEF Send
    <2>2. IsFiniteSet(calls') /\ Cardinality(calls') >= Cardinality(calls)
          /\ Cardinality(calls') \in Nat
      <3>1. IsFiniteSet(calls)
        BY DEF Fed
      <3>2. /\ IsFiniteSet(calls \cup {t})
            /\ Cardinality(calls \cup {t}) =
                 IF t \in calls THEN Cardinality(calls) ELSE Cardinality(calls) + 1
        BY <3>1, FS_AddElement
      <3> QED BY <1>n, <2>1, <3>2
    <2>3. Receiving'
      <3>1. \A k \in DOMAIN receivers : receivers[k] \in Groups \cup {"thread"}
        BY <1>n
      <3> QED BY <2>1, <3>1 DEF Fed, Receiving
    <2>4. Refused' /\ Logged'
      BY <2>1, GuestAssumption DEF Fed, Refused, Logged, LoopFree
    <2>5. Answerable'
      BY <2>1 DEF Fed, Answerable, Due
    <2>6. ReceiversFed'
      BY <1>n, <2>1, <2>2 DEF Fed, ReceiversFed
    <2> QED BY <1>t, <2>2, <2>3, <2>4, <2>5, <2>6 DEF Fed
  <1>2. ASSUME NEW t \in Tasks, CancelledEarly(t) \/ Resume(t)
        PROVE  Fed'
    BY <1>t, <1>2, Untouched DEF CancelledEarly, Resume, wire
  <1>3. CASE ReaderStarts
    <2>1. /\ UNCHANGED <<calls, channel, receivers, block, got, pending>> /\ LoopFree
          /\ reader = "new" /\ reader' = NextRead(pending)
      BY <1>3 DEF ReaderStarts, wire
    <2>2. \A t \in pending : t \in calls \/ \E k \in DOMAIN channel : channel[k].id = t
      BY <2>1 DEF Fed, Answerable, Due
    <2>3. ReceiversFed'
      BY <2>1, <2>2, ReadOn
    <2>4. Answerable'
      BY <2>1, <2>2 DEF Answerable, Due
    <2>5. Receiving'
      BY <2>1, NobodyReceives DEF Receiving
    <2> QED BY <1>t, <2>1, <2>3, <2>4, <2>5 DEF Fed, Refused, Logged
  <1>4. CASE ThreadReceives
    <2>1. /\ UNCHANGED <<calls, channel, block, got, pending>>
          /\ reader = "submitted" /\ reader' = "recv"
          /\ receivers' = Append(receivers, "thread")
      BY <1>4 DEF ThreadReceives
    <2>2. \A k \in DOMAIN receivers : receivers[k] \in Groups \cup {"thread"}
      BY <1>n
    <2>3. \A k \in DOMAIN receivers : receivers[k] # "thread"
      BY <2>1 DEF Fed, Receiving
    <2>4. /\ \A k \in DOMAIN receivers' : k \in DOMAIN receivers \/ k = Len(receivers) + 1
          /\ \A k \in DOMAIN receivers : receivers'[k] = receivers[k]
          /\ receivers'[Len(receivers) + 1] = "thread" /\ Len(receivers') = Len(receivers) + 1
      BY <1>n, <2>1
    <2>5. Receiving'
      BY <2>1, <2>3, <2>4 DEF Fed, Receiving
    <2>6. Answerable'
      BY <2>1 DEF Fed, Answerable, Due
    <2>7. ReceiversFed'
      BY <1>n, <2>1, <2>4 DEF Fed, ReceiversFed
    <2> QED BY <1>t, <2>1, <2>5, <2>6, <2>7 DEF Fed, Refused, Logged
  <1>5. CASE ReaderHandles
    <2>1. /\ UNCHANGED <<calls, channel, receivers, block>> /\ LoopFree
          /\ reader = "got" /\ pending' = pending \ {got.id}
          /\ reader' = NextRead(pending') \/ reader' = "none"
      BY <1>5 DEF ReaderHandles, wire
    <2>2. \A t \in pending' : t \in calls \/ \E k \in DOMAIN channel : channel[k].id = t
      BY <2>1 DEF Fed, Answerable, Due
    <2>3. ReceiversFed'
      BY <2>1, <2>2, ReadOn
    <2>4. Answerable'
      BY <2>1, <2>2 DEF Answerable, Due
    <2>5. Receiving'
      BY <2>1, NobodyReceives DEF Receiving
    <2> QED BY <1>t, <2>1, <2>3, <2>4, <2>5 DEF Fed, Refused, Logged, LoopFree
  <1>6. ASSUME NEW g \in Groups, NEW fresh \in SUBSET In(g), Advance(g, fresh)
        PROVE  Fed'
    <2>1. \E b \in {"after", "wait"} : block' = [block EXCEPT ![g] = b] /\ block[g] = "wait"
      BY <1>6 DEF Advance
    <2> QED BY <1>t, <1>6, <2>1, Untouched DEF Advance, wire, GuestTypeOK
  <1>7. ASSUME NEW g \in Groups,
               CancelSiblings(g) \/ Gathered(g) \/ EndBlock(g)
        PROVE  Fed'
    <2>1. \E b \in {"cancel", "after", "done"} :
            block' = [block EXCEPT ![g] = b] /\ block[g] \in {"wait", "cancel", "after"}
      BY <1>7 DEF CancelSiblings, Gathered, EndBlock
    <2>2. UNCHANGED <<calls, channel, receivers, reader, got, pending>>
      BY <1>7 DEF CancelSiblings, Gathered, EndBlock, wire
    <2> QED BY <1>t, <2>1, <2>2, Untouched DEF GuestTypeOK
  <1>8. ASSUME NEW g \in Groups, Log(g)
        PROVE  Fed'
    <2>1. /\ LoopFree /\ block[g] = "after"
          /\ UNCHANGED <<pending, channel, reader, got>>
      BY <1>8 DEF Log
    <2>2. CASE pending # {}
      <3>1. block' = [block EXCEPT ![g] = "done"] /\ UNCHANGED <<calls, receivers>>
        BY <1>8, <2>2 DEF Log
      <3> QED BY <1>t, <2>1, <3>1, Untouched DEF GuestTypeOK
    <2>3. CASE pending = {}
      <3>1. /\ block' = [block EXCEPT ![g] = "log"] /\ calls' = calls \cup {g}
            /\ receivers' = Append(receivers, g)
        BY <1>8, <2>3 DEF Log
      <3>2. g \notin calls
        BY <2>1 DEF Fed, Logged
      <3>3. IsFiniteSet(calls') /\ Cardinality(calls') = Cardinality(calls) + 1
        BY <3>1, <3>2, FS_AddElement DEF Fed
      <3>4. \A k \in DOMAIN receivers : receivers[k] \in Groups \cup {"thread"}
                                        /\ receivers[k] # g
        BY <1>n, <2>1, GuestAssumption DEF Fed, Receiving
      <3>5. /\ \A k \in DOMAIN receivers' : k \in DOMAIN receivers \/ k = Len(receivers) + 1
            /\ \A k \in DOMAIN receivers : receivers'[k] = receivers[k]
            /\ receivers'[Len(receivers) + 1] = g /\ Len(receivers') = Len(receivers) + 1
        BY <1>n, <3>1
      <3>6. g # "thread" /\ block'[g] = "log" /\ \A h \in Groups \ {g} : block'[h] = block[h]
        BY <1>t, <3>1, GuestAssumption DEF GuestTypeOK
      <3>7. Receiving'
        BY <2>1, <3>4, <3>5, <3>6 DEF Fed, Receiving
      <3>8. Refused' /\ Logged' /\ Answerable'
        BY <2>1, <2>3, <3>1, <3>6 DEF Fed, Refused, Logged, Answerable
      <3>9. ReceiversFed'
        BY <1>n, <2>1, <3>3, <3>5 DEF Fed, ReceiversFed
      <3> QED BY <1>t, <3>3, <3>7, <3>8, <3>9 DEF Fed
    <2> QED BY <2>2, <2>3
  <1>9. ASSUME NEW id \in Tasks \cup Groups, NEW ok \in BOOLEAN, Answer(id, ok)
        PROVE  Fed'
    <2>1. /\ id \in calls /\ calls' = calls \ {id}
          /\ channel' = Append(channel, [id |-> id, ok |-> ok])
          /\ UNCHANGED <<pending, block, receivers, reader, got>>
      BY <1>9 DEF Answer
    <2>2. IsFiniteSet(calls') /\ Cardinality(calls') = Cardinality(calls) - 1
      BY <2>1, FS_RemoveElement DEF Fed
    <2>3. /\ \A k \in DOMAIN channel : k \in DOMAIN channel' /\ channel'[k] = channel[k]
          /\ Len(channel) + 1 \in DOMAIN channel' /\ channel'[Len(channel) + 1].id = id
          /\ Len(channel') = Len(channel) + 1
      BY <1>n, <2>1
    <2>4. Answerable'
      BY <2>1, <2>3 DEF Fed, Answerable, Due
    <2>5. Receiving' /\ Refused' /\ Logged'
      BY <2>1 DEF Fed, Receiving, Refused, Logged
    <2>6. ReceiversFed'
      BY <1>n, <2>1, <2>2, <2>3 DEF Fed, ReceiversFed
    <2> QED BY <1>t, <2>2, <2>4, <2>5, <2>6 DEF Fed
  <1>10. CASE Deliver
    <2> DEFINE who == Head(receivers)
    <2>1. /\ channel # << >> /\ receivers # << >> /\ channel' = Tail(channel)
          /\ receivers' = Tail(receivers) /\ UNCHANGED <<pending, calls>>
      BY <1>10 DEF Deliver
    <2>2. /\ 1 \in DOMAIN receivers /\ who = receivers[1] /\ Len(receivers') = Len(receivers) - 1
          /\ \A k \in DOMAIN receivers' : k + 1 \in DOMAIN receivers /\ k + 1 # 1
                                           /\ receivers'[k] = receivers[k + 1]
      BY <1>n, <2>1
    <2>3. /\ Len(channel') = Len(channel) - 1
          /\ \A k \in DOMAIN channel : k # 1 => k - 1 \in DOMAIN channel' /\ channel'[k - 1] = channel[k]
          /\ Head(channel) = channel[1]
      BY <1>n, <2>1
    <2>4. \A k \in DOMAIN receivers' : receivers'[k] # who /\ receivers'[k] \in Groups \cup {"thread"}
      <3>1. \A k \in DOMAIN receivers : receivers[k] \in Groups \cup {"thread"}
        BY <1>n
      <3> QED BY <2>2, <3>1 DEF Fed, Receiving
    <2>5. \A j, k \in DOMAIN receivers' : receivers'[j] = receivers'[k] => j = k
      <3>1. \A j, k \in DOMAIN receivers' : receivers'[j] = receivers'[k] => j + 1 = k + 1
        BY <2>2 DEF Fed, Receiving
      <3>2. DOMAIN receivers' \subseteq Nat
        BY <1>n, <2>1
      <3> QED BY <3>1, <3>2
    <2>6. CASE who = "thread"
      <3>1. reader' = "got" /\ got' = Head(channel) /\ block' = block /\ reader = "recv"
        BY <1>10, <2>2, <2>6 DEF Deliver, Fed, Receiving
      <3>2. Receiving'
        BY <2>2, <2>4, <2>5, <2>6, <3>1 DEF Fed, Receiving
      <3>3. Answerable'
        <4>1. ASSUME NEW t \in pending, NEW k \in DOMAIN channel, channel[k].id = t
              PROVE  got'.id = t \/ \E j \in DOMAIN channel' : channel'[j].id = t
          <5>1. CASE k = 1
            BY <2>3, <3>1, <4>1, <5>1
          <5>2. CASE k # 1
            BY <2>3, <4>1, <5>2
          <5> QED BY <5>1, <5>2
        <4>2. \A t \in pending : t \in calls \/ \E k \in DOMAIN channel : channel[k].id = t
          BY <3>1 DEF Fed, Answerable, Due
        <4> QED BY <2>1, <3>1, <4>1, <4>2 DEF Answerable, Due
      <3>4. ReceiversFed'
        BY <1>n, <2>1, <2>2, <2>3, <3>1 DEF Fed, ReceiversFed
      <3> QED BY <1>t, <2>1, <3>1, <3>2, <3>3, <3>4 DEF Fed, Refused, Logged
    <2>7. CASE who # "thread"
      <3>1. who \in Groups
        BY <1>n, <2>2, <2>7
      <3>2. /\ UNCHANGED <<reader, got>> /\ block[who] = "log"
            /\ \E b \in {"done", "desync"} : block' = [block EXCEPT ![who] = b]
        BY <1>10, <2>2, <2>7 DEF Deliver, Fed, Receiving
      <3>3. pending' = {}
        BY <2>1, <3>1, <3>2 DEF Fed, Refused
      <3>4. /\ block'[who] \in {"done", "desync"}
            /\ \A h \in Groups \ {who} : block'[h] = block[h]
        BY <1>t, <3>1, <3>2 DEF GuestTypeOK
      <3>5. Receiving'
        BY <2>2, <2>4, <2>5, <3>2, <3>4 DEF Fed, Receiving
      <3>6. Refused' /\ Answerable' /\ Logged'
        BY <2>1, <3>3, <3>4 DEF Fed, Refused, Answerable, Logged
      <3>7. ReceiversFed'
        BY <1>n, <2>1, <2>2, <2>3, <3>2 DEF Fed, ReceiversFed
      <3> QED BY <1>t, <2>1, <3>5, <3>6, <3>7 DEF Fed
    <2> QED BY <2>6, <2>7
  <1>11. CASE Finish
    BY <1>t, <1>11, Untouched DEF Finish, wire
  <1>12. CASE UNCHANGED guestVars
    BY <1>t, <1>12, Untouched DEF guestVars
  <1> QED
    BY <1>1, <1>2, <1>3, <1>4, <1>5, <1>6, <1>7, <1>8, <1>9, <1>10, <1>11, <1>12
       DEF GuestNext, TaskStep, BlockStep, ReaderStep

LEMMA FedInit ==
  ASSUME GuestInit
  PROVE  Fed
  <1>1. GuestTypeOK
    <2>1. /\ group \in [Tasks -> Groups] /\ finished = FALSE /\ reader = "none"
          /\ task = [t \in Tasks |-> "todo"] /\ fut = [t \in Tasks |-> "none"]
          /\ cancelling = {} /\ pending = {} /\ calls = {} /\ got = NoFrame
          /\ running = [g \in Groups |-> {}] /\ block = [g \in Groups |-> "wait"]
          /\ channel = << >> /\ receivers = << >>
      BY DEF GuestInit
    <2>2. << >> \in Seq(Frame) /\ << >> \in Seq(Groups \cup {"thread"})
      OBVIOUS
    <2> QED BY <2>1, <2>2 DEF GuestTypeOK
  <1>2. calls = {} /\ IsFiniteSet({}) /\ Cardinality({}) = 0
    BY FS_EmptySet DEF GuestInit
  <1>3. ReceiversFed
    BY <1>2 DEF GuestInit, ReceiversFed
  <1>4. Receiving /\ Refused /\ Logged /\ Answerable
    BY DEF GuestInit, Receiving, Refused, Logged, Answerable
  <1> QED BY <1>1, <1>2, <1>3, <1>4 DEF Fed

\* Whatever the script's calls, blocks and failures, the guest's state is of its types.
THEOREM GuestTypeCorrect == GuestSpec => []GuestTypeOK
  <1>1. Fed => GuestTypeOK
    BY DEF Fed
  <1> QED BY <1>1, FedInit, FedStep, PTL DEF GuestSpec

\* However calls fail and get cancelled, and whoever is in recv with them, the
\* reader's thread or a log call: for each there is a frame on the way or a call
\* the parent has yet to answer, for any calls and any fan-out.
THEOREM NoReceiverStarves == GuestSpec => []ReceiversFed
  <1>1. Fed => ReceiversFed
    BY DEF Fed
  <1> QED BY FedInit, FedStep, <1>1, PTL DEF GuestSpec

-----------------------------------------------------------------------------
(* While no call is cancelled no frame is left over. *)

Calm == \A t \in Tasks : ~Cancelled(t)

\* No frame is due twice.
Once ==
  /\ \A j, k \in DOMAIN channel : channel[j].id = channel[k].id => j = k
  /\ \A k \in DOMAIN channel : channel[k].id \notin calls
  /\ reader = "got" => /\ got.id \notin calls
                       /\ \A k \in DOMAIN channel : channel[k].id # got.id

\* What is due was sent.
Sent ==
  /\ \A t \in Tasks : task[t] \in {"todo", "ready"} => fut[t] = "none" /\ ~Due(t)
  /\ \A g \in Groups : Due(g) => block[g] \in {"log", "desync", "done"}

OneLogs == \A g, h \in Groups : block[g] = "log" /\ block[h] = "log" => g = h

\* Without cancellations every frame that is due is waited for, and the thread
\* receives only for calls.
Tidy ==
  Calm => /\ \A t \in Tasks : Due(t) => t \in pending
          /\ reader \in {"submitted", "recv"} => pending # {}
          /\ \A g \in Groups : (Due(g) => block[g] = "log") /\ block[g] # "desync"

CalmInv == Fed /\ Once /\ Sent /\ OneLogs /\ Tidy

\* What is cancelled stays so.
LEMMA StaysCancelled ==
  ASSUME CalmInv, [GuestNext]_(guestVars), Calm'
  PROVE  Calm
  <1> SUFFICES ASSUME NEW t \in Tasks, Cancelled(t) PROVE Cancelled(t)'
    BY DEF Calm
  <1>t. /\ task \in [Tasks -> {"todo", "ready", "waiting", "done", "failed", "cancelled"}]
        /\ fut \in [Tasks -> {"none", "pending", "ok", "err", "cancelled"}]
        /\ cancelling \subseteq Tasks
    BY DEF CalmInv, Fed, GuestTypeOK
  <1>1. ASSUME UNCHANGED <<task, fut, cancelling>> PROVE Cancelled(t)'
    BY <1>1 DEF Cancelled
  <1>2. ASSUME NEW u \in Tasks, TaskStep(u) PROVE Cancelled(t)'
    <2>1. CASE Send(u)
      BY <1>t, <2>1 DEF Send, Cancelled, CalmInv, Sent
    <2>2. CASE CancelledEarly(u)
      BY <1>t, <2>2 DEF CancelledEarly, Cancelled
    <2>3. CASE Resume(u)
      BY <1>t, <2>3 DEF Resume, Cancelled
    <2> QED BY <1>2, <2>1, <2>2, <2>3 DEF TaskStep
  <1>3. CASE ReaderStep
    <2>1. CASE ReaderHandles
      BY <1>t, <2>1 DEF ReaderHandles, Cancelled
    <2> QED BY <1>1, <1>3, <2>1 DEF ReaderStep, ReaderStarts, ThreadReceives
  <1>4. ASSUME NEW g \in Groups, BlockStep(g) PROVE Cancelled(t)'
    <2>1. ASSUME NEW fresh \in SUBSET In(g), Advance(g, fresh)
          PROVE  Cancelled(t)'
      BY <1>t, <2>1 DEF Advance, StartReady, Cancelled
    <2>2. CASE CancelSiblings(g)
      BY <1>t, <2>2 DEF CancelSiblings, Cancelled
    <2> QED
      BY <1>1, <1>4, <2>1, <2>2 DEF BlockStep, Gathered, Log, EndBlock
  <1> QED
    BY <1>1, <1>2, <1>3, <1>4
       DEF GuestNext, Answer, Deliver, Finish, guestVars

\* Steps that neither send nor take a frame, and end no log call.
LEMMA NoFrameMoves ==
  ASSUME CalmInv, Fed', Calm' => Calm,
         UNCHANGED <<calls, channel, got>>, (reader' = "got") <=> (reader = "got"),
         \A t \in Tasks : task'[t] \in {"todo", "ready"} =>
                            task[t] \in {"todo", "ready"} /\ (fut[t] = "none" => fut'[t] = "none"),
         \A g \in Groups : block'[g] = block[g] \/ (block[g] \in {"wait", "cancel", "after"}
                                                   /\ block'[g] \notin {"log", "desync"}),
         Calm => pending' = pending,
         reader' \in {"submitted", "recv"} => reader \in {"submitted", "recv"} \/ pending # {}
  PROVE  CalmInv'
  <1>1. \A id : Due(id)' <=> Due(id)
    BY DEF Due
  <1>2. Once'
    BY DEF CalmInv, Once
  <1>3. Sent' /\ OneLogs'
    BY <1>1 DEF CalmInv, Sent, OneLogs
  <1>4. Tidy'
    BY <1>1 DEF CalmInv, Tidy, Sent
  <1> QED BY <1>2, <1>3, <1>4 DEF CalmInv

LEMMA CalmStep ==
  ASSUME CalmInv, [GuestNext]_(guestVars)
  PROVE  CalmInv'
  <1>f. Fed /\ Fed' /\ (Calm' => Calm)
    BY FedStep, StaysCancelled DEF CalmInv
  <1>t. /\ task \in [Tasks -> {"todo", "ready", "waiting", "done", "failed", "cancelled"}]
        /\ fut \in [Tasks -> {"none", "pending", "ok", "err", "cancelled"}]
        /\ block \in [Groups -> {"wait", "cancel", "after", "log", "desync", "done"}]
        /\ channel \in Seq(Frame) /\ receivers \in Seq(Groups \cup {"thread"})
    BY <1>f DEF Fed, GuestTypeOK
  <1>1. ASSUME NEW t \in Tasks, Send(t)
        PROVE  CalmInv'
    <2>1. /\ calls' = calls \cup {t} /\ pending' = pending \cup {t} /\ task[t] = "ready"
          /\ task' = [task EXCEPT ![t] = "waiting"] /\ fut' = [fut EXCEPT ![t] = "pending"]
          /\ UNCHANGED <<channel, got, block>>
          /\ reader' = reader \/ (reader = "none" /\ reader' = "new")
      BY <1>1 DEF Send
    <2>2. ~Due(t)
      BY <2>1 DEF CalmInv, Sent
    <2>3. \A id : Due(id)' => Due(id) \/ id = t
      BY <2>1 DEF Due
    <2>4. Once'
      BY <2>1, <2>2 DEF CalmInv, Once, Due
    <2>5. Sent' /\ OneLogs'
      BY <1>t, <2>1, <2>3, GuestAssumption DEF CalmInv, Sent, OneLogs
    <2>6. Tidy'
      BY <1>f, <2>1, <2>3, GuestAssumption DEF CalmInv, Tidy
    <2> QED BY <1>f, <2>4, <2>5, <2>6 DEF CalmInv
  <1>2. ASSUME NEW t \in Tasks, CancelledEarly(t) \/ Resume(t)
        PROVE  CalmInv'
    <2>1. UNCHANGED <<calls, channel, got, reader, block, fut>>
      BY <1>2 DEF CancelledEarly, Resume, wire
    <2>2. \E p \in {"cancelled", "done", "failed"} : task' = [task EXCEPT ![t] = p]
      BY <1>2 DEF CancelledEarly, Resume
    <2>3. Calm => pending' = pending
      BY <1>2 DEF CancelledEarly, Resume, Calm, Cancelled
    <2> QED BY <1>f, <1>t, <2>1, <2>2, <2>3, NoFrameMoves
  <1>3. CASE ReaderStarts \/ ThreadReceives
    BY <1>3, <1>f, NoFrameMoves
       DEF ReaderStarts, ThreadReceives, NextRead, wire
  <1>4. CASE ReaderHandles
    <2>1. /\ UNCHANGED <<calls, channel, block, task>> /\ reader = "got"
          /\ pending' = pending \ {got.id}
          /\ reader' = NextRead(pending') \/ reader' = "none"
          /\ fut' = fut \/ \E t \in pending :
                             t = got.id /\ \E f \in {"ok", "err"} : fut' = [fut EXCEPT ![t] = f]
      BY <1>4 DEF ReaderHandles, wire
    <2>2. reader' # "got" /\ (reader' \in {"submitted", "recv"} => pending' # {})
      BY <2>1 DEF NextRead
    <2>3. \A id : Due(id)' => Due(id) /\ id # got.id
      BY <2>1, <2>2 DEF Due, CalmInv, Once
    <2>4. Once'
      BY <2>1, <2>2 DEF CalmInv, Once
    <2>5. \A t \in Tasks : task[t] \in {"todo", "ready"} => t # got.id
      BY <2>1 DEF CalmInv, Sent, Due
    <2>6. Sent' /\ OneLogs'
      BY <1>t, <2>1, <2>3, <2>5 DEF CalmInv, Sent, OneLogs
    <2>7. Tidy'
      BY <1>f, <2>1, <2>2, <2>3 DEF CalmInv, Tidy
    <2> QED BY <1>f, <2>4, <2>6, <2>7 DEF CalmInv
  <1>5. ASSUME NEW g \in Groups, NEW fresh \in SUBSET In(g), Advance(g, fresh)
        PROVE  CalmInv'
    <2>1. \E b \in {"after", "wait"} : block' = [block EXCEPT ![g] = b] /\ block[g] = "wait"
      BY <1>5 DEF Advance
    <2>2. \A t \in Tasks : task'[t] = task[t] \/ task[t] = "todo"
      BY <1>5 DEF Advance, StartReady
    <2>3. UNCHANGED <<calls, channel, got, reader, fut, pending>>
      BY <1>5 DEF Advance, wire
    <2>4. \A h \in Groups : block'[h] = block[h] \/ (block[h] \in {"wait", "cancel", "after"}
                                                   /\ block'[h] \notin {"log", "desync"})
      BY <1>t, <2>1
    <2> QED BY <1>f, <2>2, <2>3, <2>4, NoFrameMoves
  <1>6. ASSUME NEW g \in Groups,
               CancelSiblings(g) \/ Gathered(g) \/ EndBlock(g)
        PROVE  CalmInv'
    <2>1. \E b \in {"cancel", "after", "done"} :
            block' = [block EXCEPT ![g] = b] /\ block[g] \in {"wait", "cancel", "after"}
      BY <1>6 DEF CancelSiblings, Gathered, EndBlock
    <2>2. UNCHANGED <<calls, channel, got, reader, pending, task>>
          /\ \A t \in Tasks : fut[t] = "none" => fut'[t] = "none"
      BY <1>6 DEF CancelSiblings, Gathered, EndBlock, wire
    <2>3. \A h \in Groups : block'[h] = block[h] \/ (block[h] \in {"wait", "cancel", "after"}
                                                   /\ block'[h] \notin {"log", "desync"})
      BY <1>t, <2>1
    <2> QED BY <1>f, <2>2, <2>3, NoFrameMoves
  <1>7. ASSUME NEW g \in Groups, Log(g)
        PROVE  CalmInv'
    <2>1. /\ LoopFree /\ block[g] = "after"
          /\ UNCHANGED <<pending, channel, reader, got, task, fut>>
      BY <1>7 DEF Log
    <2>2. CASE pending # {}
      <3>1. block' = [block EXCEPT ![g] = "done"] /\ UNCHANGED calls
        BY <1>7, <2>2 DEF Log
      <3> QED BY <1>f, <1>t, <2>1, <3>1, NoFrameMoves
    <2>3. CASE pending = {}
      <3>1. /\ calls' = calls \cup {g} /\ block'[g] = "log"
            /\ \A h \in Groups \ {g} : block'[h] = block[h] /\ block[h] # "log"
        BY <1>7, <1>t, <2>1, <2>3 DEF Log, LoopFree
      <3>2. ~Due(g)
        BY <2>1 DEF CalmInv, Sent
      <3>3. \A id : Due(id)' => Due(id) \/ id = g
        BY <2>1, <3>1 DEF Due
      <3>4. Once'
        BY <2>1, <3>1, <3>2 DEF CalmInv, Once, Due
      <3>5. Sent' /\ OneLogs'
        BY <2>1, <3>1, <3>3, GuestAssumption DEF CalmInv, Sent, OneLogs
      <3>6. Tidy'
        BY <1>f, <2>1, <3>1, <3>3, GuestAssumption DEF CalmInv, Tidy
      <3> QED BY <1>f, <3>4, <3>5, <3>6 DEF CalmInv
    <2> QED BY <2>2, <2>3
  <1>8. ASSUME NEW id \in Tasks \cup Groups, NEW ok \in BOOLEAN, Answer(id, ok)
        PROVE  CalmInv'
    <2>1. /\ id \in calls /\ calls' = calls \ {id}
          /\ channel' = Append(channel, [id |-> id, ok |-> ok])
          /\ UNCHANGED <<pending, block, reader, got, task, fut>>
      BY <1>8 DEF Answer
    <2>2. /\ \A k \in DOMAIN channel' : k \in DOMAIN channel \/ k = Len(channel) + 1
          /\ \A k \in DOMAIN channel : channel'[k] = channel[k]
          /\ channel'[Len(channel) + 1].id = id
      BY <1>t, <2>1
    <2>3. \A i : Due(i)' => Due(i)
      BY <2>1, <2>2 DEF Due
    <2>4. Once'
      BY <2>1, <2>2 DEF CalmInv, Once
    <2>5. Sent' /\ OneLogs' /\ Tidy'
      BY <1>f, <2>1, <2>3 DEF CalmInv, Sent, OneLogs, Tidy
    <2> QED BY <1>f, <2>4, <2>5 DEF CalmInv
  <1>9. CASE Deliver
    <2> DEFINE who == Head(receivers)
    <2>1. /\ channel # << >> /\ receivers # << >> /\ channel' = Tail(channel)
          /\ UNCHANGED <<pending, calls, task, fut>>
      BY <1>9 DEF Deliver
    <2>2. /\ 1 \in DOMAIN channel /\ Head(channel) = channel[1]
          /\ \A k \in DOMAIN channel' : k + 1 \in DOMAIN channel /\ k + 1 # 1
                                        /\ channel'[k] = channel[k + 1]
          /\ DOMAIN channel' \subseteq Nat
      BY <1>t, <2>1
    <2>3. 1 \in DOMAIN receivers /\ who = receivers[1] /\ who \in Groups \cup {"thread"}
      BY <1>t, <2>1
    <2>4. /\ \A j, k \in DOMAIN channel' : channel'[j].id = channel'[k].id => j = k
          /\ \A k \in DOMAIN channel' : channel'[k].id \notin calls
                                        /\ channel'[k].id # channel[1].id
      <3>1. \A j, k \in DOMAIN channel' : channel'[j].id = channel'[k].id => j + 1 = k + 1
        BY <2>2 DEF CalmInv, Once
      <3>2. \A k \in DOMAIN channel' : channel'[k].id \notin calls
                                        /\ channel'[k].id # channel[1].id
        BY <2>2 DEF CalmInv, Once
      <3> QED BY <2>2, <3>1, <3>2
    <2>5. CASE who = "thread"
      <3>1. reader' = "got" /\ got' = channel[1] /\ block' = block /\ reader = "recv"
        BY <1>9, <1>f, <2>2, <2>3, <2>5 DEF Deliver, Fed, Receiving
      <3>2. \A id : Due(id)' => Due(id)
        BY <2>1, <2>2, <3>1 DEF Due
      <3>3. Once'
        BY <2>1, <2>2, <2>4, <3>1 DEF CalmInv, Once
      <3>4. Sent' /\ OneLogs' /\ Tidy'
        BY <1>f, <2>1, <3>1, <3>2 DEF CalmInv, Sent, OneLogs, Tidy
      <3> QED BY <1>f, <3>3, <3>4 DEF CalmInv
    <2>6. CASE who # "thread"
      <3>1. who \in Groups
        BY <2>3, <2>6
      <3>2. /\ UNCHANGED <<reader, got>> /\ block[who] = "log"
            /\ block' = [block EXCEPT ![who] =
                           IF channel[1].id = who THEN "done" ELSE "desync"]
        BY <1>9, <1>f, <2>2, <2>3, <2>6 DEF Deliver, Fed, Receiving
      <3>3. \A id : Due(id)' => Due(id)
        BY <2>1, <2>2, <3>2 DEF Due
      <3>4. Due(channel[1].id) /\ channel[1].id \in Tasks \cup Groups
        <4>1. channel[1] \in Frame
          BY <1>t, <2>2
        <4> QED BY <2>2, <4>1 DEF Due, Frame
      <3>5. Once'
        BY <2>1, <2>2, <2>4, <3>2 DEF CalmInv, Once
      <3>6. Sent' /\ OneLogs'
        BY <1>t, <2>1, <3>1, <3>2, <3>3 DEF CalmInv, Sent, OneLogs
      <3>7. pending = {}
        BY <1>f, <3>1, <3>2 DEF Fed, Refused
      <3>8. ASSUME Calm PROVE channel[1].id = who
        BY <3>1, <3>2, <3>4, <3>7, <3>8 DEF CalmInv, Tidy, OneLogs
      <3>9. ASSUME Calm PROVE \A g \in Groups : g = who => ~Due(g)'
        <4>1. channel[1].id \notin calls /\ (reader = "got" => got.id # channel[1].id)
          BY <2>2 DEF CalmInv, Once
        <4> QED BY <4>1, <2>1, <2>4, <3>2, <3>8, <3>9 DEF Due
      <3>10. Tidy'
        <4> SUFFICES ASSUME Calm' PROVE Tidy'
          BY DEF Tidy
        <4>1. Calm
          BY <1>f
        <4>2. block' = [block EXCEPT ![who] = "done"]
          BY <3>2, <3>8, <4>1
        <4>3. \A t \in Tasks : Due(t)' => t \in pending'
          BY <2>1, <3>3, <4>1 DEF CalmInv, Tidy
        <4>4. reader' \in {"submitted", "recv"} => pending' # {}
          BY <2>1, <3>2, <4>1 DEF CalmInv, Tidy
        <4>5. ASSUME NEW g \in Groups
              PROVE  (Due(g)' => block'[g] = "log") /\ block'[g] # "desync"
          <5>1. (Due(g) => block[g] = "log") /\ block[g] # "desync"
            BY <4>1 DEF CalmInv, Tidy
          <5>2. Due(g)' => Due(g) /\ g # who
            BY <3>3, <3>9, <4>1
          <5> QED BY <1>t, <4>2, <5>1, <5>2
        <4> QED BY <4>3, <4>4, <4>5 DEF Tidy
      <3> QED BY <1>f, <3>5, <3>6, <3>10 DEF CalmInv
    <2> QED BY <2>5, <2>6
  <1>10. CASE Finish \/ UNCHANGED guestVars
    BY <1>10, <1>f, NoFrameMoves DEF Finish, guestVars, wire
  <1> QED
    BY <1>1, <1>2, <1>3, <1>4, <1>5, <1>6, <1>7, <1>8, <1>9, <1>10
       DEF GuestNext, TaskStep, BlockStep, ReaderStep

\* "Send one capability call and block for its structured response": while no call
\* of the script is cancelled a log() is answered by the frame of its own call,
\* although threads of the fan-out have read from the same pipe.
THEOREM CalmLogsAreAnswered == GuestSpec => []CalmLogsAnswered
  <1>1. GuestInit => CalmInv
    <2> SUFFICES ASSUME GuestInit PROVE CalmInv
      OBVIOUS
    <2>1. /\ calls = {} /\ channel = << >> /\ reader = "none" /\ fut = [t \in Tasks |-> "none"]
          /\ block = [g \in Groups |-> "wait"]
      BY DEF GuestInit
    <2>2. \A id : ~Due(id)
      BY <2>1 DEF Due
    <2>3. Once /\ Sent /\ OneLogs /\ Tidy
      BY <2>1, <2>2 DEF Once, Sent, OneLogs, Tidy
    <2> QED BY <2>3, FedInit DEF CalmInv
  <1>2. CalmInv => CalmLogsAnswered
    BY DEF CalmInv, Tidy, Calm, CalmLogsAnswered
  <1> QED BY <1>1, CalmStep, <1>2, PTL DEF GuestSpec
===============================================================================
