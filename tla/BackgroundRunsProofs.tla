------------------------- MODULE BackgroundRunsProofs -------------------------
(***************************************************************************)
(* When every caller uses one BackgroundRunStore object, a terminal         *)
(* snapshot and the journal that tells it are final until a write raises,   *)
(* and a reported stop is final, for any number of runs, operators and      *)
(* crashes.                                                                 *)
(***************************************************************************)
EXTENDS BackgroundRuns, TLAPS

OneStore == \A a, b \in Actors : Instance[a] = Instance[b]

Live == {"queued", "running"}
Open == {"none", "queued", "running", "stopped"}

\* A thread between taking the store's lock and letting it go holds it.
Locked ==
  \A a \in Actors :
    pc[a] \in {"writing", "journalling", "write", "append"}
      => lock[Instance[a]] = a

\* A run whose worker may still transition it is not terminal but by a stop.
WorkerOpen ==
  \A r \in Runs :
    /\ pc[r] \in {"absent", "writing"} => record[r] = NoRecord
    /\ pc[r] \in {"journalling", "start", "get", "mark", "run", "finish"}
         => record[r].status \in Open
    /\ pc[r] \in InCall \cup {"finish"}
         => call[r].run = r /\ call[r].status # "stopped"
    /\ pc[r] \in InCall \cup {"finish"}
         => (call[r].event = "running" <=> call[r].status = "running")

\* What an actor inside _transition knows of the run it is about to replace.
CallSound ==
  \A a \in Actors :
    /\ pc[a] = "load"
         => call[a].status = "stopped" \/ record[call[a].run].status \in Open
    /\ pc[a] = "write"
         => /\ record[call[a].run].status \in Live
            /\ draft[a].status = call[a].status
    /\ pc[a] = "append"
         => /\ record[call[a].run] = draft[a]
            /\ draft[a].status = call[a].status

StoppersStop ==
  \A s \in Stoppers :
    pc[s] \in InCall \cup {"requested"} => call[s].status = "stopped"

\* The runs that recovery still has to fail have no worker, and are live or
\* were stopped meanwhile.
RecoveryAlone ==
  /\ \A r \in todo : pc[r] = "done" /\ record[r].status \in Open
  /\ pc[Recoverer] \in InCall
       => /\ pc[call[Recoverer].run] = "done"
          /\ call[Recoverer].run \notin todo
          /\ call[Recoverer].event # "running"
          /\ call[Recoverer].status = "failed"

ActorPlaces ==
  /\ \A s \in Stoppers : pc[s] \in InCall \cup {"idle", "requested"}
  /\ pc[Recoverer] \in InCall \cup {"idle"}

Parts ==
  /\ Locked /\ WorkerOpen /\ CallSound /\ StoppersStop /\ RecoveryAlone
  /\ ActorPlaces

Inv == TypeOK /\ ioLeft <= IoFailures /\ (ioLeft = IoFailures => Parts)

-----------------------------------------------------------------------------

LEMMA TypeInit == Init => TypeOK
  <1> SUFFICES ASSUME Init PROVE TypeOK
    OBVIOUS
  <1>1. AnyRun \in Runs
    BY BackgroundAssumption DEF AnyRun
  <1> QED
    BY <1>1, BackgroundAssumption
    DEF Init, TypeOK, Actors, Transition, Call, Events, Record, NoRecord,
        Statuses, Terminal, Places, Launching, Working, InCall, Outcomes

LEMMA Kinds ==
  /\ Runs \subseteq Actors /\ Stoppers \subseteq Actors /\ Recoverer \in Actors
  /\ {"absent", "done", "idle", "requested", "writing", "journalling", "start",
      "get", "mark", "run", "finish", "load", "write", "append"} = Places
  /\ \A r \in Runs, event \in Events, status \in Statuses, result \in BOOLEAN :
       Transition(r, event, status, result) \in Call
  /\ \A r \in Runs, how \in Outcomes : Finish(r, how) \in Call
  /\ \A a \in Actors : \A status : After(a, status) \in Places
  BY BackgroundAssumption
  DEF Actors, Places, Launching, Working, InCall, Transition, Call, Finish,
      Events, Statuses, Terminal, Outcomes, After

LEMMA TypeStep == TypeOK /\ [Next]_vars => TypeOK'
  <1> SUFFICES ASSUME TypeOK, [Next]_vars PROVE TypeOK'
    OBVIOUS
  <1> USE Kinds DEF TypeOK, Goto, Take, Release, files, rest
  <1>1. ASSUME NEW r \in Runs, BeginStep(r) PROVE TypeOK'
    <2>1. CASE MakeDir(r) BY <2>1 DEF MakeDir
    <2>2. CASE WriteQueued(r)
      BY <2>2 DEF WriteQueued, Record, Statuses
    <2>3. CASE JournalQueued(r)
      <3>1. journal' \in [Runs -> Seq(Statuses)]
        BY <2>3 DEF JournalQueued, Statuses
      <3> QED BY <2>3, <3>1 DEF JournalQueued
    <2>4. CASE BeginFails(r)
      <3>1. journal' \in [Runs -> Seq(Statuses)] BY <2>4 DEF BeginFails
      <3>2. record' \in [Runs -> Record \cup {NoRecord}] BY <2>4 DEF BeginFails
      <3>3. ioLeft' \in Nat BY <2>4 DEF BeginFails
      <3> QED BY <2>4, <3>1, <3>2, <3>3 DEF BeginFails
    <2> QED BY <1>1, <2>1, <2>2, <2>3, <2>4 DEF BeginStep
  <1>2. ASSUME NEW r \in Runs, ThreadStep(r) PROVE TypeOK'
    <2> DEFINE fail == Transition(r, "failed", "failed", FALSE)
               run == Transition(r, "running", "running", FALSE)
    <2>0. fail \in Call /\ run \in Call
      BY DEF Events, Statuses, Terminal
    <2> HIDE DEF fail, run
    <2>1. CASE StartThread(r)
      <3>1. call' = call \/ call' = [call EXCEPT ![r] = fail]
        BY <2>1 DEF StartThread, fail
      <3>2. call' \in [Actors -> Call] BY <2>0, <3>1
      <3> QED BY <2>1, <3>2 DEF StartThread
    <2>2. CASE WorkerGet(r) BY <2>2 DEF WorkerGet
    <2>3. CASE MarkRunning(r)
      <3>1. call' = call \/ call' = [call EXCEPT ![r] = run]
        BY <2>3 DEF MarkRunning, run
      <3>2. call' \in [Actors -> Call] BY <2>0, <3>1
      <3> QED BY <2>3, <3>2 DEF MarkRunning
    <2>4. ASSUME NEW how \in Outcomes, RunScript(r, how) PROVE TypeOK'
      BY <2>4 DEF RunScript
    <2>5. CASE RunScriptRaises(r) BY <2>0, <2>5 DEF RunScriptRaises, fail
    <2>6. CASE FinishGet(r) BY <2>6 DEF FinishGet
    <2> QED BY <1>2, <2>1, <2>2, <2>3, <2>4, <2>5, <2>6 DEF ThreadStep
  <1>3. ASSUME NEW a \in Actors, TransitionStep(a) PROVE TypeOK'
    <2>0. /\ call[a].run \in Runs /\ call[a].status \in Statuses
          /\ call[a].result \in BOOLEAN /\ draft[a] \in Record
          /\ draft[a].status \in Statuses
      BY DEF Call, Record
    <2>2. CASE Load(a)
      <3> DEFINE new == [status |-> call[a].status,
                         result |-> IF call[a].result
                                       \/ call[a].status \in Terminal
                                    THEN call[a].result
                                    ELSE record[call[a].run].result]
      <3>1. record[call[a].run].result \in BOOLEAN
        <4> DEFINE old == record[call[a].run]
        <4>1. old \in Record \/ old = NoRecord BY <2>0
        <4>2. ASSUME old \in Record PROVE old.result \in BOOLEAN
          BY <4>2 DEF Record
        <4>3. ASSUME old = NoRecord PROVE old.result \in BOOLEAN
          <5>1. NoRecord.result = FALSE BY DEF NoRecord
          <5> QED BY <4>3, <5>1
        <4> HIDE DEF old
        <4>4. old.result \in BOOLEAN BY <4>1, <4>2, <4>3
        <4> QED BY <4>4 DEF old
      <3>2. new \in Record BY <2>0, <3>1 DEF Record
      <3>3. draft' = draft \/ draft' = [draft EXCEPT ![a] = new]
        BY <2>2 DEF Load
      <3>4. draft' \in [Actors -> Record] BY <3>2, <3>3
      <3>5. told' \subseteq Runs BY <2>0, <2>2 DEF Load
      <3>6. lock' \in [Instances -> Actors \cup {Nobody}] BY <2>2 DEF Load
      <3>7. pc' \in [Actors -> Places] BY <2>2 DEF Load
      <3> QED BY <2>2, <3>4, <3>5, <3>6, <3>7 DEF Load
    <2>3. CASE WriteRecord(a) BY <2>0, <2>3 DEF WriteRecord
    <2>4. CASE AppendEvent(a)
      <3>1. journal' \in [Runs -> Seq(Statuses)] BY <2>0, <2>4 DEF AppendEvent
      <3> QED BY <2>0, <2>4, <3>1 DEF AppendEvent
    <2>5. CASE TransitionRaises(a)
      <3> DEFINE fail == Transition(a, "failed", "failed", FALSE)
      <3>1. a \in Runs => fail \in Call BY DEF Events, Statuses, Terminal
      <3>2. call' = call \/ (a \in Runs /\ call' = [call EXCEPT ![a] = fail])
        BY <2>5 DEF TransitionRaises
      <3> HIDE DEF fail
      <3>3. call' \in [Actors -> Call] BY <3>1, <3>2
      <3>4. pc' \in [Actors -> Places] BY <2>5 DEF TransitionRaises
      <3>5. lock' \in [Instances -> Actors \cup {Nobody}]
        BY <2>5 DEF TransitionRaises
      <3>6. ioLeft' \in Nat /\ todo' \subseteq Runs BY <2>5 DEF TransitionRaises
      <3> QED BY <2>5, <3>3, <3>4, <3>5, <3>6 DEF TransitionRaises
    <2> QED BY <1>3, <2>2, <2>3, <2>4, <2>5 DEF TransitionStep
  <1>4. ASSUME NEW s \in Stoppers, StopBackground(s) PROVE TypeOK'
    BY <1>4 DEF StopBackground
  <1>5. ASSUME NEW s \in Stoppers, NEW r \in Runs,
               ControlStop(s, r) \/ ManagerStop(s, r)
        PROVE TypeOK'
    <2>1. Stop(r) \in Call BY DEF Stop, Events, Statuses, Terminal
    <2>2. call' = [call EXCEPT ![s] = Stop(r)]
      BY <1>5 DEF ControlStop, ManagerStop
    <2>3. call' \in [Actors -> Call] BY <2>1, <2>2
    <2>4. pc' \in [Actors -> Places] BY <1>5 DEF ControlStop, ManagerStop
    <2> QED BY <1>5, <2>3, <2>4 DEF ControlStop, ManagerStop
  <1>6. CASE RecoverList BY <1>6 DEF RecoverList
  <1>7. ASSUME NEW r \in Runs, RecoverNext(r) PROVE TypeOK'
    BY <1>7 DEF RecoverNext, Events, Statuses, Terminal
  <1>8. CASE Crash BY <1>8 DEF Crash
  <1>9. CASE UNCHANGED vars BY <1>9 DEF vars
  <1> QED
    BY <1>1, <1>2, <1>3, <1>4, <1>5, <1>6, <1>7, <1>8, <1>9 DEF Next

\* Type correctness, for any sets of runs, operators and store objects.
THEOREM TypeCorrect == Spec => []TypeOK
  BY TypeInit, TypeStep, PTL DEF Spec
-----------------------------------------------------------------------------
(* The inductive invariant. *)

\* What the steps below use of the type invariant.
LEMMA Shape ==
  ASSUME TypeOK
  PROVE  /\ pc \in [Actors -> Places] /\ DOMAIN pc = Actors
         /\ DOMAIN call = Actors /\ DOMAIN record = Runs
         /\ DOMAIN draft = Actors /\ DOMAIN lock = Instances
         /\ \A a \in Actors : call[a].run \in Runs /\ Instance[a] \in Instances
         /\ todo \subseteq Runs
  BY BackgroundAssumption DEF TypeOK, Call

LEMMA InvStep ==
  ASSUME OneStore, TypeOK, Parts, [Next]_vars, ioLeft' = ioLeft
  PROVE  Parts'
  <1> USE Kinds, Shape, BackgroundAssumption
      DEF Parts, Goto, Take, Release, Free, files, rest, InCall, Open, Live
  <1> DEFINE InStore(x) ==
        pc[x] \in {"writing", "journalling", "write", "append"}
  <1>0. \A x, y \in Actors : InStore(x) /\ InStore(y) => x = y
    BY DEF OneStore, Locked
  <1>1. ASSUME NEW r \in Runs, MakeDir(r) PROVE Parts'
    BY <1>1
    DEF MakeDir, Locked, WorkerOpen, CallSound, StoppersStop, RecoveryAlone,
        ActorPlaces
  <1>2. ASSUME NEW r \in Runs, WriteQueued(r) PROVE Parts'
    BY <1>0, <1>2
    DEF WriteQueued, Locked, WorkerOpen, CallSound, StoppersStop,
        RecoveryAlone, ActorPlaces
  <1>3. ASSUME NEW r \in Runs, JournalQueued(r) PROVE Parts'
    BY <1>3
    DEF JournalQueued, Locked, WorkerOpen, CallSound, StoppersStop,
        RecoveryAlone, ActorPlaces
  <1>4. ASSUME NEW r \in Runs, StartThread(r) PROVE Parts'
    <2>1. Locked' /\ StoppersStop' /\ ActorPlaces'
      BY <1>4
      DEF StartThread, Locked, StoppersStop, ActorPlaces
    <2>2. WorkerOpen'
      BY <1>4 DEF StartThread, Transition, WorkerOpen
    <2>3. CallSound'
      BY <1>4 DEF StartThread, Transition, WorkerOpen, CallSound
    <2>4. RecoveryAlone'
      BY <1>4 DEF StartThread, Transition, RecoveryAlone
    <2> QED BY <2>1, <2>2, <2>3, <2>4
  <1>5. ASSUME NEW r \in Runs, WorkerGet(r) PROVE Parts'
    BY <1>5
    DEF WorkerGet, Locked, WorkerOpen, CallSound, StoppersStop, RecoveryAlone,
        ActorPlaces
  <1>6. ASSUME NEW r \in Runs, MarkRunning(r) PROVE Parts'
    <2>1. ActorPlaces'
      BY <1>6
      DEF MarkRunning, ActorPlaces
    <2>2. Locked'
      BY <1>6 DEF MarkRunning, Transition, Locked
    <2>3. WorkerOpen'
      BY <1>6 DEF MarkRunning, Transition, WorkerOpen
    <2>4. CallSound'
      BY <1>6 DEF MarkRunning, Transition, WorkerOpen, CallSound
    <2>5. StoppersStop'
      BY <1>6 DEF MarkRunning, Transition, StoppersStop
    <2>6. RecoveryAlone'
      BY <1>6 DEF MarkRunning, Transition, RecoveryAlone
    <2> QED BY <2>1, <2>2, <2>3, <2>4, <2>5, <2>6
  <1>7. ASSUME NEW r \in Runs, NEW how \in Outcomes, RunScript(r, how)
        PROVE  Parts'
    <2>1. Locked' /\ CallSound' /\ StoppersStop' /\ RecoveryAlone' /\ ActorPlaces'
      BY <1>7
      DEF RunScript, Locked, CallSound, StoppersStop, RecoveryAlone, ActorPlaces
    <2>2. WorkerOpen'
      BY <1>7 DEF RunScript, Finish, Transition, WorkerOpen
    <2> QED BY <2>1, <2>2
  <1>8. ASSUME NEW r \in Runs, RunScriptRaises(r) PROVE Parts'
    <2>1. Locked' /\ StoppersStop' /\ RecoveryAlone' /\ ActorPlaces'
      BY <1>8
      DEF RunScriptRaises, Locked, StoppersStop, RecoveryAlone, ActorPlaces
    <2>2. WorkerOpen'
      BY <1>8 DEF RunScriptRaises, Transition, WorkerOpen
    <2>3. CallSound'
      BY <1>8 DEF RunScriptRaises, Transition, WorkerOpen, CallSound
    <2> QED BY <2>1, <2>2, <2>3
  <1>9. ASSUME NEW r \in Runs, FinishGet(r) PROVE Parts'
    <2>1. Locked' /\ WorkerOpen' /\ StoppersStop' /\ RecoveryAlone' /\ ActorPlaces'
      BY <1>9
      DEF FinishGet, Locked, WorkerOpen, StoppersStop, RecoveryAlone,
          ActorPlaces
    <2>2. CallSound'
      BY <1>9 DEF FinishGet, WorkerOpen, CallSound
    <2> QED BY <2>1, <2>2
  <1>10. ASSUME NEW r \in Runs, RecoverNext(r) PROVE Parts'
    <2>1. Locked' /\ WorkerOpen' /\ StoppersStop' /\ ActorPlaces'
      BY <1>10
      DEF RecoverNext, Transition, Locked, WorkerOpen, StoppersStop, ActorPlaces
    <2>2. CallSound'
      BY <1>10 DEF RecoverNext, Transition, RecoveryAlone, CallSound
    <2>3. RecoveryAlone'
      BY <1>10 DEF RecoverNext, Transition, RecoveryAlone
    <2> QED BY <2>1, <2>2, <2>3
  <1>11. ASSUME NEW a \in Actors, Load(a) PROVE Parts'
    <2> DEFINE c == call[a]
    <2>1. CASE record[c.run] = NoRecord \/ Refused(c)
      <3>1. /\ record' = record /\ call' = call /\ draft' = draft
            /\ lock' = lock /\ todo' = todo
        BY <1>11, <2>1 DEF Load
      <3>2. pc' = [pc EXCEPT ![a] = IF a \in Runs THEN "done" ELSE "idle"]
        <4>1. record[c.run].status # "running"
          BY <2>1, <1>11 DEF Load, Refused, NoRecord, Terminal, CallSound,
              WorkerOpen
        <4> QED BY <1>11, <2>1, <4>1 DEF Load, After
      <3> QED BY <3>1, <3>2
          DEF Locked, WorkerOpen, CallSound, StoppersStop, RecoveryAlone,
              ActorPlaces
    <2>2. CASE ~(record[c.run] = NoRecord \/ Refused(c))
      <3>1. /\ record' = record /\ call' = call /\ todo' = todo
            /\ lock' = [lock EXCEPT ![Instance[a]] = a]
            /\ pc' = [pc EXCEPT ![a] = "write"]
            /\ pc[a] = "load" /\ lock[Instance[a]] = Nobody
            /\ draft'[a].status = c.status
            /\ \A b \in Actors : b # a => draft'[b] = draft[b]
        BY <1>11, <2>2 DEF Load
      <3>2. record[c.run].status \in Live
        <4>1. record[c.run] \in Record BY <2>2 DEF TypeOK
        <4>2. record[c.run].status \in Statuses BY <4>1 DEF Record
        <4>3. c.status = "stopped" \/ record[c.run].status \in Open
          BY <3>1 DEF CallSound
        <4> QED BY <2>2, <4>2, <4>3 DEF Refused, Statuses, Terminal
      <3>3. Locked' BY <3>1 DEF Locked
      <3>4. WorkerOpen' BY <3>1 DEF WorkerOpen
      <3>5. CallSound' BY <3>1, <3>2 DEF CallSound
      <3>6. StoppersStop' BY <3>1 DEF StoppersStop
      <3>7. RecoveryAlone' BY <3>1 DEF RecoveryAlone
      <3>8. ActorPlaces' BY <3>1 DEF ActorPlaces
      <3> QED BY <3>3, <3>4, <3>5, <3>6, <3>7, <3>8
    <2> QED BY <2>1, <2>2
  <1>12. ASSUME NEW a \in Actors, WriteRecord(a) PROVE Parts'
    <2> DEFINE x == call[a].run
    <2>1. /\ pc[a] = "write" /\ pc' = [pc EXCEPT ![a] = "append"]
          /\ record' = [record EXCEPT ![x] = draft[a]]
          /\ call' = call /\ draft' = draft /\ lock' = lock /\ todo' = todo
      BY <1>12 DEF WriteRecord
    <2>2. record[x].status \in Live /\ draft[a].status = call[a].status
      BY <2>1 DEF CallSound
    \* Nobody else may still make a transition of x that is not a stop, unless
    \* this write is a stop.
    <2>3. \/ draft[a].status \in Open
          \/ /\ pc[x] \in {"done", "write"}
             /\ \A b \in Actors : b # a /\ pc[b] = "load" /\ call[b].run = x
                                   => call[b].status = "stopped"
             /\ x \notin todo
      <3>1. CASE a \in Stoppers BY <3>1, <2>1, <2>2 DEF StoppersStop
      <3>2. CASE a \in Runs
        BY <3>2, <2>1 DEF WorkerOpen, RecoveryAlone, StoppersStop, Actors
      <3>3. CASE a = Recoverer
        BY <3>3, <2>1 DEF WorkerOpen, RecoveryAlone, StoppersStop, Actors
      <3> QED BY <3>1, <3>2, <3>3 DEF Actors
    <2>4. Locked' BY <2>1 DEF Locked
    <2>5. WorkerOpen'
      <3>1. pc[x] \notin {"absent", "writing"}
        BY <2>2 DEF WorkerOpen, NoRecord
      <3> QED BY <2>1, <2>3, <3>1 DEF WorkerOpen
    <2>6. CallSound' BY <1>0, <2>1, <2>2, <2>3 DEF CallSound
    <2>7. StoppersStop' BY <2>1 DEF StoppersStop
    <2>8. RecoveryAlone' BY <2>1, <2>3 DEF RecoveryAlone
    <2>9. ActorPlaces' BY <2>1 DEF ActorPlaces
    <2> QED BY <2>4, <2>5, <2>6, <2>7, <2>8, <2>9
  <1>13. ASSUME NEW a \in Actors, AppendEvent(a) PROVE Parts'
    <2>1. /\ pc[a] = "append"
          /\ record' = record /\ call' = call /\ draft' = draft /\ todo' = todo
          /\ lock' = [lock EXCEPT ![Instance[a]] = Nobody]
          /\ pc' = [pc EXCEPT ![a] = After(a, draft[a].status)]
      BY <1>13 DEF AppendEvent
    <2>2. /\ record[call[a].run] = draft[a]
          /\ draft[a].status = call[a].status
      BY <2>1 DEF CallSound
    <2>3. \/ a \in Runs /\ pc' = [pc EXCEPT ![a] = "done"]
          \/ /\ a \in Runs /\ pc' = [pc EXCEPT ![a] = "run"]
             /\ record[a].status = "running"
          \/ a \notin Runs /\ pc' = [pc EXCEPT ![a] = "idle"]
      BY <2>1, <2>2 DEF After, WorkerOpen
    <2>4. Locked' BY <1>0, <2>1, <2>3 DEF Locked, OneStore
    <2>5. WorkerOpen' BY <2>1, <2>3 DEF WorkerOpen
    <2>6. CallSound' BY <2>1, <2>3 DEF CallSound
    <2>7. StoppersStop' BY <2>1, <2>3 DEF StoppersStop
    <2>8. RecoveryAlone' BY <2>1, <2>3 DEF RecoveryAlone
    <2>9. ActorPlaces' BY <2>1, <2>3 DEF ActorPlaces
    <2> QED BY <2>4, <2>5, <2>6, <2>7, <2>8, <2>9
  <1>14. ASSUME NEW s \in Stoppers, StopBackground(s) PROVE Parts'
    <2>1. Locked' /\ WorkerOpen' /\ StoppersStop' /\ RecoveryAlone' /\ ActorPlaces'
      BY <1>14
      DEF StopBackground, Locked, WorkerOpen, StoppersStop, RecoveryAlone,
          ActorPlaces
    <2>2. CallSound'
      BY <1>14 DEF StopBackground, StoppersStop, CallSound
    <2> QED BY <2>1, <2>2
  <1>15. ASSUME NEW s \in Stoppers, NEW r \in Runs, ControlStop(s,
      r) PROVE Parts'
    <2>1. Locked' /\ WorkerOpen' /\ CallSound' /\ RecoveryAlone' /\ ActorPlaces'
      BY <1>15
      DEF ControlStop, Locked, WorkerOpen, CallSound, RecoveryAlone, ActorPlaces
    <2>2. StoppersStop'
      BY <1>15 DEF ControlStop, Stop, Transition, StoppersStop
    <2> QED BY <2>1, <2>2
  <1>16. ASSUME NEW s \in Stoppers, NEW r \in Runs, ManagerStop(s,
      r) PROVE Parts'
    <2>1. Locked' /\ WorkerOpen' /\ RecoveryAlone' /\ ActorPlaces'
      BY <1>16
      DEF ManagerStop, Locked, WorkerOpen, RecoveryAlone, ActorPlaces
    <2>2. CallSound'
      BY <1>16 DEF ManagerStop, Stop, Transition, CallSound
    <2>3. StoppersStop'
      BY <1>16 DEF ManagerStop, Stop, Transition, StoppersStop
    <2> QED BY <2>1, <2>2, <2>3
  <1>17. CASE RecoverList
    <2>1. Locked' /\ WorkerOpen' /\ CallSound' /\ StoppersStop' /\ ActorPlaces'
      BY <1>17
      DEF RecoverList, Locked, WorkerOpen, CallSound, StoppersStop, ActorPlaces
    <2>2. RecoveryAlone'
      BY <1>17 DEF RecoverList, WorkerOpen, ActorPlaces, NoRecord, RecoveryAlone
    <2> QED BY <2>1, <2>2
  <1>18. CASE Crash
    BY <1>18
    DEF Crash, Locked, WorkerOpen, CallSound, StoppersStop, RecoveryAlone,
        ActorPlaces
  <1>19. CASE UNCHANGED vars
    BY <1>19
    DEF vars, Locked, WorkerOpen, CallSound, StoppersStop, RecoveryAlone,
        ActorPlaces
  <1>20. ASSUME NEW r \in Runs, BeginFails(r) PROVE FALSE
    BY <1>20 DEF BeginFails, TypeOK
  <1>21. ASSUME NEW a \in Actors, TransitionRaises(a) PROVE FALSE
    BY <1>21 DEF TransitionRaises, TypeOK
  <1> HIDE DEF Parts
  <1> QED
    BY <1>1, <1>2, <1>3, <1>4, <1>5, <1>6, <1>7, <1>8, <1>9, <1>10, <1>11,
        <1>12, <1>13, <1>14, <1>15, <1>16, <1>17, <1>18, <1>19, <1>20, <1>21
    DEF Next, BeginStep, ThreadStep, TransitionStep

LEMMA InvInit == Init => Inv
  <1>1. Init => TypeOK BY TypeInit
  <1>2. Init => Parts
    BY Kinds, BackgroundAssumption
    DEF Init, Parts, Locked, WorkerOpen, CallSound, StoppersStop, RecoveryAlone,
        ActorPlaces, InCall
  <1> QED BY <1>1, <1>2, BackgroundAssumption DEF Inv, Init

\* No step ever adds to the writes that may still fail.
LEMMA IoStep == ASSUME TypeOK, [Next]_vars PROVE ioLeft' <= ioLeft
  <1>1. ioLeft \in Nat BY DEF TypeOK
  <1>2. ASSUME NEW r \in Runs, BeginStep(r)
        PROVE  ioLeft' = ioLeft \/ ioLeft' = ioLeft - 1
    BY <1>2 DEF BeginStep, MakeDir, WriteQueued, JournalQueued, BeginFails, rest
  <1>3. ASSUME NEW r \in Runs, ThreadStep(r) PROVE ioLeft' = ioLeft
    BY <1>3 DEF ThreadStep, StartThread, WorkerGet, MarkRunning, RunScript,
                RunScriptRaises, FinishGet, rest
  <1>4. ASSUME NEW a \in Actors, TransitionStep(a)
        PROVE  ioLeft' = ioLeft \/ ioLeft' = ioLeft - 1
    BY <1>4 DEF TransitionStep, Load, WriteRecord, AppendEvent,
                TransitionRaises, rest
  <1>5. ASSUME NEW s \in Stoppers, NEW r \in Runs,
               StopBackground(s) \/ ControlStop(s, r) \/ ManagerStop(s, r)
        PROVE  ioLeft' = ioLeft
    BY <1>5 DEF StopBackground, ControlStop, ManagerStop, rest
  <1>6. ASSUME NEW r \in Runs, RecoverList \/ RecoverNext(r) \/ Crash
        PROVE  ioLeft' = ioLeft
    BY <1>6 DEF RecoverList, RecoverNext, Crash
  <1>7. ioLeft' = ioLeft \/ ioLeft' = ioLeft - 1
    BY <1>2, <1>3, <1>4, <1>5, <1>6, BackgroundAssumption DEF Next, vars
  <1> QED BY <1>1, <1>7

\* While no write has raised, none raises in the next step either.
LEMMA Calm ==
  ASSUME Inv, [Next]_vars, ioLeft' = IoFailures
  PROVE  ioLeft = IoFailures /\ Parts
  BY IoStep, BackgroundAssumption DEF Inv, TypeOK

LEMMA Invariance ==
  ASSUME OneStore
  PROVE  Spec => []Inv
  <1>1. Init => Inv BY InvInit
  <1>2. ASSUME Inv, [Next]_vars PROVE Inv'
    <2>1. TypeOK' BY <1>2, TypeStep DEF Inv
    <2>2. ioLeft' <= ioLeft BY <1>2, IoStep DEF Inv
    <2>3. ioLeft' <= IoFailures
      BY <1>2, <2>1, <2>2, BackgroundAssumption DEF Inv, TypeOK
    <2>4. ioLeft' = IoFailures => Parts' BY <1>2, InvStep, Calm DEF Inv
    <2> QED BY <2>1, <2>3, <2>4 DEF Inv
  <1> QED BY <1>1, <1>2, PTL DEF Spec

\* A step of the invariant's states leaves a terminal snapshot alone.
LEMMA FinalStep ==
  ASSUME TypeOK, Parts, [Next]_vars, ioLeft' = ioLeft,
         NEW r \in Runs, record[r].status \in Terminal
  PROVE  record'[r] = record[r]
  <1> USE Kinds, Shape DEF Parts
  <1>1. ASSUME NEW a \in Runs, WriteQueued(a) PROVE record'[r] = record[r]
    <2>1. record[a] = NoRecord BY <1>1 DEF WriteQueued, WorkerOpen
    <2>2. a # r BY <2>1 DEF NoRecord, Terminal
    <2> QED BY <1>1, <2>2 DEF WriteQueued
  <1>2. ASSUME NEW a \in Actors, WriteRecord(a) PROVE record'[r] = record[r]
    <2>1. call[a].run # r
      BY <1>2 DEF WriteRecord, CallSound, Live, Terminal
    <2> QED BY <1>2, <2>1 DEF WriteRecord
  <1>3. ASSUME NEW a \in Runs, BeginFails(a) PROVE FALSE
    BY <1>3 DEF BeginFails, TypeOK
  <1>4. CASE record' = record BY <1>4
  <1> QED
    BY <1>1, <1>2, <1>3, <1>4
    DEF Next, BeginStep, ThreadStep, TransitionStep, MakeDir, JournalQueued,
        StartThread, WorkerGet, MarkRunning, RunScript, RunScriptRaises,
        FinishGet, Load, AppendEvent, TransitionRaises, StopBackground,
        ControlStop, ManagerStop, RecoverList, RecoverNext, Crash, files, vars

\* With one store object, and until a write raises, no step of a worker, an
\* operator, a recovery or a restart replaces a terminal snapshot.
THEOREM TerminalSnapshotsFinal ==
  ASSUME OneStore
  PROVE  Spec => TerminalIsFinal
  <1>1. ASSUME Inv, [Next]_vars
        PROVE  [ioLeft' = IoFailures =>
                  \A r \in Runs :
                    record[r].status \in Terminal => record'[r] = record[r]]_vars
    BY <1>1, FinalStep, Calm DEF Inv
  <1>2. Spec => []Inv BY Invariance
  <1> QED BY <1>1, <1>2, PTL DEF Spec, TerminalIsFinal

-----------------------------------------------------------------------------
(* Stops and the journal, whatever writes raise and however often the host    *)
(* dies.                                                                     *)

\* What _transition and begin know under the lock, and no write or crash undoes.
Guarded ==
  \A a \in Actors :
    /\ pc[a] = "write"
         => /\ record[call[a].run] # NoRecord /\ ~Refused(call[a])
            /\ draft[a].status = call[a].status
    /\ pc[a] = "append"
         => /\ record[call[a].run] = draft[a]
            /\ draft[a].status = call[a].status
    /\ call[a].event = "stopped" => call[a].status = "stopped"

\* A run being launched has no snapshot yet, or the one that begin wrote.
Launched ==
  \A r \in Runs :
    /\ pc[r] \in {"absent", "writing"} => record[r] = NoRecord
    /\ pc[r] = "journalling" => record[r].status = "queued"

Standing == Locked /\ Guarded /\ Launched /\ StopWins

LEMMA StandingStep ==
  ASSUME OneStore, TypeOK, Standing, [Next]_vars
  PROVE  Standing'
  <1> USE Kinds, Shape, BackgroundAssumption
      DEF Standing, Goto, Take, Release, Free, files, rest, InCall
  <1> DEFINE InStore(x) ==
        pc[x] \in {"writing", "journalling", "write", "append"}
  <1>0. \A x, y \in Actors : InStore(x) /\ InStore(y) => x = y
    BY DEF OneStore, Locked
  <1>1. ASSUME NEW r \in Runs, MakeDir(r) PROVE Standing'
    BY <1>1 DEF MakeDir, Locked, Guarded, Launched, StopWins, Refused
  <1>2. ASSUME NEW r \in Runs, WriteQueued(r) PROVE Standing'
    <2>1. /\ pc[r] = "writing" /\ pc' = [pc EXCEPT ![r] = "journalling"]
          /\ record' = [record EXCEPT ![r] = [status |-> "queued", result |-> FALSE]]
          /\ record[r] = NoRecord
          /\ UNCHANGED <<lock, call, draft, told>>
      BY <1>2 DEF WriteQueued, Launched
    <2>2. r \notin told
      BY <2>1 DEF StopWins, NoRecord
    <2>3. Locked' /\ Launched' /\ StopWins'
      BY <2>1, <2>2 DEF Locked, Launched, StopWins
    <2>4. \A a \in Actors : pc[a] \notin {"write", "append"}
      BY <1>0, <2>1
    <2>5. Guarded'
      BY <2>1, <2>4 DEF Guarded
    <2> QED BY <2>3, <2>5
  <1>3. ASSUME NEW r \in Runs, JournalQueued(r) PROVE Standing'
    BY <1>3 DEF JournalQueued, Locked, Guarded, Launched, StopWins, Refused
  <1>4. ASSUME NEW r \in Runs, BeginFails(r) PROVE Standing'
    <2>1. /\ pc[r] \in {"writing", "journalling"} /\ pc' = [pc EXCEPT ![r] = "absent"]
          /\ record' = [record EXCEPT ![r] = NoRecord]
          /\ lock' = [lock EXCEPT ![Instance[r]] = Nobody]
          /\ UNCHANGED <<call, draft, told>>
      BY <1>4 DEF BeginFails
    <2>2. r \notin told
      BY <2>1 DEF StopWins, Launched, NoRecord
    <2>3. \A a \in Actors : a # r => ~InStore(a)
      BY <1>0, <2>1
    <2>4. Locked' /\ Launched' /\ StopWins' /\ Guarded'
      BY <2>1, <2>2, <2>3 DEF Locked, Launched, StopWins, Guarded
    <2> QED BY <2>4
  <1>5. ASSUME NEW r \in Runs, ThreadStep(r) PROVE Standing'
    <2> DEFINE Calls(c) == /\ c = call[r] \/ c.event # "stopped"
                           /\ call' = [call EXCEPT ![r] = c]
    <2>1. /\ pc[r] \in {"start", "get", "mark", "run", "finish"}
          /\ \E place \in {"start", "get", "mark", "run", "finish", "load", "done"} :
               pc' = [pc EXCEPT ![r] = place]
          /\ \E c : Calls(c)
          /\ UNCHANGED <<record, lock, draft, told>>
      <3>1. call' = call => Calls(call[r])
        BY DEF TypeOK
      <3>2. ASSUME NEW how \in Outcomes, RunScript(r, how)
            PROVE  /\ pc[r] = "run" /\ pc' = [pc EXCEPT ![r] = "finish"]
                   /\ \E c : Calls(c)
                   /\ UNCHANGED <<record, lock, draft, told>>
        <4>1. Calls(Finish(r, how))
          BY <3>2 DEF RunScript, Finish, Transition
        <4> HIDE DEF Calls
        <4> QED BY <3>2, <4>1 DEF RunScript
      <3>3. CASE RunScriptRaises(r) \/ StartThread(r) \/ MarkRunning(r)
        <4>1. \/ call' = call
              \/ Calls(Transition(r, "failed", "failed", FALSE))
              \/ Calls(Transition(r, "running", "running", FALSE))
          BY <3>3 DEF RunScriptRaises, StartThread, MarkRunning, Transition
        <4> HIDE DEF Calls
        <4> QED BY <3>1, <3>3, <4>1 DEF RunScriptRaises, StartThread, MarkRunning
      <3>4. CASE WorkerGet(r) \/ FinishGet(r)
        <4> HIDE DEF Calls
        <4> QED BY <3>1, <3>4 DEF WorkerGet, FinishGet
      <3> QED BY <1>5, <3>2, <3>3, <3>4 DEF ThreadStep
    <2>3. /\ \A a \in Actors : a # r => call'[a] = call[a] /\ pc'[a] = pc[a]
          /\ pc'[r] \in {"start", "get", "mark", "run", "finish", "load", "done"}
          /\ call'[r] = call[r] \/ call'[r].event # "stopped"
      BY <2>1
    <2>4. Locked' /\ Launched' /\ StopWins'
      BY <2>1, <2>3 DEF Locked, Launched, StopWins
    <2>5. Guarded'
      BY <2>1, <2>3 DEF Guarded, Refused
    <2> QED BY <2>4, <2>5
  <1>6. ASSUME NEW a \in Actors, Load(a) PROVE Standing'
    <2> DEFINE c == call[a]
    <2>0. pc[a] = "load" /\ UNCHANGED <<record, call>>
      BY <1>6 DEF Load
    <2>1. CASE record[c.run] = NoRecord \/ Refused(c)
      <3>1. /\ draft' = draft /\ lock' = lock
            /\ \E place \in {"run", "done", "idle"} : pc' = [pc EXCEPT ![a] = place]
            /\ \A r \in told' : r \in told \/ record[r].status = "stopped"
        BY <1>6, <2>1 DEF Load, After
      <3> QED BY <2>0, <3>1 DEF Locked, Guarded, Launched, StopWins, Refused
    <2>2. CASE ~(record[c.run] = NoRecord \/ Refused(c))
      <3>1. /\ told' = told
            /\ lock' = [lock EXCEPT ![Instance[a]] = a]
            /\ pc' = [pc EXCEPT ![a] = "write"]
            /\ lock[Instance[a]] = Nobody
            /\ draft'[a].status = c.status
            /\ \A b \in Actors : b # a => draft'[b] = draft[b]
        BY <1>6, <2>2 DEF Load, TypeOK
      <3>2. \A b \in Actors : b # a => ~InStore(b)
        BY <3>1 DEF Locked, OneStore
      <3>3. Locked' /\ Launched' /\ StopWins'
        BY <2>0, <3>1, <3>2 DEF Locked, Launched, StopWins
      <3>4. Guarded'
        BY <2>0, <2>2, <3>1, <3>2 DEF Guarded, Refused
      <3> QED BY <3>3, <3>4
    <2> QED BY <2>1, <2>2
  <1>7. ASSUME NEW a \in Actors, WriteRecord(a) PROVE Standing'
    <2> DEFINE x == call[a].run
    <2>1. /\ pc[a] = "write" /\ pc' = [pc EXCEPT ![a] = "append"]
          /\ record' = [record EXCEPT ![x] = draft[a]]
          /\ UNCHANGED <<lock, call, draft, told>>
          /\ record[x] # NoRecord /\ ~Refused(call[a])
          /\ draft[a].status = call[a].status
      BY <1>7 DEF WriteRecord, Guarded
    <2>2. x \notin told
      BY <2>1 DEF StopWins, Refused, Terminal
    <2>3. \A b \in Actors : b # a => ~InStore(b)
      BY <1>0, <2>1
    <2>4. Locked' /\ StopWins' /\ Guarded'
      BY <2>1, <2>2, <2>3 DEF Locked, StopWins, Guarded
    <2>5. pc[x] \notin {"absent", "writing", "journalling"}
      BY <2>1, <2>3 DEF Launched
    <2>6. Launched'
      BY <2>1, <2>5 DEF Launched
    <2> QED BY <2>4, <2>6
  <1>8. ASSUME NEW a \in Actors, AppendEvent(a) PROVE Standing'
    <2>1. /\ pc[a] = "append"
          /\ \E place \in {"run", "done", "idle"} : pc' = [pc EXCEPT ![a] = place]
          /\ lock' = [lock EXCEPT ![Instance[a]] = Nobody]
          /\ UNCHANGED <<record, call, draft>>
          /\ told' = IF call[a].event = "stopped" THEN told \cup {call[a].run} ELSE told
      BY <1>8 DEF AppendEvent, After
    <2>2. StopWins'
      BY <2>1 DEF StopWins, Guarded
    <2>3. \A b \in Actors : b # a => ~InStore(b)
      BY <1>0, <2>1
    <2> QED BY <2>1, <2>2, <2>3 DEF Locked, Guarded, Launched, Refused
  <1>9. ASSUME NEW a \in Actors, TransitionRaises(a) PROVE Standing'
    <2> DEFINE fail == Transition(a, "failed", "failed", FALSE)
    <2>1. /\ pc[a] \in {"write", "append"}
          /\ \E place \in {"load", "done", "idle"} : pc' = [pc EXCEPT ![a] = place]
          /\ lock' = [lock EXCEPT ![Instance[a]] = Nobody]
          /\ call' = call \/ call' = [call EXCEPT ![a] = fail]
          /\ UNCHANGED <<record, draft, told>>
      BY <1>9 DEF TransitionRaises
    <2>2. fail.event # "stopped"
      BY DEF Transition
    <2>3. \A b \in Actors : b # a => ~InStore(b)
      BY <1>0, <2>1
    <2> HIDE DEF fail
    <2> QED BY <2>1, <2>2, <2>3 DEF Locked, Guarded, Launched, StopWins
  <1>10. ASSUME NEW s \in Stoppers \cup {Recoverer}, NEW r \in Runs,
                \/ StopBackground(s) \/ ControlStop(s, r) \/ ManagerStop(s, r)
                \/ s = Recoverer /\ RecoverNext(r)
         PROVE  Standing'
    <2> DEFINE fail == Transition(r, "recovered_failed", "failed", FALSE)
    <2>1. /\ pc[s] \in {"idle", "requested"}
          /\ \E place \in {"load", "idle", "requested"} : pc' = [pc EXCEPT ![s] = place]
          /\ call' = call \/ call' = [call EXCEPT ![s] = Stop(r)]
                \/ call' = [call EXCEPT ![s] = fail]
          /\ UNCHANGED <<record, draft, told, lock>>
      BY <1>10 DEF StopBackground, ControlStop, ManagerStop, RecoverNext
    <2>2. s \in Actors /\ s \notin Runs
      BY DEF Actors
    <2>3. Stop(r).status = "stopped" /\ fail.event # "stopped"
      BY DEF Stop, Transition
    <2> HIDE DEF fail
    <2> QED BY <2>1, <2>2, <2>3 DEF Locked, Guarded, Launched, StopWins, Refused
  <1>11. CASE RecoverList
    BY <1>11 DEF RecoverList, Locked, Guarded, Launched, StopWins, Refused
  <1>12. CASE Crash
    BY <1>12 DEF Crash, Locked, Guarded, Launched, StopWins
  <1>13. CASE UNCHANGED vars
    BY <1>13 DEF vars, Locked, Guarded, Launched, StopWins, Refused
  <1> HIDE DEF Standing
  <1>14. ASSUME NEW r \in Runs, BeginStep(r) PROVE Standing'
    BY <1>1, <1>2, <1>3, <1>4, <1>14 DEF BeginStep
  <1>15. ASSUME NEW a \in Actors, TransitionStep(a) PROVE Standing'
    BY <1>6, <1>7, <1>8, <1>9, <1>15 DEF TransitionStep
  <1>16. ASSUME NEW s \in Stoppers, StopBackground(s) PROVE Standing'
    BY <1>10, <1>16
  <1> QED
    BY <1>5, <1>10, <1>11, <1>12, <1>13, <1>14, <1>15, <1>16 DEF Next

LEMMA StandingAlways ==
  ASSUME OneStore
  PROVE  Spec => [](TypeOK /\ Standing)
  <1>1. ASSUME Init PROVE TypeOK /\ Standing
    <2>1. /\ \A a \in Actors : pc[a] \in {"absent", "idle"}
          /\ \A r \in Runs : record[r] = NoRecord
          /\ told = {}
          /\ \A a \in Actors : call[a] = Transition(AnyRun, "failed", "failed", FALSE)
      BY <1>1, Kinds DEF Init
    <2>2. \A a \in Actors : call[a].event # "stopped"
      BY <2>1 DEF Transition
    <2>3. Standing
      BY <2>1, <2>2, Kinds DEF Standing, Locked, Guarded, Launched, StopWins
    <2> QED BY <1>1, <2>3, TypeInit
  <1>2. ASSUME TypeOK /\ Standing, [Next]_vars PROVE (TypeOK /\ Standing)'
    BY <1>2, TypeStep, StandingStep
  <1> QED BY <1>1, <1>2, PTL DEF Spec

\* With one store object a stop that was reported is never overwritten, whatever
\* the worker, the recovery and other operators do, writes that raise and
\* processes that die included.
THEOREM StopsAreKept ==
  ASSUME OneStore
  PROVE  Spec => []StopWins
  <1>1. TypeOK /\ Standing => StopWins BY DEF Standing
  <1> QED BY <1>1, StandingAlways, PTL

-----------------------------------------------------------------------------
(* The journal. *)

\* The run's snapshot is being replaced, or its last journal line tells of it.
Told(r) ==
  \/ pc[r] \in {"writing", "journalling"}
  \/ \E a \in Actors : pc[a] \in {"write", "append"} /\ call[a].run = r
  \/ record[r] = NoRecord
  \/ journal[r] # << >> /\ journal[r][Len(journal[r])] = record[r].status

LEMMA AppendedLast ==
  ASSUME NEW S, NEW q \in Seq(S), NEW x \in S
  PROVE  Append(q, x) # << >> /\ Append(q, x)[Len(Append(q, x))] = x
  OBVIOUS

LEMMA JournalStep ==
  ASSUME OneStore, TypeOK, Standing, [Next]_vars, ioLeft' = ioLeft,
         crashesLeft' = crashesLeft, NEW r \in Runs, Told(r)
  PROVE  Told(r)'
  <1> USE Kinds, Shape, BackgroundAssumption DEF Goto, Take, Release, files, rest
  <1> DEFINE InStore(x) ==
        pc[x] \in {"writing", "journalling", "write", "append"}
  <1>0. \A x, y \in Actors : InStore(x) /\ InStore(y) => x = y
    BY DEF OneStore, Locked, Standing
  <1>1. ASSUME NEW s \in Runs, MakeDir(s) \/ WriteQueued(s) PROVE Told(r)'
    <2>1. CASE s = r
      BY <1>1, <2>1 DEF MakeDir, WriteQueued, Told
    <2>2. CASE s # r
      <3>1. /\ record'[r] = record[r] /\ journal' = journal /\ call' = call
            /\ \A a \in Actors : a # s => pc'[a] = pc[a]
            /\ pc[s] \notin {"write", "append"}
        BY <1>1, <2>2 DEF MakeDir, WriteQueued
      <3> QED BY <2>2, <3>1 DEF Told
    <2> QED BY <2>1, <2>2
  <1>2. ASSUME NEW s \in Runs, JournalQueued(s) PROVE Told(r)'
    <2>1. /\ pc[s] = "journalling" /\ record' = record /\ call' = call
          /\ journal' = [journal EXCEPT ![s] = Append(@, "queued")]
          /\ \A a \in Actors : a # s => pc'[a] = pc[a]
      BY <1>2 DEF JournalQueued
    <2>2. CASE s = r
      <3>1. record[r].status = "queued"
        BY <2>1, <2>2 DEF Standing, Launched
      <3>2. journal'[r] = Append(journal[r], "queued")
        BY <2>1, <2>2 DEF TypeOK
      <3>3. journal[r] \in Seq(Statuses) /\ "queued" \in Statuses
        BY DEF TypeOK, Statuses
      <3> QED BY <2>1, <3>1, <3>2, <3>3, AppendedLast DEF Told
    <2>3. CASE s # r
      BY <1>0, <2>1, <2>3 DEF Told, TypeOK
    <2> QED BY <2>2, <2>3
  <1>3. ASSUME NEW s \in Runs, ThreadStep(s) PROVE Told(r)'
    <2>1. /\ UNCHANGED <<record, journal>>
          /\ pc[s] \in {"start", "get", "mark", "run", "finish"}
          /\ \A a \in Actors : a # s => pc'[a] = pc[a] /\ call'[a] = call[a]
      BY <1>3 DEF ThreadStep, StartThread, WorkerGet, MarkRunning, RunScript,
         RunScriptRaises, FinishGet, TypeOK
    <2> QED BY <2>1 DEF Told
  <1>4. ASSUME NEW a \in Actors, Load(a) PROVE Told(r)'
    <2>1. /\ UNCHANGED <<record, journal, call>> /\ pc[a] = "load"
          /\ \A b \in Actors : b # a => pc'[b] = pc[b]
      BY <1>4 DEF Load
    <2> QED BY <2>1 DEF Told
  <1>5. ASSUME NEW a \in Actors, WriteRecord(a) PROVE Told(r)'
    <2>1. /\ pc[a] = "write" /\ pc'[a] = "append" /\ UNCHANGED <<journal, call>>
          /\ record' = [record EXCEPT ![call[a].run] = draft[a]]
          /\ \A b \in Actors : b # a => pc'[b] = pc[b]
      BY <1>5 DEF WriteRecord
    <2>2. CASE call[a].run = r
      BY <2>1, <2>2 DEF Told
    <2>3. CASE call[a].run # r
      BY <2>1, <2>3 DEF Told
    <2> QED BY <2>2, <2>3
  <1>6. ASSUME NEW a \in Actors, AppendEvent(a) PROVE Told(r)'
    <2>1. /\ pc[a] = "append" /\ UNCHANGED <<record, call>>
          /\ journal' = [journal EXCEPT ![call[a].run] = Append(@, draft[a].status)]
          /\ \A b \in Actors : b # a => pc'[b] = pc[b]
      BY <1>6 DEF AppendEvent
    <2>2. CASE call[a].run = r
      <3>1. record[r] = draft[a]
        BY <2>1, <2>2 DEF Standing, Guarded
      <3>2. journal'[r] = Append(journal[r], draft[a].status)
        BY <2>1, <2>2 DEF TypeOK
      <3>3. journal[r] \in Seq(Statuses) /\ draft[a].status \in Statuses
        BY DEF TypeOK, Record
      <3> QED BY <2>1, <3>1, <3>2, <3>3, AppendedLast DEF Told
    <2>3. CASE call[a].run # r
      BY <1>0, <2>1, <2>3 DEF Told, TypeOK
    <2> QED BY <2>2, <2>3
  <1>7. ASSUME NEW s \in Stoppers \cup {Recoverer}, NEW q \in Runs,
                \/ StopBackground(s) \/ ControlStop(s, q) \/ ManagerStop(s, q)
                \/ s = Recoverer /\ RecoverNext(q)
        PROVE  Told(r)'
    <2>1. /\ pc[s] \in {"idle", "requested"} /\ s \in Actors /\ s \notin Runs
          /\ UNCHANGED <<record, journal>>
          /\ \A b \in Actors : b # s => pc'[b] = pc[b] /\ call'[b] = call[b]
      BY <1>7 DEF StopBackground, ControlStop, ManagerStop, RecoverNext, Actors, TypeOK
    <2> QED BY <2>1 DEF Told
  <1>8. CASE RecoverList \/ UNCHANGED vars
    BY <1>8 DEF RecoverList, vars, Told
  <1>9. ASSUME NEW s \in Runs, BeginFails(s) PROVE FALSE
    BY <1>9 DEF BeginFails, TypeOK
  <1>10. ASSUME NEW a \in Actors, TransitionRaises(a) PROVE FALSE
    BY <1>10 DEF TransitionRaises, TypeOK
  <1>11. ~Crash
    BY DEF Crash, TypeOK
  <1>12. ASSUME NEW s \in Stoppers, StopBackground(s) PROVE Told(r)'
    BY <1>7, <1>12
  <1> HIDE DEF Told
  <1> QED
    BY <1>1, <1>2, <1>3, <1>4, <1>5, <1>6, <1>7, <1>8, <1>9, <1>10, <1>11, <1>12
    DEF Next, BeginStep, TransitionStep

\* No step adds to the crashes that may still come.
LEMMA CrashStep == ASSUME TypeOK, [Next]_vars PROVE crashesLeft' <= crashesLeft
  <1>1. crashesLeft \in Nat BY DEF TypeOK
  <1>2. ASSUME NEW r \in Runs, BeginStep(r) \/ ThreadStep(r) \/ RecoverNext(r)
        PROVE  crashesLeft' = crashesLeft
    BY <1>2 DEF BeginStep, MakeDir, WriteQueued, JournalQueued, BeginFails, rest,
       ThreadStep, StartThread, WorkerGet, MarkRunning, RunScript,
       RunScriptRaises, FinishGet, RecoverNext
  <1>3. ASSUME NEW a \in Actors, TransitionStep(a) PROVE crashesLeft' = crashesLeft
    BY <1>3 DEF TransitionStep, Load, WriteRecord, AppendEvent, TransitionRaises, rest
  <1>4. ASSUME NEW s \in Stoppers, NEW r \in Runs,
               StopBackground(s) \/ ControlStop(s, r) \/ ManagerStop(s, r)
        PROVE  crashesLeft' = crashesLeft
    BY <1>4 DEF StopBackground, ControlStop, ManagerStop, rest
  <1>5. crashesLeft' = crashesLeft \/ crashesLeft' = crashesLeft - 1
    BY <1>2, <1>3, <1>4, BackgroundAssumption DEF Next, RecoverList, Crash, rest, vars
  <1> QED BY <1>1, <1>5

\* With one store object, and until a write raises or the process dies, the last
\* line of a run's journal tells its snapshot's status between two critical
\* sections: record and journal are written under one lock.
THEOREM JournalTellsSnapshot ==
  ASSUME OneStore
  PROVE  Spec => []JournalTells
  <1> DEFINE Bounded == ioLeft <= IoFailures /\ crashesLeft <= MaxCrashes
             JInv == TypeOK /\ Standing /\ Bounded
                       /\ (Undisturbed => \A r \in Runs : Told(r))
  <1>1. Init => Bounded /\ (Undisturbed => \A r \in Runs : Told(r))
    BY BackgroundAssumption DEF Init, Told
  <1>2. ASSUME JInv, TypeOK', Standing', [Next]_vars PROVE JInv'
    <2>1. ioLeft' <= ioLeft /\ crashesLeft' <= crashesLeft
      BY <1>2, IoStep, CrashStep
    <2>2. /\ ioLeft \in Nat /\ crashesLeft \in Nat
          /\ ioLeft' \in Nat /\ crashesLeft' \in Nat
      BY <1>2 DEF TypeOK
    <2>3. Bounded'
      BY <1>2, <2>1, <2>2, BackgroundAssumption
    <2>4. Undisturbed' => Undisturbed /\ ioLeft' = ioLeft /\ crashesLeft' = crashesLeft
      BY <1>2, <2>1, <2>2, BackgroundAssumption DEF Undisturbed
    <2>5. Undisturbed' => \A r \in Runs : Told(r)'
      BY <1>2, <2>4, JournalStep
    <2> QED BY <1>2, <2>3, <2>5
  <1>3. JInv => JournalTells
    BY DEF JournalTells, Told
  <1> HIDE DEF Bounded
  <1> QED BY <1>1, <1>2, <1>3, StandingAlways, PTL DEF Spec
=============================================================================
