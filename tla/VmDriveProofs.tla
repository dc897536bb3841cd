----------------------------- MODULE VmDriveProofs -----------------------------
(***************************************************************************)
(* What WorkflowVM._drive leaves behind, for any calls, threads and guests;  *)
(* and what its brokered call may rely on of the controls that operators     *)
(* record for it (ControlPlane), for any operators, verbs, generations and   *)
(* writes cut short.                                                         *)
(***************************************************************************)
EXTENDS VmDrive, ControlPlane, FiniteSetTheorems, WellFoundedInduction, TLAPS

Early == {"boot", "loop", "read", "drain"}
Late  == {"close", "decide", "returned"}

\* A call is in the executor's queue once, and in state "queued" while there.
Queued ==
  /\ \A i \in 1..Len(queue) : call[queue[i]] = "queued"
  /\ \A i, j \in 1..Len(queue) : queue[i] = queue[j] => i = j

\* A call is on the pipe once, and has not been read.
Piped ==
  /\ \A i \in 1..Len(pipe) : pipe[i] \in Calls => call[pipe[i]] = "none"
  /\ \A i, j \in 1..Len(pipe) :
       pipe[i] \in Calls /\ pipe[i] = pipe[j] => i = j

\* The driver knows of every call at work: it waits for it, or has given up on
\* it and will say so.
Known ==
  /\ driver \in Early => \A c \in Calls : call[c] \in Active => c \in pending
  /\ driver \in Late => /\ queue = << >>
                        /\ \A c \in Calls : call[c] \in Active => c \in still
  /\ result # "none" => driver = "returned"
  /\ result \notin {"none", "running", "internal"} => still = {}

Inv == TypeOK /\ Queued /\ Piped /\ Known

-----------------------------------------------------------------------------

LEMMA TypeInit == Init => TypeOK
  <1> SUFFICES ASSUME Init PROVE TypeOK
    OBVIOUS
  <1>1. /\ pipe \in Seq(Frames) /\ queue \in Seq(Calls)
        /\ call \in [Calls -> Active \cup {"none", "over", "cancelled"}]
        /\ comes \in [Calls -> KindsOfCall \cup {"stop", "pause"}]
        /\ noting \in [Calls -> SUBSET Flags]
    BY DEF Init, KindsOfCall
  <1> QED
    BY <1>1 DEF Init, TypeOK, Results, Notes

LEMMA TypeStep == TypeOK /\ [Next]_vars => TypeOK'
  <1> SUFFICES ASSUME TypeOK, [Next]_vars PROVE TypeOK'
    OBVIOUS
  <1> USE DriveAssumption DEF DriveAssumption, TypeOK, Frames, Active, workers,
                              outcome
  <1>1. ASSUME NEW c \in Calls, GuestCalls(c) PROVE TypeOK'
    BY <1>1 DEF GuestCalls
  <1>2. ASSUME NEW how \in {"ok", "error"}, GuestFinishes(how) PROVE TypeOK'
    BY <1>2 DEF GuestFinishes
  <1>3. ASSUME NEW tail \in {<< >>, <<"bad">>}, GuestCrashes(tail) PROVE TypeOK'
    <2> USE <1>3 DEF GuestCrashes
    <2>1. tail \in Seq(Frames)
      <3>1. CASE tail = << >>
        BY <3>1
      <3>2. CASE tail = <<"bad">>
        BY <3>2
      <3> QED
        BY <3>1, <3>2
    <2>2. pipe \o tail \in Seq(Frames)
      BY <2>1
    <2> QED
      BY <2>2
  <1>4. ASSUME NEW state \in {"run", "paused", "stopped"}, Operator(state) PROVE TypeOK'
    BY <1>4 DEF Operator
  <1>5. ASSUME NEW kind \in KindsOfCall \cup {"stop", "pause"}, StartWorker(kind) PROVE TypeOK'
    BY <1>5 DEF StartWorker, Verdicts, KindsOfCall
  <1>6. ASSUME NEW c \in Calls, Handled(c) PROVE TypeOK'
    BY <1>6 DEF Handled, Flags
  <1>21. ASSUME NEW c \in Calls, HandleRaises(c) PROVE TypeOK'
    BY <1>21 DEF HandleRaises, Flags
  <1>22. ASSUME BootRaises \/ StartRaises PROVE TypeOK'
    <2>1. CASE BootRaises
      BY <2>1 DEF BootRaises, Unwinds
    <2>2. CASE StartRaises
      <3> USE <2>2 DEF StartRaises, Unwinds
      <3>1. call' \in [Calls -> Active \cup {"none", "over", "cancelled"}]
        OBVIOUS
      <3>2. pipe' \in Seq(Frames)
        OBVIOUS
      <3> QED
        BY <3>1, <3>2
    <2> QED
      BY <1>22, <2>1, <2>2
  <1>23. ASSUME ReadRaises PROVE TypeOK'
    BY <1>23 DEF ReadRaises, Unwinds
  <1>7. ASSUME NEW c \in Calls, Reply(c) PROVE TypeOK'
    <2> USE <1>7 DEF Reply
    <2>1. call' \in [Calls -> Active \cup {"none", "over", "cancelled"}]
      OBVIOUS
    <2>2. broken' \subseteq Calls /\ unsent' \subseteq Calls
      OBVIOUS
    <2>3. noted' = noted \/ Note({"protocol"})
      OBVIOUS
    <2>5. noted' \subseteq Notes
      <3>1. noted \subseteq Notes /\ "protocol" \in Notes
        BY DEF Notes
      <3> QED
        BY <2>3, <3>1 DEF Note
    <2>4. UNCHANGED <<driver, guest, pipe, queue, pending, comes, noting, flags, done,
                      still, result, unwound, late, timer, desired, left>>
      OBVIOUS
    <2> QED
      BY <2>1, <2>2, <2>4, <2>5
  <1>8. ASSUME NEW c \in Calls, Observe(c) PROVE TypeOK'
    <2> USE <1>8 DEF Observe
    <2>1. call' \in [Calls -> Active \cup {"none", "over", "cancelled"}]
      OBVIOUS
    <2>2. noting' \in [Calls -> SUBSET Flags]
      OBVIOUS
    <2>3. guest' \in {"up", "down"}
      OBVIOUS
    <2> QED
      BY <2>1, <2>2, <2>3
  <1>9. ASSUME NEW c \in Calls, NEW flag \in Flags, PassOn(c, flag) PROVE TypeOK'
    BY <1>9 DEF PassOn, Note, Flags, Notes, Before
  <1>10. ASSUME Boot PROVE TypeOK'
    BY <1>10 DEF Boot, Note, Notes
  <1>11. ASSUME Loop PROVE TypeOK'
    BY <1>11 DEF Loop, Note, Collect, Notes
  <1>12. ASSUME ReadCall PROVE TypeOK'
    BY <1>12 DEF ReadCall
  <1>13. ASSUME ReadDone PROVE TypeOK'
    BY <1>13 DEF ReadDone
  <1>14. ASSUME ReadEnds PROVE TypeOK'
    <2> USE <1>14 DEF ReadEnds
    <2>1. pipe # << >> => Tail(pipe) \in Seq(Frames)
      BY pipe \in Seq(Frames)
    <2>2. pipe' = pipe \/ (pipe # << >> /\ pipe' = Tail(pipe))
      OBVIOUS
    <2>3. noted' \subseteq Notes
      BY DEF Note, Notes
    <2> QED
      BY <2>1, <2>2, <2>3
  <1>15. ASSUME Drain PROVE TypeOK'
    <2> USE <1>15 DEF Drain
    <2>1. call' \in [Calls -> Active \cup {"none", "over", "cancelled"}]
      OBVIOUS
    <2>2. noted' \subseteq Notes
      BY DEF Collect, Note, Notes
    <2>3. /\ pending' \subseteq Calls /\ broken' \subseteq Calls
          /\ still' \subseteq Calls /\ queue' \in Seq(Calls)
      BY DEF Collect
    <2> QED
      BY <2>1, <2>2, <2>3
  <1>16. ASSUME Close PROVE TypeOK'
    BY <1>16 DEF Close
  <1>17. ASSUME Decide PROVE TypeOK'
    BY <1>17 DEF Decide, Result, Results
  <1>18. ASSUME TimePasses PROVE TypeOK'
    BY <1>18 DEF TimePasses
  <1>19. ASSUME TimerFires PROVE TypeOK'
    BY <1>19 DEF TimerFires
  <1>20. CASE UNCHANGED vars
    BY <1>20 DEF vars
  <1> QED
    BY <1>1, <1>2, <1>3, <1>4, <1>5, <1>6, <1>7, <1>8, <1>9, <1>10, <1>11, <1>12, <1>13, <1>14, <1>15, <1>16, <1>17, <1>18, <1>19, <1>20, <1>21,
       <1>22, <1>23
       DEF Next, Guest, Start, Proceed, Driver

\* Type correctness: for any number of calls and threads, every behaviour of the
\* driver, its workers and the guest keeps to the declared states.
THEOREM TypeCorrect == Spec => []TypeOK
  BY TypeInit, TypeStep, PTL DEF Spec

-----------------------------------------------------------------------------

LEMMA InvInit == Init => Inv
  <1> SUFFICES ASSUME Init PROVE Inv
    OBVIOUS
  <1>1. Queued /\ Piped
    BY DEF Init, Queued, Piped
  <1>2. Known
    BY DEF Init, Known, Active, Early, Late
  <1> QED
    BY <1>1, <1>2, TypeInit DEF Inv

\* Calls enter the pipe when they are new, and the queue when they are read.
LEMMA PipedStep == Inv /\ [Next]_vars => Piped'
  <1> SUFFICES ASSUME Inv, [Next]_vars PROVE Piped'
    OBVIOUS
  <1> USE DEF Inv, Piped
  <1>0. pipe \in Seq(Frames) /\ call \in [Calls -> Active \cup {"none", "over", "cancelled"}]
    BY DEF TypeOK
  <1>1. ASSUME NEW c \in Calls, GuestCalls(c) PROVE Piped'
    <2>1. /\ pipe' = Append(pipe, c) /\ call' = call /\ call[c] = "none"
          /\ \A i \in 1..Len(pipe) : pipe[i] # c
      BY <1>1 DEF GuestCalls, workers
    <2>2. /\ Len(pipe') = Len(pipe) + 1 /\ Len(pipe) \in Nat
          /\ \A i \in 1..Len(pipe') : pipe'[i] = IF i <= Len(pipe) THEN pipe[i] ELSE c
      BY <1>0, <2>1 DEF Frames
    <2> QED
      BY <2>1, <2>2
  <1>2. ASSUME NEW how \in {"ok", "error"}, GuestFinishes(how) PROVE Piped'
    <2>1. pipe' = Append(pipe, how) /\ call' = call /\ how \notin Calls
      BY <1>2, DriveAssumption DEF GuestFinishes, workers, DriveAssumption
    <2>2. /\ Len(pipe') = Len(pipe) + 1 /\ Len(pipe) \in Nat
          /\ \A i \in 1..Len(pipe') : pipe'[i] = IF i <= Len(pipe) THEN pipe[i] ELSE how
      BY <1>0, <2>1 DEF Frames
    <2> QED
      BY <2>1, <2>2
  <1>3. ASSUME NEW tail \in {<< >>, <<"bad">>}, GuestCrashes(tail) PROVE Piped'
    <2>1. pipe' = pipe \o tail /\ call' = call /\ "bad" \notin Calls
      BY <1>3, DriveAssumption DEF GuestCrashes, workers, DriveAssumption
    <2>2. pipe' = pipe \/ pipe' = Append(pipe, "bad")
      <3>1. CASE tail = << >>
        BY <1>0, <2>1, <3>1
      <3>2. CASE tail = <<"bad">>
        BY <1>0, <2>1, <3>2 DEF Frames
      <3> QED
        BY <3>1, <3>2
    <2>3. CASE pipe' = Append(pipe, "bad")
      <3>1. /\ Len(pipe') = Len(pipe) + 1 /\ Len(pipe) \in Nat
            /\ \A i \in 1..Len(pipe') : pipe'[i] = IF i <= Len(pipe) THEN pipe[i] ELSE "bad"
        BY <1>0, <2>3 DEF Frames
      <3> QED
        BY <2>1, <3>1
    <2> QED
      BY <2>1, <2>2, <2>3
  <1>4. CASE ReadCall \/ StartRaises \/ ReadDone \/ (ReadEnds /\ pipe' # pipe)
    <2>1. /\ pipe # << >> /\ pipe' = Tail(pipe)
          /\ \/ call' = call
             \/ Head(pipe) \in Calls /\ call' = [call EXCEPT ![Head(pipe)] = "queued"]
             \/ Head(pipe) \in Calls /\ call' = [call EXCEPT ![Head(pipe)] = "cancelled"]
      BY <1>4 DEF ReadCall, StartRaises, ReadDone, ReadEnds, workers
    <2>2. /\ Len(pipe) \in Nat \ {0} /\ Len(pipe') = Len(pipe) - 1
          /\ \A i \in 1..Len(pipe') : pipe'[i] = pipe[i + 1]
          /\ Head(pipe) = pipe[1]
      BY <1>0, <2>1
    <2>3. \A i \in 1..Len(pipe') : pipe'[i] \in Calls =>
            pipe[i + 1] # pipe[1] /\ call[pipe[i + 1]] = "none"
      BY <2>2
    <2>4. \A i \in 1..Len(pipe') : pipe'[i] \in Calls => call'[pipe'[i]] = "none"
      BY <1>0, <2>1, <2>2, <2>3
    <2>5. \A i, j \in 1..Len(pipe') :
            pipe'[i] \in Calls /\ pipe'[i] = pipe'[j] => i = j
      BY <2>2
    <2> QED
      BY <2>4, <2>5
  <1>5. ASSUME pipe' = pipe,
               \A c \in Calls : call[c] = "none" => call'[c] = "none"
        PROVE  Piped'
    BY <1>5
  <1>6. \A kind : StartWorker(kind) =>
           pipe' = pipe /\ \A c \in Calls : call[c] = "none" => call'[c] = "none"
    <2> SUFFICES ASSUME NEW kind, StartWorker(kind)
                 PROVE  pipe' = pipe /\ \A c \in Calls : call[c] = "none" => call'[c] = "none"
      OBVIOUS
    <2>1. queue # << >> /\ queue \in Seq(Calls) /\ call' = [call EXCEPT ![Head(queue)] = "handling"]
      BY DEF StartWorker, TypeOK
    <2>2. Head(queue) = queue[1] /\ Len(queue) \in Nat \ {0}
      BY <2>1
    <2>3. call[Head(queue)] = "queued"
      BY <2>2 DEF Queued
    <2> QED
      BY <1>0, <2>1, <2>3 DEF StartWorker
  <1>7. \A c \in Calls : Handled(c) \/ HandleRaises(c) \/ Proceed(c) =>
           pipe' = pipe /\ \A d \in Calls : call[d] = "none" => call'[d] = "none"
    <2>1. \A c \in Calls : Handled(c) \/ HandleRaises(c) =>
             pipe' = pipe /\ \A d \in Calls : call[d] = "none" => call'[d] = "none"
      BY <1>0 DEF Handled, HandleRaises
    <2>2. \A c \in Calls : Proceed(c) =>
             pipe' = pipe /\ \A d \in Calls : call[d] = "none" => call'[d] = "none"
      BY <1>0 DEF Proceed, Reply, Observe, PassOn
    <2> QED
      BY <2>1, <2>2
  <1>10. CASE ReadRaises
    BY <1>10 DEF ReadRaises
  <1>8. (\E state \in {"run", "paused", "stopped"} : Operator(state))
        \/ Boot \/ BootRaises \/ Loop \/ Close \/ Decide \/ TimePasses \/ TimerFires
        \/ UNCHANGED vars \/ (ReadEnds /\ pipe' = pipe)
          => pipe' = pipe /\ call' = call
    BY DEF Operator, Boot, BootRaises, Loop, Close, Decide, TimePasses, TimerFires,
           vars, workers, ReadEnds
  <1>9. Drain => pipe' = pipe /\ \A c \in Calls : call[c] = "none" => call'[c] = "none"
    BY <1>0 DEF Drain
  <1> QED
    BY <1>1, <1>2, <1>3, <1>4, <1>5, <1>6, <1>7, <1>8, <1>9, <1>10
       DEF Next, Guest, Start, Driver

\* A worker takes the head of the queue, a frame read joins its end.
LEMMA QueuedStep == Inv /\ [Next]_vars => Queued'
  <1> SUFFICES ASSUME Inv, [Next]_vars PROVE Queued'
    OBVIOUS
  <1> USE DEF Inv, Queued
  <1>0. /\ queue \in Seq(Calls) /\ pipe \in Seq(Frames)
        /\ call \in [Calls -> Active \cup {"none", "over", "cancelled"}]
    BY DEF TypeOK
  <1>1. ASSUME ReadCall PROVE Queued'
    <2> DEFINE new == Head(pipe)
    <2>1. /\ pipe # << >> /\ new \in Calls /\ queue' = Append(queue, new)
          /\ call' = [call EXCEPT ![new] = "queued"]
      BY <1>1 DEF ReadCall
    <2>2. call[new] = "none"
      BY <1>0, <2>1 DEF Piped
    <2> HIDE DEF new
    <2>3. /\ Len(queue') = Len(queue) + 1 /\ Len(queue) \in Nat
          /\ \A i \in 1..Len(queue') :
               queue'[i] = IF i <= Len(queue) THEN queue[i] ELSE new
      BY <1>0, <2>1
    <2>4. \A i \in 1..Len(queue) : queue[i] # new
      BY <2>2
    <2>5. \A i \in 1..Len(queue') : call'[queue'[i]] = "queued"
      BY <1>0, <2>1, <2>3
    <2>6. \A i, j \in 1..Len(queue') : queue'[i] = queue'[j] => i = j
      BY <2>3, <2>4
    <2> QED
      BY <2>5, <2>6
  <1>2. ASSUME NEW kind, StartWorker(kind) PROVE Queued'
    <2>1. /\ queue # << >> /\ queue' = Tail(queue)
          /\ call' = [call EXCEPT ![Head(queue)] = "handling"]
      BY <1>2 DEF StartWorker
    <2>2. /\ Len(queue) \in Nat \ {0} /\ Len(queue') = Len(queue) - 1
          /\ \A i \in 1..Len(queue') : queue'[i] = queue[i + 1]
          /\ Head(queue) = queue[1]
      BY <1>0, <2>1
    <2>3. \A i \in 1..Len(queue') : queue[i + 1] # queue[1]
      BY <2>2
    <2>4. \A i \in 1..Len(queue') : call'[queue'[i]] = "queued"
      BY <1>0, <2>1, <2>2, <2>3
    <2>5. \A i, j \in 1..Len(queue') : queue'[i] = queue'[j] => i = j
      BY <2>2
    <2> QED
      BY <2>4, <2>5
  <1>3. Drain => queue' = << >>
    BY DEF Drain
  <1>4. ASSUME queue' = queue,
               \A c \in Calls : call[c] = "queued" => call'[c] = "queued"
        PROVE  Queued'
    BY <1>0, <1>4
  <1>5. \A c \in Calls : Handled(c) \/ HandleRaises(c) \/ Proceed(c) =>
          /\ queue' = queue
          /\ \A d \in Calls : call[d] = "queued" => call'[d] = "queued"
    <2>1. \A c \in Calls : Handled(c) \/ HandleRaises(c) =>
            /\ queue' = queue
            /\ \A d \in Calls : call[d] = "queued" => call'[d] = "queued"
      BY <1>0 DEF Handled, HandleRaises
    <2>2. ASSUME NEW c \in Calls, Proceed(c)
          PROVE  /\ queue' = queue
                 /\ \A d \in Calls : call[d] = "queued" => call'[d] = "queued"
      <3>1. queue' = queue
        BY <2>2 DEF Proceed, Reply, Observe, PassOn
      <3>2. call[c] # "queued" /\ \A d \in Calls : d # c => call'[d] = call[d]
        BY <1>0, <2>2 DEF Proceed, Reply, Observe, PassOn
      <3> QED
        BY <3>1, <3>2
    <2> QED
      BY <2>1, <2>2
  <1>7. CASE StartRaises
    <2>1. /\ pipe # << >> /\ Head(pipe) \in Calls /\ queue' = queue
          /\ call' = [call EXCEPT ![Head(pipe)] = "cancelled"]
      BY <1>7 DEF StartRaises
    <2>2. Head(pipe) = pipe[1] /\ Len(pipe) \in Nat \ {0}
      BY <1>0, <2>1
    <2>3. call[Head(pipe)] = "none"
      BY <2>1, <2>2 DEF Piped
    <2> QED
      BY <1>0, <1>4, <2>1, <2>3
  <1>6. Guest \/ (\E state \in {"run", "paused", "stopped"} : Operator(state))
        \/ Boot \/ BootRaises \/ Loop \/ ReadDone \/ ReadEnds \/ ReadRaises \/ Close
        \/ Decide \/ TimePasses \/ TimerFires \/ UNCHANGED vars
          => queue' = queue /\ call' = call
    BY DEF Guest, GuestCalls, GuestFinishes, GuestCrashes, Operator, Boot, BootRaises,
           Loop, ReadDone, ReadEnds, ReadRaises, Close, Decide, TimePasses, TimerFires, vars,
           workers
  <1> QED
    BY <1>1, <1>2, <1>3, <1>4, <1>5, <1>6, <1>7 DEF Next, Start, Driver

\* Before the driver closes down it holds every call at work in pending_rets;
\* afterwards no call starts, and the ones at work are those it reports.
LEMMA KnownStep == Inv /\ [Next]_vars => Known'
  <1> SUFFICES ASSUME Inv, [Next]_vars PROVE Known'
    OBVIOUS
  <1> USE DEF Inv, Known, Early, Late
  <1>0. /\ queue \in Seq(Calls) /\ driver \in Early \cup Late
        /\ call \in [Calls -> Active \cup {"none", "over", "cancelled"}]
    BY DEF TypeOK
  <1>1. ASSUME ReadCall PROVE Known'
    BY <1>0, <1>1 DEF ReadCall, outcome
  <1>12. ASSUME StartRaises PROVE Known'
    BY <1>0, <1>12 DEF StartRaises, Unwinds, Active
  <1>2. ASSUME NEW kind, StartWorker(kind) PROVE Known'
    <2>1. queue # << >> /\ call' = [call EXCEPT ![Head(queue)] = "handling"]
      BY <1>2 DEF StartWorker
    <2>2. Len(queue) \in Nat \ {0} /\ Head(queue) = queue[1]
      BY <1>0, <2>1
    <2>3. call[Head(queue)] \in Active
      BY <2>2 DEF Queued, Active
    <2> QED
      BY <1>0, <1>2, <2>1, <2>3 DEF StartWorker, outcome
  <1>3. ASSUME Drain PROVE Known'
    <2>1. \A c \in Calls : call'[c] \in Active => c \in pending /\ call'[c] = call[c]
      BY <1>0, <1>3 DEF Drain, Active
    <2> QED
      BY <1>3, <2>1 DEF Drain
  <1>4. ASSUME Decide PROVE Known'
    BY <1>4 DEF Decide, Result, workers
  <1>5. ASSUME Boot \/ BootRaises PROVE Known'
    BY <1>5 DEF Boot, BootRaises, Unwinds, workers
  <1>6. ASSUME Loop PROVE Known'
    <2>1. \A c \in Calls : call[c] \in Active => ~Over(c)
      BY DEF Active, Over
    <2> QED
      BY <1>6, <2>1 DEF Loop, Collect, workers
  <1>7. ASSUME ReadDone \/ ReadEnds \/ ReadRaises PROVE Known'
    BY <1>7 DEF ReadDone, ReadEnds, ReadRaises, Unwinds, workers
  <1>8. ASSUME Close PROVE Known'
    BY <1>8 DEF Close, workers, outcome
  <1>9. ASSUME UNCHANGED <<driver, queue, pending, still, result>>,
               \A c \in Calls : call'[c] \in Active => call[c] \in Active
        PROVE  Known'
    BY <1>9
  <1>10. ASSUME NEW c \in Calls, Handled(c) \/ HandleRaises(c) \/ Proceed(c) PROVE Known'
    <2>1. UNCHANGED <<driver, queue, pending, still, result>>
      BY <1>10 DEF Handled, HandleRaises, Proceed, Reply, Observe, PassOn, outcome
    <2>2. \A d \in Calls : call'[d] \in Active => call[d] \in Active
      BY <1>0, <1>10 DEF Handled, HandleRaises, Proceed, Reply, Observe, PassOn, Active
    <2> QED
      BY <1>9, <2>1, <2>2
  <1>11. Guest \/ (\E state \in {"run", "paused", "stopped"} : Operator(state))
         \/ TimePasses \/ TimerFires \/ UNCHANGED vars
           => UNCHANGED <<driver, queue, pending, still, result, call>>
    BY DEF Guest, GuestCalls, GuestFinishes, GuestCrashes, Operator, TimePasses,
           TimerFires, vars, workers, outcome
  <1> QED
    BY <1>1, <1>2, <1>3, <1>4, <1>5, <1>6, <1>7, <1>8, <1>9, <1>10, <1>11, <1>12
       DEF Next, Start, Driver

LEMMA Invariance == Spec => []Inv
  <1>1. Inv /\ [Next]_vars => Inv'
    <2> SUFFICES ASSUME Inv, [Next]_vars PROVE Inv'
      OBVIOUS
    <2>1. TypeOK'
      BY TypeStep DEF Inv
    <2> QED
      BY <2>1, QueuedStep, PipedStep, KnownStep DEF Inv
  <1> QED
    BY <1>1, InvInit, PTL DEF Spec

\* Within the time allowed every call is waited for.
OnTime == ~late => timer # "fired" /\ (driver \in Late => still = {})

\* The drain that is not cut short leaves no call behind.
LEMMA OnTimeStep == Inv /\ OnTime /\ [Next]_vars => OnTime'
  <1> SUFFICES ASSUME Inv, OnTime, [Next]_vars, ~late' PROVE OnTime'
    BY DEF OnTime
  <1> USE DEF OnTime, Late
  <1>1. ASSUME UNCHANGED <<late, timer, still>>, driver' \in Late => driver \in Late
        PROVE  OnTime'
    BY <1>1
  <1>2. CASE Drain
    <2>1. ~late /\ \A c \in pending : Over(c)
      BY <1>2 DEF Drain
    <2>2. \A c \in pending : call'[c] \notin Active
      <3> SUFFICES ASSUME NEW c \in pending PROVE call'[c] \notin Active
        OBVIOUS
      <3>1. c \in Calls /\ Over(c)
        BY <2>1 DEF Inv, TypeOK
      <3> QED BY <1>2, <3>1 DEF Drain, Over, Active
    <2> QED BY <1>2, <2>1, <2>2 DEF Drain
  <1>3. CASE Close \/ Decide
    BY <1>3 DEF Close, Decide, outcome
  <1>4. CASE TimePasses \/ TimerFires
    BY <1>4 DEF TimePasses, TimerFires
  <1>5. Boot \/ Loop \/ ReadCall \/ ReadDone \/ ReadEnds
        \/ BootRaises \/ StartRaises \/ ReadRaises
        => UNCHANGED <<late, timer, still>> /\ driver' \notin Late
    BY DEF Boot, Loop, ReadCall, ReadDone, ReadEnds, BootRaises, StartRaises,
       ReadRaises, Unwinds, outcome
  <1>6. Guest \/ (\E state \in {"run", "paused", "stopped"} : Operator(state))
        \/ Start \/ (\E c \in Calls : Handled(c) \/ HandleRaises(c) \/ Proceed(c))
        \/ UNCHANGED vars
        => UNCHANGED <<late, timer, still, driver>>
    BY DEF Guest, GuestCalls, GuestFinishes, GuestCrashes, Operator, Start, StartWorker,
       Handled, HandleRaises, Proceed, Reply, Observe, PassOn, vars, outcome
  <1> QED BY <1>1, <1>2, <1>3, <1>4, <1>5, <1>6 DEF Next, Driver

LEMMA OnTimeAlways == Spec => []OnTime
  <1>1. Init => OnTime
    BY DEF Init, OnTime, Late
  <1> QED
    BY <1>1, OnTimeStep, Invariance, PTL DEF Spec

\* When run() returns without saying so, no worker is still at a call: the
\* caller may flush, close the journal and mark the run, whatever the calls
\* did and however the run ended; after an exception in the driver, for a run
\* whose time is not up.
THEOREM ReturnsQuietly == Spec => []QuietAtReturn
  <1>1. Inv /\ OnTime => QuietAtReturn
    BY DEF Inv, Known, OnTime, QuietAtReturn, Late
  <1> QED
    BY <1>1, Invariance, OnTimeAlways, PTL

-----------------------------------------------------------------------------
(* An interruption is reported. *)

\* The driver has noted a cause that the broker flagged.
Cause ==
  \/ noted \cap {"stop", "pause", "suspend"} # {}
  \/ "protocol" \in noted /\ "abort" \in flags

\* A worker is about to pass the flags on.
Passing == \E c \in Calls : call[c] = "note"

\* A guest that has not left sends calls only.
Silent == left = "no" => done = "none" /\ \A i \in 1..Len(pipe) : pipe[i] \in Calls

\* What a call came to is flagged before its answer is sent.
Flagged ==
  \A c \in Calls : call[c] \in {"reply", "observe"} /\ comes[c] \in Flags
                     => comes[c] \in flags

\* What workers pass on was flagged.
Genuine ==
  /\ \A c \in Calls : noting[c] \subseteq flags /\ (call[c] = "note" => noting[c] # {})
  /\ noted \ {"protocol"} \subseteq flags

\* A guest that is down was killed for a flag, and a flag is noted or on its way.
Explained ==
  left = "no" /\ ~late =>
    /\ guest = "down" /\ driver \notin {"decide", "returned"} => Cause \/ Passing
    /\ Interrupted => Cause \/ Passing

Causes == Silent /\ Flagged /\ Genuine /\ OnTime /\ Explained /\ InterruptionReported

LEMMA SilentStep == Inv /\ Silent /\ [Next]_vars => Silent'
  <1> SUFFICES ASSUME Inv, Silent, [Next]_vars, left' = "no" PROVE Silent'
    BY DEF Silent
  <1>0. pipe \in Seq(Frames) /\ {"ok", "error", "bad"} \cap Calls = {}
    BY DriveAssumption DEF Inv, TypeOK, DriveAssumption
  <1>1. left = "no" /\ done = "none" /\ \A i \in 1..Len(pipe) : pipe[i] \in Calls
    <2>1. left = "no"
      BY DEF Next, Guest, GuestCalls, GuestFinishes, GuestCrashes, Operator, Start,
         StartWorker, Handled, HandleRaises, Proceed, Reply, Observe, PassOn, Driver,
         Boot, Loop, ReadCall, ReadDone, ReadEnds, BootRaises, StartRaises, ReadRaises,
         Drain, Close, Decide, TimePasses, TimerFires, vars
    <2> QED BY <2>1 DEF Silent
  <1>2. ASSUME NEW c \in Calls, GuestCalls(c) PROVE Silent'
    <2>1. pipe' = Append(pipe, c) /\ done' = done
      BY <1>2 DEF GuestCalls, outcome
    <2>2. /\ Len(pipe') = Len(pipe) + 1 /\ Len(pipe) \in Nat
          /\ \A i \in 1..Len(pipe') : pipe'[i] = IF i <= Len(pipe) THEN pipe[i] ELSE c
      BY <1>0, <2>1 DEF Frames
    <2> QED BY <1>1, <2>1, <2>2 DEF Silent
  <1>3. CASE ReadCall \/ StartRaises
    <2>1. pipe # << >> /\ pipe' = Tail(pipe) /\ done' = done
      BY <1>3 DEF ReadCall, StartRaises, outcome
    <2>2. /\ Len(pipe) \in Nat \ {0} /\ Len(pipe') = Len(pipe) - 1
          /\ \A i \in 1..Len(pipe') : pipe'[i] = pipe[i + 1]
      BY <1>0, <2>1
    <2> QED BY <1>1, <2>1, <2>2 DEF Silent
  <1>4. ~ReadDone /\ ~ReadRaises /\ (ReadEnds => pipe = << >>)
    <2>1. pipe # << >> => Head(pipe) \in Calls
      <3> SUFFICES ASSUME pipe # << >> PROVE Head(pipe) \in Calls
        OBVIOUS
      <3>1. Head(pipe) = pipe[1] /\ Len(pipe) \in Nat \ {0}
        BY <1>0
      <3> QED BY <1>1, <3>1
    <2> QED BY <1>0, <1>1, <2>1 DEF ReadDone, ReadEnds, ReadRaises
  <1>5. CASE UNCHANGED <<pipe, done>>
    BY <1>1, <1>5 DEF Silent
  <1>6. ~GuestFinishes("ok") /\ ~GuestFinishes("error")
        /\ \A tail \in {<< >>, <<"bad">>} : ~GuestCrashes(tail)
    BY DEF GuestFinishes, GuestCrashes
  <1>7. \A c \in Calls : Handled(c) \/ HandleRaises(c) \/ Proceed(c)
                           => UNCHANGED <<pipe, done>>
    BY DEF Handled, HandleRaises, Proceed, Reply, Observe, PassOn, outcome
  <1>8. (\E state \in {"run", "paused", "stopped"} : Operator(state)) \/ Start
        \/ Boot \/ BootRaises \/ Loop \/ (ReadEnds /\ pipe = << >>) \/ Drain \/ Close \/ Decide
        \/ TimePasses \/ TimerFires \/ UNCHANGED vars => UNCHANGED <<pipe, done>>
    BY DEF Operator, Start, StartWorker, Boot, BootRaises, Unwinds, Loop, ReadEnds,
       Drain, Close, Decide, TimePasses, TimerFires, vars, outcome
  <1> QED
    BY <1>2, <1>3, <1>4, <1>5, <1>6, <1>7, <1>8 DEF Next, Guest, Driver

\* An answer follows the flag.
LEMMA FlaggedStep == Inv /\ Flagged /\ [Next]_vars => Flagged'
  <1> SUFFICES ASSUME Inv, Flagged, [Next]_vars PROVE Flagged'
    OBVIOUS
  <1>0. /\ call \in [Calls -> Active \cup {"none", "over", "cancelled"}]
        /\ comes \in [Calls -> KindsOfCall \cup {"stop", "pause"}] /\ queue \in Seq(Calls)
    BY DEF Inv, TypeOK
  <1> USE DEF Flagged
  <1>1. ASSUME flags \subseteq flags',
               \A c \in Calls : call'[c] \in {"reply", "observe"}
                                 => call[c] \in {"reply", "observe"} /\ comes'[c] = comes[c]
        PROVE  Flagged'
    BY <1>1
  <1>2. ASSUME NEW kind, StartWorker(kind) PROVE Flagged'
    <2>1. /\ Head(queue) \in Calls /\ flags' = flags
          /\ call' = [call EXCEPT ![Head(queue)] = "handling"]
          /\ comes' = [comes EXCEPT ![Head(queue)] = kind]
      BY <1>0, <1>2 DEF StartWorker
    <2>2. \A c \in Calls : call'[c] \in {"reply", "observe"} => c # Head(queue)
      BY <1>0, <2>1
    <2> QED BY <1>0, <1>1, <2>1, <2>2
  <1>3. ASSUME NEW c \in Calls, Handled(c) PROVE Flagged'
    <2>1. /\ call' = [call EXCEPT ![c] = "reply"] /\ comes' = comes
          /\ flags' = flags \cup ({comes[c]} \cap Flags)
      BY <1>3 DEF Handled
    <2> QED BY <1>0, <2>1
  <1>4. ASSUME NEW c \in Calls, HandleRaises(c) PROVE Flagged'
    <2>1. call' = [call EXCEPT ![c] = "over"] /\ comes' = comes /\ flags \subseteq flags'
      BY <1>4 DEF HandleRaises
    <2> QED BY <1>0, <1>1, <2>1
  <1>5. ASSUME NEW c \in Calls, Proceed(c) PROVE Flagged'
    <2>1. comes' = comes /\ flags' = flags
      BY <1>5 DEF Proceed, Reply, Observe, PassOn
    <2>2. \A d \in Calls : call'[d] \in {"reply", "observe"} => call[d] \in {"reply", "observe"}
      BY <1>0, <1>5 DEF Proceed, Reply, Observe, PassOn
    <2> QED BY <1>1, <2>1, <2>2
  <1>6. ASSUME ReadCall \/ StartRaises \/ Drain PROVE Flagged'
    <2>1. comes' = comes /\ flags' = flags
      BY <1>6 DEF ReadCall, StartRaises, Drain
    <2>2. \A d \in Calls : call'[d] \in {"reply", "observe"} => call'[d] = call[d]
      BY <1>0, <1>6 DEF ReadCall, StartRaises, Drain
    <2> QED BY <1>1, <2>1, <2>2
  <1>7. Guest \/ (\E state \in {"run", "paused", "stopped"} : Operator(state))
        \/ Boot \/ BootRaises \/ Loop \/ ReadDone \/ ReadEnds \/ ReadRaises \/ Close
        \/ Decide \/ TimePasses \/ TimerFires \/ UNCHANGED vars
        => UNCHANGED <<call, comes, flags>>
    BY DEF Guest, GuestCalls, GuestFinishes, GuestCrashes, Operator, Boot, BootRaises,
       Loop, ReadDone, ReadEnds, ReadRaises, Close, Decide, TimePasses, TimerFires,
       vars, workers
  <1> QED
    BY <1>1, <1>2, <1>3, <1>4, <1>5, <1>6, <1>7 DEF Next, Start, Driver

\* What a worker or the driver notes besides a broken protocol has been flagged.
LEMMA GenuineStep == Inv /\ Genuine /\ [Next]_vars => Genuine'
  <1> SUFFICES ASSUME Inv, Genuine, [Next]_vars PROVE Genuine'
    OBVIOUS
  <1>0. /\ call \in [Calls -> Active \cup {"none", "over", "cancelled"}]
        /\ noting \in [Calls -> SUBSET Flags] /\ queue \in Seq(Calls) /\ flags \subseteq Flags
    BY DEF Inv, TypeOK
  <1> USE DEF Genuine
  <1>1. ASSUME flags \subseteq flags', noting' = noting, noted' \subseteq noted \cup {"protocol"},
               \A c \in Calls : call'[c] = "note" => call[c] = "note"
        PROVE  Genuine'
    BY <1>1
  <1>2. ASSUME NEW kind, StartWorker(kind) PROVE Genuine'
    <2>1. Head(queue) \in Calls
      BY <1>0, <1>2 DEF StartWorker
    <2> QED BY <1>0, <1>1, <1>2, <2>1 DEF StartWorker, outcome
  <1>3. ASSUME NEW c \in Calls, Handled(c) \/ HandleRaises(c) \/ Reply(c) PROVE Genuine'
    BY <1>0, <1>1, <1>3 DEF Handled, HandleRaises, Reply, Note, outcome
  <1>4. ASSUME NEW c \in Calls, Observe(c) PROVE Genuine'
    <2>1. noted' = noted /\ flags' = flags
      BY <1>4 DEF Observe, outcome
    <2>2. CASE flags = {}
      BY <1>0, <1>1, <1>4, <2>1, <2>2 DEF Observe
    <2>3. CASE flags # {}
      BY <1>0, <1>4, <2>1, <2>3 DEF Observe
    <2> QED BY <2>2, <2>3
  <1>5. ASSUME NEW c \in Calls, NEW flag \in Flags, PassOn(c, flag) PROVE Genuine'
    <2>1. flag \in flags /\ flags' = flags /\ noting' = [noting EXCEPT ![c] = @ \ {flag}]
      BY <1>5 DEF PassOn
    <2>2. noted' \subseteq noted \cup {IF flag = "abort" THEN "protocol" ELSE flag}
      BY <1>5 DEF PassOn, Note
    <2>3. ASSUME NEW d \in Calls
          PROVE  noting'[d] \subseteq flags' /\ (call'[d] = "note" => noting'[d] # {})
      <3>1. CASE d = c
        BY <1>0, <1>5, <2>1, <3>1 DEF PassOn
      <3>2. CASE d # c
        BY <1>0, <1>5, <2>1, <3>2 DEF PassOn
      <3> QED BY <3>1, <3>2
    <2> QED BY <2>1, <2>2, <2>3
  <1>6. CASE ReadCall \/ StartRaises
    <2>1. Head(pipe) \in Calls
      BY <1>6 DEF ReadCall, StartRaises
    <2> QED BY <1>0, <1>1, <1>6, <2>1 DEF ReadCall, StartRaises, outcome
  <1>7. CASE Drain
    <2>1. \A c \in Calls : call'[c] = "note" => call[c] = "note"
      BY <1>7 DEF Drain
    <2> QED BY <1>1, <1>7, <2>1 DEF Drain, Collect, Note
  <1>8. Boot \/ BootRaises \/ Loop \/ ReadDone \/ ReadEnds \/ ReadRaises \/ Close \/ Decide
        => UNCHANGED <<call, noting, flags>> /\ noted' \subseteq noted \cup {"protocol"}
    BY DEF Boot, BootRaises, Loop, ReadDone, ReadEnds, ReadRaises, Close, Decide, Collect, Note, workers, outcome
  <1>9. Guest \/ (\E state \in {"run", "paused", "stopped"} : Operator(state))
        \/ TimePasses \/ TimerFires \/ UNCHANGED vars
        => UNCHANGED <<call, noting, flags, noted>>
    BY DEF Guest, GuestCalls, GuestFinishes, GuestCrashes, Operator, TimePasses,
       TimerFires, vars, workers, outcome
  <1> QED
    BY <1>1, <1>2, <1>3, <1>4, <1>5, <1>6, <1>7, <1>8, <1>9 DEF Next, Start, Proceed, Driver

\* What has been noted or flagged stays, and so does having left or being late.
LEMMA Lasting ==
  ASSUME Inv, [Next]_vars
  PROVE  /\ noted \subseteq noted' /\ flags \subseteq flags'
         /\ (left' = "no" => left = "no") /\ (~late' => ~late)
  <1>1. ASSUME NEW c \in Calls, Handled(c) \/ HandleRaises(c) \/ Proceed(c)
        PROVE  noted \subseteq noted' /\ flags \subseteq flags' /\ left' = left /\ late' = late
    BY <1>1 DEF Handled, HandleRaises, Proceed, Reply, Observe, PassOn, Note, outcome
  <1>2. Guest \/ (\E state \in {"run", "paused", "stopped"} : Operator(state)) \/ Start
        \/ TimePasses \/ TimerFires \/ UNCHANGED vars
        => /\ noted' = noted /\ flags' = flags
           /\ (left' = "no" => left = "no") /\ (~late' => ~late)
    BY DEF Guest, GuestCalls, GuestFinishes, GuestCrashes, Operator, Start, StartWorker,
       TimePasses, TimerFires, vars, workers, outcome
  <1>3. Driver => noted \subseteq noted' /\ flags' = flags /\ left' = left /\ late' = late
    BY DEF Driver, Boot, Loop, ReadCall, ReadDone, ReadEnds, BootRaises, StartRaises,
       ReadRaises, Drain, Close, Decide, Collect, Note, workers, outcome
  <1> QED BY <1>1, <1>2, <1>3 DEF Next

LEMMA CauseStays ==
  ASSUME Inv, [Next]_vars, Cause
  PROVE  Cause'
  BY Lasting DEF Cause

\* A flag is noted before the last worker that knows of it is done.
LEMMA ExplainedStep ==
  Inv /\ Silent /\ Flagged /\ Genuine /\ OnTime /\ Explained /\ [Next]_vars => Explained'
  <1> SUFFICES ASSUME Inv, Silent, Flagged, Genuine, OnTime, Explained, [Next]_vars,
                      left' = "no", ~late'
               PROVE  Explained'
    BY DEF Explained
  <1>0. /\ call \in [Calls -> Active \cup {"none", "over", "cancelled"}]
        /\ comes \in [Calls -> KindsOfCall \cup {"stop", "pause"}]
        /\ noting \in [Calls -> SUBSET Flags] /\ queue \in Seq(Calls) /\ flags \subseteq Flags
        /\ pipe \in Seq(Frames) /\ guest \in {"up", "down"}
    BY DEF Inv, TypeOK
  <1>1. left = "no" /\ ~late /\ (Cause => Cause') /\ done = "none"
    BY Lasting, CauseStays DEF Silent
  <1>2. /\ guest = "down" /\ driver \notin {"decide", "returned"} => Cause \/ Passing
        /\ Interrupted => Cause \/ Passing
    BY <1>1 DEF Explained
  <1>3. ASSUME Passing => Passing', Interrupted' => Interrupted,
               guest' = "down" /\ driver' \notin {"decide", "returned"}
                 => guest = "down" /\ driver \notin {"decide", "returned"}
        PROVE  Explained'
    BY <1>1, <1>2, <1>3 DEF Explained
  <1>4. ASSUME UNCHANGED <<call, comes, unsent>>
        PROVE (Passing => Passing') /\ (Interrupted' => Interrupted)
    BY <1>4 DEF Passing, Interrupted
  <1>5. ASSUME NEW kind, StartWorker(kind) PROVE Explained'
    <2>1. /\ queue # << >> /\ call' = [call EXCEPT ![Head(queue)] = "handling"]
          /\ comes' = [comes EXCEPT ![Head(queue)] = kind]
          /\ UNCHANGED <<unsent, guest, driver>>
      BY <1>5 DEF StartWorker
    <2>2. Head(queue) = queue[1] /\ Len(queue) \in Nat \ {0}
      BY <1>0, <2>1
    <2>3. Head(queue) \in Calls /\ call[Head(queue)] = "queued"
      BY <1>0, <2>1, <2>2 DEF Inv, Queued
    <2>4. Passing => Passing'
      BY <1>0, <2>1, <2>3 DEF Passing
    <2>5. Interrupted' => Interrupted
      BY <1>0, <2>1, <2>3 DEF Interrupted
    <2> QED BY <1>3, <2>1, <2>4, <2>5
  <1>6. ASSUME NEW c \in Calls, Handled(c) PROVE Explained'
    <2>1. /\ call[c] = "handling" /\ call' = [call EXCEPT ![c] = "reply"]
          /\ UNCHANGED <<comes, unsent, guest, driver>>
      BY <1>6 DEF Handled
    <2>2. (Passing => Passing') /\ (Interrupted' => Interrupted)
      BY <1>0, <2>1 DEF Passing, Interrupted
    <2> QED BY <1>3, <2>1, <2>2
  <1>17. ASSUME NEW c \in Calls, HandleRaises(c) PROVE Explained'
    <2>1. /\ call[c] = "handling" /\ call' = [call EXCEPT ![c] = "over"]
          /\ unsent' = unsent \cup {c} /\ UNCHANGED <<comes, guest, driver>>
      BY <1>17 DEF HandleRaises
    <2>2. (Passing => Passing') /\ (Interrupted' => Interrupted)
      BY <1>0, <2>1 DEF Passing, Interrupted
    <2> QED BY <1>3, <2>1, <2>2
  <1>7. ASSUME NEW c \in Calls, Reply(c) PROVE Explained'
    <2>1. call[c] = "reply" /\ UNCHANGED <<comes, guest, driver>>
      BY <1>7 DEF Reply
    <2>2. \A d \in Calls : d # c => call'[d] = call[d]
      BY <1>0, <1>7 DEF Reply
    <2>3. Passing => Passing'
      BY <2>1, <2>2 DEF Passing
    <2>4. CASE c \in unsent' /\ unsent' = unsent \cup {c}
      <3>1. Interrupted' => Interrupted
        BY <2>1, <2>2, <2>4 DEF Interrupted
      <3> QED BY <1>3, <2>1, <2>3, <3>1
    <2>5. CASE call' = [call EXCEPT ![c] = "observe"] /\ unsent' = unsent
      <3>1. Interrupted' => Interrupted
        BY <1>0, <2>1, <2>2, <2>5 DEF Interrupted
      <3> QED BY <1>3, <2>1, <2>3, <3>1
    <2>6. CASE guest = "down"
      <3>1. driver \notin {"decide", "returned"}
        <4>1. call[c] \in Active
          BY <2>1 DEF Active
        <4> QED BY <1>1, <4>1 DEF OnTime, Inv, Known, Late
      <3> QED BY <1>1, <1>2, <2>1, <2>3, <2>6, <3>1 DEF Explained
    <2> QED BY <1>7, <2>4, <2>5, <2>6 DEF Reply
  <1>8. ASSUME NEW c \in Calls, Observe(c) PROVE Explained'
    <2>1. call[c] = "observe" /\ UNCHANGED <<comes, unsent, driver>>
      BY <1>8 DEF Observe
    <2>2. CASE flags = {}
      <3>1. guest' = guest /\ call' = [call EXCEPT ![c] = "over"]
        BY <1>8, <2>2 DEF Observe
      <3>2. comes[c] \notin Flags
        BY <2>1, <2>2 DEF Flagged
      <3>3. (Passing => Passing') /\ (Interrupted' => Interrupted)
        BY <1>0, <2>1, <3>1, <3>2 DEF Passing, Interrupted
      <3> QED BY <1>3, <2>1, <3>1, <3>3
    <2>3. CASE flags # {}
      <3>1. Passing'
        BY <1>0, <1>8, <2>3 DEF Observe, Passing
      <3> QED BY <3>1 DEF Explained
    <2> QED BY <2>2, <2>3
  <1>9. ASSUME NEW c \in Calls, NEW flag \in Flags, PassOn(c, flag) PROVE Explained'
    <2>1. flag \in flags /\ flags' = flags
      BY <1>9 DEF PassOn, Genuine
    <2>2. noted' = noted \cup {IF flag = "abort" THEN "protocol" ELSE flag}
      BY <1>1, <1>9 DEF PassOn, Note
    <2>3. Cause'
      BY <2>1, <2>2 DEF Cause, Flags
    <2> QED BY <2>3 DEF Explained
  <1>10. CASE ReadCall \/ StartRaises
    <2>1. /\ pipe # << >> /\ Head(pipe) \in Calls
          /\ \/ call' = [call EXCEPT ![Head(pipe)] = "queued"]
             \/ call' = [call EXCEPT ![Head(pipe)] = "cancelled"]
          /\ UNCHANGED <<comes, unsent, guest>> /\ driver = "read"
      BY <1>10 DEF ReadCall, StartRaises
    <2>2. Head(pipe) = pipe[1] /\ Len(pipe) \in Nat \ {0}
      BY <1>0, <2>1
    <2>3. call[Head(pipe)] = "none"
      BY <2>1, <2>2 DEF Inv, Piped
    <2>4. (Passing => Passing') /\ (Interrupted' => Interrupted)
      BY <1>0, <2>1, <2>3 DEF Passing, Interrupted
    <2> QED BY <1>3, <2>1, <2>4
  <1>11. CASE Drain
    <2>1. (Passing => Passing') /\ (Interrupted' => Interrupted)
      BY <1>0, <1>11 DEF Drain, Passing, Interrupted
    <2> QED BY <1>3, <1>11, <2>1 DEF Drain
  <1>12. CASE Close
    <2>1. UNCHANGED <<call, comes, unsent>> /\ driver' = "decide"
      BY <1>12 DEF Close, workers
    <2> QED BY <1>3, <1>4, <2>1
  <1>13. Boot \/ BootRaises \/ Loop \/ ReadDone \/ ReadEnds \/ ReadRaises \/ Decide
         => /\ UNCHANGED <<call, comes, unsent, guest>>
            /\ driver' \notin {"decide", "returned"} => driver \notin {"decide", "returned"}
    BY DEF Boot, BootRaises, Loop, ReadDone, ReadEnds, ReadRaises, Decide, workers
  <1>14. ~TimerFires /\ ~TimePasses
    BY <1>1 DEF TimerFires, TimePasses
  <1>15. (\E c \in Calls : GuestCalls(c)) \/ UNCHANGED vars
         \/ (\E state \in {"run", "paused", "stopped"} : Operator(state))
         => UNCHANGED <<call, comes, unsent, guest, driver>>
    BY DEF GuestCalls, Operator, vars, workers
  <1>16. \A how : ~GuestFinishes(how) /\ ~GuestCrashes(how)
    BY DEF GuestFinishes, GuestCrashes
  <1> QED
    BY <1>3, <1>4, <1>5, <1>6, <1>7, <1>8, <1>9, <1>10, <1>11, <1>12, <1>13, <1>14, <1>15,
       <1>16, <1>17
       DEF Next, Guest, Start, Proceed, Driver

\* Once the driver has decided no call comes to anything more.
LEMMA ReportedStep == Inv /\ Causes /\ [Next]_vars => InterruptionReported'
  <1> SUFFICES ASSUME Inv, Causes, [Next]_vars, result' \notin {"none", "internal"},
                      Interrupted', ~late', left' = "no"
               PROVE  InterruptionReported'
    BY DEF InterruptionReported
  <1>1. left = "no" /\ ~late
    BY Lasting
  <1>2. CASE Decide
    <2>1. /\ driver = "decide" /\ result' = Result
          /\ UNCHANGED <<call, comes, unsent, flags, noted>>
      BY <1>2 DEF Decide, workers
    <2>2. still = {} /\ timer # "fired" /\ \A c \in Calls : call[c] \notin Active
      BY <1>1, <2>1 DEF Causes, OnTime, Inv, Known, Late
    <2>3. Interrupted
      BY <2>1 DEF Interrupted
    <2>7. Cause
      BY <1>1, <2>1, <2>2, <2>3 DEF Causes, Explained, Passing, Active
    <2>4. "stop" \in noted => "stop" \in flags
      BY DEF Causes, Genuine
    <2>5. "pause" \in noted => "pause" \in flags
      BY DEF Causes, Genuine
    <2>6. "suspend" \in noted => "suspend" \in flags
      BY DEF Causes, Genuine
    <2> QED BY <2>1, <2>2, <2>7, <2>4, <2>5, <2>6 DEF Cause, Result, InterruptionReported
  <1>3. CASE ~Decide
    <2>1. result' = result
      <3>1. \A c \in Calls : Handled(c) \/ HandleRaises(c) \/ Proceed(c) => result' = result
        BY DEF Handled, HandleRaises, Proceed, Reply, Observe, PassOn, outcome
      <3> QED
        BY <1>3, <3>1 DEF Next, Guest, GuestCalls, GuestFinishes, GuestCrashes, Operator,
           Start, StartWorker, Driver, Boot, Loop, ReadCall, ReadDone, ReadEnds,
           BootRaises, StartRaises, ReadRaises, Drain, Close, TimePasses, TimerFires,
           vars, outcome
    <2>2. driver = "returned" /\ queue = << >> /\ \A c \in Calls : call[c] \notin Active
      BY <1>1, <2>1 DEF Causes, OnTime, Inv, Known, Late
    <2>3. UNCHANGED <<call, comes, unsent, flags>>
      <3>1. \A c \in Calls : ~Handled(c) /\ ~HandleRaises(c) /\ ~Proceed(c)
        BY <2>2 DEF Handled, HandleRaises, Proceed, Reply, Observe, PassOn, Active
      <3>2. ~Start /\ ~Driver
        BY <2>2 DEF Start, StartWorker, Driver, Boot, Loop, ReadCall, ReadDone, ReadEnds,
           BootRaises, StartRaises, ReadRaises, Drain, Close, Decide
      <3> QED
        BY <3>1, <3>2 DEF Next, Guest, GuestCalls, GuestFinishes, GuestCrashes, Operator,
           TimePasses, TimerFires, vars, workers
    <2>4. Interrupted
      BY <2>3 DEF Interrupted
    <2> QED BY <1>1, <2>1, <2>3, <2>4 DEF Causes, InterruptionReported
  <1> QED BY <1>2, <1>3

\* A run that an answered call interrupts in time, whose guest did not leave first and
\* whose driver met no exception, is reported with a cause the broker flagged, whatever
\* threads raised it, whichever other workers failed or found stdin closed meanwhile
\* and in whatever order they note.
THEOREM InterruptionsAreReported == Spec => []InterruptionReported
  <1>1. Init => Causes
    <2> SUFFICES ASSUME Init PROVE Causes
      OBVIOUS
    <2>1. Silent /\ Flagged /\ Genuine
      BY DEF Init, Silent, Flagged, Genuine
    <2> QED BY <2>1 DEF Init, Causes, OnTime, Late, Explained, Interrupted,
                              InterruptionReported
  <1>2. Inv /\ Causes /\ [Next]_vars => Causes'
    <2> SUFFICES ASSUME Inv, Causes, [Next]_vars PROVE Causes'
      OBVIOUS
    <2>1. Silent /\ Flagged /\ Genuine /\ OnTime /\ Explained
      BY DEF Causes
    <2>2. Silent' /\ Flagged' /\ Genuine' /\ OnTime'
      BY <2>1, SilentStep, FlaggedStep, GenuineStep, OnTimeStep
    <2> QED BY <2>1, <2>2, ExplainedStep, ReportedStep DEF Causes
  <1>3. Causes => InterruptionReported
    BY DEF Causes
  <1> QED BY Invariance, <1>1, <1>2, <1>3, PTL DEF Spec

-----------------------------------------------------------------------------
(* The controls that the interpreter reads: the control log and the call they *)
(* govern.                                                                   *)

\* Of some numbers one is the least.
LEMMA Smallest ==
  ASSUME NEW T \in SUBSET Nat, T # {}
  PROVE  \E n \in T : \A m \in T : n <= m
  <1>1. \E x \in T : \A y \in T : <<y, x>> \notin OpToRel(<, Nat)
    BY WFMin, NatLessThanWellFounded
  <1>2. \A x, y \in T : <<y, x>> \notin OpToRel(<, Nat) => x <= y
    BY DEF OpToRel
  <1> QED BY <1>1, <1>2

\* A control as it is asked for: a retry's attempt is known when the log was read.
Asked == [n : 1..MaxIssues, verb : Verbs, attempt : Nat]
Engaged(o) == op[o].at # "idle"
Stated(g) == {Id(log[g][i]) : i \in {j \in DOMAIN log[g] : log[g][j] # Junk}}

\* Operators, the log and what was returned have their types.
Spoken ==
  /\ log \in [Gens -> Seq(Asked \cup {Junk})]
  /\ open \in [Gens -> BOOLEAN]
  /\ op \in [Operators -> [at : {"idle", "list", "load", "write"}, run : Gens,
                           control : Asked \cup {Junk}]]
  /\ \A o \in Operators : Engaged(o) => op[o].control \in Asked
  /\ issued \in 0..MaxIssues /\ overlap \in BOOLEAN
  /\ told \subseteq [run : Gens, control : Asked]
  /\ torn \subseteq [run : Gens, control : Asked]

\* A control is in one place: with one operator, or in one line of one log.
Single ==
  /\ \A o \in Operators : Engaged(o) =>
       /\ op[o].control.n <= issued
       /\ \A g \in Gens : \A i \in DOMAIN log[g] : log[g][i].n # op[o].control.n
       /\ \A t \in told \cup torn : t.control.n # op[o].control.n
  /\ \A o, q \in Operators :
       Engaged(o) /\ Engaged(q) /\ op[o].control.n = op[q].control.n => o = q
  /\ \A g, h \in Gens : \A i \in DOMAIN log[g], j \in DOMAIN log[h] :
       log[g][i] # Junk /\ log[g][i].n = log[h][j].n => g = h /\ i = j
  /\ \A g \in Gens : \A i \in DOMAIN log[g] :
       log[g][i].n <= issued /\ (log[g][i] # Junk => log[g][i].n \notin splits)
  /\ \A t \in told \cup torn : t.control.n <= issued

\* A log that ends in a fragment ends in what a write left that was cut short.
Frayed ==
  \A g \in Gens :
    open[g] => /\ log[g] # << >>
               /\ \/ log[g][Len(log[g])] = Junk
                  \/ log[g][Len(log[g])] \in Of(torn, g)

\* While no write to a log was cut short a control that was returned is in it, if its
\* text has no separator.
Standing ==
  \A g \in Gens : Of(torn, g) = {} =>
    /\ ~open[g]
    /\ \A t \in told : t.run = g /\ t.control.n \notin splits =>
         \E i \in DOMAIN log[g] : log[g][i] = t.control

\* Operators that take turns write in the order of what they ask.
Turns ==
  ~overlap =>
    /\ \A o, q \in Operators : Engaged(o) /\ Engaged(q) => o = q
    /\ \A o \in Operators : Engaged(o) => op[o].control.n = issued
    /\ torn = {} => \A g \in Gens : \A i, j \in DOMAIN log[g] :
                      log[g][i] # Junk /\ log[g][j] # Junk /\ i < j
                        => log[g][i].n < log[g][j].n

\* What is returned and not read is at most one control for each cut, with the one
\* that a fragment has yet to take.
Whole(g) == {c \in Of(told, g) : c.n \notin splits}
Unread(g) ==
  {x \in Ids(Whole(g)) :
     x \notin Stated(g) /\ x \notin Ids(Of(torn, g))}
Balanced ==
  \A g \in Gens :
    /\ IsFiniteSet(Unread(g)) /\ IsFiniteSet(Of(torn, g))
    /\ Cardinality(Unread(g)) + (IF open[g] THEN 1 ELSE 0) <= Cardinality(Of(torn, g))

Said == Spoken /\ Single /\ Frayed /\ Standing /\ Turns /\ Balanced

\* The ids a reader gets are those of the lines it can read: the first line of an id
\* counts.
LEMMA ReadIds ==
  ASSUME Spoken, NEW g \in Gens, g \notin blind
  PROVE  Ids(Recorded(g)) = Stated(g)
  <1>1. log[g] \in Seq(Asked \cup {Junk})
    BY DEF Spoken
  <1>2. Ids(Recorded(g)) \subseteq Stated(g)
    BY DEF Ids, Recorded, Live, Legible, Stated
  <1>3. ASSUME NEW i \in DOMAIN log[g], log[g][i] # Junk
        PROVE  Id(log[g][i]) \in Ids(Recorded(g))
    <2> DEFINE S == {k \in DOMAIN log[g] :
                       log[g][k] # Junk /\ Id(log[g][k]) = Id(log[g][i])}
    <2>1. S \in SUBSET Nat /\ S # {}
      BY <1>1, <1>3
    <2>2. PICK k \in S : \A m \in S : k <= m
      <3> HIDE DEF S
      <3> QED BY <2>1, Smallest
    <2>3. \A j \in 1..(k - 1) : j \in DOMAIN log[g] /\ j \notin S
      BY <1>1, <2>1, <2>2
    <2>4. k \in Live(g)
      BY <2>2, <2>3 DEF Live, Legible
    <2> QED BY <2>2, <2>4 DEF Ids, Recorded
  <1> QED BY <1>2, <1>3 DEF Stated

\* The lines of a log after an append.
LEMMA Appended ==
  ASSUME Spoken, NEW g \in Gens,
         NEW text \in Asked \cup {Junk}, Frayed
  PROVE  LET after == Written(g, text) IN
         /\ after \in Seq(Asked \cup {Junk})
         /\ ~open[g] => /\ after = Append(log[g], text)
                        /\ Len(after) = Len(log[g]) + 1 /\ after[Len(log[g]) + 1] = text
                        /\ \A i \in DOMAIN log[g] : i \in DOMAIN after /\ after[i] = log[g][i]
                        /\ \A i \in DOMAIN after : i \in DOMAIN log[g] \/ i = Len(log[g]) + 1
         /\ open[g] => /\ DOMAIN after = DOMAIN log[g] /\ Len(after) = Len(log[g])
                       /\ Len(after) > 0 /\ after[Len(after)] = Junk
                       /\ \A i \in DOMAIN after : i # Len(after) => after[i] = log[g][i]
  <1>1. log[g] \in Seq(Asked \cup {Junk}) /\ open[g] \in BOOLEAN
    BY DEF Spoken
  <1>2. CASE ~open[g]
    BY <1>1, <1>2 DEF Written
  <1>3. CASE open[g]
    <2>1. log[g] # << >> /\ Len(log[g]) > 0
      BY <1>1, <1>3 DEF Frayed
    <2>2. Written(g, text) = [log[g] EXCEPT ![Len(log[g])] = Junk]
      BY <1>3 DEF Written
    <2> QED BY <1>1, <1>3, <2>1, <2>2
  <1> QED BY <1>2, <1>3, <1>1

\* Nothing of it is lost when nothing of it changes.
LEMMA SaidRests ==
  ASSUME Said, UNCHANGED <<splits, log, open, op, issued, told, torn, overlap>>
  PROVE  Said'
  <1>1. Spoken' /\ Single'
    BY DEF Said, Spoken, Single, Engaged
  <1>3. Frayed' /\ Turns'
    BY DEF Said, Frayed, Turns, Engaged, Of
  <1>4. Standing'
    BY DEF Said, Standing, Of
  <1>2. Balanced'
    BY DEF Said, Balanced, Unread, Whole, Stated, Of, Ids
  <1> QED BY <1>1, <1>2, <1>3, <1>4 DEF Said

\* An operator goes on with the control that it has.
LEMMA Proceeds ==
  ASSUME Said, NEW o \in Operators, NEW p \in {"load", "write"}, NEW c \in Asked, Engaged(o),
         c.n = op[o].control.n,
         op' = [op EXCEPT ![o] = [at |-> p, run |-> op[o].run, control |-> c]],
         UNCHANGED <<splits, log, open, issued, told, torn, overlap>>
  PROVE  Said'
  <1>t. op \in [Operators -> [at : {"idle", "list", "load", "write"}, run : Gens,
                              control : Asked \cup {Junk}]]
    BY DEF Said, Spoken
  <1>1. /\ op'[o].at = p /\ op'[o].control = c /\ op'[o].run = op[o].run
        /\ \A q \in Operators \ {o} : op'[q] = op[q]
    BY <1>t
  <1>2. \A q \in Operators : Engaged(q)' <=> Engaged(q)
    BY <1>1 DEF Engaged
  <1>3. op' \in [Operators -> [at : {"idle", "list", "load", "write"}, run : Gens,
                               control : Asked \cup {Junk}]]
    BY <1>t
  <1>4. Spoken'
    BY <1>1, <1>2, <1>3 DEF Said, Spoken, Engaged
  <1>5. \A q \in Operators : op'[q].control.n = op[q].control.n
    BY <1>1
  <1>6. Single' /\ Frayed' /\ Turns'
    <2>1. Single'
      BY <1>2, <1>5 DEF Said, Single
    <2> QED BY <1>2, <1>5, <2>1 DEF Said, Frayed, Turns, Of
  <1>8. Standing'
    BY DEF Said, Standing, Of
  <1>7. Balanced'
    BY DEF Said, Balanced, Unread, Whole, Stated, Of, Ids
  <1> QED BY <1>4, <1>6, <1>7, <1>8 DEF Said

\* An operator lets its control go.
LEMMA LetsGo ==
  ASSUME Said, NEW o \in Operators, op' = [op EXCEPT ![o] = Idle]
  PROVE  /\ op' \in [Operators -> [at : {"idle", "list", "load", "write"}, run : Gens,
                                   control : Asked \cup {Junk}]]
         /\ ~Engaged(o)' /\ \A q \in Operators \ {o} : op'[q] = op[q]
         /\ \A q \in Operators : Engaged(q)' => Engaged(q) /\ q # o /\ op'[q] = op[q]
  <1>1. op \in [Operators -> [at : {"idle", "list", "load", "write"}, run : Gens,
                              control : Asked \cup {Junk}]]
    BY DEF Said, Spoken
  <1>2. Idle \in [at : {"idle", "list", "load", "write"}, run : Gens,
                        control : Asked \cup {Junk}] /\ Idle.at = "idle"
    BY ControlAssumption DEF Idle, Gens
  <1> QED BY <1>1, <1>2 DEF Engaged

\* An operator gives up.
LEMMA Drops ==
  ASSUME Said, NEW o \in Operators, op' = [op EXCEPT ![o] = Idle],
         UNCHANGED <<splits, log, open, issued, told, torn, overlap>>
  PROVE  Said'
  <1>1. /\ op' \in [Operators -> [at : {"idle", "list", "load", "write"}, run : Gens,
                                   control : Asked \cup {Junk}]]
        /\ \A q \in Operators : Engaged(q)' => Engaged(q) /\ q # o /\ op'[q] = op[q]
    BY LetsGo
  <1>2. Spoken'
    <2>1. \A q \in Operators : Engaged(q)' => op'[q].control \in Asked
      BY <1>1 DEF Said, Spoken
    <2> QED BY <1>1, <2>1 DEF Said, Spoken
  <1>3. Single' /\ Frayed' /\ Turns'
    <2>1. Single'
      BY <1>1 DEF Said, Single
    <2> QED BY <1>1, <2>1 DEF Said, Frayed, Turns, Of
  <1>5. Standing'
    BY DEF Said, Standing, Of
  <1>4. Balanced'
    BY DEF Said, Balanced, Unread, Whole, Stated, Of, Ids
  <1> QED BY <1>2, <1>3, <1>4, <1>5 DEF Said

\* An operator is told of a control that is in the log.
LEMMA IsTold ==
  ASSUME Said, NEW o \in Operators, op' = [op EXCEPT ![o] = Idle],
         NEW g \in Gens, NEW i \in DOMAIN log[g], log[g][i] # Junk,
         told' = told \cup {[run |-> g, control |-> log[g][i]]},
         UNCHANGED <<splits, log, open, issued, torn, overlap>>
  PROVE  Said'
  <1>1. log[g][i] \in Asked
    BY DEF Said, Spoken
  <1>g. /\ op' \in [Operators -> [at : {"idle", "list", "load", "write"}, run : Gens,
                                   control : Asked \cup {Junk}]]
        /\ \A q \in Operators : Engaged(q)' => Engaged(q) /\ q # o /\ op'[q] = op[q]
    BY LetsGo
  <1>2. Spoken'
    <2>1. told' \subseteq [run : Gens, control : Asked]
      BY <1>1 DEF Said, Spoken
    <2>2. \A q \in Operators : Engaged(q)' => op'[q].control \in Asked
      BY <1>g DEF Said, Spoken
    <2> QED BY <1>g, <2>1, <2>2 DEF Said, Spoken
  <1>3. Single' /\ Frayed' /\ Turns'
    <2>1. \A t \in told' : t \in told \/ t.control = log[g][i]
      OBVIOUS
    <2>2. Single'
      BY <1>g, <2>1 DEF Said, Single
    <2> QED BY <1>g, <2>2 DEF Said, Frayed, Turns, Of
  <1>4. Standing'
    BY DEF Said, Standing, Of
  <1>5. ASSUME NEW h \in Gens PROVE Unread(h)' \subseteq Unread(h)
    <2>1. \A c \in Of(told', h) : c \in Of(told, h) \/ (h = g /\ c = log[g][i])
      BY DEF Of
    <2>2. \A x \in Ids(Whole(h)') :
            x \in Ids(Whole(h)) \/ (h = g /\ x = Id(log[g][i]))
      BY <2>1 DEF Ids, Whole, Of
    <2>3. Id(log[g][i]) \in Stated(g)
      BY DEF Stated
    <2>4. Stated(h)' = Stated(h) /\ Unread(h)' =
            {x \in Ids(Whole(h)') :
               x \notin Stated(h) /\ x \notin Ids(Of(torn, h))}
      BY DEF Stated, Unread, Of, Ids
    <2> QED BY <2>2, <2>3, <2>4 DEF Unread
  <1>6. Balanced'
    <2> SUFFICES ASSUME NEW h \in Gens
                 PROVE  /\ IsFiniteSet(Unread(h)') /\ IsFiniteSet(Of(torn, h))
                        /\ Cardinality(Unread(h)') + (IF open[h] THEN 1 ELSE 0)
                             <= Cardinality(Of(torn, h))
      BY DEF Balanced, Of
    <2>1. /\ IsFiniteSet(Unread(h)) /\ IsFiniteSet(Of(torn, h))
          /\ Cardinality(Unread(h)) + (IF open[h] THEN 1 ELSE 0) <= Cardinality(Of(torn, h))
      BY DEF Said, Balanced
    <2>2. IsFiniteSet(Unread(h)') /\ Cardinality(Unread(h)') <= Cardinality(Unread(h))
      BY <1>5, <2>1, FS_Subset
    <2>3. /\ Cardinality(Unread(h)') \in Nat /\ Cardinality(Unread(h)) \in Nat
          /\ Cardinality(Of(torn, h)) \in Nat
      BY <2>1, <2>2, FS_CardinalityType
    <2> QED BY <2>1, <2>2, <2>3
  <1> QED BY <1>2, <1>3, <1>4, <1>6 DEF Said

\* An operator's control goes into the log of its run, whole or in part.
PutsIn(o, g, text) ==
  /\ Engaged(o) /\ g = op[o].run /\ text \in {Junk, op[o].control}
  /\ text # Junk => text.n \notin splits
  /\ op' = [op EXCEPT ![o] = Idle] /\ UNCHANGED <<issued, overlap, splits>>
  /\ log' = [log EXCEPT ![g] = Written(g, text)]

LEMMA Writing ==
  ASSUME Said, NEW o \in Operators, NEW g \in Gens, NEW text,
         PutsIn(o, g, text)
  PROVE  /\ g \in Gens /\ op[o].control \in Asked
         /\ log' \in [Gens -> Seq(Asked \cup {Junk})]
         /\ log'[g] = Written(g, text)
         /\ \A h \in Gens \ {g} : log'[h] = log[h]
         /\ \A h \in Gens : \A i \in DOMAIN log'[h] :
              \/ i \in DOMAIN log[h] /\ log'[h][i] = log[h][i]
              \/ log'[h][i] = Junk
              \/ /\ h = g /\ ~open[g] /\ i = Len(log[g]) + 1
                 /\ log'[h][i] = op[o].control /\ op[o].control.n \notin splits
  <1>1. g \in Gens /\ op[o].control \in Asked
    BY DEF Said, Spoken, PutsIn
  <1>2. text \in Asked \cup {Junk}
    BY <1>1 DEF PutsIn
  <1>3. LET after == Written(g, text) IN
        /\ after \in Seq(Asked \cup {Junk})
        /\ ~open[g] => /\ after[Len(log[g]) + 1] = text
                       /\ \A i \in DOMAIN log[g] : i \in DOMAIN after /\ after[i] = log[g][i]
                       /\ \A i \in DOMAIN after : i \in DOMAIN log[g] \/ i = Len(log[g]) + 1
        /\ open[g] => /\ DOMAIN after = DOMAIN log[g] /\ after[Len(after)] = Junk
                      /\ \A i \in DOMAIN after : i # Len(after) => after[i] = log[g][i]
    BY <1>1, <1>2, Appended DEF Said
  <1> DEFINE after == Written(g, text)
  <1>4. log \in [Gens -> Seq(Asked \cup {Junk})]
    BY DEF Said, Spoken
  <1> HIDE DEF after
  <1>5. /\ log' \in [Gens -> Seq(Asked \cup {Junk})] /\ log'[g] = after
        /\ \A h \in Gens \ {g} : log'[h] = log[h]
    BY <1>1, <1>3, <1>4 DEF after, PutsIn
  <1>6. \A i \in DOMAIN after :
          \/ i \in DOMAIN log[g] /\ after[i] = log[g][i]
          \/ after[i] = Junk
          \/ /\ ~open[g] /\ i = Len(log[g]) + 1
             /\ after[i] = op[o].control /\ op[o].control.n \notin splits
    BY <1>3 DEF after, PutsIn
  <1> QED BY <1>1, <1>5, <1>6 DEF after

\* Each control is still in one place.
LEMMA WritingOnce ==
  ASSUME Said, NEW o \in Operators, NEW g \in Gens, NEW text,
         PutsIn(o, g, text),
         \A t \in (told \cup torn)' : t \in told \cup torn \/ t.control = op[o].control
  PROVE  Single'
  <1> DEFINE new == op[o].control
  <1>g. \A q \in Operators : Engaged(q)' => Engaged(q) /\ q # o /\ op'[q] = op[q]
    BY LetsGo DEF PutsIn
  <1>v. /\ g \in Gens /\ op[o].control \in Asked
        /\ \A h \in Gens : \A i \in DOMAIN log'[h] :
              \/ i \in DOMAIN log[h] /\ log'[h][i] = log[h][i]
              \/ log'[h][i] = Junk
              \/ /\ h = g /\ ~open[g] /\ i = Len(log[g]) + 1
                 /\ log'[h][i] = op[o].control /\ op[o].control.n \notin splits
    BY Writing
  <1>w. /\ g \in Gens /\ new \in Asked
        /\ \A h \in Gens : \A i \in DOMAIN log'[h] :
              \/ i \in DOMAIN log[h] /\ log'[h][i] = log[h][i]
              \/ log'[h][i] = Junk
              \/ h = g /\ i = Len(log[g]) + 1 /\ log'[h][i] = new /\ new.n \notin splits
    BY <1>v
  <1>n. new.n \in Nat /\ new.n > 0 /\ Junk.n = 0 /\ new.n <= issued /\ issued \in Nat
    BY <1>w DEF Asked, Junk, Said, Single, Spoken, PutsIn
  <1>1. \A h \in Gens : \A i \in DOMAIN log'[h] :
          log'[h][i].n <= issued /\ (log'[h][i] # Junk => log'[h][i].n \notin splits)
    BY <1>w, <1>n DEF Said, Single
  <1>2. \A t \in (told \cup torn)' : t.control.n <= issued
    BY <1>n DEF Said, Single
  <1>3. \A q \in Operators : Engaged(q)' =>
          /\ op'[q].control.n <= issued /\ op'[q].control.n # new.n /\ op'[q].control.n # 0
          /\ op'[q].control = op[q].control /\ Engaged(q)
    <2>1. \A q \in Operators : Engaged(q) => op[q].control \in Asked
      BY DEF Said, Spoken
    <2> QED BY <1>g, <2>1 DEF Said, Single, Asked, PutsIn
  <1>4. \A q \in Operators : Engaged(q)' =>
          \A h \in Gens : \A i \in DOMAIN log'[h] : log'[h][i].n # op'[q].control.n
    BY <1>3, <1>w, <1>n DEF Said, Single
  <1>5. \A q \in Operators : Engaged(q)' =>
          \A t \in (told \cup torn)' : t.control.n # op'[q].control.n
    BY <1>3 DEF Said, Single
  <1>6. \A p, q \in Operators :
          Engaged(p)' /\ Engaged(q)' /\ op'[p].control.n = op'[q].control.n => p = q
    BY <1>3 DEF Said, Single
  <1>7. ASSUME NEW h \in Gens, NEW k \in Gens, NEW i \in DOMAIN log'[h],
               NEW j \in DOMAIN log'[k], log'[h][i] # Junk, log'[h][i].n = log'[k][j].n
        PROVE  h = k /\ i = j
    <2>1. \A l \in Gens : \A m \in DOMAIN log[l] : log[l][m].n # new.n
      BY DEF Said, Single, PutsIn
    <2>2. log'[h][i].n # 0
      <3>1. \A l \in Gens : \A m \in DOMAIN log[l] :
              log[l][m] # Junk => log[l][m].n # 0
        BY DEF Said, Spoken, Asked
      <3> QED BY <1>w, <1>n, <1>7, <3>1
    <2>3. CASE i \in DOMAIN log[h] /\ log'[h][i] = log[h][i]
      BY <1>7, <1>w, <1>n, <2>1, <2>2, <2>3 DEF Said, Single
    <2>4. CASE h = g /\ i = Len(log[g]) + 1 /\ log'[h][i] = new
      BY <1>7, <1>w, <1>n, <2>1, <2>2, <2>4
    <2> QED BY <1>7, <1>w, <2>3, <2>4
  <1> QED BY <1>1, <1>2, <1>3, <1>4, <1>5, <1>6, <1>7 DEF Single, PutsIn

\* The lines there were are kept, but for a fragment that ends the log.
LEMMA WritingKeeps ==
  ASSUME Said, NEW o \in Operators, NEW g \in Gens, NEW text,
         PutsIn(o, g, text)
  PROVE  /\ \A h \in Gens : \A i \in DOMAIN log[h] :
              /\ i \in DOMAIN log'[h]
              /\ \/ log'[h][i] = log[h][i]
                 \/ h = g /\ open[g] /\ i = Len(log[g])
         /\ \A h \in Gens : \A i \in DOMAIN log'[h] :
              i \in DOMAIN log[h] \/ (h = g /\ ~open[g] /\ i = Len(log[g]) + 1)
         /\ ~open[g] => /\ Len(log[g]) + 1 \in DOMAIN log'[g] /\ log'[g][Len(log[g]) + 1] = text
         /\ log'[g] # << >> /\ log'[g][Len(log'[g])] \in {Junk, text}
  <1> DEFINE after == Written(g, text)
  <1>0. text \in Asked \cup {Junk} /\ Spoken /\ Frayed
    BY DEF Said, Spoken, PutsIn
  <1>1. /\ after \in Seq(Asked \cup {Junk})
        /\ ~open[g] => /\ Len(after) = Len(log[g]) + 1 /\ after[Len(log[g]) + 1] = text
                       /\ \A i \in DOMAIN log[g] : i \in DOMAIN after /\ after[i] = log[g][i]
        /\ open[g] => /\ DOMAIN after = DOMAIN log[g] /\ Len(after) = Len(log[g])
                      /\ Len(after) > 0 /\ after[Len(after)] = Junk
                      /\ \A i \in DOMAIN after : i # Len(after) => after[i] = log[g][i]
    BY <1>0, Appended
  <1>2. log'[g] = after /\ \A h \in Gens \ {g} : log'[h] = log[h]
    BY Writing
  <1>3. log[g] \in Seq(Asked \cup {Junk}) /\ open[g] \in BOOLEAN
    BY <1>0 DEF Spoken
  <1> HIDE DEF after
  <1>4. \A i \in DOMAIN log[g] :
          /\ i \in DOMAIN after
          /\ after[i] = log[g][i] \/ (open[g] /\ i = Len(log[g]))
    BY <1>1, <1>3
  <1>5. ~open[g] => Len(log[g]) + 1 \in DOMAIN after /\ after[Len(log[g]) + 1] = text
    BY <1>1, <1>3
  <1>7. \A i \in DOMAIN after : i \in DOMAIN log[g] \/ (~open[g] /\ i = Len(log[g]) + 1)
    BY <1>1, <1>3
  <1>6. after # << >> /\ after[Len(after)] \in {Junk, text}
    BY <1>1, <1>3
  <1> QED BY <1>2, <1>4, <1>5, <1>6, <1>7

\* What was stated still is, or a write of it was cut short.
LEMMA StillStated ==
  ASSUME Said, NEW o \in Operators, NEW g \in Gens, NEW text,
         PutsIn(o, g, text)
  PROVE  /\ \A h \in Gens : \A x \in Stated(h) :
              x \in Stated(h)' \/ (h = g /\ open[g] /\ x \in Ids(Of(torn, g)))
         /\ \A h \in Gens \ {g} : Stated(h)' = Stated(h)
  <1>1. \A h \in Gens : \A i \in DOMAIN log[h] :
              /\ i \in DOMAIN log'[h]
              /\ \/ log'[h][i] = log[h][i]
                 \/ h = g /\ open[g] /\ i = Len(log[g])
    BY WritingKeeps
  <1>2. \A h \in Gens \ {g} : log'[h] = log[h]
    BY Writing
  <1>3. ASSUME NEW h \in Gens, NEW i \in DOMAIN log[h], log[h][i] # Junk
        PROVE  \/ Id(log[h][i]) \in Stated(h)'
               \/ h = g /\ open[g] /\ Id(log[h][i]) \in Ids(Of(torn, g))
    <2>1. CASE log'[h][i] = log[h][i]
      BY <1>1, <1>3, <2>1 DEF Stated
    <2>2. CASE h = g /\ open[g] /\ i = Len(log[g])
      <3>1. log[g][i] \in Of(torn, g)
        BY <1>3, <2>2 DEF Said, Frayed
      <3> QED BY <2>2, <3>1 DEF Ids
    <2> QED BY <1>1, <2>1, <2>2
  <1>4. \A h \in Gens \ {g} : Stated(h)' = Stated(h)
    BY <1>2 DEF Stated
  <1> QED BY <1>3, <1>4 DEF Stated

\* The order of one log, in which the control of the only operator at work is new.
InTurn == torn = {} => \A g \in Gens : \A i, j \in DOMAIN log[g] :
                         log[g][i] # Junk /\ log[g][j] # Junk /\ i < j
                           => log[g][i].n < log[g][j].n

LEMMA WriteKeepsSaid ==
  ASSUME Said, NEW o \in Operators, Write(o)
  PROVE  Said'
  <1>0. /\ op \in [Operators -> [at : {"idle", "list", "load", "write"}, run : Gens,
                                 control : Asked \cup {Junk}]]
        /\ open \in [Gens -> BOOLEAN] /\ Engaged(o) /\ op[o].control \in Asked
        /\ op[o].run \in Gens
    BY DEF Said, Spoken, Write, Engaged
  <1>a. PICK g \in Gens : g = op[o].run
    BY <1>0
  <1>b. PICK new \in Asked : new = op[o].control
    BY <1>0
  <1>c. PICK text \in {Junk, new} : /\ text = Text(new)
                                    /\ new.n \notin splits => text = new
                                    /\ new.n \in splits => text = Junk
    BY DEF Text
  <1>1. PutsIn(o, g, text)
    BY <1>0, <1>a, <1>b, <1>c DEF Write, Return, PutsIn, fixed
  <1>2. /\ open' = [open EXCEPT ![g] = FALSE] /\ torn' = torn /\ splits' = splits
        /\ told' = told \cup {[run |-> g, control |-> new]}
        /\ op' = [op EXCEPT ![o] = Idle] /\ issued' = issued /\ overlap' = overlap
    BY <1>a, <1>b DEF Write, Return, fixed
  <1>g. /\ op' \in [Operators -> [at : {"idle", "list", "load", "write"}, run : Gens,
                                  control : Asked \cup {Junk}]]
        /\ \A q \in Operators : Engaged(q)' => Engaged(q) /\ q # o /\ op'[q] = op[q]
    BY <1>2, LetsGo
  <1>w. /\ log' \in [Gens -> Seq(Asked \cup {Junk})]
        /\ \A h \in Gens \ {g} : log'[h] = log[h]
        /\ \A h \in Gens : \A i \in DOMAIN log'[h] :
              \/ i \in DOMAIN log[h] /\ log'[h][i] = log[h][i]
              \/ log'[h][i] = Junk
              \/ h = g /\ ~open[g] /\ i = Len(log[g]) + 1 /\ log'[h][i] = op[o].control
    BY <1>0, <1>1, Writing
  <1>k. /\ \A h \in Gens : \A i \in DOMAIN log[h] :
              /\ i \in DOMAIN log'[h]
              /\ \/ log'[h][i] = log[h][i]
                 \/ h = g /\ open[g] /\ i = Len(log[g])
        /\ \A h \in Gens : \A i \in DOMAIN log'[h] :
              i \in DOMAIN log[h] \/ (h = g /\ ~open[g] /\ i = Len(log[g]) + 1)
        /\ ~open[g] => /\ Len(log[g]) + 1 \in DOMAIN log'[g] /\ log'[g][Len(log[g]) + 1] = text
    BY <1>0, <1>1, WritingKeeps
  <1>3. Spoken'
    <2>1. \A q \in Operators : Engaged(q)' => op'[q].control \in Asked
      BY <1>g DEF Said, Spoken
    <2>2. told' \subseteq [run : Gens, control : Asked]
      BY <1>0, <1>2 DEF Said, Spoken
    <2>3. open' \in [Gens -> BOOLEAN]
      BY <1>0, <1>2
    <2>4. /\ issued \in 0..MaxIssues /\ overlap \in BOOLEAN
          /\ torn \subseteq [run : Gens, control : Asked]
      BY DEF Said, Spoken
    <2> QED BY <1>g, <1>w, <1>2, <2>1, <2>2, <2>3, <2>4 DEF Spoken
  <1>4. Single'
    <2>1. \A t \in (told \cup torn)' : t \in told \cup torn \/ t.control = op[o].control
      BY <1>2, <1>b
    <2> QED BY <1>1, <2>1, WritingOnce
  <1>5. Frayed'
    BY <1>0, <1>2, <1>w DEF Said, Frayed, Of
  <1>6. Standing'
    <2> SUFFICES ASSUME NEW h \in Gens, Of(torn, h) = {}
                 PROVE  /\ ~open'[h]
                        /\ \A t \in told' : t.run = h /\ t.control.n \notin splits =>
                             \E i \in DOMAIN log'[h] : log'[h][i] = t.control
      BY <1>2 DEF Standing, Of
    <2>1. ~open[h]
      BY DEF Said, Standing
    <2>2. ASSUME NEW t \in told, t.run = h, t.control.n \notin splits
          PROVE  \E i \in DOMAIN log'[h] : log'[h][i] = t.control
      <3>1. PICK i \in DOMAIN log[h] : log[h][i] = t.control
        BY <2>2 DEF Said, Standing
      <3> QED BY <1>k, <2>1, <3>1
    <2>3. h = g /\ new.n \notin splits => \E i \in DOMAIN log'[g] : log'[g][i] = new
      BY <1>c, <1>k, <2>1
    <2> QED BY <1>0, <1>2, <2>1, <2>2, <2>3
  <1>7. Turns'
    <2> SUFFICES ASSUME ~overlap
                 PROVE  /\ \A p, q \in Operators : Engaged(p)' /\ Engaged(q)' => p = q
                        /\ \A q \in Operators : Engaged(q)' => op'[q].control.n = issued
                        /\ InTurn'
      BY <1>2 DEF Turns, InTurn
    <2>1. \A q \in Operators : ~Engaged(q)'
      BY <1>g, <1>0 DEF Said, Turns
    <2>2. ASSUME torn = {}, NEW h \in Gens, NEW i \in DOMAIN log'[h],
                 NEW j \in DOMAIN log'[h], log'[h][i] # Junk, log'[h][j] # Junk, i < j
          PROVE  log'[h][i].n < log'[h][j].n
      <3>1. \A l \in Gens : ~open[l]
        BY <2>2 DEF Said, Standing, Of
      <3>2. log \in [Gens -> Seq(Asked \cup {Junk})] /\ issued \in Nat
        BY DEF Said, Spoken
      <3>3. \A l \in DOMAIN log'[h] : \/ l \in DOMAIN log[h] /\ log'[h][l] = log[h][l]
                                      \/ /\ h = g /\ l = Len(log[g]) + 1
                                         /\ log'[h][l] \in {Junk, new}
        BY <1>c, <1>k, <3>1, <1>0
      <3>4. \A l \in DOMAIN log[g] : log[g][l].n < new.n
        <4>1. new.n = issued
          BY <1>0, <1>b DEF Said, Turns
        <4>2. \A l \in DOMAIN log[g] : log[g][l].n <= issued /\ log[g][l].n # new.n
          BY <1>0, <1>b DEF Said, Single
        <4>3. \A l \in DOMAIN log[g] : log[g][l].n \in Nat
          BY <1>0, <3>2 DEF Asked, Junk
        <4> QED BY <4>1, <4>2, <4>3, <3>2
      <3>5. \A l, m \in DOMAIN log[h] : log[h][l] # Junk /\ log[h][m] # Junk /\ l < m
                                           => log[h][l].n < log[h][m].n
        BY <2>2 DEF Said, Turns
      <3>6. DOMAIN log[h] = 1..Len(log[h]) /\ Len(log[h]) \in Nat
        BY <3>2
      <3> QED BY <2>2, <3>3, <3>4, <3>5, <3>6
    <2> QED BY <1>2, <2>1, <2>2 DEF InTurn
  <1>8. Balanced'
    <2>1. \A h \in Gens \ {g} : Unread(h)' = Unread(h)
      <3>1. \A h \in Gens \ {g} : Of(told', h) = Of(told, h)
        BY <1>2 DEF Of
      <3>2. \A h \in Gens \ {g} : Stated(h)' = Stated(h)
        BY <1>0, <1>1, StillStated
      <3> QED BY <3>1, <3>2, <1>2 DEF Unread, Whole, Of, Ids
    <2>2. \A x \in Ids(Whole(g)') :
            x \in Ids(Whole(g)) \/ (x = Id(new) /\ new.n \notin splits)
      BY <1>2 DEF Ids, Whole, Of
    <2>3. \A x \in Stated(g) : x \in Stated(g)' \/ (open[g] /\ x \in Ids(Of(torn, g)))
      BY <1>0, <1>1, StillStated
    <2>4. ~open[g] /\ new.n \notin splits => Id(new) \in Stated(g)'
      <3>1. new # Junk
        BY <1>0 DEF Asked, Junk
      <3> QED BY <3>1, <1>c, <1>k DEF Stated
    <2>5. Unread(g)' = {x \in Ids(Whole(g)') :
                          x \notin Stated(g)' /\ x \notin Ids(Of(torn, g))}
      BY <1>2 DEF Unread, Of, Ids
    <2>6. /\ ~open[g] => Unread(g)' \subseteq Unread(g)
          /\ Unread(g)' \subseteq Unread(g) \cup {Id(new)}
      BY <2>2, <2>3, <2>4, <2>5 DEF Unread
    <2>7. /\ IsFiniteSet(Unread(g)) /\ IsFiniteSet(Of(torn, g))
          /\ Cardinality(Unread(g)) + (IF open[g] THEN 1 ELSE 0)
               <= Cardinality(Of(torn, g))
      BY <1>0 DEF Said, Balanced
    <2>8. /\ IsFiniteSet(Unread(g)')
          /\ Cardinality(Unread(g)') <= Cardinality(Of(torn, g))
      <3>1. /\ IsFiniteSet(Unread(g) \cup {Id(new)})
            /\ Cardinality(Unread(g) \cup {Id(new)}) <= Cardinality(Unread(g)) + 1
        <4> DEFINE U == Unread(g)
        <4>1. IsFiniteSet(U)
          BY <2>7
        <4> HIDE DEF U
        <4>2. /\ IsFiniteSet(U \cup {Id(new)})
              /\ Cardinality(U \cup {Id(new)}) =
                   IF Id(new) \in U THEN Cardinality(U) ELSE Cardinality(U) + 1
          BY <4>1, FS_AddElement
        <4>3. Cardinality(U) \in Nat
          BY <4>1, FS_CardinalityType
        <4>4. Cardinality(U \cup {Id(new)}) <= Cardinality(U) + 1
          BY <4>2, <4>3
        <4> QED BY <4>2, <4>4 DEF U
      <3>2. CASE open[g]
        <4>1. IsFiniteSet(Unread(g)') /\ Cardinality(Unread(g)') <= Cardinality(Unread(g) \cup {Id(new)})
          BY <2>6, <3>1, FS_Subset
        <4>2. /\ Cardinality(Unread(g)') \in Nat /\ Cardinality(Unread(g)) \in Nat
              /\ Cardinality(Unread(g) \cup {Id(new)}) \in Nat
              /\ Cardinality(Of(torn, g)) \in Nat
          BY <4>1, <3>1, <2>7, FS_CardinalityType
        <4> QED BY <3>2, <4>1, <4>2, <3>1, <2>7
      <3>3. CASE ~open[g]
        <4>1. IsFiniteSet(Unread(g)') /\ Cardinality(Unread(g)') <= Cardinality(Unread(g))
          BY <2>6, <2>7, <3>3, FS_Subset
        <4>2. /\ Cardinality(Unread(g)') \in Nat /\ Cardinality(Unread(g)) \in Nat
              /\ Cardinality(Of(torn, g)) \in Nat
          BY <4>1, <2>7, FS_CardinalityType
        <4> QED BY <3>3, <4>1, <4>2, <2>7
      <3> QED BY <3>2, <3>3
    <2> SUFFICES ASSUME NEW h \in Gens
                 PROVE  /\ IsFiniteSet(Unread(h)') /\ IsFiniteSet(Of(torn, h))
                        /\ Cardinality(Unread(h)') + (IF open'[h] THEN 1 ELSE 0)
                             <= Cardinality(Of(torn, h))
      BY <1>2 DEF Balanced, Of
    <2>9. CASE h = g
      <3>1. Cardinality(Unread(g)') \in Nat
        BY <2>8, FS_CardinalityType
      <3> QED BY <2>9, <2>7, <2>8, <3>1, <1>2, <1>0
    <2>10. CASE h # g
      <3>1. Unread(h)' = Unread(h) /\ open'[h] = open[h]
        BY <2>1, <2>10, <1>2, <1>0
      <3> QED BY <3>1 DEF Said, Balanced
    <2> QED BY <2>9, <2>10
  <1> QED BY <1>3, <1>4, <1>5, <1>6, <1>7, <1>8 DEF Said

LEMMA CutKeepsSaid ==
  ASSUME Said, NEW o \in Operators, CutShort(o)
  PROVE  Said'
  <1>0. /\ op \in [Operators -> [at : {"idle", "list", "load", "write"}, run : Gens,
                                 control : Asked \cup {Junk}]]
        /\ open \in [Gens -> BOOLEAN] /\ Engaged(o) /\ op[o].control \in Asked
        /\ op[o].run \in Gens
    BY DEF Said, Spoken, CutShort, Engaged
  <1>a. PICK g \in Gens : g = op[o].run
    BY <1>0
  <1>b. PICK new \in Asked : new = op[o].control
    BY <1>0
  <1>c. PICK text \in {Junk, new} : /\ log' = [log EXCEPT ![g] = Written(g, text)]
                                    /\ text # Junk => text.n \notin splits
    BY <1>a, <1>b DEF CutShort, Text
  <1>2. /\ open' = [open EXCEPT ![g] = TRUE] /\ told' = told /\ splits' = splits
        /\ torn' = torn \cup {[run |-> g, control |-> new]}
        /\ op' = [op EXCEPT ![o] = Idle] /\ issued' = issued /\ overlap' = overlap
    BY <1>a, <1>b DEF CutShort, fixed
  <1>1. PutsIn(o, g, text)
    BY <1>0, <1>a, <1>b, <1>c, <1>2 DEF PutsIn
  <1>g. /\ op' \in [Operators -> [at : {"idle", "list", "load", "write"}, run : Gens,
                                  control : Asked \cup {Junk}]]
        /\ \A q \in Operators : Engaged(q)' => Engaged(q) /\ q # o /\ op'[q] = op[q]
    BY <1>2, LetsGo
  <1>w. /\ log' \in [Gens -> Seq(Asked \cup {Junk})]
        /\ \A h \in Gens \ {g} : log'[h] = log[h]
    BY <1>1, Writing
  <1>k. log'[g] # << >> /\ log'[g][Len(log'[g])] \in {Junk, text}
    BY <1>1, WritingKeeps
  <1>t. /\ [run |-> g, control |-> new] \in torn'
        /\ [run |-> g, control |-> new].run = g /\ [run |-> g, control |-> new].control = new
        /\ \A t \in torn' : t \in torn \/ (t.run = g /\ t.control = new)
        /\ \A t \in torn : t \in torn'
    BY <1>2
  <1>u. new \in Of(torn', g)
    <2> DEFINE r == [run |-> g, control |-> new]
    <2>1. r \in torn' /\ r.run = g /\ r.control = new
      BY <1>t
    <2> HIDE DEF r
    <2> QED BY <2>1 DEF Of
  <1>3. Spoken'
    <2>1. \A q \in Operators : Engaged(q)' => op'[q].control \in Asked
      BY <1>g DEF Said, Spoken
    <2>2. torn' \subseteq [run : Gens, control : Asked]
      BY <1>2 DEF Said, Spoken
    <2>3. open' \in [Gens -> BOOLEAN]
      BY <1>0, <1>2
    <2>4. /\ issued \in 0..MaxIssues /\ overlap \in BOOLEAN
          /\ told \subseteq [run : Gens, control : Asked]
      BY DEF Said, Spoken
    <2> QED BY <1>g, <1>w, <1>2, <2>1, <2>2, <2>3, <2>4 DEF Spoken
  <1>4. Single'
    <2>1. \A t \in (told \cup torn)' : t \in told \cup torn \/ t.control = op[o].control
      BY <1>2, <1>b
    <2> QED BY <1>1, <2>1, WritingOnce
  <1>5. Frayed'
    <2> SUFFICES ASSUME NEW h \in Gens, open'[h]
                 PROVE  /\ log'[h] # << >>
                        /\ \/ log'[h][Len(log'[h])] = Junk
                           \/ log'[h][Len(log'[h])] \in Of(torn', h)
      BY DEF Frayed, Of
    <2>1. CASE h = g
      BY <2>1, <1>u, <1>k
    <2>2. CASE h # g
      <3>1. open[h] /\ log'[h] = log[h] /\ \A c \in Of(torn, h) : c \in Of(torn', h)
        BY <2>2, <1>0, <1>2, <1>w DEF Of
      <3> QED BY <3>1 DEF Said, Frayed
    <2> QED BY <2>1, <2>2
  <1>6. torn' # {}
    BY <1>2
  <1>7. Standing'
    <2> SUFFICES ASSUME NEW h \in Gens, Of(torn', h) = {}
                 PROVE  /\ ~open'[h]
                        /\ \A t \in told : t.run = h /\ t.control.n \notin splits =>
                             \E i \in DOMAIN log'[h] : log'[h][i] = t.control
      BY <1>2 DEF Standing, Of
    <2>1. h # g /\ Of(torn, h) = {}
      BY <1>2, <1>u DEF Of
    <2>2. log'[h] = log[h] /\ open'[h] = open[h]
      BY <1>0, <1>2, <1>w, <2>1
    <2> QED BY <2>1, <2>2 DEF Said, Standing
  <1>8. Turns'
    <2>1. ~overlap => \A q \in Operators : ~Engaged(q)'
      BY <1>g, <1>0 DEF Said, Turns
    <2> QED BY <2>1, <1>2, <1>6 DEF Turns
  <1>9. Balanced'
    <2>1. \A h \in Gens \ {g} : Unread(h)' = Unread(h) /\ Of(torn', h) = Of(torn, h)
      <3>1. \A h \in Gens \ {g} : Of(torn', h) = Of(torn, h)
        BY <1>2 DEF Of
      <3>2. \A h \in Gens \ {g} : Stated(h)' = Stated(h)
        BY <1>1, StillStated
      <3> QED BY <3>1, <3>2, <1>2 DEF Unread, Whole, Of, Ids
    <2> DEFINE T == Of(torn, g)
    <2>2. Of(torn', g) = T \cup {new} /\ new \notin T
      <3>1. \A t \in torn : t.control # new
        BY <1>0, <1>b DEF Said, Single
      <3>2. \A c : c \in Of(torn', g) <=> c \in T \/ c = new
        <4>1. \A c \in Of(torn', g) : c \in T \/ c = new
          BY <1>t DEF Of
        <4>2. \A c \in T : c \in Of(torn', g)
          BY <1>t DEF Of
        <4> QED BY <4>1, <4>2, <1>u
      <3>3. new \notin T
        BY <3>1 DEF Of
      <3> QED BY <3>2, <3>3
    <2>3. \A x \in Stated(g) : x \in Stated(g)' \/ x \in Ids(T)
      BY <1>1, StillStated
    <2>4. \A x \in Ids(T) : x \in Ids(Of(torn', g))
      BY <2>2 DEF Ids
    <2>5. Unread(g)' = {x \in Ids(Whole(g)) :
                          x \notin Stated(g)' /\ x \notin Ids(Of(torn', g))}
      BY <1>2 DEF Unread, Whole, Of, Ids
    <2>6. Unread(g)' \subseteq Unread(g)
      BY <2>3, <2>4, <2>5 DEF Unread
    <2>7. /\ IsFiniteSet(Unread(g)) /\ IsFiniteSet(T)
          /\ Cardinality(Unread(g)) + (IF open[g] THEN 1 ELSE 0) <= Cardinality(T)
      BY DEF Said, Balanced
    <2>8. IsFiniteSet(Unread(g)') /\ Cardinality(Unread(g)') <= Cardinality(Unread(g))
      BY <2>6, <2>7, FS_Subset
    <2> HIDE DEF T
    <2>9. IsFiniteSet(T \cup {new}) /\ Cardinality(T \cup {new}) = Cardinality(T) + 1
      BY <2>2, <2>7, FS_AddElement
    <2>10. /\ Cardinality(Unread(g)') \in Nat /\ Cardinality(Unread(g)) \in Nat
           /\ Cardinality(T) \in Nat
      BY <2>7, <2>8, FS_CardinalityType
    <2> SUFFICES ASSUME NEW h \in Gens
                 PROVE  /\ IsFiniteSet(Unread(h)') /\ IsFiniteSet(Of(torn', h))
                        /\ Cardinality(Unread(h)') + (IF open'[h] THEN 1 ELSE 0)
                             <= Cardinality(Of(torn', h))
      BY DEF Balanced, Of
    <2>11. CASE h = g
      <3>1. Cardinality(Unread(g)') + 1 <= Cardinality(T) + 1
        BY <2>7, <2>8, <2>10
      <3>2. open'[g] = TRUE
        BY <1>0, <1>2
      <3> QED BY <2>11, <2>2, <2>8, <2>9, <3>1, <3>2
    <2>12. CASE h # g
      <3>1. Unread(h)' = Unread(h) /\ open'[h] = open[h] /\ Of(torn', h) = Of(torn, h)
        BY <2>1, <2>12, <1>2, <1>0
      <3> QED BY <3>1 DEF Said, Balanced
    <2> QED BY <2>11, <2>12
  <1> QED BY <1>3, <1>4, <1>5, <1>7, <1>8, <1>9 DEF Said

\* Some numbers, one for each of some places, have an upper bound.
LEMMA Bounded ==
  ASSUME NEW n \in Nat, NEW f, \A i \in 1..n : f[i] \in Nat
  PROVE  \E b \in Nat : \A i \in 1..n : f[i] <= b
  <1> DEFINE Below(u) == \E b \in Nat : \A i \in 1..u : f[i] <= b
             Free == {u \in 0..n : ~Below(u)}
  <1>1. Below(0)
    OBVIOUS
  <1>2. ASSUME NEW u \in 1..n, Below(u - 1) PROVE Below(u)
    <2>1. PICK b \in Nat : \A i \in 1..(u - 1) : f[i] <= b
      BY <1>2
    <2>2. f[u] \in Nat /\ u \in Nat
      OBVIOUS
    <2> DEFINE c == IF f[u] <= b THEN b ELSE f[u]
    <2>3. c \in Nat /\ b <= c /\ f[u] <= c
      BY <2>2
    <2> HIDE DEF c
    <2>4. ASSUME NEW i \in 1..u PROVE f[i] <= c
      <3>1. CASE i = u
        BY <3>1, <2>3
      <3>2. CASE i # u
        <4>1. i \in 1..(u - 1) /\ f[i] \in Nat
          BY <3>2, <2>2
        <4> QED BY <4>1, <2>1, <2>3
      <3> QED BY <3>1, <3>2
    <2> QED BY <2>3, <2>4
  <1>3. Free \in SUBSET Nat /\ \A u \in Free : u \in 0..n /\ ~Below(u)
    OBVIOUS
  <1>4. \A u \in 0..n : u \notin Free => Below(u)
    OBVIOUS
  <1> HIDE DEF Free, Below
  <1>5. Free = {}
    <2> SUFFICES ASSUME Free # {} PROVE FALSE
      OBVIOUS
    <2>1. PICK u \in Free : \A v \in Free : u <= v
      BY <1>3, Smallest
    <2>2. u \in 1..n
      BY <1>1, <1>3
    <2>3. u - 1 \in 0..n /\ u - 1 \notin Free
      BY <2>1, <2>2
    <2> QED BY <1>2, <1>3, <1>4, <2>2, <2>3
  <1>6. Below(n)
    BY <1>4, <1>5
  <1> QED BY <1>6 DEF Below

\* A set of numbers with an upper bound has a greatest.
LEMMA Greatest ==
  ASSUME NEW S \in SUBSET Nat, S # {}, NEW b \in Nat, \A x \in S : x <= b
  PROVE  /\ Max(S) \in S /\ \A x \in S : x <= Max(S)
  <1> DEFINE Above == {c \in Nat : \A x \in S : x <= c}
  <1>1. PICK m \in Above : \A c \in Above : m <= c
    <2>1. b \in Above /\ Above \in SUBSET Nat
      OBVIOUS
    <2> HIDE DEF Above
    <2> QED BY <2>1, Smallest
  <1>2. m \in S
    <2> SUFFICES ASSUME m \notin S PROVE FALSE
      OBVIOUS
    <2>1. \A x \in S : x <= m - 1 /\ x \in Nat
      BY <1>1
    <2>3. m \in Nat /\ m # 0
      <3>1. PICK x \in S : TRUE
        OBVIOUS
      <3>2. m \in Nat
        BY <1>1
      <3>3. x \in Nat /\ x <= m - 1
        BY <2>1
      <3> QED BY <3>2, <3>3
    <2>2. m - 1 \in Above
      BY <2>1, <2>3
    <2> QED BY <2>2, <2>3, <1>1
  <1>3. \E x \in S : \A y \in S : x >= y
    BY <1>1, <1>2
  <1> QED BY <1>3 DEF Max

\* The last attempt there is, if any.
LEMMA LastAttempt ==
  ASSUME Spoken, NEW g \in Gens
  PROVE  Max({0} \cup {r.attempt : r \in Retries(g)}) \in Nat
  <1>1. log[g] \in Seq(Asked \cup {Junk})
    BY DEF Spoken
  <1>2. \A i \in 1..Len(log[g]) : log[g][i].attempt \in Nat
    BY <1>1 DEF Asked, Junk
  <1> DEFINE f == [i \in 1..Len(log[g]) |-> log[g][i].attempt]
             S == {0} \cup {r.attempt : r \in Retries(g)}
  <1>3. PICK b \in Nat : \A i \in 1..Len(log[g]) : f[i] <= b
    <2>1. \A i \in 1..Len(log[g]) : f[i] \in Nat
      BY <1>2
    <2>2. Len(log[g]) \in Nat
      BY <1>1
    <2> HIDE DEF f
    <2> QED BY <2>1, <2>2, Bounded
  <1>4. \A r \in Retries(g) : \E i \in 1..Len(log[g]) : r = log[g][i]
    BY <1>1 DEF Retries, Recorded, Live, Legible
  <1>5. \A r \in Retries(g) : r.attempt \in Nat /\ r.attempt <= b
    BY <1>2, <1>3, <1>4
  <1>6. S \in SUBSET Nat /\ S # {} /\ \A x \in S : x <= b
    BY <1>5
  <1> HIDE DEF S
  <1>7. Max(S) \in S
    BY <1>6, Greatest
  <1> QED BY <1>6, <1>7 DEF S

LEMMA IssueKeepsSaid ==
  ASSUME Said, NEW o \in Operators, NEW g \in Gens,
         NEW verb \in Verbs, Issue(o, g, verb)
  PROVE  Said'
  <1> DEFINE p == IF verb \in {"retry", "force"} THEN "list" ELSE "load"
             c == [n |-> issued + 1, verb |-> verb, attempt |-> 0]
  <1>0. /\ op \in [Operators -> [at : {"idle", "list", "load", "write"}, run : Gens,
                                 control : Asked \cup {Junk}]]
        /\ issued \in 0..MaxIssues /\ overlap \in BOOLEAN /\ MaxIssues \in Nat
    BY ControlAssumption DEF Said, Spoken
  <1>1. /\ op' = [op EXCEPT ![o] = [at |-> p, run |-> g, control |-> c]]
        /\ issued' = issued + 1 /\ issued < MaxIssues /\ op[o] = Idle
        /\ overlap' = (overlap \/ \E q \in Operators : op[q] # Idle)
        /\ UNCHANGED <<splits, log, open, told, torn>>
    BY DEF Issue, fixed
  <1>2. c \in Asked /\ c.n = issued + 1 /\ p \in {"list", "load"}
    BY <1>0, <1>1 DEF Asked
  <1>3. ~Engaged(o)
    BY <1>1 DEF Engaged, Idle
  <1> HIDE DEF p, c
  <1>4. /\ op' \in [Operators -> [at : {"idle", "list", "load", "write"}, run : Gens,
                                  control : Asked \cup {Junk}]]
        /\ op'[o].control = c /\ op'[o].at = p
        /\ \A q \in Operators \ {o} : op'[q] = op[q]
    BY <1>0, <1>1, <1>2
  <1>5. Engaged(o)' /\ \A q \in Operators \ {o} : Engaged(q)' <=> Engaged(q)
    BY <1>2, <1>4 DEF Engaged
  <1>6. Spoken'
    <2>1. \A q \in Operators : Engaged(q)' => op'[q].control \in Asked
      BY <1>2, <1>4, <1>5 DEF Said, Spoken
    <2>2. /\ log \in [Gens -> Seq(Asked \cup {Junk})]
          /\ open \in [Gens -> BOOLEAN]
          /\ told \subseteq [run : Gens, control : Asked]
          /\ torn \subseteq [run : Gens, control : Asked]
      BY DEF Said, Spoken
    <2> QED BY <1>0, <1>1, <1>4, <2>1, <2>2 DEF Spoken
  <1>7. \A h \in Gens : \A i \in DOMAIN log[h] : log[h][i].n \in Nat
    BY DEF Said, Spoken, Asked, Junk
  <1>8. \A t \in told \cup torn : t.control.n \in Nat
    BY DEF Said, Spoken, Asked
  <1>9. \A q \in Operators : Engaged(q) => op[q].control.n \in Nat
    BY DEF Said, Spoken, Asked
  <1>10. Single'
    <2>1. \A q \in Operators : Engaged(q)' =>
            /\ op'[q].control.n <= issued + 1
            /\ \A h \in Gens : \A i \in DOMAIN log[h] : log[h][i].n # op'[q].control.n
            /\ \A t \in told \cup torn : t.control.n # op'[q].control.n
      BY <1>0, <1>2, <1>4, <1>5, <1>7, <1>8, <1>9 DEF Said, Single
    <2>2. \A q, r \in Operators :
            Engaged(q)' /\ Engaged(r)' /\ op'[q].control.n = op'[r].control.n => q = r
      BY <1>0, <1>2, <1>4, <1>5, <1>9 DEF Said, Single
    <2>3. /\ \A h \in Gens : \A i \in DOMAIN log[h] :
               log[h][i].n <= issued + 1 /\ (log[h][i] # Junk => log[h][i].n \notin splits)
          /\ \A t \in told \cup torn : t.control.n <= issued + 1
      BY <1>0, <1>7, <1>8 DEF Said, Single
    <2>4. \A h, k \in Gens : \A i \in DOMAIN log[h], j \in DOMAIN log[k] :
            log[h][i] # Junk /\ log[h][i].n = log[k][j].n => h = k /\ i = j
      BY DEF Said, Single
    <2> QED BY <1>1, <2>1, <2>2, <2>3, <2>4 DEF Single
  <1>11. Frayed' /\ Standing'
    BY <1>1 DEF Said, Frayed, Standing, Of
  <1>12. Turns'
    <2> SUFFICES ASSUME ~overlap'
                 PROVE  Turns'
      BY DEF Turns
    <2>1. \A q \in Operators : ~Engaged(q)
      <3>1. ~\E q \in Operators : op[q] # Idle
        BY <1>1
      <3> QED BY <3>1 DEF Engaged, Idle
    <2>2. ~overlap
      BY <1>1
    <2>3. \A q \in Operators : Engaged(q)' => q = o /\ op'[q].control.n = issued'
      BY <2>1, <1>1, <1>2, <1>4, <1>5
    <2>4. torn = {} => \A h \in Gens : \A i, j \in DOMAIN log[h] :
                         log[h][i] # Junk /\ log[h][j] # Junk /\ i < j
                           => log[h][i].n < log[h][j].n
      BY <2>2 DEF Said, Turns
    <2> QED BY <2>3, <2>4, <1>1 DEF Turns
  <1>13. Balanced'
    BY <1>1 DEF Said, Balanced, Unread, Whole, Stated, Of, Ids
  <1> QED BY <1>6, <1>10, <1>11, <1>12, <1>13 DEF Said

\* An operator asks, reads the log and is told of it, writes, or dies in the write.
LEMMA SaidStep ==
  ASSUME Said, [ControlNext]_(controlVars)
  PROVE  Said'
  <1>1. ASSUME NEW o \in Operators, NEW g \in Gens, NEW verb \in Verbs,
               Issue(o, g, verb)
        PROVE  Said'
    BY <1>1, IssueKeepsSaid
  <1>2. ASSUME NEW o \in Operators, List(o)
        PROVE  Said'
    <2>0. /\ op[o].run \in Gens /\ op[o].at = "list" /\ op[o].control \in Asked /\ Engaged(o)
          /\ op \in [Operators -> [at : {"idle", "list", "load", "write"}, run : Gens,
                                   control : Asked \cup {Junk}]]
          /\ UNCHANGED <<splits, log, open, issued, torn, overlap>>
      BY <1>2 DEF Said, Spoken, List, Engaged, fixed
    <2>1. PICK g \in Gens : g = op[o].run
      BY <2>0
    <2>2. CASE Retries(g) # {} /\ op[o].control.verb = "retry"
      <3>1. PICK r \in Retries(g) :
              /\ op' = [op EXCEPT ![o] = Idle]
              /\ told' = told \cup {[run |-> g, control |-> r]}
        BY <1>2, <2>1, <2>2 DEF List, Return
      <3>2. PICK i \in DOMAIN log[g] : log[g][i] = r /\ log[g][i] # Junk
        BY DEF Retries, Recorded, Live, Legible
      <3>3. told' = told \cup {[run |-> g, control |-> log[g][i]]}
        BY <3>1, <3>2
      <3> QED BY <2>0, <3>1, <3>2, <3>3, IsTold
    <2>3. CASE ~(Retries(g) # {} /\ op[o].control.verb = "retry")
      <3> DEFINE last == Max({0} \cup {r.attempt : r \in Retries(g)})
      <3>1. /\ op' = [op EXCEPT ![o] = [at |-> "load", run |-> g,
                              control |-> [op[o].control EXCEPT !.attempt = last + 1]]]
            /\ told' = told
        BY <1>2, <2>1, <2>3 DEF List
      <3>2. last \in Nat
        BY LastAttempt DEF Said
      <3> HIDE DEF last
      <3>3. PICK c \in Asked : c = [op[o].control EXCEPT !.attempt = last + 1]
        <4>1. PICK d \in Asked : d = op[o].control
          BY <2>0
        <4>2. [d EXCEPT !.attempt = last + 1] \in Asked
          BY <3>2 DEF Asked
        <4> QED BY <4>1, <4>2
      <3>4. c.n = op[o].control.n
        BY <3>3, <2>0 DEF Asked
      <3>5. op' = [op EXCEPT ![o] = [at |-> "load", run |-> op[o].run, control |-> c]]
        BY <2>1, <3>1, <3>3
      <3> QED BY <2>0, <3>1, <3>4, <3>5, Proceeds
    <2> QED BY <2>2, <2>3
  <1>3. ASSUME NEW o \in Operators, Load(o)
        PROVE  Said'
    <2>0. /\ op[o].run \in Gens /\ op[o].at = "load" /\ op[o].control \in Asked /\ Engaged(o)
          /\ op \in [Operators -> [at : {"idle", "list", "load", "write"}, run : Gens,
                                   control : Asked \cup {Junk}]]
          /\ UNCHANGED <<splits, log, open, issued, torn, overlap>>
      BY <1>3 DEF Said, Spoken, Load, Engaged, fixed
    <2>1. PICK g \in Gens : g = op[o].run
      BY <2>0
    <2> DEFINE same == {r \in Recorded(g) : Id(r) = Id(op[o].control)}
    <2>2. CASE same # {}
      <3>1. PICK r \in Recorded(g) :
              /\ op' = [op EXCEPT ![o] = Idle]
              /\ told' = told \cup {[run |-> g, control |-> r]}
        BY <1>3, <2>1, <2>2 DEF Load, Return
      <3>2. PICK i \in DOMAIN log[g] : log[g][i] = r /\ log[g][i] # Junk
        BY DEF Recorded, Live, Legible
      <3>3. told' = told \cup {[run |-> g, control |-> log[g][i]]}
        BY <3>1, <3>2
      <3> QED BY <2>0, <3>1, <3>2, <3>3, IsTold
    <2>3. CASE same = {}
      <3>1. op' = [op EXCEPT ![o].at = "write"] /\ told' = told
        BY <1>3, <2>1, <2>3 DEF Load
      <3>2. op' = [op EXCEPT ![o] = [at |-> "write", run |-> op[o].run, control |-> op[o].control]]
        <4>1. op[o] \in [at : {"idle", "list", "load", "write"}, run : Gens,
                         control : Asked \cup {Junk}]
          BY <2>0
        <4>2. [op[o] EXCEPT !.at = "write"]
                = [at |-> "write", run |-> op[o].run, control |-> op[o].control]
          BY <4>1
        <4>3. op' = [op EXCEPT ![o] = [op[o] EXCEPT !.at = "write"]]
          BY <3>1, <2>0
        <4> QED BY <4>2, <4>3
      <3>3. PICK c \in Asked : c = op[o].control
        BY <2>0
      <3>4. op' = [op EXCEPT ![o] = [at |-> "write", run |-> op[o].run, control |-> c]]
        BY <3>2, <3>3
      <3> QED BY <2>0, <3>1, <3>3, <3>4, Proceeds
    <2> QED BY <2>2, <2>3
  <1>4. ASSUME NEW o \in Operators, Write(o)
        PROVE  Said'
    BY <1>4, WriteKeepsSaid
  <1>5. ASSUME NEW o \in Operators, CutShort(o)
        PROVE  Said'
    BY <1>5, CutKeepsSaid
  <1>8. ASSUME NEW o \in Operators, Fail(o)
        PROVE  Said'
    <2>1. op' = [op EXCEPT ![o] = Idle] /\ UNCHANGED <<splits, log, open, issued, told, torn, overlap>>
      BY <1>8 DEF Fail, fixed
    <2> QED BY <2>1, Drops
  <1>6. CASE Run \/ Disk
    <2>1. UNCHANGED opVars /\ splits' = splits
      BY <1>6 DEF Run, Arrive, ArriveStopped, Replay, MayStart,
         MayNotStart, Fast, Consult, CheckRaises, Dispatch, Crash, Resume, Disk, fixed
    <2> QED BY <2>1, SaidRests DEF opVars
  <1>7. CASE UNCHANGED controlVars
    BY <1>7, SaidRests DEF controlVars, opVars, fixed
  <1> QED BY <1>1, <1>2, <1>3, <1>4, <1>5, <1>6, <1>7, <1>8 DEF ControlNext, OperatorStep

LEMMA SaidInit ==
  ASSUME ControlInit
  PROVE  Said
  <1>0. MaxIssues \in Nat /\ 1 \in Gens
    BY ControlAssumption DEF Gens
  <1>1. /\ log = [g \in Gens |-> << >>] /\ open = [g \in Gens |-> FALSE]
        /\ op = [o \in Operators |-> Idle] /\ issued = 0 /\ told = {} /\ torn = {}
        /\ overlap = FALSE
    BY DEF ControlInit
  <1>2. \A o \in Operators : ~Engaged(o)
    BY <1>1 DEF Engaged, Idle
  <1>3. \A g \in Gens : log[g] = << >> /\ DOMAIN log[g] = {}
    BY <1>1
  <1>4. Spoken
    <2>1. op \in [Operators -> [at : {"idle", "list", "load", "write"}, run : Gens,
                                control : Asked \cup {Junk}]]
      BY <1>0, <1>1 DEF Idle
    <2>2. log \in [Gens -> Seq(Asked \cup {Junk})]
      BY <1>1
    <2>3. /\ open \in [Gens -> BOOLEAN] /\ issued \in 0..MaxIssues
          /\ overlap \in BOOLEAN /\ told \subseteq [run : Gens, control : Asked]
          /\ torn \subseteq [run : Gens, control : Asked]
      <3>1. open \in [Gens -> BOOLEAN]
        BY <1>1
      <3>2. issued \in 0..MaxIssues
        BY <1>0, <1>1
      <3>3. overlap \in BOOLEAN
        BY <1>1
      <3> QED BY <3>1, <3>2, <3>3, <1>1
    <2> QED BY <1>2, <2>1, <2>2, <2>3 DEF Spoken
  <1>5. Single /\ Frayed /\ Standing /\ Turns
    BY <1>1, <1>2, <1>3 DEF Single, Frayed, Standing, Turns, Of
  <1>6. Balanced
    <2> SUFFICES ASSUME NEW g \in Gens
                 PROVE  /\ IsFiniteSet(Unread(g)) /\ IsFiniteSet(Of(torn, g))
                        /\ Cardinality(Unread(g)) + (IF open[g] THEN 1 ELSE 0)
                             <= Cardinality(Of(torn, g))
      BY DEF Balanced
    <2>1. Unread(g) = {} /\ Of(torn, g) = {}
      BY <1>1 DEF Unread, Whole, Of, Ids
    <2>2. ~open[g]
      BY <1>1
    <2> QED BY <2>1, <2>2, FS_EmptySet
  <1> QED BY <1>4, <1>5, <1>6 DEF Said

LEMMA SaidAlways == ControlSpec => []Said
  <1>1. ControlInit => Said
    BY SaidInit
  <1>2. Said /\ [ControlNext]_(controlVars) => Said'
    BY SaidStep
  <1> QED BY <1>1, <1>2, PTL DEF ControlSpec

\* A control without a line separator that operators were told of and that no reader
\* sees is one of the writes cut short or of the lines that their fragments took: one
\* for each, at most, unless the log cannot be opened or was cut inside a character.
THEOREM CutsLoseOneEach == ControlSpec => []OneLossPerCut
  <1>1. Said => OneLossPerCut
    <2> SUFFICES ASSUME Said, NEW g \in Gens, g \notin blind
                 PROVE  Cardinality(Ids(Whole(g)) \ Ids(Recorded(g) \cup Of(torn, g)))
                          <= Cardinality(Of(torn, g))
      BY DEF OneLossPerCut, Whole
    <2>1. Ids(Recorded(g) \cup Of(torn, g))
            = Stated(g) \cup Ids(Of(torn, g))
      <3>1. Ids(Recorded(g)) = Stated(g)
        BY ReadIds DEF Said
      <3> QED BY <3>1 DEF Ids
    <2>2. Ids(Whole(g)) \ Ids(Recorded(g) \cup Of(torn, g)) = Unread(g)
      BY <2>1 DEF Unread
    <2>3. /\ IsFiniteSet(Unread(g)) /\ IsFiniteSet(Of(torn, g))
          /\ Cardinality(Unread(g)) + (IF open[g] THEN 1 ELSE 0) <= Cardinality(Of(torn, g))
      BY DEF Said, Balanced
    <2>4. Cardinality(Unread(g)) \in Nat /\ Cardinality(Of(torn, g)) \in Nat
      BY <2>3, FS_CardinalityType
    <2>5. Cardinality(Unread(g)) <= Cardinality(Of(torn, g))
      BY <2>3, <2>4
    <2> QED BY <2>2, <2>5
  <1> QED BY <1>1, SaidAlways, PTL

\* The run knows what operators were told; no stop of it is known once its call has
\* arrived, and the decision the call runs under is the last of its log that is.
Tracked ==
  /\ gen \in Gens /\ at \in {"out", "start", "consult", "dispatch", "over"}
  /\ known \subseteq told /\ (at # "dispatch" => why = Junk)

\* A stop that the checks could not see: a separator broke its line, or the line was
\* joined to one that was cut short.
Hidden(t) ==
  \/ t.control.n \in splits
  \/ Of(torn, gen) # {} /\ \A i \in DOMAIN log[gen] : log[gen][i] # t.control
Stops(S) == {t \in S : t.run = gen /\ t.control.verb = "stop"}

Settled ==
  /\ at = "start" => \A t \in Stops(known) : "out" \in missed \/ Hidden(t)
  /\ at \in {"consult", "dispatch"} =>
       \A t \in Stops(known) : {"out", "start"} \subseteq missed \/ Hidden(t)

Governs(g) ==
  \A t \in known : t.run = g /\ t.control.verb \in Decisions /\ t.control.n \notin splits
                     => t.control.n <= why.n

Chosen ==
  at = "dispatch" /\ why # Junk /\ ~overlap /\ torn = {} =>
    \E g \in Gens : Governs(g) /\ \E i \in DOMAIN log[g] : log[g][i] = why

PlaneInv == Said /\ Tracked /\ Settled /\ Chosen

\* A control that is no retry is in one line, so a reader sees it.
LEMMA FreshIsLive ==
  ASSUME Said, NEW g \in Gens, NEW i \in DOMAIN log[g], log[g][i] # Junk,
         ~IsRetry(log[g][i])
  PROVE  i \in Legible(g)
  <1>1. log[g] \in Seq(Asked \cup {Junk})
    BY DEF Said, Spoken
  <1>2. ASSUME NEW j \in 1..(i - 1), log[g][j] # Junk,
               Id(log[g][j]) = Id(log[g][i])
        PROVE  FALSE
    <2>1. j \in DOMAIN log[g] /\ j # i
      BY <1>1
    <2>2. log[g][j].n = log[g][i].n
      BY <1>2 DEF Id
    <2> QED BY <1>2, <2>1, <2>2 DEF Said, Single
  <1> QED BY <1>2 DEF Legible

\* A stop that a check did not see is one that it could not.
LEMMA StopIsSeen ==
  ASSUME Said, gen \in Gens, gen \notin blind, Desired(gen) # "stopped",
         NEW t \in told, t.run = gen, t.control.verb = "stop"
  PROVE  Hidden(t)
  <1> SUFFICES ASSUME ~Hidden(t) PROVE FALSE
    OBVIOUS
  <1>1. t.control \in Asked
    BY DEF Said, Spoken
  <1>2. PICK i \in DOMAIN log[gen] : log[gen][i] = t.control
    <2>1. CASE Of(torn, gen) = {}
      BY <2>1 DEF Said, Standing, Hidden
    <2>2. CASE Of(torn, gen) # {}
      BY <2>2 DEF Hidden
    <2> QED BY <2>1, <2>2
  <1>3. log[gen][i] # Junk /\ ~IsRetry(log[gen][i])
    BY <1>1, <1>2 DEF Junk, IsRetry, Asked
  <1>4. i \in Live(gen)
    <2>1. PICK g \in Gens : g = gen
      OBVIOUS
    <2>2. i \in Legible(g)
      BY <1>2, <1>3, <2>1, FreshIsLive
    <2> QED BY <2>1, <2>2 DEF Live
  <1>5. Lines(gen, {"stop"}) # {}
    BY <1>2, <1>4 DEF Lines
  <1> QED BY <1>5 DEF Desired

\* What operators did is added to the log, if no write was cut short; what was returned
\* and is not in its log stays out of it.
Onward ==
  /\ UNCHANGED <<runVars, splits>> /\ told \subseteq told'
  /\ (~overlap' => ~overlap) /\ torn \subseteq torn'
  /\ \A t \in told : \A i \in DOMAIN log'[t.run] :
       log'[t.run][i] = t.control => i \in DOMAIN log[t.run] /\ log[t.run][i] = t.control
  /\ torn' = {} => /\ torn = {}
                   /\ \A g \in Gens : \A i \in DOMAIN log[g] :
                        i \in DOMAIN log'[g] /\ log'[g][i] = log[g][i]

LEMMA OperatorKeeps ==
  ASSUME Said, NEW o \in Operators, OperatorStep(o)
  PROVE  Onward
  <1>1. UNCHANGED <<runVars, splits>>
    BY DEF OperatorStep, Issue, List, Load, Fail, Write, CutShort, fixed
  <1>2. told \subseteq told' /\ torn \subseteq torn' /\ (torn' = {} => torn = {})
    BY DEF OperatorStep, Issue, List, Load, Fail, Write, CutShort,
       Return
  <1>3. ~overlap' => ~overlap
    BY DEF OperatorStep, Issue, List, Load, Fail, Write, CutShort
  <1>5. CASE log' = log
    BY <1>1, <1>2, <1>3, <1>5 DEF Onward
  <1>6. ASSUME NEW t \in told, NEW i \in DOMAIN log'[t.run], log'[t.run][i] = t.control,
               Write(o) \/ CutShort(o)
        PROVE  i \in DOMAIN log[t.run] /\ log[t.run][i] = t.control
    <2>1. /\ op[o].run \in Gens /\ op[o].control \in Asked /\ Engaged(o)
          /\ t.run \in Gens /\ t.control \in Asked
      BY <1>6 DEF Said, Spoken, Write, CutShort, Engaged
    <2>2. PICK g \in Gens : g = op[o].run
      BY <2>1
    <2>3. PICK text \in {Junk, op[o].control} : PutsIn(o, g, text)
      BY <1>6, <2>1, <2>2 DEF Write, CutShort, Return, PutsIn, Text, fixed
    <2>4. t.control # Junk /\ t.control # op[o].control
      BY <2>1 DEF Asked, Junk, Said, Single
    <2> QED BY <1>6, <2>1, <2>3, <2>4, Writing
  <1>4. ASSUME torn' = {}, NEW g \in Gens, NEW i \in DOMAIN log[g]
        PROVE  i \in DOMAIN log'[g] /\ log'[g][i] = log[g][i]
    <2>1. CASE log' = log
      BY <2>1
    <2>2. CASE Write(o)
      <3>1. op[o].run \in Gens /\ op[o].control \in Asked /\ Engaged(o)
        BY <2>2 DEF Said, Spoken, Write, Engaged
      <3>2. PICK h \in Gens : h = op[o].run
        BY <3>1
      <3>3. PICK new \in Asked : new = op[o].control
        BY <3>1
      <3>4. PICK text \in {Junk, new} : PutsIn(o, h, text)
        BY <2>2, <3>1, <3>2, <3>3 DEF Write, Return, PutsIn, Text, fixed
      <3>5. ~open[h]
        BY <1>2, <1>4 DEF Said, Standing, Of
      <3> QED BY <3>4, <3>5, WritingKeeps
    <2>3. CASE CutShort(o)
      BY <2>3, <1>4 DEF CutShort
    <2> QED BY <2>1, <2>2, <2>3 DEF OperatorStep, Issue, List, Load, Fail
  <1>7. log' = log \/ Write(o) \/ CutShort(o)
    BY DEF OperatorStep, Issue, List, Load, Fail
  <1> QED BY <1>1, <1>2, <1>3, <1>4, <1>5, <1>6, <1>7 DEF Onward

\* A decision is the last that the log it is in holds.
LEMMA Decided ==
  ASSUME Said, Tracked, Decision(gen) # Junk
  PROVE  \E g \in Gens :
           LET S == Lines(g, Decisions)
           IN  /\ Max(S) \in S /\ \A x \in S : x <= Max(S)
               /\ Max(S) \in DOMAIN log[g] /\ log[g][Max(S)] = Decision(gen)
  <1> DEFINE runs == {r \in Chain(gen) : Lines(r, Decisions) # {}}
             g == Max(runs)
             places == Lines(g, Decisions)
             k == Max(places)
  <1>1. MaxGens \in Nat /\ gen \in 1..MaxGens /\ Gens = 1..MaxGens
    BY ControlAssumption DEF Tracked, Gens
  <1>2. runs # {} /\ Decision(gen) = log[g][k]
    BY DEF Decision
  <1>3. g \in runs
    <2>1. runs \in SUBSET Nat /\ \A x \in runs : x <= MaxGens
      BY <1>1 DEF Chain
    <2> HIDE DEF runs
    <2> QED BY <1>1, <1>2, <2>1, Greatest
  <1>4. g \in Gens /\ places # {}
    <2>1. \A r \in Chain(gen) : r \in Gens
      BY <1>1 DEF Chain
    <2>2. g \in Chain(gen) /\ places # {}
      BY <1>3
    <2> HIDE DEF g, places
    <2> QED BY <2>1, <2>2
  <1>5. PICK h \in Gens : h = g
    BY <1>4
  <1> DEFINE S == Lines(h, Decisions)
  <1>6. S # {} /\ Decision(gen) = log[h][Max(S)]
    BY <1>2, <1>4, <1>5
  <1> HIDE DEF g, places, k, runs
  <1>7. log[h] \in Seq(Asked \cup {Junk})
    BY DEF Said, Spoken
  <1>8. /\ S \in SUBSET Nat /\ S \subseteq DOMAIN log[h]
        /\ \A x \in S : x <= Len(log[h])
        /\ Len(log[h]) \in Nat
    BY <1>7 DEF Lines, Live, Legible
  <1>9. Max(S) \in S /\ \A x \in S : x <= Max(S)
    <2> HIDE DEF S
    <2> QED BY <1>6, <1>8, Greatest
  <1> QED BY <1>6, <1>8, <1>9

\* Where operators took turns it is the latest that they were told of in that log.
LEMMA Deciding ==
  ASSUME Said, Tracked, NEW d, d = Decision(gen),
         d # Junk, ~overlap, torn = {}
  PROVE  \E g \in Gens :
           /\ \E i \in DOMAIN log[g] : log[g][i] = d
           /\ \A t \in told : /\ t.run = g /\ t.control.verb \in Decisions
                              /\ t.control.n \notin splits
                              => t.control.n <= d.n
  <1>1. PICK h \in Gens :
          LET S == Lines(h, Decisions)
          IN  /\ Max(S) \in S /\ \A x \in S : x <= Max(S)
              /\ Max(S) \in DOMAIN log[h] /\ log[h][Max(S)] = d
    BY Decided
  <1> DEFINE S == Lines(h, Decisions)
  <1>6. d = log[h][Max(S)]
    BY <1>1
  <1>7. log[h] \in Seq(Asked \cup {Junk})
    BY DEF Said, Spoken
  <1>8. S \subseteq DOMAIN log[h] /\ \A x \in S : x \in Nat
    BY <1>7 DEF Lines, Live, Legible
  <1>9. Max(S) \in S /\ \A x \in S : x <= Max(S)
    BY <1>1
  <1>12. h \notin blind
    BY <1>9 DEF Lines, Live
  <1>10. ASSUME NEW t \in told, t.run = h, t.control.verb \in Decisions, t.control.n \notin splits
         PROVE  t.control.n <= d.n
    <2>1. t.control \in Asked
      BY DEF Said, Spoken
    <2>2. PICK i \in DOMAIN log[h] : log[h][i] = t.control
      BY <1>10 DEF Said, Standing, Of
    <2>3. log[h][i] # Junk /\ ~IsRetry(log[h][i])
      BY <2>1, <2>2, <1>10 DEF Junk, IsRetry, Decisions, Asked
    <2>4. i \in S
      BY <2>2, <2>3, <1>10, <1>12, FreshIsLive DEF Lines, Live
    <2>5. CASE i = Max(S)
      BY <2>1, <2>2, <2>5, <1>6 DEF Asked
    <2>6. CASE i # Max(S)
      <3>1. i < Max(S) /\ Max(S) \in DOMAIN log[h]
        BY <2>4, <2>6, <1>8, <1>9
      <3>2. log[h][i].n < log[h][Max(S)].n
        BY <2>2, <2>3, <3>1, <1>6 DEF Said, Turns
      <3>3. log[h][Max(S)] \in Asked \cup {Junk}
        BY <1>7, <3>1
      <3>4. log[h][i].n \in Nat /\ log[h][Max(S)].n \in Nat
        BY <2>1, <2>2, <3>3 DEF Asked, Junk
      <3> QED BY <2>2, <3>2, <3>4, <1>6
    <2> QED BY <2>5, <2>6
  <1>11. \E i \in DOMAIN log[h] : log[h][i] = d
    BY <1>6, <1>8, <1>9
  <1> QED BY <1>10, <1>11

LEMMA PlaneStep ==
  ASSUME PlaneInv, [ControlNext]_(controlVars)
  PROVE  Tracked' /\ Settled' /\ Chosen'
  <1>0. /\ gen \in Gens /\ at \in {"out", "start", "consult", "dispatch", "over"}
        /\ known \subseteq told /\ (at # "dispatch" => why = Junk)
    BY DEF PlaneInv, Tracked
  <1>1. CASE \E o \in Operators : OperatorStep(o)
    <2>1. /\ UNCHANGED <<runVars, splits>> /\ told \subseteq told'
          /\ ~overlap' => ~overlap
          /\ torn \subseteq torn'
          /\ \A t \in told : \A i \in DOMAIN log'[t.run] :
               log'[t.run][i] = t.control => i \in DOMAIN log[t.run] /\ log[t.run][i] = t.control
          /\ torn' = {} => /\ torn = {}
                           /\ \A g \in Gens : \A i \in DOMAIN log[g] :
                                i \in DOMAIN log'[g] /\ log'[g][i] = log[g][i]
      <3>1. PICK o \in Operators : OperatorStep(o)
        BY <1>1
      <3>2. Said
        BY DEF PlaneInv
      <3>3. Onward
        BY <3>1, <3>2, OperatorKeeps
      <3> QED BY <3>3 DEF Onward
    <2>2. gen' = gen /\ at' = at /\ why' = why /\ known' = known /\ missed' = missed
      BY <2>1 DEF runVars
    <2>3. Tracked'
      BY <1>0, <2>1, <2>2 DEF Tracked
    <2>4. Settled'
      <3>1. Stops(known)' = Stops(known)
        BY <2>2 DEF Stops
      <3>2. ASSUME NEW t \in Stops(known), Hidden(t) PROVE Hidden(t)'
        <4>1. t \in told /\ t.run = gen
          BY <1>0 DEF Stops
        <4>2. Of(torn, gen) \subseteq Of(torn', gen)
          BY <2>1 DEF Of
        <4> QED BY <2>1, <2>2, <3>2, <4>1, <4>2 DEF Hidden, Of
      <3> QED BY <2>2, <3>1, <3>2 DEF PlaneInv, Settled
    <2>5. Chosen'
      BY <2>1, <2>2 DEF PlaneInv, Chosen, Governs
    <2> QED BY <2>3, <2>4, <2>5
  <1>s. ASSUME UNCHANGED <<opVars, splits, known, gen>> PROVE
               Stops(known)' = Stops(known) /\ \A t : Hidden(t)' <=> Hidden(t)
    BY <1>s DEF Stops, Hidden, opVars, Of
  <1>2. ASSUME UNCHANGED opVars, at' \in {"out", "over"}, gen' \in Gens,
               known' \subseteq told, why' = Junk
        PROVE  Tracked' /\ Settled' /\ Chosen'
    BY <1>2 DEF Tracked, Settled, Chosen, opVars
  <1>3. ASSUME NEW how, End(how), UNCHANGED opVars
        PROVE  Tracked' /\ Settled' /\ Chosen'
    BY <1>0, <1>2, <1>3 DEF End
  <1>4. CASE Arrive
    <2>1. /\ at' = "start" /\ gen' = gen /\ known' = told /\ UNCHANGED <<opVars, splits>>
          /\ Desired(gen) # "stopped" /\ why' = why /\ at = "out"
          /\ missed' = IF gen \in blind THEN missed \cup {at} ELSE missed
      BY <1>4 DEF Arrive, Check, fixed
    <2>2. ASSUME NEW t \in told, t.run = gen, t.control.verb = "stop"
          PROVE  "out" \in missed' \/ Hidden(t)'
      <3>1. CASE gen \in blind
        BY <2>1, <3>1
      <3>2. CASE gen \notin blind
        <4>1. Hidden(t)
          BY <1>0, <2>1, <2>2, <3>2, StopIsSeen DEF PlaneInv
        <4> QED BY <2>1, <4>1 DEF Hidden, opVars, Of
      <3> QED BY <3>1, <3>2
    <2>3. Tracked'
      BY <1>0, <2>1 DEF Tracked, opVars
    <2>4. Settled'
      BY <2>1, <2>2 DEF Settled, Stops
    <2>5. Chosen'
      BY <2>1 DEF Chosen
    <2> QED BY <2>3, <2>4, <2>5
  <1>5. CASE ArriveStopped \/ Replay \/ MayNotStart \/ CheckRaises \/ Crash
    <2>1. (\E how : End(how)) /\ UNCHANGED opVars
      <3>1. CASE ArriveStopped
        BY <3>1 DEF ArriveStopped
      <3>2. CASE Replay
        BY <3>2 DEF Replay
      <3>3. CASE MayNotStart
        BY <3>3 DEF MayNotStart
      <3>4. CASE Crash
        BY <3>4 DEF Crash
      <3>5. CASE CheckRaises
        BY <3>5 DEF CheckRaises
      <3> QED BY <1>5, <3>1, <3>2, <3>3, <3>4, <3>5
    <2> QED BY <2>1, <1>3
  <1>6. CASE MayStart
    <2>1. /\ at = "start" /\ at' = "consult" /\ UNCHANGED <<opVars, splits>>
          /\ gen' = gen /\ known' = known /\ why' = why /\ Desired(gen) = "running"
          /\ missed' = IF gen \in blind THEN missed \cup {at} ELSE missed
      BY <1>6 DEF MayStart, Check, Step, fixed
    <2>2. Tracked' /\ Chosen'
      BY <1>0, <2>1 DEF PlaneInv, Tracked, Chosen, opVars
    <2>3. ASSUME NEW t \in Stops(known) PROVE {"out", "start"} \subseteq missed' \/ Hidden(t)
      <3>1. CASE gen \in blind
        BY <2>1, <3>1 DEF PlaneInv, Settled
      <3>2. CASE gen \notin blind
        BY <1>0, <2>1, <3>2, StopIsSeen DEF PlaneInv, Stops
      <3> QED BY <3>1, <3>2
    <2>4. Settled'
      BY <1>s, <2>1, <2>3 DEF Settled
    <2> QED BY <2>2, <2>4
  <1>7. CASE Fast
    <2>1. CASE capability = "provisioned"
      <3>1. /\ at = "consult" /\ at' = "dispatch" /\ UNCHANGED <<opVars, splits>>
            /\ gen' = gen /\ known' = known /\ why' = why /\ missed' = missed
        BY <1>7, <2>1 DEF Fast, Step, fixed
      <3>2. why = Junk
        BY <3>1 DEF PlaneInv, Tracked
      <3>3. Settled'
        BY <1>s, <3>1 DEF PlaneInv, Settled
      <3> QED BY <1>0, <3>1, <3>2, <3>3 DEF PlaneInv, Tracked, Chosen, opVars
    <2>2. CASE capability # "provisioned"
      BY <1>3, <1>7, <2>2 DEF Fast
    <2> QED BY <2>1, <2>2
  <1>8. CASE Consult
    <2> DEFINE d == Decision(gen)
    <2>0. at = "consult" /\ UNCHANGED <<opVars, splits>>
      BY <1>8 DEF Consult, fixed
    <2>1. \/ \E how : End(how)
          \/ /\ d # Junk /\ at' = "dispatch" /\ why' = d
             /\ UNCHANGED <<gen, known, missed>>
      BY <1>8 DEF Consult
    <2>2. CASE \E how : End(how)
      BY <1>3, <2>0, <2>2
    <2>3. CASE d # Junk /\ at' = "dispatch" /\ why' = d /\ UNCHANGED <<gen, known, missed>>
      <3>1. Tracked' /\ Settled'
        BY <1>0, <1>s, <2>0, <2>3 DEF PlaneInv, Tracked, Settled, opVars
      <3>2. ASSUME ~overlap, torn = {}
            PROVE  \E g \in Gens :
                     /\ \E i \in DOMAIN log[g] : log[g][i] = d
                     /\ \A t \in told : /\ t.run = g /\ t.control.verb \in Decisions
                                        /\ t.control.n \notin splits
                                        => t.control.n <= d.n
        BY <2>3, <3>2, Deciding DEF PlaneInv
      <3>3. Chosen'
        BY <1>0, <2>0, <2>3, <3>2 DEF Chosen, Governs, opVars
      <3> QED BY <3>1, <3>3
    <2> QED BY <2>1, <2>2, <2>3
  <1>9. CASE Dispatch
    <2>1. (\E how : End(how)) /\ UNCHANGED opVars
      BY <1>9 DEF Dispatch
    <2> QED BY <2>1, <1>3
  <1>10. CASE Resume
    <2>1. gen' \in Gens
      BY <1>0, <1>10, ControlAssumption DEF Resume, Gens
    <2>2. at' = "out" /\ known' = known /\ why' = Junk /\ UNCHANGED opVars
      BY <1>0, <1>10 DEF Resume
    <2> QED BY <1>0, <1>2, <2>1, <2>2
  <1>11. CASE Disk \/ UNCHANGED controlVars
    <2>1. UNCHANGED <<opVars, splits>> /\ UNCHANGED <<gen, at, known, why, missed>>
      BY <1>11 DEF Disk, controlVars, runVars, fixed
    <2>2. Settled'
      BY <1>s, <2>1 DEF PlaneInv, Settled
    <2> QED BY <2>1, <2>2 DEF PlaneInv, Tracked, Chosen, Governs, opVars
  <1> QED BY <1>1, <1>4, <1>5, <1>6, <1>7, <1>8, <1>9, <1>10, <1>11
       DEF ControlNext, Run

LEMMA PlaneAlways == ControlSpec => []PlaneInv
  <1>1. ControlInit => PlaneInv
    <2> SUFFICES ASSUME ControlInit PROVE PlaneInv
      OBVIOUS
    <2>1. gen \in Gens
      BY ControlAssumption DEF ControlInit, Gens
    <2> QED BY <2>1, SaidInit DEF ControlInit, PlaneInv, Tracked, Settled, Chosen
  <1>2. PlaneInv /\ [ControlNext]_(controlVars) => PlaneInv'
    BY SaidStep, PlaneStep DEF PlaneInv
  <1> QED BY <1>1, <1>2, PTL DEF ControlSpec

\* No call is dispatched that arrived after a stop of its run was acknowledged,
\* whatever was paused and resumed at the same time, unless both checks of the call
\* could not open the log or a reader cannot see the line of the stop.
THEOREM NoWorkIsStarted == ControlSpec => []NoWorkAfterStop
  <1>1. PlaneInv => NoWorkAfterStop
    BY DEF PlaneInv, Settled, Stops, Hidden, Legible, NoWorkAfterStop
  <1> QED BY <1>1, PlaneAlways, PTL

\* Operators who take turns decide: of the decisions recorded for the run whose one a
\* call runs under it is the last that they knew of when the call arrived.
THEOREM DecisionsGovern == ControlSpec => []DecisionGoverns
  <1>1. PlaneInv => DecisionGoverns
    <2> SUFFICES ASSUME PlaneInv, at = "dispatch", why # Junk, ~overlap, torn = {},
                        NEW t \in known, t.control.verb \in Decisions,
                        t.control.n \notin splits, why \in Of(told, t.run)
                 PROVE  t.control.n <= why.n
      BY DEF DecisionGoverns
    <2>1. PICK g \in Gens : Governs(g) /\ \E i \in DOMAIN log[g] : log[g][i] = why
      BY DEF PlaneInv, Chosen
    <2>2. PICK i \in DOMAIN log[g] : log[g][i] = why
      BY <2>1
    <2>3. PICK u \in told : u.run = t.run /\ u.control = why
      BY DEF Of
    <2>4. t.run \in Gens
      BY DEF PlaneInv, Tracked, Said, Spoken
    <2>7. why.n \notin splits
      BY <2>2 DEF PlaneInv, Said, Single
    <2>5. PICK j \in DOMAIN log[t.run] : log[t.run][j] = why
      BY <2>3, <2>4, <2>7 DEF PlaneInv, Said, Standing, Of
    <2>6. t.run = g
      BY <2>2, <2>4, <2>5 DEF PlaneInv, Said, Single
    <2> QED BY <2>1, <2>6 DEF Governs
  <1> QED BY <1>1, PlaneAlways, PTL

-----------------------------------------------------------------------------
(* The types of all that the control log and the run keep. *)

\* The operators that have yet to see which attempts there are.
Listing == {o \in Operators : op[o].at = "list"}

\* No attempt has a number above b.
AtMost(b) ==
  /\ \A g \in Gens : \A i \in DOMAIN log[g] : log[g][i].attempt <= b
  /\ \A o \in Operators : op[o].control.attempt <= b
  /\ \A t \in told \cup torn : t.control.attempt <= b
  /\ why.attempt <= b

\* Whoever numbers an attempt has asked for it: what is numbered and who is about to
\* number are no more than what was asked for.
Paced ==
  /\ IsFiniteSet(Listing) /\ Cardinality(Listing) <= issued
  /\ AtMost(issued - Cardinality(Listing))

Kept ==
  /\ [verbs |-> verbs, splits |-> splits, capability |-> capability] \in Setups
  /\ {garbled, blind} \subseteq SUBSET Gens /\ missed \subseteq {"out", "start"}
  /\ why \in Asked \cup {Junk} /\ cache \in {"none", "plain", "edited"}
  /\ ending \in [Gens -> {"none", "stopped", "paused", "denied", "unsafe", "pending",
                          "answered", "executed", "failed", "replayed", "drift",
                          "crashed"}]

TypeInv == Said /\ Tracked /\ Paced /\ Kept

\* What is numbered anew is within the bound.
LEMMA StillAtMost ==
  ASSUME Said, Kept, NEW m \in Nat, NEW n \in Nat, m <= n, AtMost(m),
         NEW c \in Asked \cup {Junk}, c.attempt <= n,
         \A g \in Gens : \A i \in DOMAIN log'[g] :
           \/ i \in DOMAIN log[g] /\ log'[g][i] = log[g][i]
           \/ log'[g][i] \in {c, Junk},
         \A o \in Operators : op'[o].control \in {op[o].control, c, Junk},
         \A t \in told' \cup torn' : t \in told \cup torn \/ t.control = c,
         why' \in {why, c, Junk}
  PROVE  AtMost(n)'
  <1>1. Junk.attempt = 0
    BY DEF Junk
  <1>2. /\ \A g \in Gens : \A i \in DOMAIN log[g] : log[g][i].attempt \in Nat
        /\ \A o \in Operators : op[o].control.attempt \in Nat
        /\ \A t \in told \cup torn : t.control.attempt \in Nat
        /\ why.attempt \in Nat
    <2>1. \A x \in Asked \cup {Junk} : x.attempt \in Nat
      BY <1>1 DEF Asked
    <2> QED BY <2>1 DEF Said, Spoken, Kept
  <1>3. \A k \in Nat : k <= m => k <= n
    OBVIOUS
  <1>4. /\ \A g \in Gens : \A i \in DOMAIN log[g] : log[g][i].attempt <= n
        /\ \A o \in Operators : op[o].control.attempt <= n
        /\ \A t \in told \cup torn : t.control.attempt <= n
        /\ why.attempt <= n
    BY <1>2, <1>3 DEF AtMost
  <1>5. 0 <= n
    OBVIOUS
  <1> QED BY <1>1, <1>4, <1>5 DEF AtMost

\* The last attempt that a reader sees is one of those there are.
LEMMA LastIsThere ==
  ASSUME Said, NEW g \in Gens, NEW b \in Nat,
         \A i \in DOMAIN log[g] : log[g][i].attempt <= b
  PROVE  LET last == Max({0} \cup {r.attempt : r \in Retries(g)})
         IN  last \in Nat /\ last <= b
  <1> DEFINE S == {0} \cup {r.attempt : r \in Retries(g)}
  <1>1. log[g] \in Seq(Asked \cup {Junk})
    BY DEF Said, Spoken
  <1>2. \A i \in DOMAIN log[g] : log[g][i].attempt \in Nat
    BY <1>1 DEF Asked, Junk
  <1>3. \A r \in Retries(g) : \E i \in DOMAIN log[g] : r = log[g][i]
    BY DEF Retries, Recorded, Live, Legible
  <1>4. S \in SUBSET Nat /\ S # {} /\ \A x \in S : x <= b
    BY <1>2, <1>3
  <1> HIDE DEF S
  <1>5. Max(S) \in S
    BY <1>4, Greatest
  <1> QED BY <1>4, <1>5 DEF S

LEMMA PacedStep ==
  ASSUME TypeInv, [ControlNext]_controlVars
  PROVE  Paced'
  <1> DEFINE m == issued - Cardinality(Listing)
  <1>t. /\ Said /\ Kept /\ Tracked /\ issued \in Nat /\ IsFiniteSet(Listing) /\ AtMost(m)
        /\ Cardinality(Listing) \in Nat /\ m \in Nat
        /\ op \in [Operators -> [at : {"idle", "list", "load", "write"}, run : Gens,
                                 control : Asked \cup {Junk}]]
    <2>1. Said /\ Kept /\ Tracked /\ issued \in 0..MaxIssues /\ IsFiniteSet(Listing)
      BY DEF TypeInv, Said, Spoken, Paced
    <2>2. Cardinality(Listing) \in Nat /\ Cardinality(Listing) <= issued /\ AtMost(m)
      BY <2>1, FS_CardinalityType DEF TypeInv, Paced
    <2> QED BY <2>1, <2>2, ControlAssumption DEF Said, Spoken
  <1>j. Junk \in Asked \cup {Junk} /\ Junk.attempt = 0 /\ Idle.control = Junk /\ Idle.at = "idle"
    BY DEF Junk, Idle
  <1> HIDE DEF m
  <1>q. ASSUME issued' = issued, Listing' = Listing, NEW c \in Asked \cup {Junk}, c.attempt <= m,
               \A g \in Gens : \A i \in DOMAIN log'[g] :
                 \/ i \in DOMAIN log[g] /\ log'[g][i] = log[g][i]
                 \/ log'[g][i] \in {c, Junk},
               \A o \in Operators : op'[o].control \in {op[o].control, c, Junk},
               \A t \in told' \cup torn' : t \in told \cup torn \/ t.control = c,
               why' \in {why, c, Junk}
        PROVE  Paced'
    <2>1. AtMost(m)'
      <3>1. PICK n \in Nat : n = m
        BY <1>t
      <3>2. AtMost(n)'
        BY <1>q, <1>t, <3>1, StillAtMost
      <3>3. m' = m
        BY <1>q DEF m
      <3> QED BY <3>1, <3>2, <3>3 DEF AtMost
    <2> QED BY <1>q, <1>t, <2>1 DEF Paced, m
  <1>1. ASSUME NEW o \in Operators, NEW g \in Gens, NEW verb \in Verbs, Issue(o, g, verb)
        PROVE  Paced'
    <2> DEFINE c == [n |-> issued + 1, verb |-> verb, attempt |-> 0]
               p == IF verb \in {"retry", "force"} THEN "list" ELSE "load"
    <2>1. /\ op' = [op EXCEPT ![o] = [at |-> p, run |-> g, control |-> c]]
          /\ issued' = issued + 1 /\ issued < MaxIssues /\ op[o] = Idle
          /\ UNCHANGED <<log, open, told, torn, why>>
      BY <1>1 DEF Issue, runVars
    <2>2. c \in Asked /\ c.attempt = 0
      BY <1>t, <2>1, ControlAssumption DEF Asked
    <2> HIDE DEF c
    <2>3. /\ op'[o].at = p /\ op'[o].control = c
          /\ \A q \in Operators \ {o} : op'[q] = op[q]
      BY <1>t, <2>1
    <2>4. o \notin Listing
      BY <1>j, <2>1 DEF Listing
    <2>5. Listing' = Listing \/ Listing' = Listing \cup {o}
      BY <2>3, <2>4 DEF Listing
    <2>6. /\ IsFiniteSet(Listing') /\ Cardinality(Listing') \in Nat
          /\ Cardinality(Listing') <= Cardinality(Listing) + 1
      BY <1>t, <2>4, <2>5, FS_AddElement
    <2>7. PICK n \in Nat : n = issued' - Cardinality(Listing')
      BY <1>t, <2>1, <2>6 DEF m
    <2>8. m <= n
      BY <1>t, <2>1, <2>6, <2>7 DEF m
    <2>9. AtMost(n)'
      BY <1>t, <2>1, <2>2, <2>3, <2>8, StillAtMost
    <2>10. AtMost(issued - Cardinality(Listing))'
      BY <2>7, <2>9 DEF AtMost
    <2>11. Cardinality(Listing') <= issued'
      BY <1>t, <2>1, <2>6 DEF m
    <2> QED BY <2>6, <2>10, <2>11 DEF Paced
  <1>2. ASSUME NEW o \in Operators, List(o) PROVE Paced'
    <2>0. /\ op[o].run \in Gens /\ op[o].at = "list" /\ op[o].control \in Asked
          /\ UNCHANGED <<log, issued, torn, why>>
      BY <1>2, <1>t DEF Said, Spoken, List, Engaged, runVars
    <2>1. PICK g \in Gens : g = op[o].run
      BY <2>0
    <2> DEFINE last == Max({0} \cup {r.attempt : r \in Retries(g)})
    <2>2. last \in Nat /\ last <= m
      <3>1. \A i \in DOMAIN log[g] : log[g][i].attempt <= m
        BY <1>t DEF AtMost
      <3> QED BY <1>t, <3>1, LastIsThere
    <2>3. PICK c \in Asked : /\ c.attempt <= m + 1
                             /\ \/ /\ op' = [op EXCEPT ![o] = Idle]
                                   /\ told' = told \cup {[run |-> g, control |-> c]}
                                \/ /\ told' = told
                                   /\ op' = [op EXCEPT ![o] = [at |-> "load", run |-> g, control |-> c]]
      <3>1. CASE Retries(g) # {} /\ op[o].control.verb = "retry"
        <4>1. PICK r \in Retries(g) :
                /\ op' = [op EXCEPT ![o] = Idle]
                /\ told' = told \cup {[run |-> g, control |-> r]}
          BY <1>2, <2>1, <3>1 DEF List, Return
        <4>2. PICK i \in DOMAIN log[g] : log[g][i] = r /\ log[g][i] # Junk
          BY DEF Retries, Recorded, Live, Legible
        <4>3. log[g][i] \in Asked \cup {Junk}
          BY <1>t, <4>2 DEF Said, Spoken
        <4>4. r \in Asked /\ r.attempt <= m /\ r.attempt \in Nat
          BY <1>t, <4>2, <4>3 DEF AtMost, Asked
        <4>5. r.attempt <= m + 1
          BY <1>t, <4>4
        <4> QED BY <4>1, <4>4, <4>5
      <3>2. CASE ~(Retries(g) # {} /\ op[o].control.verb = "retry")
        <4>1. /\ op' = [op EXCEPT ![o] = [at |-> "load", run |-> g,
                                control |-> [op[o].control EXCEPT !.attempt = last + 1]]]
              /\ told' = told
          BY <1>2, <2>1, <3>2 DEF List
        <4> HIDE DEF last
        <4>2. PICK d \in Asked : d = op[o].control
          BY <2>0
        <4>3. /\ [d EXCEPT !.attempt = last + 1] \in Asked
              /\ [d EXCEPT !.attempt = last + 1].attempt <= m + 1
          BY <1>t, <2>2 DEF Asked
        <4> QED BY <4>1, <4>2, <4>3
      <3> QED BY <3>1, <3>2
    <2> HIDE DEF last
    <2>4. /\ op'[o].at # "list" /\ op'[o].control \in {c, Junk}
          /\ \A q \in Operators \ {o} : op'[q] = op[q]
      <3>1. Idle.at # "list"
        BY <1>j
      <3> QED BY <1>j, <1>t, <2>3, <3>1
    <2>5. Listing' = Listing \ {o} /\ o \in Listing
      BY <2>0, <2>4 DEF Listing
    <2>6. IsFiniteSet(Listing') /\ Cardinality(Listing') = Cardinality(Listing) - 1
      BY <1>t, <2>5, FS_RemoveElement
    <2>7. PICK n \in Nat : n = m + 1
      BY <1>t
    <2>8. n = issued' - Cardinality(Listing') /\ m <= n /\ Cardinality(Listing') <= issued'
      BY <1>t, <2>0, <2>6, <2>7 DEF m
    <2>9. AtMost(n)'
      BY <1>t, <2>0, <2>3, <2>4, <2>7, <2>8, StillAtMost
    <2>10. AtMost(issued - Cardinality(Listing))'
      BY <2>8, <2>9 DEF AtMost
    <2> QED BY <2>6, <2>8, <2>10 DEF Paced
  <1>3. ASSUME NEW o \in Operators, Load(o) PROVE Paced'
    <2>0. /\ op[o].run \in Gens /\ op[o].at = "load"
          /\ UNCHANGED <<log, issued, torn, why>>
      BY <1>3, <1>t DEF Load, runVars
    <2>1. PICK g \in Gens : g = op[o].run
      BY <2>0
    <2> DEFINE same == {r \in Recorded(g) : Id(r) = Id(op[o].control)}
    <2>2. CASE same # {}
      <3>1. PICK r \in Recorded(g) :
              /\ op' = [op EXCEPT ![o] = Idle]
              /\ told' = told \cup {[run |-> g, control |-> r]}
        BY <1>3, <2>1, <2>2 DEF Load, Return
      <3>2. PICK i \in DOMAIN log[g] : log[g][i] = r
        BY DEF Recorded, Live, Legible
      <3>3. r \in Asked \cup {Junk} /\ r.attempt <= m
        BY <1>t, <3>2 DEF AtMost, Said, Spoken
      <3>4. /\ op'[o].at # "list" /\ op'[o].control = Junk
            /\ \A q \in Operators \ {o} : op'[q] = op[q]
        BY <1>j, <1>t, <3>1
      <3>5. Listing' = Listing
        BY <2>0, <3>4 DEF Listing
      <3> QED BY <1>q, <2>0, <3>1, <3>3, <3>4, <3>5
    <2>3. CASE same = {}
      <3>1. op' = [op EXCEPT ![o].at = "write"] /\ told' = told
        BY <1>3, <2>1, <2>3 DEF Load
      <3>2. /\ op'[o].at = "write" /\ op'[o].control = op[o].control
            /\ \A q \in Operators \ {o} : op'[q] = op[q]
        BY <1>t, <3>1
      <3>3. Listing' = Listing
        BY <2>0, <3>2 DEF Listing
      <3>4. Junk.attempt <= m
        BY <1>j, <1>t
      <3> QED BY <1>j, <1>q, <2>0, <3>1, <3>2, <3>3, <3>4
    <2> QED BY <2>2, <2>3
  <1>4. ASSUME NEW o \in Operators, Write(o) \/ CutShort(o) PROVE Paced'
    <2>0. /\ op[o].run \in Gens /\ op[o].at = "write" /\ op[o].control \in Asked /\ Engaged(o)
          /\ op' = [op EXCEPT ![o] = Idle] /\ issued' = issued /\ why' = why
      BY <1>4, <1>t DEF Write, CutShort, Return, runVars, Said, Spoken, Engaged
    <2>1. PICK g \in Gens : g = op[o].run
      BY <2>0
    <2>2. PICK c \in Asked : c = op[o].control
      BY <2>0
    <2>3. PICK text \in {Junk, c} : PutsIn(o, g, text)
      BY <1>4, <2>0, <2>1, <2>2 DEF Write, CutShort, Return, PutsIn, Text, fixed
    <2>4. \A h \in Gens : \A i \in DOMAIN log'[h] :
            \/ i \in DOMAIN log[h] /\ log'[h][i] = log[h][i]
            \/ log'[h][i] \in {c, Junk}
      BY <1>t, <2>2, <2>3, Writing
    <2>5. \A t \in told' \cup torn' : t \in told \cup torn \/ t.control = c
      BY <1>4, <2>2 DEF Write, CutShort, Return
    <2>6. /\ op'[o].at # "list" /\ op'[o].control = Junk
          /\ \A q \in Operators \ {o} : op'[q] = op[q]
      BY <1>j, <1>t, <2>0
    <2>7. Listing' = Listing
      BY <2>0, <2>6 DEF Listing
    <2>8. c.attempt <= m
      BY <1>t, <2>2 DEF AtMost
    <2> QED BY <1>q, <2>0, <2>4, <2>5, <2>6, <2>7, <2>8
  <1>5. ASSUME UNCHANGED opVars, NEW c \in Asked \cup {Junk}, c.attempt <= m, why' \in {why, c, Junk}
        PROVE  Paced'
    <2>1. UNCHANGED <<log, op, issued, told, torn>>
      BY <1>5 DEF opVars
    <2>2. Listing' = Listing
      BY <2>1 DEF Listing
    <2> QED BY <1>q, <1>5, <2>1, <2>2
  <1>7. ASSUME NEW o \in Operators, Fail(o) PROVE Paced'
    <2>1. op' = [op EXCEPT ![o] = Idle] /\ UNCHANGED <<log, issued, told, torn, why>>
      BY <1>7 DEF Fail, runVars
    <2>2. /\ op'[o].at # "list" /\ op'[o].control = Junk
          /\ \A q \in Operators \ {o} : op'[q] = op[q]
      BY <1>j, <1>t, <2>1
    <2>3. CASE op[o].at # "list"
      <3>1. Listing' = Listing
        BY <2>2, <2>3 DEF Listing
      <3>2. Junk.attempt <= m
        BY <1>j, <1>t
      <3> QED BY <1>j, <1>q, <2>1, <2>2, <3>1, <3>2
    <2>4. CASE op[o].at = "list"
      <3>1. Listing' = Listing \ {o} /\ o \in Listing
        BY <2>2, <2>4 DEF Listing
      <3>2. IsFiniteSet(Listing') /\ Cardinality(Listing') = Cardinality(Listing) - 1
        BY <1>t, <3>1, FS_RemoveElement
      <3>3. PICK n \in Nat : n = m + 1
        BY <1>t
      <3>4. n = issued' - Cardinality(Listing') /\ m <= n /\ Cardinality(Listing') <= issued'
        BY <1>t, <2>1, <3>2, <3>3 DEF m
      <3>5. AtMost(n)'
        BY <1>j, <1>t, <2>1, <2>2, <3>4, StillAtMost
      <3>6. AtMost(issued - Cardinality(Listing))'
        BY <3>4, <3>5 DEF AtMost
      <3> QED BY <3>2, <3>4, <3>6 DEF Paced
    <2> QED BY <2>3, <2>4
  <1>6. CASE Run \/ Disk \/ UNCHANGED controlVars
    <2>1. UNCHANGED opVars
      BY <1>6 DEF Run, Arrive, ArriveStopped, Replay, MayStart, MayNotStart, Fast, Consult,
         CheckRaises, Dispatch, Crash, Resume, Disk, controlVars
    <2>2. Junk.attempt <= m
      BY <1>j, <1>t
    <2>3. CASE Consult /\ why' = Decision(gen) /\ Decision(gen) # Junk
      <3>1. PICK g \in Gens : \E i \in DOMAIN log[g] : log[g][i] = Decision(gen)
        BY <1>t, <2>3, Decided
      <3>2. PICK c \in Asked \cup {Junk} : c = Decision(gen) /\ c.attempt <= m
        BY <1>t, <3>1 DEF AtMost, Said, Spoken
      <3> QED BY <1>5, <2>1, <2>3, <3>2
    <2>4. CASE why' \in {why, Junk}
      BY <1>5, <1>j, <2>1, <2>2, <2>4
    <2>5. \/ why' \in {why, Junk}
          \/ Consult /\ why' = Decision(gen) /\ Decision(gen) # Junk
      <3>1. CASE Consult
        BY <3>1 DEF Consult, End
      <3>2. CASE ~Consult
        BY <1>6, <3>2 DEF Run, Arrive, ArriveStopped, Replay, MayStart, MayNotStart, Fast, End, Step,
           CheckRaises, Dispatch, Crash, Resume, Disk, controlVars, runVars
      <3> QED BY <3>1, <3>2
    <2> QED BY <2>3, <2>4, <2>5
  <1> QED BY <1>1, <1>2, <1>3, <1>4, <1>6, <1>7 DEF ControlNext, OperatorStep

LEMMA KeptStep ==
  ASSUME TypeInv, [ControlNext]_controlVars
  PROVE  Kept'
  <1> DEFINE Ways == {"none", "stopped", "paused", "denied", "unsafe", "pending",
                      "answered", "executed", "failed", "replayed", "drift", "crashed"}
  <1>t. /\ Said /\ Tracked
        /\ [verbs |-> verbs, splits |-> splits, capability |-> capability] \in Setups
        /\ {garbled, blind} \subseteq SUBSET Gens /\ missed \subseteq {"out", "start"}
        /\ why \in Asked \cup {Junk} /\ cache \in {"none", "plain", "edited"}
        /\ ending \in [Gens -> Ways]
    BY DEF TypeInv, Kept
  <1>1. UNCHANGED fixed
    BY DEF ControlNext, OperatorStep, Issue, List, Load, Fail, Write, CutShort, Run, Arrive,
       ArriveStopped, Replay, MayStart, MayNotStart, Fast, Consult, CheckRaises, Dispatch, Crash,
       Resume, Disk, controlVars
  <1>4. {garbled', blind'} \subseteq SUBSET Gens /\ missed' \subseteq {"out", "start"}
    <2>1. /\ gen \in Gens /\ 1..gen \subseteq Gens
          /\ \A o \in Operators : op[o].run \in Gens
      BY <1>t, ControlAssumption DEF Tracked, Said, Spoken, Gens
    <2>2. garbled' \in SUBSET Gens
      <3>1. garbled' = garbled \/ \E o \in Operators : garbled' = garbled \cup {op[o].run}
        BY DEF ControlNext, OperatorStep, Issue, List, Load, Fail, Write, CutShort, Run, Arrive,
           ArriveStopped, Replay, MayStart, MayNotStart, Fast, Consult, CheckRaises, Dispatch,
           Crash, Resume, Disk, controlVars, opVars
      <3> QED BY <1>t, <2>1, <3>1
    <2>3. blind' \in SUBSET Gens
      <3>1. blind' = blind \/ blind' \in SUBSET (1..gen)
        BY DEF ControlNext, OperatorStep, Issue, List, Load, Fail, Write, CutShort, Run, Arrive,
           ArriveStopped, Replay, MayStart, MayNotStart, Fast, Consult, CheckRaises, Dispatch,
           Crash, Resume, Disk, controlVars
      <3> QED BY <1>t, <2>1, <3>1
    <2>4. missed' \subseteq {"out", "start"}
      <3>1. \/ missed' \in {missed, {}}
            \/ at \in {"out", "start"} /\ missed' = missed \cup {at}
        BY DEF ControlNext, OperatorStep, Issue, List, Load, Fail, Write, CutShort, Run, Arrive,
           ArriveStopped, Replay, MayStart, MayNotStart, Fast, Consult, CheckRaises, Dispatch,
           Crash, Resume, Disk, controlVars, runVars, Check, End
      <3> QED BY <1>t, <3>1
    <2> QED BY <2>2, <2>3, <2>4
  <1>2. why' \in Asked \cup {Junk} /\ cache' \in {"none", "plain", "edited"}
    <2>1. CASE Consult
      <3>1. Decision(gen) \in Asked \cup {Junk}
        <4>1. CASE Decision(gen) # Junk
          <5>1. PICK g \in Gens : \E i \in DOMAIN log[g] : log[g][i] = Decision(gen)
            BY <1>t, <4>1, Decided
          <5>2. log[g] \in Seq(Asked \cup {Junk})
            BY <1>t DEF Said, Spoken
          <5> QED BY <5>1, <5>2
        <4> QED BY <4>1
      <3>2. why' \in {why, Junk, Decision(gen)} /\ cache' \in {cache, "plain"}
        BY <2>1 DEF Consult, End
      <3> QED BY <1>t, <3>1, <3>2
    <2>2. CASE Dispatch
      <3>1. why' = Junk /\ cache' \in {cache, Entry}
        BY <2>2 DEF Dispatch, End
      <3>2. Entry \in {cache, "edited", "none", "plain"}
        <4>1. gen > 1 \/ gen = 1
          BY <1>t, ControlAssumption DEF Tracked, Gens
        <4> QED BY <4>1 DEF Entry
      <3> QED BY <1>t, <3>1, <3>2
    <2>3. CASE ~(Consult \/ Dispatch)
      <3>1. why' \in {why, Junk} /\ cache' = cache
        BY <2>3 DEF ControlNext, OperatorStep, Issue, List, Load, Fail, Write, CutShort, Run,
           Arrive, ArriveStopped, Replay, MayStart, MayNotStart, Fast, CheckRaises, Crash, Resume,
           Disk, End, Step, controlVars, runVars
      <3> QED BY <1>t, <3>1
    <2> QED BY <2>1, <2>2, <2>3
  <1>3. ending' \in [Gens -> Ways]
    <2>1. \/ ending' = ending
          \/ \E how \in Ways : ending' = [ending EXCEPT ![gen] = how]
      <3>1. CASE MayNotStart
        <4>1. ASSUME Desired(gen) # "running" PROVE Desired(gen) \in {"stopped", "paused"}
          BY <4>1 DEF Desired
        <4> QED BY <3>1, <4>1 DEF MayNotStart, End
      <3>2. CASE ~MayNotStart
        BY <3>2 DEF ControlNext, OperatorStep, Issue, List, Load, Fail, Write, CutShort, Run,
           Arrive, ArriveStopped, Replay, MayStart, Fast, Consult, CheckRaises, Dispatch, Crash,
           Resume, Disk, End, Step, controlVars, runVars
      <3> QED BY <3>1, <3>2
    <2> QED BY <1>t, <2>1
  <1> QED BY <1>t, <1>1, <1>2, <1>3, <1>4 DEF Kept, fixed

LEMMA TypeStart == ControlInit => Paced /\ Kept
  <1> SUFFICES ASSUME ControlInit PROVE Paced /\ Kept
    OBVIOUS
  <1>1. Junk.attempt = 0 /\ Idle.at = "idle" /\ Idle.control = Junk
    BY DEF Junk, Idle
  <1>2. Listing = {}
    BY <1>1 DEF ControlInit, Listing
  <1>3. IsFiniteSet(Listing) /\ Cardinality(Listing) = 0 /\ issued = 0
    BY <1>2, FS_EmptySet DEF ControlInit
  <1>4. AtMost(0)
    <2>1. \A g \in Gens : DOMAIN log[g] = {}
      BY DEF ControlInit
    <2> QED BY <1>1, <2>1 DEF ControlInit, AtMost
  <1>5. issued - Cardinality(Listing) = 0
    BY <1>3
  <1>6. Paced
    BY <1>3, <1>4, <1>5 DEF Paced
  <1>7. \A u \in Setups : u = [verbs |-> u.verbs, splits |-> u.splits, capability |-> u.capability]
    BY ControlAssumption
  <1>8. Kept
    BY <1>7 DEF ControlInit, Kept
  <1> QED BY <1>6, <1>8

\* The log, what operators do and were told, and the run have their types; no attempt
\* of a retry is numbered higher than controls were asked for, whoever lists when.
THEOREM ControlTypeCorrect == ControlSpec => []ControlTypeOK
  <1>1. ControlInit => Paced /\ Kept
    BY TypeStart
  <1>2. PlaneInv /\ Paced /\ Kept /\ [ControlNext]_controlVars => (Paced /\ Kept)'
    BY PacedStep, KeptStep DEF PlaneInv, TypeInv
  <1>3. PlaneInv /\ Paced /\ Kept => ControlTypeOK
    <2> SUFFICES ASSUME PlaneInv, Paced, Kept PROVE ControlTypeOK
      OBVIOUS
    <2> DEFINE m == issued - Cardinality(Listing)
    <2>1. /\ Said /\ Tracked /\ Spoken /\ issued \in 0..MaxIssues
          /\ Cardinality(Listing) \in Nat /\ AtMost(m)
      BY FS_CardinalityType DEF PlaneInv, Said, Spoken, Paced
    <2>2. m \in Int /\ m <= MaxIssues
      BY <2>1, ControlAssumption
    <2> HIDE DEF m
    <2>3. ASSUME NEW c \in Asked \cup {Junk}, c.attempt <= m
          PROVE  c \in Control \cup {Junk}
      <3>1. CASE c \in Asked
        <4>1. c.attempt \in 0..MaxIssues
          BY <2>2, <2>3, <3>1, ControlAssumption DEF Asked
        <4> QED BY <3>1, <4>1 DEF Asked, Control
      <3> QED BY <3>1
    <2>4. ASSUME NEW c \in Asked, c.attempt <= m PROVE c \in Control
      <3>1. c.attempt \in 0..MaxIssues
        BY <2>2, <2>4, ControlAssumption DEF Asked
      <3> QED BY <2>4, <3>1 DEF Asked, Control
    <2>5. log \in [Gens -> Seq(Control \cup {Junk})]
      <3>1. ASSUME NEW g \in Gens PROVE log[g] \in Seq(Control \cup {Junk})
        <4>1. log[g] \in Seq(Asked \cup {Junk})
          BY <2>1 DEF Spoken
        <4>2. \A i \in 1..Len(log[g]) : log[g][i] \in Control \cup {Junk}
          BY <2>1, <2>3, <4>1 DEF AtMost
        <4> QED BY <4>1, <4>2
      <3> QED BY <2>1, <3>1 DEF Spoken
    <2>6. op \in [Operators -> [at : {"idle", "list", "load", "write"}, run : Gens,
                                control : Control \cup {Junk}]]
      <3>1. ASSUME NEW o \in Operators
            PROVE  op[o] \in [at : {"idle", "list", "load", "write"}, run : Gens,
                              control : Control \cup {Junk}]
        <4>1. op[o] \in [at : {"idle", "list", "load", "write"}, run : Gens,
                         control : Asked \cup {Junk}]
          BY <2>1 DEF Spoken
        <4>2. op[o].control \in Control \cup {Junk}
          BY <2>1, <2>3, <4>1 DEF AtMost
        <4> QED BY <4>1, <4>2
      <3> QED BY <2>1, <3>1 DEF Spoken
    <2>7. told \subseteq [run : Gens, control : Control] /\ torn \subseteq [run : Gens, control : Control]
      <3>1. ASSUME NEW t \in told \cup torn PROVE t \in [run : Gens, control : Control]
        <4>1. t \in [run : Gens, control : Asked]
          BY <2>1 DEF Spoken
        <4>2. t.control \in Control
          BY <2>1, <2>4, <4>1 DEF AtMost
        <4> QED BY <4>1, <4>2
      <3> QED BY <3>1
    <2>8. why \in Control \cup {Junk}
      BY <2>1, <2>3 DEF AtMost, Kept
    <2> QED BY <2>1, <2>5, <2>6, <2>7, <2>8 DEF ControlTypeOK, Kept, Tracked, Spoken
  <1> QED BY <1>1, <1>2, <1>3, PlaneAlways, PTL DEF ControlSpec
===============================================================================
