---------------------------- MODULE BackgroundRuns ----------------------------
(***************************************************************************)
(* The local background manager of hermes_workflows/background.py: the      *)
(* snapshot (run.json) and journal of each launched run, its launch and its *)
(* worker thread, operator stops, and recovery after a restart.             *)
(*                                                                          *)
(* BackgroundRunStore guards a load-decide-write-journal sequence with a    *)
(* threading.Lock that belongs to the store OBJECT.  Callers that share one *)
(* object exclude each other; the plugin builds an object per tool call     *)
(* (_plugin_background_store), so its stop and the launched worker do not.  *)
(* Instance says which actor uses which object.                             *)
(*                                                                          *)
(* The worker thread of run r is the actor r itself.                        *)
(***************************************************************************)
EXTENDS Naturals, Sequences

CONSTANTS Runs, Stoppers, Recoverer, Nobody,
          Instances,    \* the BackgroundRunStore objects
          Instance,     \* Instance[a]: the object actor a calls
          IoFailures,   \* how many writes may raise OSError
          MaxCrashes    \* how many times the host process may die

Actors == Runs \cup Stoppers \cup {Recoverer}

ASSUME BackgroundAssumption ==
  /\ Instance \in [Actors -> Instances]
  /\ Runs # {} /\ Runs \cap Stoppers = {}
  /\ Recoverer \notin Runs \cup Stoppers
  /\ Nobody \notin Actors
  /\ IoFailures \in Nat /\ MaxCrashes \in Nat

Terminal == {"succeeded", "failed", "stopped", "suspended"}
Statuses == {"queued", "running"} \cup Terminal

VARIABLES
  made,      \* runs whose directory exists
  record,    \* record[r]: NoRecord or the snapshot in run.json
  journal,   \* journal[r]: the statuses in journal.jsonl, in file order
  lock,      \* lock[i]: the actor inside store object i's lock
  pc,        \* pc[a]: the actor's place
  call,      \* call[a]: the _transition an actor is making
  draft,     \* draft[a]: the snapshot that call has computed
  todo,      \* runs recover_incomplete listed and has yet to fail
  control,   \* runs with a stop in the control store
  ended,     \* history: how the VM ended run r
  told,      \* history: runs a stop call reported as stopped
  ioLeft, crashesLeft

vars == <<made, record, journal, lock, pc, call, draft, todo, control, ended,
          told, ioLeft, crashesLeft>>
files == <<made, record, journal>>
rest  == <<todo, control, ended, told, ioLeft, crashesLeft>>

NoRecord == [status |-> "none", result |-> FALSE]
Record   == [status : Statuses, result : BOOLEAN]
Events   == {"running", "finished", "failed", "stopped", "recovered_failed"}
Call     == [run : Runs, event : Events, status : Statuses, result : BOOLEAN]

Launching == {"writing", "journalling", "start"}
Working   == {"get", "mark", "run", "finish"}
InCall    == {"load", "write", "append"}
Places    == Launching \cup Working \cup InCall
               \cup {"absent", "done", "idle", "requested"}

Free(a) == lock[Instance[a]] = Nobody
Take(a) == lock' = [lock EXCEPT ![Instance[a]] = a]
Release(a) == lock' = [lock EXCEPT ![Instance[a]] = Nobody]
Goto(a, place) == pc' = [pc EXCEPT ![a] = place]

Transition(r, event, status, result) ==
  [run |-> r, event |-> event, status |-> status, result |-> result]

AnyRun == CHOOSE r \in Runs : TRUE

\* What the caller does when _transition returns a snapshot of that status.
After(a, status) ==
  IF a \in Runs
  THEN IF call[a].event = "running" /\ status = "running" THEN "run" ELSE "done"
  ELSE "idle"

-----------------------------------------------------------------------------
(* begin and the start of the worker thread, in launch_script. *)

MakeDir(r) ==
  /\ pc[r] = "absent" /\ Free(r) /\ r \notin made
  /\ Take(r) /\ Goto(r, "writing")
  /\ made' = made \cup {r}
  /\ UNCHANGED <<record, journal, call, draft, rest>>

WriteQueued(r) ==
  /\ pc[r] = "writing"
  /\ Goto(r, "journalling")
  /\ made' = made \cup {r}
  /\ record' = [record EXCEPT ![r] = [status |-> "queued", result |-> FALSE]]
  /\ UNCHANGED <<journal, lock, call, draft, rest>>

JournalQueued(r) ==
  /\ pc[r] = "journalling"
  /\ Release(r) /\ Goto(r, "start")
  /\ journal' = [journal EXCEPT ![r] = Append(@, "queued")]
  /\ UNCHANGED <<made, record, call, draft, rest>>

\* A write raises: begin removes the directory again.
BeginFails(r) ==
  /\ pc[r] \in {"writing", "journalling"} /\ ioLeft > 0
  /\ ioLeft' = ioLeft - 1
  /\ Release(r) /\ Goto(r, "absent")
  /\ made' = made \ {r}
  /\ record' = [record EXCEPT ![r] = NoRecord]
  /\ journal' = [journal EXCEPT ![r] = << >>]
  /\ UNCHANGED <<call, draft, todo, control, ended, told, crashesLeft>>

StartThread(r) ==
  /\ pc[r] = "start"
  /\ \/ Goto(r, "get") /\ UNCHANGED call
     \/ /\ Goto(r, "load")        \* thread.start raises: fail_launch
        /\ call' = [call EXCEPT ![r] = Transition(r, "failed", "failed", FALSE)]
  /\ UNCHANGED <<files, lock, draft, rest>>

-----------------------------------------------------------------------------
(* _worker. *)

WorkerGet(r) ==
  /\ pc[r] = "get" /\ Free(r)
  /\ Goto(r, IF record[r].status = "stopped" THEN "done" ELSE "mark")
  /\ UNCHANGED <<files, lock, call, draft, rest>>

\* mark_running looks under the lock, lets it go, then calls _transition.
MarkRunning(r) ==
  /\ pc[r] = "mark" /\ Free(r)
  /\ IF record[r].status = "stopped"
     THEN Goto(r, "done") /\ UNCHANGED call
     ELSE /\ Goto(r, "load")
          /\ call' = [call EXCEPT ![r] =
                        Transition(r, "running", "running", FALSE)]
  /\ UNCHANGED <<files, lock, draft, rest>>

\* finish's mapping of a ScriptRunResult: only suspended and ok are told apart.
Finish(r, how) ==
  Transition(r, "finished",
             IF how \in {"suspended", "succeeded"} THEN how ELSE "failed",
             how = "succeeded")

\* run_script returns.  It ends as "stopped" only on a stop control.
RunScript(r, how) ==
  /\ pc[r] = "run"
  /\ how = "stopped" => r \in control
  /\ Goto(r, "finish")
  /\ ended' = [ended EXCEPT ![r] = how]
  /\ call' = [call EXCEPT ![r] = Finish(r, how)]
  /\ UNCHANGED <<files, lock, draft, todo, control, told, ioLeft, crashesLeft>>

RunScriptRaises(r) ==
  /\ pc[r] = "run"
  /\ Goto(r, "load")
  /\ call' = [call EXCEPT ![r] = Transition(r, "failed", "failed", FALSE)]
  /\ UNCHANGED <<files, lock, draft, rest>>

\* finish reads the snapshot first; a stop that is already there wins.
FinishGet(r) ==
  /\ pc[r] = "finish" /\ Free(r)
  /\ Goto(r, IF record[r].status = "stopped" THEN "done" ELSE "load")
  /\ UNCHANGED <<files, lock, call, draft, rest>>

-----------------------------------------------------------------------------
(* _transition: lock, load, decide; replace run.json; append to the journal. *)

\* Mutant of Refused: a worker's outcome replaces a stop.
RefusedOverStop(c) == c.status = "stopped" /\ record[c.run].status \in Terminal

\* Mutant of Refused: a stop replaces an outcome.
RefusedOverOutcome(c) == c.status # "stopped" /\ record[c.run].status = "stopped"

\* Mutant of Refused: only queued runs change.
RefusedUnlessQueued(c) == record[c.run].status # "queued"

\* The two early returns: a stop never replaces terminal history, and nothing
\* replaces a stop.
Refused(c) ==
  \/ c.status = "stopped" /\ record[c.run].status \in Terminal
  \/ c.status # "stopped" /\ record[c.run].status = "stopped"

Load(a) ==
  /\ pc[a] = "load" /\ Free(a)
  /\ LET c == call[a]
     IN  IF record[c.run] = NoRecord \/ Refused(c)
         THEN /\ Goto(a, After(a, record[c.run].status))
              /\ told' = IF c.status = "stopped"
                            /\ record[c.run].status = "stopped"
                         THEN told \cup {c.run} ELSE told
              /\ UNCHANGED <<lock, draft>>
         ELSE /\ Goto(a, "write") /\ Take(a)
              /\ draft' = [draft EXCEPT ![a] =
                   [status |-> c.status,
                    result |-> IF c.result \/ c.status \in Terminal
                               THEN c.result ELSE record[c.run].result]]
              /\ UNCHANGED told
  /\ UNCHANGED <<files, call, todo, control, ended, ioLeft, crashesLeft>>

\* Mutant of WriteRecord: the lock covers the snapshot and not the journal.
WriteRecordUnlocks(a) ==
  /\ pc[a] = "write"
  /\ Goto(a, "append") /\ Release(a)
  /\ made' = made \cup {call[a].run}
  /\ record' = [record EXCEPT ![call[a].run] = draft[a]]
  /\ UNCHANGED <<journal, call, draft, rest>>

WriteRecord(a) ==
  /\ pc[a] = "write"
  /\ Goto(a, "append")
  /\ made' = made \cup {call[a].run}
  /\ record' = [record EXCEPT ![call[a].run] = draft[a]]
  /\ UNCHANGED <<journal, lock, call, draft, rest>>

AppendEvent(a) ==
  /\ pc[a] = "append"
  /\ Release(a) /\ Goto(a, After(a, draft[a].status))
  /\ journal' = [journal EXCEPT ![call[a].run] = Append(@, draft[a].status)]
  /\ told' = IF call[a].event = "stopped" THEN told \cup {call[a].run} ELSE told
  /\ UNCHANGED <<made, record, call, draft, todo, control, ended, ioLeft,
                 crashesLeft>>

\* OSError out of either write.  The worker's handler calls fail_launch, and
\* swallows what that raises; a stop and recover_incomplete propagate it.
TransitionRaises(a) ==
  /\ pc[a] \in {"write", "append"} /\ ioLeft > 0
  /\ ioLeft' = ioLeft - 1
  /\ Release(a)
  /\ IF a \in Runs /\ call[a].event # "failed"
     THEN /\ Goto(a, "load")
          /\ call' = [call EXCEPT ![a] = Transition(a, "failed", "failed", FALSE)]
     ELSE /\ Goto(a, IF a \in Runs THEN "done" ELSE "idle")
          /\ UNCHANGED call
  /\ todo' = IF a = Recoverer THEN {} ELSE todo
  /\ UNCHANGED <<files, draft, control, ended, told, crashesLeft>>

-----------------------------------------------------------------------------
(* Operators: the workflow_control stop verb and manager.stop; recovery. *)

Stop(r) == Transition(r, "stopped", "stopped", FALSE)

\* The verb appends to the control store, then looks up the background run.
ControlStop(s, r) ==
  /\ pc[s] = "idle" /\ record[r] # NoRecord
  /\ control' = control \cup {r}
  /\ Goto(s, "requested")
  /\ call' = [call EXCEPT ![s] = Stop(r)]
  /\ UNCHANGED <<files, lock, draft, todo, ended, told, ioLeft, crashesLeft>>

StopBackground(s) ==
  /\ pc[s] = "requested" /\ Free(s)
  /\ Goto(s, IF record[call[s].run] = NoRecord THEN "idle" ELSE "load")
  /\ UNCHANGED <<files, lock, call, draft, rest>>

ManagerStop(s, r) ==
  /\ pc[s] = "idle"
  /\ Goto(s, "load")
  /\ call' = [call EXCEPT ![s] = Stop(r)]
  /\ UNCHANGED <<files, lock, draft, rest>>

\* recover_incomplete, called when no prior worker survives.
RecoverList ==
  /\ pc[Recoverer] = "idle" /\ todo = {} /\ Free(Recoverer)
  /\ \A r \in Runs : pc[r] \in {"absent", "done"}
  /\ todo' = {r \in Runs : record[r].status \in {"queued", "running"}}
  /\ UNCHANGED <<files, lock, pc, call, draft, control, ended, told, ioLeft,
                 crashesLeft>>

RecoverNext(r) ==
  /\ pc[Recoverer] = "idle" /\ r \in todo
  /\ todo' = todo \ {r}
  /\ Goto(Recoverer, "load")
  /\ call' = [call EXCEPT ![Recoverer] =
                Transition(r, "recovered_failed", "failed", FALSE)]
  /\ UNCHANGED <<files, lock, draft, control, ended, told, ioLeft, crashesLeft>>

\* The host process dies; files stay, threads, locks and callers are gone.
Crash ==
  /\ crashesLeft > 0
  /\ crashesLeft' = crashesLeft - 1
  /\ lock' = [i \in Instances |-> Nobody]
  /\ pc' = [a \in Actors |-> IF a \in Runs
                             THEN IF pc[a] = "absent" THEN "absent" ELSE "done"
                             ELSE "idle"]
  /\ todo' = {}
  /\ UNCHANGED <<files, call, draft, control, ended, told, ioLeft>>

-----------------------------------------------------------------------------

Init ==
  /\ made = {}
  /\ record = [r \in Runs |-> NoRecord]
  /\ journal = [r \in Runs |-> << >>]
  /\ lock = [i \in Instances |-> Nobody]
  /\ pc = [a \in Actors |-> IF a \in Runs THEN "absent" ELSE "idle"]
  /\ call = [a \in Actors |-> Transition(AnyRun, "failed", "failed", FALSE)]
  /\ draft = [a \in Actors |-> [status |-> "queued", result |-> FALSE]]
  /\ todo = {} /\ control = {} /\ told = {}
  /\ ended = [r \in Runs |-> "no"]
  /\ ioLeft = IoFailures /\ crashesLeft = MaxCrashes

Outcomes == {"succeeded", "suspended", "failed", "stopped"}

BeginStep(r) == MakeDir(r) \/ WriteQueued(r) \/ JournalQueued(r) \/ BeginFails(r)

ThreadStep(r) ==
  \/ StartThread(r) \/ WorkerGet(r) \/ MarkRunning(r)
  \/ \E how \in Outcomes : RunScript(r, how)
  \/ RunScriptRaises(r) \/ FinishGet(r)

TransitionStep(a) ==
  Load(a) \/ WriteRecord(a) \/ AppendEvent(a) \/ TransitionRaises(a)

Next ==
  \/ \E r \in Runs : BeginStep(r) \/ ThreadStep(r) \/ RecoverNext(r)
  \/ \E a \in Actors : TransitionStep(a)
  \/ \E s \in Stoppers : StopBackground(s)
                         \/ \E r \in Runs : ControlStop(s, r) \/ ManagerStop(s, r)
  \/ RecoverList
  \/ Crash

Spec == Init /\ [][Next]_vars

\* Threads that run keep running: a launch past mkdir, a worker (the VM's own
\* limits end run_script), and any call that is inside the store.
FairSpec ==
  /\ Spec
  /\ \A r \in Runs : WF_vars(WriteQueued(r) \/ JournalQueued(r) \/ ThreadStep(r))
  /\ \A a \in Actors : WF_vars(Load(a) \/ WriteRecord(a) \/ AppendEvent(a))

-----------------------------------------------------------------------------
(* Properties. *)

TypeOK ==
  /\ made \subseteq Runs
  /\ record \in [Runs -> Record \cup {NoRecord}]
  /\ journal \in [Runs -> Seq(Statuses)]
  /\ lock \in [Instances -> Actors \cup {Nobody}]
  /\ pc \in [Actors -> Places]
  /\ call \in [Actors -> Call]
  /\ draft \in [Actors -> Record]
  /\ todo \subseteq Runs /\ control \subseteq Runs /\ told \subseteq Runs
  /\ ended \in [Runs -> Outcomes \cup {"no"}]
  /\ ioLeft \in Nat /\ crashesLeft \in Nat

\* "A running worker will not overwrite a stopped snapshot when it later
\* exits": once a stop call has reported a run as stopped, the snapshot says
\* so for ever, whatever the worker, recovery and other stops do.
StopWins == \A r \in told : record[r].status = "stopped"

\* Terminal snapshots are authoritative history: until a write raises, no
\* worker, stop, recovery or restart changes the status of one or drops its
\* result.
TerminalIsFinal ==
  [][ioLeft' = IoFailures =>
       \A r \in Runs :
         record[r].status \in Terminal => record'[r] = record[r]]_vars

\* "Do not erase completed result/error payloads": a result that finish wrote
\* stays in the snapshot.
ResultKept ==
  [][\A r \in Runs : record[r].result => record'[r].result]_vars

\* Nothing raised, and no process died, so far.
Undisturbed == ioLeft = IoFailures /\ crashesLeft = MaxCrashes

\* Outside a call's critical section, and if nothing failed or died, the last
\* line of a run's journal tells the status in its snapshot.
JournalTells ==
  Undisturbed =>
    \A r \in Runs :
      \/ pc[r] \in {"writing", "journalling"}
      \/ \E a \in Actors : pc[a] \in {"write", "append"} /\ call[a].run = r
      \/ record[r] = NoRecord
      \/ journal[r] # << >> /\ journal[r][Len(journal[r])] = record[r].status

\* A launched run reaches a terminal snapshot, whatever operators do meanwhile,
\* if no write raises and the process lives.
EveryLaunchEnds ==
  \A r \in Runs :
    (pc[r] = "get") ~> (record[r].status \in Terminal \/ ~Undisturbed)

\* "Never let a worker vanish silently": ... and if a write raises as well.
NoWorkerVanishes ==
  \A r \in Runs :
    (pc[r] = "get")
      ~> (record[r].status \in Terminal \/ crashesLeft < MaxCrashes)

\* "Do not resurrect stopped work as succeeded/failed in the operator view":
\* a run that the VM ended because of an operator's stop is not shown failed.
StoppedIsNotFailed ==
  \A r \in Runs : ended[r] = "stopped" => record[r].status # "failed"
=============================================================================
