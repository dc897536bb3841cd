------------------------------- MODULE GuestRpc -------------------------------
(***************************************************************************)
(* The capability calls of a workflow script in the guest process:          *)
(* _Connection and parallel() of hermes_workflows/vm_guest.py.              *)
(*                                                                          *)
(* One asyncio loop runs the script's tasks; acall registers a future and   *)
(* lets a reader task resolve it.  The reader task receives in a worker     *)
(* thread (asyncio.to_thread), so the thread stays inside channel.recv when *)
(* the call it waits for is cancelled.  log() and phase() receive on the    *)
(* loop's own thread, which blocks every task meanwhile.                    *)
(*                                                                          *)
(* The script has one parallel() block per member of Groups that tasks      *)
(* belong to; the blocks run side by side as branches of an outer           *)
(* parallel(), and each catches a failure of its parallel(), may log, and   *)
(* ends.  Task t makes one brokered call, whose id is t; the log call of    *)
(* block g has id g.  The parent answers calls concurrently, in any order.  *)
(***************************************************************************)
EXTENDS Naturals, Sequences, FiniteSets

CONSTANTS Tasks, Groups,
          MaxParallel    \* running tasks per block

ASSUME GuestAssumption ==
  /\ Tasks \cap Groups = {} /\ "thread" \notin Groups
  /\ MaxParallel \in Nat \ {0}

VARIABLES
  group,      \* group[t]: the block task t belongs to, which the script decides
  task,       \* task[t]: "todo", "ready", "waiting", "done", "failed", "cancelled"
  cancelling, \* tasks with a cancel request they have not run yet
  fut,        \* fut[t]: "none", "pending", "ok", "err" or "cancelled"
  pending,    \* the ids in _Connection._pending
  running,    \* running[g]: parallel()'s running set
  block,      \* block[g]: "wait", "cancel", "after", "log", "desync" or "done"
  calls,      \* calls the parent has yet to answer
  channel,    \* ret frames on the way to the guest
  receivers,  \* who is blocked in channel.recv: "thread" or a logging block
  reader,     \* the reader task: "none", "new", "submitted", "recv" or "got"
  got,        \* the frame the thread handed to the reader task
  finished    \* asyncio.run returned

guestVars == <<group, task, cancelling, fut, pending, running, block, calls, channel,
               receivers, reader, got, finished>>
wire == <<calls, channel, receivers>>

Frame == [id : Tasks \cup Groups, ok : BOOLEAN]
NoFrame == [id |-> "none", ok |-> TRUE]
In(g) == {t \in Tasks : group[t] = g}

\* The event loop runs one step at a time, and none while a log call blocks it.
LoopFree == ~finished /\ \A g \in Groups : block[g] # "log"

-----------------------------------------------------------------------------
(* Tasks. *)

\* Mutant of Send: nobody starts the reader.
SendOnly(t) ==
  /\ LoopFree /\ task[t] = "ready" /\ t \notin cancelling
  /\ task' = [task EXCEPT ![t] = "waiting"]
  /\ fut' = [fut EXCEPT ![t] = "pending"]
  /\ pending' = pending \cup {t}
  /\ calls' = calls \cup {t}
  /\ UNCHANGED <<group, cancelling, running, block, channel, receivers, reader, got,
                 finished>>

\* acall up to its await: the lock is free, as its holder never awaits.
Send(t) ==
  /\ LoopFree /\ task[t] = "ready" /\ t \notin cancelling
  /\ task' = [task EXCEPT ![t] = "waiting"]
  /\ fut' = [fut EXCEPT ![t] = "pending"]
  /\ pending' = pending \cup {t}
  /\ calls' = calls \cup {t}
  /\ reader' = IF reader = "none" THEN "new" ELSE reader
  /\ UNCHANGED <<group, cancelling, running, block, channel, receivers, got, finished>>

\* A task cancelled before its first step never runs its thunk.
CancelledEarly(t) ==
  /\ LoopFree /\ task[t] = "ready" /\ t \in cancelling
  /\ task' = [task EXCEPT ![t] = "cancelled"]
  /\ cancelling' = cancelling \ {t}
  /\ UNCHANGED <<group, fut, pending, running, block, wire, reader, got, finished>>

\* The rest of acall: a cancel wins over a result that came with it, and only a
\* cancelled future takes its id out of _pending.
Resume(t) ==
  /\ LoopFree /\ task[t] = "waiting" /\ fut[t] # "pending"
  /\ task' = [task EXCEPT ![t] = IF t \in cancelling THEN "cancelled"
                                 ELSE IF fut[t] = "ok" THEN "done" ELSE "failed"]
  /\ cancelling' = cancelling \ {t}
  /\ pending' = IF fut[t] = "cancelled" THEN pending \ {t} ELSE pending
  /\ UNCHANGED <<group, fut, running, block, wire, reader, got, finished>>

-----------------------------------------------------------------------------
(* The reader task and its thread. *)

\* Mutant of NextRead: the reader reads on when no call is pending.
ReadAlways(ids) == "submitted"

\* The head of its loop: leave, or hand a recv to the executor.
NextRead(ids) == IF ids = {} THEN "none" ELSE "submitted"

ReaderStarts ==
  /\ LoopFree /\ reader = "new"
  /\ reader' = NextRead(pending)
  /\ UNCHANGED <<group, task, cancelling, fut, pending, running, block, wire, got,
                 finished>>

ThreadReceives ==
  /\ reader = "submitted"
  /\ reader' = "recv"
  /\ receivers' = Append(receivers, "thread")
  /\ UNCHANGED <<group, task, cancelling, fut, pending, running, block, calls, channel,
                 got, finished>>

\* _read_returns handles a frame.  An unknown id is dropped.  set_result on a
\* future that is cancelled but not popped yet raises, and the task ends.
ReaderHandles ==
  /\ LoopFree /\ reader = "got"
  /\ LET t == got.id
     IN  IF t \notin pending
         THEN reader' = NextRead(pending) /\ UNCHANGED <<fut, pending>>
         ELSE /\ pending' = pending \ {t}
              /\ IF fut[t] = "cancelled"
                 THEN reader' = "none" /\ UNCHANGED fut
                 ELSE /\ reader' = NextRead(pending')
                      /\ fut' = [fut EXCEPT ![t] = IF got.ok THEN "ok" ELSE "err"]
  /\ got' = NoFrame
  /\ UNCHANGED <<group, task, cancelling, running, block, wire, finished>>

-----------------------------------------------------------------------------
(* parallel(), and the script around it. *)

\* start_ready: tasks not started yet fill the free slots, in order; the choice
\* among equal tasks is left open.
StartReady(g, left, fresh) ==
  LET todo == {t \in In(g) : task[t] = "todo"}
      room == MaxParallel - Cardinality(left)
  IN  /\ fresh \subseteq todo
      /\ Cardinality(fresh) = IF Cardinality(todo) < room
                              THEN Cardinality(todo) ELSE room
      /\ task' = [t \in Tasks |-> IF t \in fresh THEN "ready" ELSE task[t]]
      /\ running' = [running EXCEPT ![g] = left \cup fresh]

Over(t) == task[t] \in {"done", "failed", "cancelled"}

\* asyncio.wait returned and nothing failed.
Advance(g, fresh) ==
  /\ LoopFree /\ block[g] = "wait"
  /\ LET over == {t \in running[g] : Over(t)}
     IN  /\ running[g] = {} \/ over # {}
         /\ \A t \in over : task[t] = "done"
         /\ StartReady(g, running[g] \ over, fresh)
  /\ block' = [block EXCEPT ![g] = IF running'[g] = {} THEN "after" ELSE "wait"]
  /\ UNCHANGED <<group, cancelling, fut, pending, wire, reader, got, finished>>

\* asyncio.wait returned a failed task: cancel the ones that still run.  Cancel
\* reaches the future a task waits for at once, and the task when it runs next.
CancelSiblings(g) ==
  /\ LoopFree /\ block[g] = "wait"
  /\ \E t \in running[g] : task[t] = "failed"
  /\ LET left == {t \in running[g] : ~Over(t)}
     IN  /\ cancelling' = cancelling \cup left
         /\ fut' = [t \in Tasks |-> IF t \in left /\ fut[t] = "pending"
                                    THEN "cancelled" ELSE fut[t]]
  /\ block' = [block EXCEPT ![g] = "cancel"]
  /\ UNCHANGED <<group, task, pending, running, wire, reader, got, finished>>

\* Mutant of Gathered: it waits for tasks that were never started, too.
GatheredAll(g) ==
  /\ LoopFree /\ block[g] = "cancel"
  /\ \A t \in In(g) : Over(t)
  /\ block' = [block EXCEPT ![g] = "after"]
  /\ UNCHANGED <<group, task, cancelling, fut, pending, running, wire, reader, got,
                 finished>>

\* gather returned; the failure is raised and the script catches it.
Gathered(g) ==
  /\ LoopFree /\ block[g] = "cancel"
  /\ \A t \in running[g] : Over(t)
  /\ block' = [block EXCEPT ![g] = "after"]
  /\ UNCHANGED <<group, task, cancelling, fut, pending, running, wire, reader, got,
                 finished>>

\* call: refused while async calls are pending.
Log(g) ==
  /\ LoopFree /\ block[g] = "after"
  /\ IF pending # {}
     THEN /\ block' = [block EXCEPT ![g] = "done"]
          /\ UNCHANGED <<calls, receivers>>
     ELSE /\ block' = [block EXCEPT ![g] = "log"]
          /\ calls' = calls \cup {g}
          /\ receivers' = Append(receivers, g)
  /\ UNCHANGED <<group, task, cancelling, fut, pending, running, channel, reader, got,
                 finished>>

EndBlock(g) ==
  /\ LoopFree /\ block[g] = "after"
  /\ block' = [block EXCEPT ![g] = "done"]
  /\ UNCHANGED <<group, task, cancelling, fut, pending, running, wire, reader, got,
                 finished>>

\* asyncio.run ends: it joins the executor, so a thread in recv holds it back.
Finish ==
  /\ LoopFree /\ \A g \in Groups : block[g] \in {"done", "desync"}
  /\ reader \notin {"submitted", "recv"}
  /\ finished' = TRUE
  /\ UNCHANGED <<group, task, cancelling, fut, pending, running, block, wire, reader,
                 got>>

-----------------------------------------------------------------------------
(* The channel and the parent. *)

Answer(id, ok) ==
  /\ id \in calls
  /\ ok \/ id \in Tasks
  /\ calls' = calls \ {id}
  /\ channel' = Append(channel, [id |-> id, ok |-> ok])
  /\ UNCHANGED <<group, task, cancelling, fut, pending, running, block, receivers,
                 reader, got, finished>>

\* The receiver that came first gets the next frame.
Deliver ==
  /\ channel # << >> /\ receivers # << >>
  /\ LET frame == Head(channel)
         who == Head(receivers)
     IN  IF who = "thread"
         THEN /\ reader' = "got" /\ got' = frame
              /\ UNCHANGED block
         ELSE /\ block' = [block EXCEPT ![who] =
                             IF frame.id = who THEN "done" ELSE "desync"]
              /\ UNCHANGED <<reader, got>>
  /\ channel' = Tail(channel)
  /\ receivers' = Tail(receivers)
  /\ UNCHANGED <<group, task, cancelling, fut, pending, running, calls, finished>>

-----------------------------------------------------------------------------

GuestInit ==
  /\ group \in [Tasks -> Groups]
  /\ task = [t \in Tasks |-> "todo"]
  /\ fut = [t \in Tasks |-> "none"]
  /\ cancelling = {} /\ pending = {} /\ calls = {}
  /\ running = [g \in Groups |-> {}]
  /\ block = [g \in Groups |-> "wait"]
  /\ channel = << >> /\ receivers = << >>
  /\ reader = "none" /\ got = NoFrame
  /\ finished = FALSE

TaskStep(t) == Send(t) \/ CancelledEarly(t) \/ Resume(t)

BlockStep(g) ==
  \/ \E fresh \in SUBSET In(g) : Advance(g, fresh)
  \/ CancelSiblings(g) \/ Gathered(g) \/ Log(g) \/ EndBlock(g)

ReaderStep == ReaderStarts \/ ThreadReceives \/ ReaderHandles

GuestNext ==
  \/ \E t \in Tasks : TaskStep(t)
  \/ \E g \in Groups : BlockStep(g)
  \/ ReaderStep
  \/ \E id \in Tasks \cup Groups, ok \in BOOLEAN : Answer(id, ok)
  \/ Deliver
  \/ Finish

GuestSpec == GuestInit /\ [][GuestNext]_guestVars

\* The loop runs every ready task, threads run, and the parent answers every
\* call (the VM bounds each by its timeouts).
GuestFairSpec ==
  /\ GuestSpec
  /\ \A t \in Tasks : WF_guestVars(TaskStep(t))
  /\ \A g \in Groups : WF_guestVars(BlockStep(g))
  /\ WF_guestVars(ReaderStep) /\ WF_guestVars(Deliver) /\ WF_guestVars(Finish)
  /\ \A id \in Tasks \cup Groups : WF_guestVars(\E ok \in BOOLEAN : Answer(id, ok))

-----------------------------------------------------------------------------
(* Properties. *)

GuestTypeOK ==
  /\ group \in [Tasks -> Groups]
  /\ task \in [Tasks -> {"todo", "ready", "waiting", "done", "failed",
                         "cancelled"}]
  /\ fut \in [Tasks -> {"none", "pending", "ok", "err", "cancelled"}]
  /\ cancelling \subseteq Tasks /\ pending \subseteq Tasks
  /\ calls \subseteq Tasks \cup Groups
  /\ running \in [Groups -> SUBSET Tasks]
  /\ block \in [Groups -> {"wait", "cancel", "after", "log", "desync", "done"}]
  /\ channel \in Seq(Frame)
  /\ receivers \in Seq(Groups \cup {"thread"})
  /\ reader \in {"none", "new", "submitted", "recv", "got"}
  /\ got \in Frame \cup {NoFrame}
  /\ finished \in BOOLEAN

\* No recv can block for ever: whoever receives, the reader's thread or a log
\* call, there is a frame on the way or a call the parent will answer for each,
\* even though cancelled calls leave frames nobody wants.
ReceiversFed ==
  Len(receivers) + (IF reader = "submitted" THEN 1 ELSE 0)
    <= Len(channel) + Cardinality(calls)

Cancelled(t) ==
  task[t] = "cancelled" \/ fut[t] = "cancelled" \/ t \in cancelling

\* A log call gets the answer to the call it sent ("send one capability call and
\* block for its structured response") as long as no call was cancelled.
CalmLogsAnswered ==
  (\A t \in Tasks : ~Cancelled(t)) => \A g \in Groups : block[g] # "desync"

\* ... and if calls were cancelled as well.
NoDesync == \A g \in Groups : block[g] # "desync"

\* Every brokered call comes back to the task that made it, whatever the
\* others do ("without blocking sibling async tasks").
EveryCallReturns == \A t \in Tasks : (task[t] = "waiting") ~> Over(t)

\* A script that has one block at a time gets to its done frame, whichever of
\* its calls fail.
GuestFinishes == (\A t, u \in Tasks : group[t] = group[u]) => <>finished
=============================================================================
