------------------------------- MODULE VmDrive -------------------------------
(***************************************************************************)
(* The life of one workflow subprocess: WorkflowVM._drive of                *)
(* hermes_workflows/vm.py, with the brokered calls it runs on worker threads *)
(* and the run controls an operator records meanwhile.                       *)
(*                                                                          *)
(* Threads of the parent: the driver reads frames and decides the result;   *)
(* one worker per call handles it, writes the ret frame and then looks at    *)
(* the broker's control flags; a timer kills the subprocess.  The guest may  *)
(* send any frames and die at any time.                                      *)
(***************************************************************************)
EXTENDS Naturals, Sequences, FiniteSets

CONSTANTS Calls,       \* ids of the capability calls the guest may make
          MaxParallel, \* threads of the reply executor
          Kinds,       \* what a call may come to, of KindsOfCall
          Patient,     \* whether the guest finishes only after its answers
          Deadline     \* whether max_runtime_s pass within the run

KindsOfCall == {"answer",     \* an answer, or a denial the guest may catch
                "suspend",    \* an unresolved await or approval
                "abort",      \* a hard limit or replay drift
                "unencodable"} \* a result encode_frame cannot encode

ASSUME DriveAssumption ==
  /\ MaxParallel \in Nat \ {0}
  /\ Calls \cap {"ok", "error", "bad"} = {}
  /\ Kinds \subseteq KindsOfCall
  /\ Patient \in BOOLEAN /\ Deadline \in BOOLEAN

VARIABLES
  driver,   \* where _drive is
  guest,    \* "up" or "down"
  pipe,     \* frames on the guest's stdout
  queue,    \* calls submitted to the executor and not started
  pending,  \* pending_rets
  call,     \* call[c]: "none", "queued", "handling", "reply", "observe",
            \* "note", "over" or "cancelled"
  comes,    \* comes[c]: what the call came to
  broken,   \* calls whose worker raised and is not collected yet
  flags,    \* the broker's should_stop, _pause, _abort and _suspend
  noting,   \* noting[c]: the flags worker c has yet to pass on
  noted,    \* stopped, paused, suspended and protocol_error of _drive
  done,     \* the done frame: "none", "ok" or "error"
  still,    \* parent_calls_still_running
  late,     \* max_runtime_s have passed
  timer,    \* "set", "fired" or "cancelled"
  result,   \* the ScriptRunResult; "internal" is the error of run()'s except
  unwound,  \* an exception has left the loop of _drive
  desired,  \* the run's control state: "run", "paused" or "stopped"
  unsent,   \* history: calls whose answer was never encoded
  left      \* history: how the guest left by itself: "no", "finished", "crashed"

workers == <<queue, call, comes, noting, flags>>
outcome == <<noted, done, still, result, unwound>>
vars == <<driver, guest, pipe, pending, workers, broken, outcome, late, timer,
          desired, unsent, left>>

Frames == Calls \cup {"ok", "error", "bad"}
Flags == {"stop", "pause", "abort", "suspend"}
Notes == {"stop", "pause", "suspend", "protocol"}
Active == {"queued", "handling", "reply", "observe", "note"}
Results == {"none", "running", "timeout", "stopped", "paused", "suspended",
            "protocol", "crashed", "succeeded", "script_error", "internal"}
Over(c) == call[c] \in {"over", "cancelled"}

\* _set_stopped, _set_paused, _set_suspended and _set_protocol_error: nothing is
\* noted once the done frame is read.
Note(what) == noted' = IF done = "none" THEN noted \cup what ELSE noted

-----------------------------------------------------------------------------
(* The guest and the operator. *)

GuestCalls(c) ==
  /\ guest = "up" /\ call[c] = "none"
  /\ \A i \in 1..Len(pipe) : pipe[i] # c
  /\ pipe' = Append(pipe, c)
  /\ UNCHANGED <<driver, guest, pending, workers, broken, outcome, late, timer,
                 desired, unsent, left>>

Answered(c) == call[c] \in {"observe", "note", "over"} /\ c \notin unsent

\* The script returned or raised.  A guest that is not patient has cancelled the
\* tasks that wait for the other answers, as parallel() does.
GuestFinishes(how) ==
  /\ guest = "up"
  /\ Patient => /\ \A c \in Calls : call[c] = "none" \/ Answered(c)
                /\ pipe = << >>
  /\ pipe' = Append(pipe, how)
  /\ guest' = "down"
  /\ left' = "finished"
  /\ UNCHANGED <<driver, pending, workers, broken, outcome, late, timer,
                 desired, unsent>>

\* The guest dies, maybe in the middle of a frame.
GuestCrashes(tail) ==
  /\ guest = "up"
  /\ pipe' = pipe \o tail
  /\ guest' = "down"
  /\ left' = "crashed"
  /\ UNCHANGED <<driver, pending, workers, broken, outcome, late, timer,
                 desired, unsent>>

\* A pause or stop control is appended; a stop is final.
Operator(state) ==
  /\ desired # "stopped" /\ desired' = state
  /\ UNCHANGED <<driver, guest, pipe, pending, workers, broken, outcome, late,
                 timer, unsent, left>>

-----------------------------------------------------------------------------
(* Workers: _handle_and_reply. *)

Busy == {c \in Calls : call[c] \in Active \ {"queued"}}

\* The control checks that precede the effect: a stop denies every call, a pause
\* those that start new work.
Verdicts ==
  IF desired = "stopped" THEN {"stop"}
  ELSE IF desired = "paused" THEN {"pause", "answer"} ELSE Kinds

StartWorker(kind) ==
  /\ queue # << >> /\ Cardinality(Busy) < MaxParallel
  /\ kind \in Verdicts
  /\ call' = [call EXCEPT ![Head(queue)] = "handling"]
  /\ comes' = [comes EXCEPT ![Head(queue)] = kind]
  /\ queue' = Tail(queue)
  /\ UNCHANGED <<driver, guest, pipe, pending, noting, flags, broken, outcome,
                 late, timer, desired, unsent, left>>

\* broker.handle returns, which a runner may put off for ever.
Handled(c) ==
  /\ call[c] = "handling"
  /\ call' = [call EXCEPT ![c] = "reply"]
  /\ flags' = flags \cup ({comes[c]} \cap Flags)
  /\ UNCHANGED <<driver, guest, pipe, queue, pending, comes, noting, broken,
                 outcome, late, timer, desired, unsent, left>>

\* broker.handle raises: a sink that _emit calls on the way of a denial or an
\* error raised.  The flag is set; no answer is sent and nobody looks at it here.
HandleRaises(c) ==
  /\ call[c] = "handling"
  /\ call' = [call EXCEPT ![c] = "over"]
  /\ flags' = flags \cup ({comes[c]} \cap Flags)
  /\ broken' = broken \cup {c} /\ unsent' = unsent \cup {c}
  /\ UNCHANGED <<driver, guest, pipe, queue, pending, comes, noting, outcome, late,
                 timer, desired, left>>

\* The ret frame is written, cannot be encoded (the worker's future fails), or
\* finds stdin closed.
Reply(c) ==
  /\ call[c] = "reply"
  /\ \/ /\ comes[c] = "unencodable"
        /\ call' = [call EXCEPT ![c] = "over"]
        /\ broken' = broken \cup {c} /\ unsent' = unsent \cup {c}
        /\ UNCHANGED noted
     \/ /\ comes[c] # "unencodable" /\ guest = "up"
        /\ call' = [call EXCEPT ![c] = "observe"]
        /\ UNCHANGED <<broken, unsent, noted>>
     \/ /\ comes[c] # "unencodable" /\ guest = "down"
        /\ call' = [call EXCEPT ![c] = "over"]
        /\ Note({"protocol"})
        /\ UNCHANGED <<broken, unsent>>
  /\ UNCHANGED <<driver, guest, pipe, queue, pending, comes, noting, flags, done,
                 still, result, unwound, late, timer, desired, left>>

\* control_state, and the first _kill.
Observe(c) ==
  /\ call[c] = "observe"
  /\ IF flags = {}
     THEN call' = [call EXCEPT ![c] = "over"] /\ UNCHANGED <<noting, guest>>
     ELSE /\ call' = [call EXCEPT ![c] = "note"]
          /\ noting' = [noting EXCEPT ![c] = flags]
          /\ guest' = "down"
  /\ UNCHANGED <<driver, pipe, queue, pending, comes, flags, broken, outcome,
                 late, timer, desired, unsent, left>>

\* The flags are passed on in this order, each under state_lock.
Before(flag) ==
  CASE flag = "stop" -> {}
    [] flag = "pause" -> {"stop"}
    [] flag = "abort" -> {"stop", "pause"}
    [] flag = "suspend" -> {"stop", "pause", "abort"}

PassOn(c, flag) ==
  /\ call[c] = "note"
  /\ flag \in noting[c] /\ noting[c] \cap Before(flag) = {}
  /\ noting' = [noting EXCEPT ![c] = @ \ {flag}]
  /\ call' = IF noting[c] = {flag} THEN [call EXCEPT ![c] = "over"] ELSE call
  /\ Note({IF flag = "abort" THEN "protocol" ELSE flag})
  /\ UNCHANGED <<driver, guest, pipe, queue, pending, comes, flags, broken, done,
                 still, result, unwound, late, timer, desired, unsent, left>>

-----------------------------------------------------------------------------
(* The driver. *)

\* The boot frame is written, or the child is gone already.
Boot ==
  /\ driver = "boot"
  /\ IF guest = "up"
     THEN driver' = "loop" /\ UNCHANGED noted
     ELSE driver' = "drain" /\ Note({"protocol"})
  /\ UNCHANGED <<guest, pipe, pending, workers, broken, done, still, result,
                 unwound, late, timer, desired, unsent, left>>

\* An exception leaves the loop.  The finally blocks run, so the drain comes first.
Unwinds == unwound' = TRUE /\ driver' = "drain"

\* The boot frame cannot be encoded; there is no executor yet to drain.
BootRaises ==
  /\ driver = "boot" /\ Unwinds
  /\ UNCHANGED <<guest, pipe, pending, workers, broken, noted, done, still, result,
                 late, timer, desired, unsent, left>>

\* Collect the futures that are done: one that raised is a protocol error.
Collect(finished) ==
  /\ pending' = pending \ finished
  /\ broken' = broken \ finished
  /\ IF broken \cap finished # {} THEN Note({"protocol"}) ELSE UNCHANGED noted

Loop ==
  /\ driver = "loop"
  /\ Collect({c \in pending : Over(c)})
  /\ driver' = IF noted' = {} THEN "read" ELSE "drain"
  /\ UNCHANGED <<guest, pipe, workers, done, still, result, unwound, late, timer,
                 desired, unsent, left>>

ReadCall ==
  /\ driver = "read" /\ pipe # << >> /\ Head(pipe) \in Calls
  /\ pipe' = Tail(pipe)
  /\ queue' = Append(queue, Head(pipe))
  /\ pending' = pending \cup {Head(pipe)}
  /\ call' = [call EXCEPT ![Head(pipe)] = "queued"]
  /\ driver' = "loop"
  /\ UNCHANGED <<guest, comes, noting, flags, broken, outcome, late, timer,
                 desired, unsent, left>>

\* The frame is read, and the journal's sink raises on its started event, or the
\* executor has no thread for it: the call is never submitted.
StartRaises ==
  /\ driver = "read" /\ pipe # << >> /\ Head(pipe) \in Calls
  /\ pipe' = Tail(pipe)
  /\ call' = [call EXCEPT ![Head(pipe)] = "cancelled"]
  /\ Unwinds
  /\ UNCHANGED <<guest, queue, pending, comes, noting, flags, broken, noted, done,
                 still, result, late, timer, desired, unsent, left>>

ReadDone ==
  /\ driver = "read" /\ pipe # << >> /\ Head(pipe) \in {"ok", "error"}
  /\ pipe' = Tail(pipe)
  /\ done' = Head(pipe)
  /\ driver' = "drain"
  /\ UNCHANGED <<guest, pending, workers, broken, noted, still, result, unwound,
                 late, timer, desired, unsent, left>>

\* End of the stream, or a frame that cannot be read.
ReadEnds ==
  /\ driver = "read"
  /\ \/ /\ pipe # << >> /\ Head(pipe) = "bad"
        /\ pipe' = Tail(pipe) /\ Note({"protocol"})
     \/ pipe = << >> /\ guest = "down" /\ UNCHANGED <<pipe, noted>>
  /\ driver' = "drain"
  /\ UNCHANGED <<guest, pending, workers, broken, done, still, result, unwound,
                 late, timer, desired, unsent, left>>

\* read_frame raises what the loop does not catch: bytes that are no UTF-8, which
\* take the frames read ahead with them.
ReadRaises ==
  /\ driver = "read" /\ \E i \in 1..Len(pipe) : pipe[i] = "bad"
  /\ pipe' = << >>
  /\ Unwinds
  /\ UNCHANGED <<guest, pending, workers, broken, noted, done, still, result, late,
                 timer, desired, unsent, left>>

\* Mutant of Drain: it waits for every call.
DrainAll ==
  /\ driver = "drain"
  /\ \A c \in pending : Over(c)
  /\ Collect(pending)
  /\ call' = [c \in Calls |-> IF call[c] = "queued" THEN "cancelled" ELSE call[c]]
  /\ queue' = << >> /\ still' = {}
  /\ driver' = "close"
  /\ UNCHANGED <<guest, pipe, comes, noting, flags, done, result, unwound, late,
                 timer, desired, unsent, left>>

\* Mutant of Drain: a call that cannot be cancelled is not reported.
DrainForgets ==
  /\ driver = "drain"
  /\ late \/ \A c \in pending : Over(c)
  /\ Collect({c \in pending : Over(c)})
  /\ call' = [c \in Calls |-> IF call[c] = "queued" THEN "cancelled" ELSE call[c]]
  /\ queue' = << >> /\ still' = {}
  /\ driver' = "close"
  /\ UNCHANGED <<guest, pipe, comes, noting, flags, done, result, unwound, late,
                 timer, desired, unsent, left>>

\* wait(pending_rets) until all are done or the deadline; then the calls not
\* started are cancelled and the executor is shut down.
Drain ==
  /\ driver = "drain"
  /\ late \/ \A c \in pending : Over(c)
  /\ Collect({c \in pending : Over(c)})
  /\ call' = [c \in Calls |-> IF call[c] = "queued" THEN "cancelled" ELSE call[c]]
  /\ queue' = << >>
  /\ still' = {c \in pending : call'[c] \in Active}
  /\ driver' = "close"
  /\ UNCHANGED <<guest, pipe, comes, noting, flags, done, result, unwound, late,
                 timer, desired, unsent, left>>

\* timer.cancel, stdin closed, and the child waited for or killed.
Close ==
  /\ driver = "close"
  /\ timer' = IF timer = "set" THEN "cancelled" ELSE timer
  /\ guest' = "down"
  /\ driver' = "decide"
  /\ UNCHANGED <<pipe, pending, workers, broken, outcome, late, desired, unsent,
                 left>>

\* Mutant of Result: a broken protocol comes before the broker's flags.
ResultProtocolFirst ==
  IF still # {} THEN "running"
  ELSE IF timer = "fired" /\ done = "none" /\ "suspend" \notin noted THEN "timeout"
  ELSE IF "protocol" \in noted THEN "protocol"
  ELSE IF "stop" \in noted THEN "stopped"
  ELSE IF "pause" \in noted THEN "paused"
  ELSE IF "suspend" \in noted THEN "suspended"
  ELSE IF done = "none" THEN "crashed"
  ELSE IF done = "ok" THEN "succeeded" ELSE "script_error"

\* The precedence of the causes, for a run that was not unwound.
Result ==
  IF still # {} THEN "running"
  ELSE IF timer = "fired" /\ done = "none" /\ "suspend" \notin noted THEN "timeout"
  ELSE IF "stop" \in noted THEN "stopped"
  ELSE IF "pause" \in noted THEN "paused"
  ELSE IF "suspend" \in noted THEN "suspended"
  ELSE IF "protocol" \in noted THEN "protocol"
  ELSE IF done = "none" THEN "crashed"
  ELSE IF done = "ok" THEN "succeeded" ELSE "script_error"

\* run() returns; after an exception it knows neither what was noted nor what is
\* still running.
Decide ==
  /\ driver = "decide"
  /\ result' = IF unwound THEN "internal" ELSE Result
  /\ driver' = "returned"
  /\ UNCHANGED <<guest, pipe, pending, workers, broken, noted, done, still, unwound,
                 late, timer, desired, unsent, left>>

-----------------------------------------------------------------------------

TimePasses ==
  /\ Deadline /\ ~late /\ driver # "returned"
  /\ late' = TRUE
  /\ UNCHANGED <<driver, guest, pipe, pending, workers, broken, outcome, timer,
                 desired, unsent, left>>

TimerFires ==
  /\ late /\ timer = "set"
  /\ timer' = "fired" /\ guest' = "down"
  /\ UNCHANGED <<driver, pipe, pending, workers, broken, outcome, late, desired,
                 unsent, left>>

Init ==
  /\ driver = "boot" /\ guest = "up" /\ pipe = << >> /\ queue = << >>
  /\ pending = {} /\ broken = {} /\ flags = {} /\ noted = {} /\ still = {}
  /\ call = [c \in Calls |-> "none"] /\ comes = [c \in Calls |-> "answer"]
  /\ noting = [c \in Calls |-> {}]
  /\ done = "none" /\ result = "none" /\ unwound = FALSE
  /\ late = FALSE /\ timer = "set"
  /\ desired = "run" /\ unsent = {} /\ left = "no"

Guest ==
  \/ \E c \in Calls : GuestCalls(c)
  \/ \E how \in {"ok", "error"} : GuestFinishes(how)
  \/ \E tail \in {<< >>, <<"bad">>} : GuestCrashes(tail)

Start == \E kind \in KindsOfCall \cup {"stop", "pause"} : StartWorker(kind)
Proceed(c) ==
  Reply(c) \/ Observe(c) \/ \E flag \in Flags : PassOn(c, flag)
Driver ==
  \/ Boot \/ Loop \/ ReadCall \/ ReadDone \/ ReadEnds \/ Drain \/ Close \/ Decide
  \/ BootRaises \/ StartRaises \/ ReadRaises

Next ==
  \/ Guest \/ \E state \in {"run", "paused", "stopped"} : Operator(state)
  \/ Start \/ \E c \in Calls : Handled(c) \/ HandleRaises(c) \/ Proceed(c)
  \/ Driver \/ TimePasses \/ TimerFires

Spec == Init /\ [][Next]_vars

\* The threads of the parent run and time passes.  Neither the guest nor a
\* runner owes anything.
FairSpec ==
  /\ Spec
  /\ WF_vars(Driver) /\ WF_vars(Start) /\ \A c \in Calls : WF_vars(Proceed(c))
  /\ WF_vars(TimePasses) /\ WF_vars(TimerFires)

-----------------------------------------------------------------------------
(* Properties. *)

TypeOK ==
  /\ driver \in {"boot", "loop", "read", "drain", "close", "decide", "returned"}
  /\ guest \in {"up", "down"} /\ pipe \in Seq(Frames) /\ queue \in Seq(Calls)
  /\ pending \subseteq Calls /\ broken \subseteq Calls
  /\ call \in [Calls -> Active \cup {"none", "over", "cancelled"}]
  /\ comes \in [Calls -> KindsOfCall \cup {"stop", "pause"}]
  /\ flags \subseteq Flags /\ noting \in [Calls -> SUBSET Flags]
  /\ noted \subseteq Notes
  /\ done \in {"none", "ok", "error"} /\ still \subseteq Calls
  /\ late \in BOOLEAN /\ timer \in {"set", "fired", "cancelled"}
  /\ result \in Results /\ unwound \in BOOLEAN
  /\ desired \in {"run", "paused", "stopped"}
  /\ unsent \subseteq Calls /\ left \in {"no", "finished", "crashed"}

\* When run() has returned, no worker is still at a call, unless the result says
\* so; the caller may then flush the buffered failures, finish the journal and
\* mark the run, and no late effect of the run will follow.  After an exception in
\* the driver it holds for a run whose time is not up.
QuietAtReturn ==
  result \notin {"none", "running"} /\ ~(result = "internal" /\ late)
    => \A c \in Calls : call[c] \notin Active

\* A call whose worker sent its answer came to an interruption.
Interrupted ==
  \E c \in Calls \ unsent : call[c] = "over" /\ comes[c] \in Flags

\* A run that was interrupted by the broker, whose guest did not leave by itself
\* first, whose time was not up and whose driver met no exception is reported with
\* one of the causes the broker flagged, whatever else its other calls did: failed
\* in their workers, found stdin closed or raised other flags.
InterruptionReported ==
  result \notin {"none", "internal"} /\ Interrupted /\ ~late /\ left = "no" =>
    \/ result = "stopped" /\ "stop" \in flags
    \/ result = "paused" /\ "pause" \in flags
    \/ result = "suspended" /\ "suspend" \in flags
    \/ result = "protocol" /\ "abort" \in flags

\* Whatever guest and runners do or fail to do, run() returns.
DriveReturns == <>(driver = "returned")

\* A run that suspends is reported as suspended ("reporting a resumable
\* *suspended* run instead of a failure").
SuspensionReported ==
  result \notin {"none", "internal"} /\ Interrupted /\ flags = {"suspend"}
  /\ ~late /\ left # "crashed"
    => result = "suspended"

\* Whatever run() answers, it says so where a worker is still at a call ("reports
\* any work still running past the deadline instead of returning terminal while it
\* is alive").
AlwaysQuiet ==
  result \notin {"none", "running"} => \A c \in Calls : call[c] \notin Active

\* The driver notices an answer that could not be encoded: it does not sit in
\* read_frame until the timer kills a guest that waits for that answer.
UnsentIsNoticed ==
  [][timer' = "fired" /\ timer = "set" /\ driver = "read" /\ left = "no"
       => unsent = {} \/ \E c \in Calls : call[c] \in Active]_vars
=============================================================================
