# Verification of hermes-plugin-dynamic-workflows

TLA+ models of the workflow engine in `src/hermes_workflows/`, TLC runs on small
instances, and TLAPS proofs about them for every size. Line numbers below and in
`PROJECT.json` are those of the repository at the modelled commit; file names
without a directory are in `src/hermes_workflows/`.

    tlc -workers 2 -config Loop.cfg MCLoopController.tla    # one run
    tlapm BackgroundRunsProofs.tla                                # the proofs

`PROJECT.json` lists every run with its module, configuration and verdict, the
code each definition translates (`map`), a mutant for each checked property, the
hazards, the findings and the theorems.

## 1. The system

A workflow is a Python script that a *parent* runs in a sandboxed *guest*
subprocess. The guest has no capability of its own: each one is an RPC over its
pipes to the parent's *broker*, which checks limits, approvals and run controls,
dispatches the call, records its outcome and answers. Around that core lie a
durable run store with a replay cache, Kanban cards and external events that a
script may wait for (possibly past the life of the process), background runs,
operator controls, feedback loops, and an older interpreter of declarative
workflow trees.

| part | code | state | operations | what is hard |
|---|---|---|---|---|
| Workflow events | `events.py` | JSON-lines log, wakeup counters | `append_event`, `publish`, `notify`, `wait_for` | several processes on one file, missed wakeups, partial lines, deadlines |
| Background runs | `background.py`, `__init__.py` | `run.json`, `journal.jsonl`, one worker thread per run | begin, mark_running, finish, stop, fail_launch, recover_incomplete | stop against finish, failing writes, restarts |
| Guest RPC | `vm_guest.py`, `rpc.py` | pending futures, reader task, thread in `recv` | `call`, `acall`, `log`, `phase`, `parallel`, `pipeline` | cancellation against an arriving frame, two receivers on one pipe |
| VM driver | `vm.py` `_drive` | pending replies, result under construction, broker flags | read frame, run call on a thread, note a flag, kill, drain, decide | five kinds of end racing each other |
| Broker | `vm.py` | rpc counts, token budget, approvals, prompt cache | `handle` | parallel calls under one budget, suspension |
| Replay | `vm.py` `run_script`, `script_store.py` | `cache.jsonl`, fingerprint cache, run metadata | record, load, replay, resume | crash between call and record, ids under concurrency, resumption of a resumption |
| Kanban | `kanban.py`, `kanban_notify.py`, `hermes_kanban.py` | cards by idempotency key, event log, aliases | create_or_reattach, await, publish | crash between creation and record, outcome that arrives late or twice |
| Card state | `script_store.py`, `script_store_sqlite.py` | one JSON file per card | `record_kanban_card_state` | read-decide-write by several processes |
| Controls | `controls.py` | append-only control log | append, project, `decide_call` | partial lines, order of controls |
| Loops | `loops.py`, `resources.py` | `LoopRunStatus`, registered resources | sense, act, retry, closeout | brakes, clean-up on every path, saved status while it changes |
| Grants | `grants.py` | grant records | resolve, validate, revoke | widening, expiry, revocation against use |
| Async agents | `vm.py`, `agents.py` | handles and their terminal status | start, check, cancel | two polls of one handle |
| Tree runtime | `runtime.py`, `registry.py`, `primitives.py` | run records, budgets | sequence, if, parallel, pipeline, phase | budgets across branches, branch-local outputs, controls in between |
| Run stores | `script_store.py`, `script_store_sqlite.py` | run directory or rows, journal buffer | begin, note_call, finish | buffered lines, refused and partial writes, crashes |
| Script catalog | `script_catalog.py` | versions on disk | `save_script`, `inspect_script` | two savers, a saver that dies between two files |
| Pure parts | `script_validator.py`, `schema*.py`, `sandbox.py` | none | validate | not a matter for a model checker |

### How they interact

* guest -> driver: `call` frames; driver -> worker thread -> broker -> runner;
  worker -> guest: `ret` frame, and only then the flags for the driver.
* broker -> recorder: an outcome is appended to `cache.jsonl` before the guest is
  told, but a write that the disk refuses is swallowed and the guest told all the
  same; a caught failure is buffered until the run ends.
* `run_script` -> store: `begin`, then the VM, then `finish`; a resumption reads
  the *root* run's cache and records nothing itself.
* operator -> control log -> broker (next call) and driver; the plugin's stop verb
  also writes the background snapshot, in that order.
* background worker -> `run_script`; its result is folded into `run.json`.
* broker -> card backend -> card record and event log; a publisher in another
  process appends to the same log and writes a byte to the card's FIFO.
* broker -> journal: an answer is recorded for a replay first, noted second.
* tree interpreter -> control log before every step, run record after it.
* loop -> sensor, actuator, grant broker, finalizer adapter: callbacks that may
  raise or take any time.

### What makes them correct

1. No more acknowledged events are lost than writes that were cut short can account
   for; a consumer sees what it asked for once, in order.
2. A reported stop stands; a terminal snapshot never changes; every launch ends.
3. Every call of a script is answered to the task that made it; the guest neither
   hangs nor mixes frames up.
4. `run()` returns; unless its driver met an exception, nothing that interrupted a
   run is lost and no runner is left at work unreported.
5. A recorded step is never run again, has one outcome and one card, in the root
   run and in every resumption of it; a step whose line the disk refused may be.
6. A loop stops at its brakes, runs exactly the finalizers its verdict asks for,
   and claims success only if the required ones succeeded.
7. No budget is overspent beyond what is in flight; a script is told one end of
   every child; a replay ends with the counters of the run it replays.
8. A card's outcome stands, is read by whoever awaits it, and ends the wait, as far as
   the log can be read.
9. A control, once acknowledged, is seen by every later call that can read the log,
   and the last decision governs.
10. The record of a tree run tells what ran; what a phase or branch spent or produced
    is neither lost nor leaked.
11. No more of the journal is lost than its mode admits, and it speaks of a success
    that a replay would not find only if the cache write of that success failed.
12. A version of a script, once saved, loads as what it was, and an entry is about
    one source.

## 2. The modules

| module | models | composed with |
|---|---|---|
| `EventStream` | abstract: one stream, which grows but for a last entry whose publisher broke off, each consumer handed its part of it in order | |
| `WorkflowEvents` | the file store, the notifier and `wait_for` | refines `EventStream` (`WorkflowEvents!ImplementsStream`: the stream is the ids of the log, a consumer's place is its cursor) |
| `BackgroundRuns` | the snapshot store with its lock, workers, operators, recovery | |
| `GuestRpc` | the guest's connection, reader task, `parallel()` and `log()` | its frames are those `VmDrive` carries |
| `VmDrive` | `_drive` with its worker threads, timer and control flags | |
| `StepMemo` | abstract: a recorded step keeps its outcome and every run is told it | |
| `ReplayChain` | a script run and resumed over one replay cache | refines `StepMemo` (`ReplayChain!KeepsPromise`) |
| `LoopController` | `loop_run` with its brakes, retries, suspensions and finalizers | |
| `KanbanCards` | one card: the broker's await, the backends, the card record, the event log, FIFO and publishers | broker, three backends, store and notifier in one module |
| `ControlPlane` | the control log, its verbs and projection, and the call they govern through suspensions and resumptions | operators and broker; `VmDrive` takes the projected state |
| `CapabilityBroker` | caps, token budget, prompt cache, schema retries, async children; a run and its replay | what `VmDrive` calls handling and `ReplayChain` abstracts to one outcome per call |
| `TreeRuntime` | the interpreter of declarative trees and its run record | reads the controls that `ControlPlane` records |
| `RunJournal` | begin, calls, finish and flushes in both stores and three modes | the store under `ReplayChain` |
| `ScriptCatalog` | `save_script` and `inspect_script` over two roots | |

`MC*` modules hold the TLC instances; `*Proofs` modules the theorems. Four proof
modules serve two components each, so in the second of them `Init`, `Next`, `Spec`,
`TypeOK` and `vars` carry the component's name: `EventsSpec`, `GuestSpec`,
`ControlSpec`, `CardsSpec`. In each model module, a definition headed `Mutant` is used
by no action: it is the mutated form named in `PROJECT.json`, kept next to the
definition it changes.

### WorkflowEvents

`log` is the lines of the event file that parse; `tail` says what the file ends in: a
"line", a "fragment" that does not parse, or an "event", all of the last line of
`log` but its newline. `AppendEvent` is `append_event` under the file lock with
publish's dedup by id, `Notify` the hint after it; `CrashInWrite` and
`CrashBeforeNotify` are a producer's death at either place; `cuts` counts the former.
A producer that died is free to deliver the same id again, and is answered from a
line without newline too; the next append is glued to such a line and takes it along
(`Glued`), which is why a cut may cost two acknowledged events, why the next event
gets a version that was given before, and what `BreakOff` and `Withdraw` of
`EventStream` are. A consumer goes through `wait_for`: `LoopTop` (the deadline test,
which the code makes before re-reading once `checked_once` is set), `Find`, `Arm`
(where the notifier samples its counter), and one of three wakeups. The wait's
payload filter is the set `Wanted[c]`.

### BackgroundRuns

A store operation is *load-decide*, *replace run.json*, *append to the journal*
(`Load`, `WriteRecord`, `AppendEvent`), all inside the lock of a store *object*;
`Instance` says which actor holds which object. `TransitionRaises` is an OSError in
either write. The worker runs `WorkerGet`, `MarkRunning`, `RunScript(how)`,
`FinishGet`, and falls into `fail_launch` on any exception. `ControlStop` and
`StopBackground` are the two halves of the plugin's stop verb, `ManagerStop` the
manager's. `Crash` loses threads and locks, `RecoverList`/`RecoverNext` is
`recover_incomplete`.

### GuestRpc

Which tasks share a block (`group`) is chosen in `Init`. One asyncio loop: an action
of a task or block is a run of the loop between two awaits and needs `LoopFree`, since
`log()` blocks the thread. `reader` is the reader task; `receivers` holds who is
inside `channel.recv`: the task's worker thread, which cancelling a future does not
take out of `recv`, or a logging block. `Gathered` is the end of `asyncio.gather` in
`parallel()` and `CancelSiblings` its failure path. The parent (`Answer`) answers in
any order.

### VmDrive

`pipe` holds the frames the guest has written and the driver has not read.
`StartWorker`, `Handled`, `Reply`, `Observe`, `PassOn` are the worker from the
executor's queue to the flags, one action per point where another thread can get
in. `Note` is the guard of every `_set_*` and of `_set_protocol_error`: nothing is
noted once the guest's done frame was read. `HandleRaises` is an exception in a
worker (a sink of the journal that raises, also after the broker has raised a flag):
nothing is answered and nothing noted. `BootRaises`, `StartRaises` and `ReadRaises`
are those that leave the driver's loop: a boot frame that cannot be encoded, the event
before a call is submitted, a frame that is no UTF-8. The `finally` blocks drain and
close as ever, but `run()` then answers "internal" (`unwound`) and knows neither what
was noted nor what is still running. `Drain` is the wait with the time that
is left, `Result` the precedence of the result. The guest may call, finish or die
whenever it likes (`Patient` restricts it to finishing after its answers, which is
what a sequential script does).

### ReplayChain

A `chain`, chosen in `Init`, is a script with its `max_parallel` and whether it
catches failures. `Script[b]` is the calls branch `b` makes; `asked[b]` the id a call
was given, in the order of sending. `cache` is the lines of `cache.jsonl`; each has
the step it was written for as a history component, which no guard reads. `Handle` is
`broker.handle` in its order: prompt cache, replay entry (hit or drift), dispatch,
record, answer. `SaveLine` is the write of a success: `Written`, or `Refused`, which
leaves nothing, part of the line, or all of it (`end` says what the file ends in, and
is "corrupt" for good once a line does not parse, since `load_cache` then refuses the
file). `Succeeds` answers whatever came of it, as `_persist_success` does; `unsaved`
keeps the lines that were lost. `Begin`, `Finish`, `FlushStops` (the buffered
failures, up to a line that is refused), `Crash`, `CrashInWrite` and `CrashInFlush`
are `run_script` and the ways it ends. A resumption begins when no run is under way:
the code does not test that, its callers keep to it. Cards are keyed by root run and
call id (`CreateOrReattach`).

### LoopController

One label per place where `_record_event` saves the status or the wall clock is
looked at. `Sensor…`, `Actuator…` and `RunFinalizers` let the callbacks return
anything the parsers accept, or raise. `Merge` is `_register_resources`,
`Matching` and `Outcomes` are `run_resource_finalizers`. `DeadlinePasses` may happen
between any two steps; `late` counts the steps entered with the deadline behind.

### KanbanCards

A *parent* is a process whose script calls `kanban_agent`; several may be at it,
since a run can be resumed while its predecessor lives. `call[p].at` is the place
in that call: `look` and `reattach`, `create`, `alias` are `create_or_reattach` of
the Hermes backend, `decide` and `replace` the two halves of
`record_kanban_card_state`, `ask` the durable backend's first await, `read`,
`check`, `wait`, `drain` the event-log backend, `judge` the broker's schema check
with its retries. A publisher appends (`Shape`, `AppendEvent`), then notifies.
`Serve` is the durable record handed over once, `floor` and `stamp` are the two
version spaces of the durable wrapper. `Crash` loses a parent, `DieUnnotified` and
`CutShort` a publisher. `CreateFails`, `ReplaceFails` and `RecordAliasFails` are
errors that the parent's script is told of. A read of the record or the log that fails
is not: it passes for one that found nothing (`LookInVain`, `ReattachInVain`,
`DecideInVain`, `ServeRecord`, `SubscribeInVain`, `ReadInVain`; the history variable
`unread`), so that a card is created again, a wait goes on or a timeout is answered.
`ReadNothing` is a read of a log that holds no answer. A cut inside a character leaves
a log that is no UTF-8 (`garbled`), and `Undecodable` is the exception that every read
of it raises. `splits` are the events whose payload holds a line separator of Unicode,
which makes two fragments of their line (`Text`).

### ControlPlane

`Issue` is `record_control`; `List`, `Load`, `Write` are the steps of `retry` and
`append` between which another process gets in; `CutShort` is a death in the
write, before the end of the line or inside a character, after which the log is no
UTF-8 (`garbled`) and every read of it raises: `CheckRaises` for the call, `Fail` for
an operator. `splits` are the controls whose text holds a line separator (`Text`).
`Live` is what a reader makes of the log, nothing while the log cannot be opened
(`blind`), `Desired` the projection,
`Decision` the one that is looked up over the chain of runs. The run's side is one
capability call: `Arrive` and `ArriveStopped` are the first check, `Replay` the
lookup, `MayStart` the second check, `Fast` and `Consult` the approval paths,
`Dispatch` the effect with its record. `Crash` and `Resume` make generations.

### CapabilityBroker

A script is a sequence of rounds, each a `parallel()` of calls, and a call is a
thread. `stage[c]` is where the thread is between two holds of the broker's lock:
`PromptHit`, `ReplayHit`/`Miss`, `Admit` (budget and cap under one lock), the
runner, `Return`, `Persist`. Async children live in `handles`; `AskRunner` and
`Apply` are the two halves of `agent_check` and `agent_cancel` between which the
other may finish. `Replay` starts run 2 from what run 1 recorded, with counters at
zero; `ended` keeps the counters each run ended with.

### TreeRuntime

The recursion of `_exec_step` is an explicit `stack`; `mode` says whether the next
step is due, an effect is under way or an exception unwinds. `EnterLeaf`,
`EnterComposite`, `EnterIf` are the checks in the code's order (depends_on,
controls, width, await and effect budget); `Leave` is the tail of each `_exec_*`,
`Unwind` its `except`. `Record` is an operator's control. A step and its snapshot
are written in one action: the interpreter is single-threaded and a crash leaves
nothing that anyone continues.

### RunJournal

One action per hold of the store's lock or write to disk: `FileClaim`,
`FileDescribe`, `AppendBoot` and `CleanUp` are `begin`; `Serve`, `Succeed`/`Deny`,
`RecordCall`, `NoteCall` a broker thread; `WriteStatus`, `AppendDone`, `Flush`
are `finish`, which may raise in the middle and be called again. `FilePartial` is
what a refused write may leave of its lines, `SqlitePartial` that a transaction
leaves nothing. `CleanUpFails` is a clean-up that is refused too, and
`SqliteBootFails` has the statements of the SQLite store's, of which the last drops the
buffer: before it the boot line stays (`LeftBuffered`), as it always does in the file
store. A refused or interrupted cache write leaves nothing, a line, or part of one
(`RecordStops`), and then no replay accepts the cache (`end` is "corrupt"); `unsaved`
keeps whose it was. `DieWriting` and `DieRecording` are deaths inside a write.

### ScriptCatalog

`Choose`, `WriteScript`, `WriteMeta`, `SaverReads`, `Return` are `save_script` up to
the entry it returns; `Resolve`, `ReadSource`, `ReadMeta`, `ReadText` are
`inspect_script`, whose last step reads the file again for `include_source`. A metadata
file is a hash and what it says (`meta[v].sha`, `meta[v].about`); `MetaFor` is the rule
that one of another hash is not told. `MaxListed` is the last version whose file name
the listing's six digits match: what is saved past it is not visible.

## 3. The runs

Each run finishes without an error.

| run | properties | what it shows |
|---|---|---|
| `Events` | `LossesAreCuts`, `ImplementsStream`, `WaitAnswered` | two producers race and retry two ids and die, twice inside a write: at most two acknowledged events go missing for each line that was cut short, and a consumer, which may restart, gets its part of the readable stream; a lost hint only costs the idle interval |
| `Background` | `StopWins`, `TerminalIsFinal`, `JournalTells`, `EveryLaunchEnds` | one store object, two operators, one failing write and one crash: a reported stop is never overwritten; until a write fails no terminal snapshot changes; as long as nothing failed or died, every launch ends and its journal agrees |
| `Guest` | `ReceiversFed`, `GuestFinishes` | three calls, two at a time, in one block or two, any of which fails: no `recv` waits for a frame that is not coming; with one block the guest ends |
| `Loop` | `BrakesHold`, `CleanupMatchesVerdict`, `LoopReturns` | no brake is passed by more than the action under way; two resources declared twice with different policies are closed as the verdict asks |
| `Vm` | `QuietAtReturn`, `InterruptionReported`, `DriveReturns` | two calls of every kind on two threads against every end of the guest and exceptions in driver and workers; `run()` returns although runners need not; unless the driver met an exception, what was answered with an interruption is reported; no worker is at work after a return that does not say so, but for an exception that a deadline follows |
| `Replay` | `ToldIsRecorded`, `CompletedNotRedone`, `FailsClosed`, `KeepsPromise` | three chains: four branches of one call each, whose ids are dealt before any answer; branches one at a time, resumed twice; two calls per branch, two branches at a time, where the ids shift and the code notices rather than answer with another step's outcome. Failures, crashes and torn writes in all of them, refused cache lines in a fourth |
| `Cards` | `TerminalStands`, `AckedStaysReadable`, `WokenWhenNotified`, `AwaitedIsRoutable`, `TimeoutIsTrue` | a parent that crashes and is resumed with two publishers, over both backends and both policies, or two parents at once, with one failing read or write or one cut: as far as reads do not fail the outcome stands, is read, wakes the parent, is never answered with a timeout, and the task's own events find the card |
| `Controls` | `OneLossPerCut`, `NoWorkAfterStop`, `DecisionGoverns` | two operators, three controls, one cut write or a log that cannot be opened for a while, texts with a line separator, two generations: a cut costs at most one more control or, inside a character, makes every read raise; no call is dispatched that came after an acknowledged stop that one of its checks could read; the last of the decisions made one at a time is the one a call runs under |
| `Broker` | `OvershootBounded`, `ViewsAgree`, `ReplayAgrees` | seven scripts with their limits and faults, run and replayed: the budget is passed by no more than what was in flight; poll and cancel agree; a complete recording is replayed to the same answers and counters |
| `Tree` | `RecordTellsTheTree`, `BudgetHolds`, `ScopeHolds` | ten steps and more in all containers, nine policies, failures and controls at every step |
| `Journal` | `LossBounded`, `JournalInOrder`, `FinishedIsWhole`, `NotedIsReplayable` | stores and modes, two calls, two refused writes (of a clean-up as well), two calls of finish, a death anywhere: bounded loss, order, a whole journal after finish, and a cache line for every success that the journal tells of, unless that line was refused |
| `Catalog` | `EntryHangsTogether`, `AppendedIsLatest`, `LoadedStays` | two savers and a reader who asks for the source, a bundled version, three saves, one version past the last that is listed |

A property that a failure defeats is stated with its condition (`Undisturbed` in
`BackgroundRuns`; `unsaved` and `StableIds` in `ReplayChain`; `cuts` in
`WorkflowEvents`; the result "internal" in `VmDrive`; `overlap`, `crossed`, `early`,
`unread`, `garbled` and `splits` in `KanbanCards`; `overlap`, `replaced` and `MaxListed`
in `ScriptCatalog`; `torn`, `unsaved` and `Eager` in `RunJournal`; `torn`, `garbled`,
`blind`, `missed`, `splits` and `overlap` in `ControlPlane`), so that one run covers
the behaviours with and without that failure. Where the condition is what the code
gets wrong, the unconditional property is refuted by a further configuration. These
are not among the runs; `tlc -continue -config X.cfg <MC module>` prints a
counterexample for each property named here. Every module's type invariant is proved.

| configuration | refutes | by what the code does |
|---|---|---|
| `EventsFindings` | `AckedStaysStored` | an append after a partial line is glued to it |
| | `VersionsNameOne` | an event that was acknowledged from a line without newline loses its version to another |
| | `TimeoutMeansNoEvent` | the deadline is tested before the last read |
| `BackgroundPerCall` | `StopWins` | the plugin makes a store object, and so a lock, per call |
| `BackgroundFindings` | `ResultKept` | a failing journal append turns a succeeded snapshot into a failed one without result |
| | `NoWorkerVanishes` | a failing `fail_launch` is swallowed |
| | `StoppedIsNotFailed` | `finish` records a stopped result as failed |
| `GuestFindings` | `NoDesync` | `log()` receives while the thread of a cancelled call still does (`CalmLogsAnswered`, the same while nothing was cancelled, holds) |
| `GuestHang` | `EveryCallReturns` | a frame for a cancelled future kills the reader task |
| `LoopFindings` | `DeclaredAreRun` | resources beside an unreadable part of an actuator result are dropped |
| | `StalledRepeats` | `max_repeated_signal = 1` halts on a signal that did not repeat |
| | `SavedSuccessIsTrue` | the saved status says converged until the last finalizer is recorded |
| `VmFindings` | `SuspensionReported` | the denial is sent before the driver notes the suspension |
| | `UnsentIsNoticed` | an answer that cannot be encoded is noticed only by the timer |
| | `AlwaysQuiet` | an exception in the driver ends the run with an internal error that says nothing of the workers |
| `ReplayFindings` | `NoDrift` | from the second call of a branch on, ids depend on the order of the answers |
| | `OneCardPerStep` | the card key follows the shifted id |
| | `OneChildPerPrompt` | the prompt cache has no entry until the first answer |
| | `CacheLoads` | a partial last line makes the cache unreadable |
| | `SourceNotRedone` | a resumed run records nothing |
| `CardsFindings` | `NeverRegressed` | the terminal guard decides under a lock no other process takes |
| | `DamageIsIsolated` | the shape of the log is looked at before the append; a separator in a payload, or a cut inside a character |
| | `AllWokenWhenNotified` | one byte wakes one of two waiting parents |
| `ControlsFindings` | `AuditTrailWhole` | an append after a partial line is glued to it; one cut inside a character hides all |
| | `LinePerControl` | `splitlines` breaks the line of a control whose text holds U+2028 |
| | `RetryToldIsRecorded` | two stores write one retry id (`RetryNotForked`, that readers see one line of attempts, holds) |
| | `ReplaysWhatRan` | edited arguments are recorded, the script's own are compared |
| `BrokerFindings` | `NotEnforcedAgain` | a prompt-cache hit is refused over a budget the run had passed |
| | `FailuresReplay` | a prompt's later success is replayed for its earlier failure |
| | `SpendCounted` | attempts that fail their schema are not charged |
| | `LostLineIsSafe` | a call that runs again makes a handle the recorded answers do not know |
| | `DenialsCountAlike` | a call denied before it was counted is counted on replay |
| `JournalFindings` | `BootsOnce` | a failed begin leaves its boot line in the buffer |
| | `CrashLeavesPrefix` | a cache line that was cut short makes `load_cache` refuse all of them |
| | `LateIsStored` | a runner that outlives the run notes into a buffer nobody flushes |
| | `NotedStaysReadable` | a line after a half-written one is glued to it |

Three more need an instance of their own: `LastDecisionGoverns` (`Controls.cfg` with
`MaxGens = 3`, one operator and no faults), and `ImmutableAnyway` and `EntryAnyway`
(`Catalog.cfg` with it as the property or invariant).

### Bounds, and why they are enough

* Events: two ids that the one consumer wants and two producers, so that events
  race and a producer can retry; `EventsFindings` has a third id that it does not want.
  The log is bounded by the number of ids; `MaxCuts` (2) bounds the writes that are cut
  short: one that is glued to the other, or one after it.
* Background: one run, two operators. An interference needs two actors and one
  run, and runs share nothing but the lock. `IoFailures` and `MaxCrashes` (1 each)
  bound failing writes and crashes: a second failure hits the same three places as
  the first.
* Guest: three calls, each in one of two blocks, with `MaxParallel` 2, the smallest
  instance in which a failing call has a waiting sibling and a call that was
  never started. Each block logs at most once.
* VM: two calls, which is what it takes for one to be interrupted by the other.
* Loop: two actions and two repetitions; every counter of the code is bounded by
  its brake, so the model has no bound of its own. Costs 0 and 2 against a budget
  of 1 leave it and pass it; two finalizers of one resource id compete for the key.
* Cards: `MaxStarts` (2) bounds the calls of all parents, so a call and the one of
  its resumption; `MaxEvents` (2) the outcomes, so one that is superseded;
  `MaxFaults` (1) failing commands, reads and writes and cut appends together. Of the
  outcomes `invalid` and `blocked` are published: one is terminal and makes the
  broker ask again, the other is not and is accepted under one policy only.
* Controls: `MaxIssues` (3) controls are one cut short, one glued to it and one that
  must be read, or a stop between two others;
  `MaxGens` (2) a run and its resumption, `MaxFaults` (1) cut writes and logs that
  cannot be opened.
* Broker: scripts of two or three rounds with up to three calls together; a child
  reports 0 or 2 tokens, so that budgets of 2 and 5 are met and passed.
* Tree: the trees nest each container in another to depth four; budgets below, at
  and above what they need; `MaxTaskStops` (1) bounds the steps operators stop.
* Journal: two calls, a flush interval of 1, 2 or 3 against four events,
  `MaxFaults` (2) refused writes and `MaxFinishes` (2): a refusal and the refusal of
  what repairs it or cleans up after it.
* Catalog: `MaxVersion` (4) with `MaxListed` (3) in the place of 999999, `MaxSaves` (3),
  `MaxReads` (1): two savers that overlap and one that comes after them.
* Replay: scripts of four calls; `runs`, 2 or 3 in a chain, is a run, its
  resumption, and a resumption of that. Two values per call distinguish a replayed
  answer from a new one.

### Fairness, and why the code justifies it

* `WorkflowEvents`: weak fairness of each consumer's steps: a thread in `wait_for`
  has a bounded idle interval after which it re-reads. Producers need not produce.
* `BackgroundRuns`: weak fairness of threads and of store operations, and of a
  running script coming to an end, which the VM's deadline gives it. Operators need
  not stop anything and crashes need not happen.
* `GuestRpc`: weak fairness of the event loop, of the reader's thread and of the
  parent's answers (`VmDrive` shows the parent's side; a denied or failed call is
  answered too).
* `LoopController`: weak fairness of the controller with its callbacks; a callback
  that never returns is outside the code's promise. The clock need not advance.
* `VmDrive`: weak fairness of driver, workers, clock and timer. Runners are *not*
  assumed to return: a worker may stay in `handling` for ever.
* `KanbanCards`: weak fairness of the steps of each parent that is in a call; the
  end of the waiting window, crashes and publishers are not assumed.
* The other modules have no liveness property.

`CHECK_DEADLOCK FALSE` stands where the modelled program ends: a finished guest, a
returned driver or loop, an interpreter or store that is done, a chain of runs,
controls, saves or calls at its bound.

## 4. The proofs

Each theorem rests on the `ASSUME` of its module (`BackgroundAssumption`,
`LoopAssumption`, `DriveAssumption`, `ReplayAssumption`, `BrokerAssumption`,
`TreeAssumption`, `NestingAssumption`, `JournalAssumption`, `CatalogAssumption`,
`EventsAssumption`, `GuestAssumption`, `ControlAssumption`, `CardsAssumption`), which
TLC evaluates in the runs. They say that bounds are natural numbers and that scripts,
limits and trees have the shape the code validates; `NestingAssumption` is that no
step id occurs twice in a workflow, which `_validate_steps` enforces (a caller that
passes `validate=False` is outside the model), with ids numbered from the outside
in. Four theorems have a hypothesis of their own (`OneStore`, `NoLineIsLost`), given
below with what happens without it. What a failure defeats is excepted in the
properties themselves, as section 3 says.

Every safety property of the runs is proved, and both refinements. What a
recursive definition such as `Containers` or a finite sum computes is reached by
least-number arguments (`Least`, `Smallest`): of the places where a statement fails,
take the first.

* `BackgroundRunsProofs`, for any runs, operators, store objects, failures and
  crashes. `TypeCorrect`. If all actors use one store object (`OneStore`: the manager
  and its workers do, the plugin's verbs do not, and `BackgroundPerCall` refutes
  `StopWins` without it): `TerminalSnapshotsFinal`, `StopsAreKept`,
  `JournalTellsSnapshot`. `TerminalIsFinal` is not inductive: `finish` decides outside
  the lock, so one must know that a worker past its run has no rival but an
  operator's stop. `Inv` adds `Locked` (whoever is between load and journal holds the
  lock), `CallSound`, `StoppersStop`, `WorkerOpen` (a worker that has yet to write a
  result has an open snapshot unless a stop closed it), `RecoveryAlone` (recovery
  works only on runs whose worker died) and `ActorPlaces`. The other two hold through
  failing writes and crashes, and rest on `Standing`: the lock with `Guarded` (what was
  decided under it still holds of the snapshot) and `Launched`.
* `LoopControllerProofs`, for all brakes, costs, signals and sets of finalizers:
  `TypeCorrect`, `BrakesAlwaysHold`, `CleanupIsExact`, `SuccessIsTrue`. `Inv` adds
  `Counted` (actions against the steps taken), `Afforded` (the budget at each
  label), `Punctual` (what the clock tests leave possible), `Verdicts` (the
  verdict is the state closeout began with), `Fresh` (a converged verdict rests on a
  reading taken after the last action) and `Accounted` (the results recorded and
  still due are exactly those of the matching finalizers, one each).
* The same module, of `GuestRpc`, for any calls and fan-outs: `GuestTypeCorrect`,
  `NoReceiverStarves`, `CalmLogsAreAnswered`. `ReceiversFed` counts nothing, it says
  there is a frame to come for whoever receives, and holds because of `Receiving`
  (who is in `recv` is there once), `Refused` (nothing is pending while the loop is
  blocked), `Logged` and `Answerable` (each pending id is due a frame). That a
  `log()` is answered by its own frame, as its docstring says, needs that nothing was
  cancelled (`GuestFindings` refutes it otherwise), and then `Once` (no frame is due
  twice), `Sent`, `OneLogs` and `Tidy` (every frame that is due is waited for).
* `VmDriveProofs`, for any set of calls, any number of threads and exceptions in any
  of them: `TypeCorrect`; `ReturnsQuietly`: when `run()` returns every call is over or
  cancelled unless the result reports it as running, or the driver met an exception
  and the time was up; `InterruptionsAreReported`, unless the driver met one. `Inv` has
  `Piped` (a call on the pipe is there once and was never read), `Queued` (a queued
  call is in the executor's queue) and `Known` (once draining, every active call is in
  `pending_rets`). `OnTime` (before the deadline the drain leaves no call behind) is what
  an unwound driver rests on. The last theorem adds `Causes`: `Silent` (a guest that has
  not left sends calls only), `Flagged` (who answers an interruption has raised its
  flag), `Genuine` (what is passed on was flagged) and `Explained` (a guest that is down
  was killed for a flag that is noted, or is about to be).
* The same module, of `ControlPlane`, for any operators, verbs, generations, cut
  writes, separators and logs that cannot be opened: `ControlTypeCorrect`,
  `CutsLoseOneEach` (of logs that can be opened and were not cut inside a character),
  `NoWorkIsStarted` (unless neither check could open the log, or the stop's line is
  split or glued to a fragment), `DecisionsGovern` (whatever can be opened). `Said` is
  what holds of the log: `Single` (a control is in one place), `Frayed` (a fragment at
  the end is of a write that was cut), `Standing` (while none was, what was returned
  is in the log), `Turns` (operators that take turns write in the order they asked)
  and `Balanced`, which is `OneLossPerCut` with the fragment that has yet to take a
  control. `PlaneInv` adds what the run knows: `Tracked`, `Settled` (of no stop, past
  its first check) and `Chosen` (it runs under the last decision that it knows of).
  The types need `Paced`: an attempt, with the operators about to number one, is at
  most the number of controls asked for.
* `ReplayChainProofs`, for all scripts, parallelism, chains of resumptions, failures,
  crashes, refused and torn writes: `TypeCorrect`, `RecordedBeforeTold`,
  `AnswersOwnCall`, `CompletedReplays`, `StableIdsNeverDrift`, `OnlyTornIsRefused`,
  and `ImplementsMemo`, the refinement of `StepMemo` step by step. `IInv` is all of
  them with `Past` (the histories do not run ahead), `Persisted` (an answer on its way
  to the root script is on disk, unless its line is in `unsaved`; so is every prompt
  that is not asked again for being recorded: `Noticed`), `Fresh` (what is being asked
  has no entry), `Unique`, `Served` (a resumed call that is let through has no entry),
  `Ordered` and `Placed`: where ids are stable the guest's counter is the number of
  steps sent, and so an id is the place of its step. The last is why a resumption
  finds each step under its own id.
* `CapabilityBrokerProofs`, for all scripts, limits, costs and faults: `TypeCorrect`;
  `CapIsKept`: no run or replay launches more children than `max_agent_calls`
  (`Counted` bounds the children by the counter as well as by the cap: a child is
  counted and tested under one hold of the lock); `OvershootIsBounded`, where what
  is in flight pays for what the budget may be passed by; `OneEndIsTold`:
  `Kept => ViewsAgree`, where `Kept` is that this is the recording run or one whose
  cache lost no line, and from it `ViewsAgreeAlways`, with the hypothesis
  `NoLineIsLost` on the setups. The condition is needed: when the line of a child's
  start and the line of a check are both lost, a replay starts another child and
  tells the recorded end of the first. `ReplaysAgree` relates the end of a replay to
  the end of its run, without a hypothesis: `ReplayAgrees` asks of the replay only that
  what it was told is recorded. `Faithful` counts the calls that a counter stands for
  (`Tally`), and the tokens as coins, each a pair of a call and a number: in the run
  a coin belongs to the call that charged it, a child's to its start (`Cash`). When a
  run ends all that it told is paid for, a child's result once however often it was
  fetched (`AllPaid`, from `Fetched`, `Sensible` and `Sourced`); the replay inherits that
  as `Legacy`, and as long as it finds everything its answers are the recorded ones and
  its tokens are their coins (`Followed`).
* `TreeRuntimeProofs`, for all workflows: `TypeCorrect`, `BudgetsAreKept`,
  `StopIsPrompt`, `RecordIsTrue`, `ScopesAreKept`. The stack needs a type of its own
  (`StackOK`). `Covered` says that what was dispatched, with the effect under way, was
  counted in the innermost context: this is what `CallsAfter`, the hand-over at the
  end of a phase, preserves. `Cut` says that once something was dispatched after a
  stop nothing is under way. `TreeInv` relates the stack to the tree and the record:
  `Walk` (the stack is a path inwards, and its steps are those recorded as running),
  `Ahead` (what a frame has still to do is inside its step, once, and untouched),
  `Behind` (what it has no more to do was done), `Ran`, `Spreads` (a failure reaches the
  containers one by one), `Whole`, `Ends` and `KeysKept` (what an `if` will leave of
  the outputs).
* The same module, of `KanbanCards`, for any parents, publishers, crashes and faults:
  `CardsTypeCorrect`, `AckedEventsStay`, `AwaitsAreRoutable`, `TerminalsStand`,
  `TimeoutsAreTrue`. `CardsInv` has, of each call, `Owed` (one that looks at the log
  finds what it is owed), `Routed` (one that awaits has its alias or saves with it) and
  `Saves` (what is about to be saved may replace what is there), with `OneAtWork`,
  `Carded` (no event comes before the record) and `Shaped` (whoever has looked at the
  log's shape knows of a fragment at its end). Each has the exception of its property:
  `crossed`, `garbled` and `splits` for what is in the log, `unread` for what a parent
  that could not read it goes on to do.
* `RunJournalProofs`, for both stores, any calls, failures and deaths: `TypeCorrect`,
  `NotesAreReplayable`, `LossIsBounded`, `FinishWritesAll`, `JournalKeepsOrder`. `Told`
  strengthens `NotedIsReplayable` to the buffer and to events about to be appended,
  since a partial write may leave any prefix of them; a success that is noted has its
  cache line or is in `unsaved`, and so the cache of a living process is refused by no
  replay unless some write to it was. `LossIsBounded` rests on `Near`:
  while the process lives, what was noted and is not on disk is among the first
  `Window` lines of the buffer (a refused flush leaves more in it, whose calls have
  raised); a dead process does nothing more. `JournalKeepsOrder` excepts what
  `JournalInOrder` does (`Eager`): a store of either kind that flushes at every event
  in async mode, where a failed `begin` may leave its boot line in the buffer and the
  next one is written twice (`BootsOnce` of `JournalFindings`). It rests on `InOrder`:
  while the process lives, what is on disk with what is buffered is a chain of the
  events appended (`Chained`), and nothing of an earlier `begin` is in it (`Fresh`).
* `ScriptCatalogProofs`, for any savers, readers and versions: `TypeCorrect`,
  `EntriesHangTogether`, `AppendsAreLatest` (up to the last version that a listing
  shows), `LoadedStaysPut`. `Present` says that what a call is about to read is there,
  `Alone` that without an overlap one saver works, `Undisturbed` that what it chose is
  still free, or the newest once written, `Allowed` and `Lasts` that what a reader read
  of a version is what the file has until a replacement.
* The same module, of `WorkflowEvents`, for any ids, producers, consumers and crashes:
  `EventsTypeCorrect`; `LossesAreOfCuts`, from `Paid` (the missing events with those
  that the end of the file has yet to take, one for a fragment and two for a line
  without newline, are no more than two for each cut); and `QueueIsAStream`, the
  refinement of `EventStream`: each step of producers, consumers and crashes publishes,
  breaks off, withdraws, delivers the next wanted event, or stutters.

`NoFalseSuccess`, `CapHolds`, `StopsSoon` and `CalmLogsAnswered` are proved and have no
run: the theorem says more than an instance would.

Model-checked and not proved:

* everything under fairness: `WaitAnswered`, `EveryLaunchEnds`, `GuestFinishes`,
  `LoopReturns`, `DriveReturns`, `WokenWhenNotified`. Liveness and `ENABLED` are beyond
  the installed provers.

## 5. Not modelled, and the plan

Left out for good: syntax validation, schemas, sandbox globals and redaction (pure
functions over documents), the plugin's argument mapping, formatting and logging.

Grants (`grants.py`) are records that are built, checked against the clock and
audited by pure functions; nothing is shared or kept between two calls.
`LoopController` takes the verdict as a choice, so every way a grant can affect a
loop is in its runs.

Failures that the code swallows are modelled where they happen, and the properties
say what they cost: a cache write that is refused (`ReplayChain`, `RunJournal`), a log
or record that cannot be read and passes for an empty one (`KanbanCards`,
`ControlPlane`), a file cut inside a UTF-8 character, whose every read raises
(`KanbanCards`, `ControlPlane`; the event queue writes ASCII only). Of `RunJournal`, a
label cut inside a character makes `journal()` raise; its properties are about the
lines on disk.

Left out of modelled parts: `max_rpc_calls`, `max_kanban_calls` and
`max_capability_calls`, which are counted like the modelled `max_agent_calls`; the
event log of the SQLite store, whose append is one transaction; the in-process
notifier; transcripts; the read-only views of runs and controls; the cached records
of a `FileRunStore` object (one process reads its own).

Also left out: a resumption of a run whose process still lives (`run_script` does not
test for it; `ReplayChain.Begin` takes one run after another, `KanbanCards` has parents
that overlap); a COMMIT that SQLite refuses and that leaves the transaction open for the
next statement; `update_step` of the tree runtime raising before its `try`.

Known of the code and of no property: a crash of `begin` between the run's directory
and its `run.json` leaves an id that cannot be used again, and a `finish` that is
called again appends a second done event. `RunJournal` has both behaviours.

Next: theorems about the properties that only the findings' configurations check,
`RetryNotForked` of the control log first, and what still holds of a card when two
parents overlap.
