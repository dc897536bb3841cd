----------------------------- MODULE ReplayChain -----------------------------
(***************************************************************************)
(* Durable runs of one script and the runs that resume it: run_script and   *)
(* the broker's replay path in hermes_workflows/vm.py, the replay cache of   *)
(* script_store.py, and the call ids of vm_guest.py.                        *)
(*                                                                          *)
(* The script fans out over branches (thunks of parallel(), items of         *)
(* pipeline()), each a sequence of brokered calls.  A call gets the next     *)
(* call id when the guest sends it.  Run 1 is the root of the chain; it      *)
(* records.  The others name an earlier run as replay_from and are served    *)
(* from the root's cache.  The parent process may die at any step.           *)
(***************************************************************************)
EXTENDS Naturals, Sequences, FiniteSets

CONSTANTS Chains,     \* the chains of runs to choose from
          Values,     \* what a runner may return
          MayFail,    \* whether a runner may raise
          TornWrites  \* whether a write may leave part of a cache line: the file store

\* A call is what the broker sees of it, its id apart.  A "pure" one is
\* cacheable by id, a "prompt" one by fingerprint, a "live" one not at all, and
\* a "card" one opens or finds a Kanban card.
Call == [kind : {"pure", "prompt", "live", "card"}, what : STRING]

\* A chain: the calls script[b] of each branch b in order, limits.max_parallel,
\* whether the script catches a failed call and goes on, whether the disk may refuse
\* a cache line, and a bound on how often it is run or resumed.
ASSUME ReplayAssumption ==
  /\ \A c \in Chains :
       /\ c.script \in Seq(Seq(Call)) /\ \A b \in DOMAIN c.script : c.script[b] # << >>
       /\ c.parallel \in Nat \ {0} /\ {c.catches, c.refuses} \subseteq BOOLEAN
       /\ c.runs \in Nat \ {0}
  /\ Values # {} /\ {MayFail, TornWrites} \subseteq BOOLEAN

VARIABLES
  chain,    \* the chain, of Chains
  run,      \* the current run, 0 before the first
  up,       \* whether a process drives it
  status,   \* status[r]: the status in run.json, as far as r has been begun
  source,   \* source[r]: replay_of
  cache,    \* the root's entries by call id
  prompts,  \* the root's entries by fingerprint
  end,      \* what the root's cache.jsonl ends in: a "line", an "entry" without its
            \* newline; or "corrupt", once it holds a line that does not parse
  cards,    \* the board: the card of a key and the step that opened it
  resolved, \* keys whose card has an outcome
  nextId,   \* the guest's _next_id
  at,       \* at[b]: the number of the branch's current call
  stage,    \* stage[b]: "idle", "sent", "calling", "waiting" or "reply"
  asked,    \* asked[b]: the id of that call
  answer,   \* answer[b]: what it came to
  memo,     \* _prompt_results of this run
  buffer,   \* _pending_failures of this run
  written,  \* _recorded_prompt_fingerprints of this run
  ending,   \* "no", or how the run was cut short
  told,     \* history: the answers given to the script
  effects,  \* history: the dispatches
  attached, \* history: the keys under which steps found a card
  unsaved   \* history: the lines of successes whose write failed, or was glued

disk == <<status, source, cache, prompts, end>>
board == <<cards, resolved>>
guest == <<nextId, at, asked>>
broker == <<memo, buffer, written>>
history == <<told, effects, attached, unsaved>>
vars == <<chain, run, up, disk, board, guest, stage, answer, broker, ending, history>>

Script == chain.script
Branches == DOMAIN Script
StepsOf(script) ==
  UNION {{<<b, k>> : k \in DOMAIN script[b]} : b \in DOMAIN script}
Steps == StepsOf(Script)
Runs == 1..chain.runs
Answer == [ok : BOOLEAN, v : Values]
SomeValue == CHOOSE v \in Values : TRUE
Failure == [ok |-> FALSE, v |-> SomeValue]

Step(b) == <<b, at[b]>>
CallOf(s) == Script[s[1]][s[2]]
KindOf(s) == CallOf(s).kind
Current(b) == CallOf(Step(b))
Recording == run = 1

-----------------------------------------------------------------------------
(* The guest. *)

Finished(b) == at[b] > Len(Script[b])
Started(b) == at[b] > 1 \/ stage[b] # "idle"
Running == {b \in Branches : Started(b) /\ ~Finished(b)}

\* start_ready: branches start in order as slots get free, and the first ones
\* start together.
MayStart(b) ==
  /\ ~Started(b)
  /\ \A c \in Branches : c < b => Started(c)
  /\ Cardinality(Running) < chain.parallel

FirstBatch == \A b \in Branches : b <= chain.parallel => Started(b)

\* acall: the next id goes to whichever branch gets to its call first.
Send(b) ==
  /\ up /\ ending # "raised" /\ stage[b] = "idle" /\ ~Finished(b)
  /\ IF Started(b) THEN FirstBatch ELSE MayStart(b)
  /\ nextId' = nextId + 1
  /\ asked' = [asked EXCEPT ![b] = nextId + 1]
  /\ stage' = [stage EXCEPT ![b] = "sent"]
  /\ UNCHANGED <<chain, run, up, disk, board, at, answer, broker, ending, history>>

-----------------------------------------------------------------------------
(* The broker: handle, up to the dispatch. *)

Reply(b, a) ==
  /\ stage' = [stage EXCEPT ![b] = "reply"]
  /\ answer' = [answer EXCEPT ![b] = a]

\* Mutant: only results of this run are looked up.
PromptHitsOwnRun(b) ==
  {e \in memo : Current(b).kind = "prompt" /\ e.what = Current(b).what}

\* _maybe_prompt_cache_hit looks into the run's own results, then the root's.
PromptHits(b) ==
  LET named(S) == {e \in S : e.what = Current(b).what}
  IN  IF Current(b).kind # "prompt" THEN {}
      ELSE IF named(memo) # {} THEN named(memo)
      ELSE IF Recording THEN {} ELSE named(prompts)

\* Mutant: recorded failures are not replayed.
EntriesOfSuccesses(b) ==
  IF Recording THEN {} ELSE {e \in cache : e.id = asked[b] /\ e.answer.ok}

\* _maybe_replay
Entries(b) == IF Recording THEN {} ELSE {e \in cache : e.id = asked[b]}
\* Mutant: the method is compared, the arguments are not.
MatchesMethod(e, b) == e.call.kind = Current(b).kind

Matches(e, b) == e.call = Current(b)

PromptHit(b) ==
  /\ stage[b] = "sent"
  /\ \E e \in PromptHits(b) : Reply(b, [ok |-> TRUE, v |-> e.v])
  /\ UNCHANGED <<chain, run, up, disk, board, guest, broker, ending, history>>

ReplayHit(b) ==
  /\ stage[b] = "sent" /\ PromptHits(b) = {}
  /\ \E e \in Entries(b) : Matches(e, b) /\ Reply(b, e.answer)
  /\ UNCHANGED <<chain, run, up, disk, board, guest, broker, ending, history>>

CutShort(by) == ending' = IF ending = "no" THEN by ELSE ending

\* replay_mismatch: fail closed, and the run is aborted.
Drift(b) ==
  /\ stage[b] = "sent" /\ PromptHits(b) = {}
  /\ \E e \in Entries(b) : ~Matches(e, b)
  /\ Reply(b, Failure) /\ CutShort("drift")
  /\ UNCHANGED <<chain, run, up, disk, board, guest, broker, history>>

Misses(b) == stage[b] = "sent" /\ PromptHits(b) = {} /\ Entries(b) = {}

\* A live dispatch: the runner or handler is invoked.
Dispatch(b) ==
  /\ Misses(b) /\ Current(b).kind # "card"
  /\ stage' = [stage EXCEPT ![b] = "calling"]
  /\ effects' = effects \cup {[run |-> run, step |-> Step(b)]}
  /\ UNCHANGED <<chain, run, up, disk, board, guest, answer, broker, ending, told,
                 attached, unsaved>>

\* create_or_reattach by <logical_run_id>:<call_id>; the root is the logical run.
CreateOrReattach(b) ==
  /\ Misses(b) /\ Current(b).kind = "card"
  /\ cards' = IF \E c \in cards : c.key = asked[b] THEN cards
              ELSE cards \cup {[key |-> asked[b], step |-> Step(b)]}
  /\ attached' = attached \cup {[key |-> asked[b], step |-> Step(b)]}
  /\ stage' = [stage EXCEPT ![b] = "waiting"]
  /\ UNCHANGED <<chain, run, up, disk, resolved, guest, answer, broker, ending, told,
                 effects, unsaved>>

\* await_resolution returns, or the call is denied and the run suspends.
AwaitCard(b) ==
  /\ stage[b] = "waiting"
  /\ IF asked[b] \in resolved
     THEN Reply(b, [ok |-> TRUE, v |-> SomeValue]) /\ UNCHANGED ending
     ELSE Reply(b, Failure) /\ CutShort("suspended")
  /\ UNCHANGED <<chain, run, up, disk, board, guest, broker, history>>

-----------------------------------------------------------------------------
(* The broker: the runner answers; the answer is persisted and then sent. *)

Entry(b, a) == [id |-> asked[b], call |-> Current(b), answer |-> a,
                step |-> Step(b)]

\* The line of a call in the cache: it has the call's id or its fingerprint.
Line(s, id) == [id |-> IF KindOf(s) = "prompt" THEN 0 ELSE id, what |-> CallOf(s).what]

\* What _persist_success writes: an entry by id, or one by fingerprint if the
\* run has not written that fingerprint yet.
WritesCall(b) == Recording /\ Current(b).kind = "pure"
WritesPrompt(b) ==
  Recording /\ Current(b).kind = "prompt" /\ Current(b).what \notin written
Writes(b) == WritesCall(b) \/ WritesPrompt(b)

\* What a write may come to: whether the line is there, and what the file ends in.
\* A line is glued to an entry without a newline or to a fragment, and a second line
\* of one fingerprint is refused as a fragment is.
Fits(b) ==
  /\ end = "line"
  /\ Current(b).kind = "prompt" => \A e \in prompts : e.what # Current(b).what
Outcome(there, to) == [there |-> there, end |-> to]
Written(b) == {IF Fits(b) THEN Outcome(TRUE, "line") ELSE Outcome(FALSE, "corrupt")}
Refused(b) ==
  (IF chain.refuses THEN {Outcome(FALSE, end)} ELSE {}) \cup
  (IF chain.refuses /\ TornWrites
   THEN {Outcome(FALSE, "corrupt")} \cup
        (IF Fits(b) THEN {Outcome(TRUE, "line"), Outcome(TRUE, "entry")} ELSE {})
   ELSE {})

\* record and record_prompt: a line whose write raises is not counted as written.
SaveLine(b, v) ==
  \E saved \in BOOLEAN : \E o \in IF saved THEN Written(b) ELSE Refused(b) :
    /\ end' = o.end
    /\ cache' = IF o.there /\ WritesCall(b)
                THEN cache \cup {Entry(b, [ok |-> TRUE, v |-> v])} ELSE cache
    /\ prompts' = IF o.there /\ WritesPrompt(b)
                  THEN prompts \cup {[what |-> Current(b).what, v |-> v]} ELSE prompts
    /\ written' = IF saved /\ WritesPrompt(b) THEN written \cup {Current(b).what} ELSE written
    /\ unsaved' = IF saved /\ o.there THEN unsaved
                  ELSE unsaved \cup {Line(Step(b), asked[b])}

\* Mutant: successes wait for the end of the run as failures do.
SucceedsBuffered(b, v) ==
  /\ stage[b] = "calling"
  /\ LET a == [ok |-> TRUE, v |-> v]
     IN  /\ Reply(b, a)
         /\ buffer' = IF WritesCall(b) THEN buffer \cup {Entry(b, a)} ELSE buffer
  /\ UNCHANGED <<chain, run, up, disk, board, guest, memo, written, ending, history>>

\* _persist_success: whatever the write came to, the answer goes out.
Succeeds(b, v) ==
  /\ stage[b] = "calling"
  /\ LET a == [ok |-> TRUE, v |-> v]
         mine == [what |-> Current(b).what, v |-> v]
     IN  /\ Reply(b, a)
         /\ memo' = IF Current(b).kind = "prompt"
                    THEN {e \in memo : e.what # mine.what} \cup {mine} ELSE memo
  /\ IF Writes(b) THEN SaveLine(b, v) ELSE UNCHANGED <<cache, prompts, end, written, unsaved>>
  /\ UNCHANGED <<chain, run, up, status, source, board, guest, buffer, ending, told, effects,
                 attached>>

\* _persist_failure: a cacheable failure waits for the end of the run.
Fails(b) ==
  /\ MayFail /\ stage[b] = "calling"
  /\ Reply(b, Failure)
  /\ buffer' = IF Recording /\ Current(b).kind = "pure"
               THEN buffer \cup {Entry(b, Failure)} ELSE buffer
  /\ UNCHANGED <<chain, run, up, disk, board, guest, memo, written, ending, history>>

\* The script gets the answer; a failure it does not catch ends it.  A run being
\* cut short may be killed before or after the script has seen that failure.
Deliver(b) ==
  /\ stage[b] = "reply"
  /\ stage' = [stage EXCEPT ![b] = "idle"]
  /\ IF ending = "raised"
     THEN UNCHANGED <<at, told, ending>>
     ELSE /\ told' = told \cup {[run |-> run, step |-> Step(b), id |-> asked[b],
                                 answer |-> answer[b]]}
          /\ IF answer[b].ok \/ chain.catches
             THEN at' = [at EXCEPT ![b] = @ + 1] /\ UNCHANGED ending
             ELSE ending' = "raised" /\ UNCHANGED at
  /\ UNCHANGED <<chain, run, up, disk, board, nextId, asked, answer, broker, effects,
                 attached, unsaved>>

-----------------------------------------------------------------------------
(* Runs. *)

\* Resumptions follow on one another: run_script does not check that the run it is to
\* replay has ended, its caller does.
Begin(from) ==
  /\ ~up /\ run < chain.runs
  /\ run' = run + 1 /\ up' = TRUE
  /\ status' = Append(status, "running")
  /\ source' = Append(source, from)
  /\ nextId' = 0
  /\ at' = [b \in Branches |-> 1]
  /\ stage' = [b \in Branches |-> "idle"]
  /\ asked' = [b \in Branches |-> 0]
  /\ answer' = [b \in Branches |-> Failure]
  /\ memo' = {} /\ buffer' = {} /\ written' = {}
  /\ ending' = "no"
  /\ UNCHANGED <<chain, cache, prompts, end, board, history>>

FirstRun == run = 0 /\ Begin(0)

\* load_cache raises on two entries of one id or fingerprint and on a fragment.
Loads ==
  /\ end # "corrupt"
  /\ \A e, f \in cache : e.id = f.id => e = f
  /\ \A e, f \in prompts : e.what = f.what => e = f

Resume(r) == r \in 1..run /\ Loads /\ Begin(r)

Idle == \A b \in Branches : stage[b] = "idle"

\* The outcomes _drive may report.  A script that came to its end is believed, if
\* its done frame is read before the denial that cut it short is noted.
Finals ==
  (IF \A b \in Branches : Finished(b) THEN {"succeeded"} ELSE {}) \cup
  (CASE ending = "no" -> {}
     [] ending = "suspended" -> {"suspended"}
     [] OTHER -> {"failed"})

\* _drive drains the calls at work; a frame it has not read is dropped.
Over ==
  /\ up
  /\ \A b \in Branches : stage[b] \notin {"calling", "waiting"}
  /\ ending = "no" => Idle

\* What is there of a flush in which lines were refused, or in which the process died.
FlushStops ==
  /\ \E saved \in SUBSET buffer : cache' = IF end = "line" THEN cache \cup saved ELSE cache
  /\ end' \in {end} \cup (IF TornWrites THEN {"corrupt"} ELSE {})

\* flush_pending_failures: it goes on when a line is refused.
FlushFailures ==
  \/ chain.refuses /\ buffer # {} /\ FlushStops
  \/ IF end = "line" \/ buffer = {} THEN cache' = cache \cup buffer /\ UNCHANGED end
     ELSE end' = "corrupt" /\ UNCHANGED cache

\* Buffered failures are flushed unless the run failed; finish writes the status.
Finish ==
  /\ Over
  /\ \E final \in Finals :
       /\ status' = [status EXCEPT ![run] = final]
       /\ IF final = "failed" THEN UNCHANGED <<cache, end>> ELSE FlushFailures
  /\ stage' = [b \in Branches |-> "idle"]
  /\ up' = FALSE
  /\ UNCHANGED <<chain, run, source, prompts, board, guest, answer, broker, ending, history>>

\* The parent process dies; run.json keeps saying "running".
Die == up' = FALSE /\ stage' = [b \in Branches |-> "idle"]

Crash ==
  /\ up /\ Die
  /\ UNCHANGED <<chain, run, disk, board, guest, answer, broker, ending, history>>

\* It dies inside a write to cache.jsonl.
CrashInWrite ==
  /\ TornWrites /\ up /\ Recording
  /\ \E b \in Branches : stage[b] = "calling" /\ Writes(b)
  /\ Die
  /\ end' = "corrupt"
  /\ UNCHANGED <<chain, run, status, source, cache, prompts, board, guest, answer,
                 broker, ending, history>>

\* It dies between two of the buffered failures, or inside one.
CrashInFlush ==
  /\ Over /\ buffer # {} /\ \E final \in Finals : final # "failed"
  /\ FlushStops /\ Die
  /\ UNCHANGED <<chain, run, status, source, prompts, board, guest, answer, broker, ending,
                 history>>

\* External: a worker completes a card.
ResolveCard(c) ==
  /\ c \in cards /\ c.key \notin resolved
  /\ resolved' = resolved \cup {c.key}
  /\ UNCHANGED <<chain, run, up, disk, cards, guest, stage, answer, broker, ending,
                 history>>

-----------------------------------------------------------------------------

Init ==
  /\ chain \in Chains
  /\ run = 0 /\ up = FALSE /\ status = << >> /\ source = << >>
  /\ cache = {} /\ prompts = {} /\ end = "line" /\ cards = {} /\ resolved = {}
  /\ nextId = 0
  /\ at = [b \in Branches |-> 1]
  /\ stage = [b \in Branches |-> "idle"]
  /\ asked = [b \in Branches |-> 0]
  /\ answer = [b \in Branches |-> Failure]
  /\ memo = {} /\ buffer = {} /\ written = {} /\ ending = "no"
  /\ told = {} /\ effects = {} /\ attached = {} /\ unsaved = {}

Handle(b) ==
  \/ PromptHit(b) \/ ReplayHit(b) \/ Drift(b) \/ Dispatch(b)
  \/ CreateOrReattach(b) \/ AwaitCard(b)
  \/ \E v \in Values : Succeeds(b, v)
  \/ Fails(b)

Next ==
  \/ FirstRun \/ \E r \in Runs : Resume(r)
  \/ \E b \in Branches : Send(b) \/ Handle(b) \/ Deliver(b)
  \/ Finish \/ Crash \/ CrashInWrite \/ CrashInFlush
  \/ \E c \in cards : ResolveCard(c)

Spec == Init /\ [][Next]_vars

-----------------------------------------------------------------------------
(* Properties. *)

Entered == [id : Nat, call : Call, answer : Answer, step : Steps]

TypeOK ==
  /\ run \in 0..chain.runs /\ up \in BOOLEAN
  /\ status \in Seq({"running", "succeeded", "failed", "suspended"})
  /\ source \in Seq(0..chain.runs)
  /\ cache \subseteq Entered /\ buffer \subseteq Entered
  /\ prompts \subseteq [what : STRING, v : Values]
  /\ memo \subseteq [what : STRING, v : Values]
  /\ end \in {"line", "entry", "corrupt"}
  /\ cards \subseteq [key : Nat, step : Steps] /\ resolved \subseteq Nat
  /\ attached \subseteq [key : Nat, step : Steps]
  /\ nextId \in Nat /\ at \in [Branches -> Nat \ {0}]
  /\ stage \in [Branches -> {"idle", "sent", "calling", "waiting", "reply"}]
  /\ asked \in [Branches -> Nat] /\ answer \in [Branches -> Answer]
  /\ ending \in {"no", "drift", "suspended", "raised"}
  /\ told \subseteq [run : Runs, step : Steps, id : Nat, answer : Answer]
  /\ effects \subseteq [run : Runs, step : Steps]
  /\ unsaved \subseteq [id : Nat, what : STRING] /\ written \subseteq STRING

\* "A consistent prefix of cached calls": the same of a crash inside a write.
CacheLoads == Loads

\* A success of a replayable call that the script of the root run was told of is
\* in the cache, unless the disk refused its line, or one that it was glued to:
\* no crash after that can make a resumed run repeat the call.
Unsaved(t) == Line(t.step, t.id) \in unsaved
ToldIsRecorded ==
  \A t \in told : t.run = 1 /\ t.answer.ok /\ ~Unsaved(t) =>
    /\ KindOf(t.step) = "pure" =>
         \E e \in cache : e.id = t.id /\ e.step = t.step /\ e.answer = t.answer
    /\ KindOf(t.step) = "prompt" =>
         \E e \in prompts : e.what = CallOf(t.step).what

\* The ids do not depend on the order in which answers arrive: branches run one
\* at a time, or make one call each.
StableIds == chain.parallel = 1 \/ \A b \in Branches : Len(Script[b]) = 1

\* The pending-writes guarantee: where ids are stable, a replayable step that
\* completed in the root run is not dispatched again by any run that resumes it,
\* directly or through others, unless the disk refused its line.
CompletedNotRedone ==
  StableIds =>
    \A t \in told, d \in effects :
      t.run = 1 /\ t.answer.ok /\ ~Unsaved(t) /\ d.run > 1 /\ d.step = t.step
        => KindOf(t.step) = "live"

\* Call ids are a stable address space: a resumed run of the same script never
\* takes one step's entry for another's and aborts.
NoDrift == ending # "drift"

\* One card per logical step: runs of a chain find the same card for a step, and
\* no two steps share one.
OneCardPerStep ==
  \A a, c \in attached : a.key = c.key <=> a.step = c.step

\* Where ids depend on the schedule, the entry under a call's id may be another
\* call's: the call then fails, and a resumed run is never given an answer under
\* an id but the one recorded there, for the same call.
FailsClosed ==
  \A t \in told, e \in cache :
    t.run > 1 /\ t.id = e.id /\ t.answer.ok /\ KindOf(t.step) = "pure"
      => e.call = CallOf(t.step) /\ e.answer = t.answer

\* A duplicate prompt call dedups to one child: a prompt that came to an answer is
\* not put to a child a second time within the run.
OneChildPerPrompt ==
  \A d, e \in effects :
    /\ d.run = e.run /\ KindOf(d.step) = "prompt" /\ CallOf(d.step) = CallOf(e.step)
    /\ \A t \in told : t.run = d.run /\ CallOf(t.step) = CallOf(d.step) => t.answer.ok
    => d = e

\* A resumed run replays the completed calls of the run it names.
SourceNotRedone ==
  \A t \in told, d \in effects :
    t.answer.ok /\ source[d.run] = t.run /\ d.step = t.step
      => KindOf(t.step) = "live"

\* The steps that are recorded by call id keep to StepMemo where ids are stable.
PureSteps ==
  UNION {{s \in StepsOf(c.script) : c.script[s[1]][s[2]].kind = "pure"} :
           c \in Chains}
Promise == INSTANCE StepMemo WITH
  Steps <- PureSteps, Outcomes <- Answer,
  memo <- {[step |-> e.step, outcome |-> e.answer] :
            e \in IF StableIds THEN cache ELSE {}},
  told <- {[run |-> t.run, step |-> t.step, outcome |-> t.answer] :
             t \in {u \in told : StableIds /\ KindOf(u.step) = "pure"}}

\* Whatever runs, crashes and resumes do, a recorded step has one outcome and
\* every run is told that one.
KeepsPromise == Promise!MemoSpec
=============================================================================
