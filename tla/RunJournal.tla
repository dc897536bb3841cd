------------------------------ MODULE RunJournal ------------------------------
(***************************************************************************)
(* One run in the file store (script_store.py) or the SQLite store           *)
(* (script_store_sqlite.py): begin, the calls that are recorded and noted,    *)
(* finish, under the three durability modes of the journal.                   *)
(*                                                                           *)
(* Calls are handled by several threads; a store serves one at a time.  The   *)
(* disk may refuse a write, in part for the file store, and the process may   *)
(* die at any moment.  What others see of the run is what is on disk.         *)
(***************************************************************************)
EXTENDS Naturals, Sequences, FiniteSets, SequencesExt

CONSTANTS Calls,
          Setups,     \* the store, its mode, and whether runners may outlive the run
          MaxFaults,  \* bound: writes the disk refuses
          MaxFinishes \* bound: times finish is called

ASSUME JournalAssumption ==
  /\ Setups \subseteq [backend : {"file", "sqlite"}, mode : {"sync", "async", "exit"},
                      every : Nat \ {0}, late : BOOLEAN]
  /\ MaxFaults \in Nat /\ MaxFinishes \in Nat

VARIABLES
  setup,   \* one of Setups; every is async_flush_every
  at,      \* how far the run has come; "dead" once its process is gone
  exists,  \* the run's directory or row
  status,  \* of run.json or the row, "none" without one
  lines,   \* journal.jsonl or the journal table; Junk for what does not parse
  open,    \* the last line has no newline
  cache,   \* the calls that have a line in cache.jsonl, or a row
  end,     \* what cache.jsonl ends in: a "line", an "entry" without its newline; or
           \* "corrupt", once some line does not parse and load_cache refuses them all
  buffer,  \* _journal_buffer of the run
  stage,   \* of each call: "new", "ran", "recorded", "noted", "replied" or "lost"
  ok,      \* the calls that succeeded
  begins, finishes, faults,
  given,   \* history: the events of this run in the order they were appended
  noted,   \* history: those whose append returned
  unsaved, \* history: calls whose cache write failed
  torn     \* history: a write was refused after it had begun

disk == <<exists, status, lines, open, cache, end>>
calls == <<stage, ok, cache, end, unsaved>>
vars == <<setup, at, disk, buffer, stage, ok, begins, finishes, faults,
          given, noted, unsaved, torn>>

Mode == setup.mode
File == setup.backend = "file"

Event == [kind : {"boot", "ok", "denied", "done"}, of : Calls \cup Nat]
Junk == [kind |-> "junk", of |-> 0]
Boot == [kind |-> "boot", of |-> begins]
CallEvent(c) == [kind |-> IF c \in ok THEN "ok" ELSE "denied", of |-> c]
Done == [kind |-> "done", of |-> finishes]

\* Where in the file the lines are that a reader does not skip.
Readable == {i \in DOMAIN lines : lines[i] # Junk}

-----------------------------------------------------------------------------
(* Writing lines. *)

\* The lines after text is appended, to a fragment if the file ends in one.
Put(text) ==
  IF open /\ text # << >>
    THEN Front(lines) \o <<Junk>> \o Tail(text)
    ELSE lines \o text

\* What may be there of a write that did not come to its end: some lines, and
\* part of the next, at worst all of it but the newline.
FilePartial(text) ==
  {[lines |-> Put(SubSeq(text, 1, k)), open |-> open /\ k = 0] : k \in 0..Len(text)}
  \cup
  UNION {{[lines |-> Put(Append(SubSeq(text, 1, k - 1), l)), open |-> TRUE] :
            l \in {Junk, text[k]}} : k \in DOMAIN text}

\* A transaction is there or it is not.
SqlitePartial == {[lines |-> lines, open |-> FALSE]}

WriteLines(text) == lines' = Put(text) /\ open' = FALSE

WriteStops(text) ==
  \E d \in IF File THEN FilePartial(text) ELSE SqlitePartial :
    lines' = d.lines /\ open' = d.open

\* The disk refuses a write.
Refuse == faults < MaxFaults /\ faults' = faults + 1

WriteRefused(text) ==
  /\ text # << >> /\ Refuse /\ WriteStops(text)
  /\ torn' = (torn \/ lines' # lines)

-----------------------------------------------------------------------------
(* _append_journal *)

Pending(e) == Append(buffer, e)

\* Mutant: the event that fills the buffer does not flush it.
DueLate == Mode = "sync" \/ (Mode = "async" /\ Len(buffer) >= setup.every)

Due == Mode = "sync" \/ (Mode = "async" /\ Len(buffer) + 1 >= setup.every)

\* Mutant: what was flushed stays in the buffer.
FlushedKept == buffer

\* The buffer is popped after the write.
Flushed == << >>

Give(e) == given' = Append(given, e)

AppendEvent(e) ==
  /\ Give(e) /\ noted' = noted \cup {e}
  /\ IF Due THEN WriteLines(Pending(e)) /\ buffer' = Flushed
     ELSE buffer' = Pending(e) /\ UNCHANGED <<lines, open>>
  /\ UNCHANGED <<faults, torn>>

\* A buffered event waits for the next flush, another one is gone.
AppendRaises(e) ==
  /\ Due /\ WriteRefused(Pending(e))
  /\ Give(e) /\ UNCHANGED noted
  /\ buffer' = IF Mode = "sync" THEN buffer ELSE Pending(e)

-----------------------------------------------------------------------------
(* begin *)

beginRest == <<setup, calls, finishes>>

FileClaim ==
  /\ at = "free" /\ File /\ ~exists
  /\ exists' = TRUE /\ begins' = begins + 1
  /\ at' = "claimed"
  /\ UNCHANGED <<beginRest, status, lines, open, buffer, faults, given, noted, torn>>

FileDescribe ==
  /\ at = "claimed"
  /\ status' = "running"
  /\ at' = "described"
  /\ UNCHANGED <<beginRest, exists, lines, open, buffer, begins, faults, given, noted, torn>>

\* The row is inserted and committed in one statement.
SqliteDescribe ==
  /\ at = "free" /\ ~File /\ ~exists
  /\ exists' = TRUE /\ status' = "running" /\ begins' = begins + 1
  /\ at' = "described"
  /\ UNCHANGED <<beginRest, lines, open, buffer, faults, given, noted, torn>>

AppendBoot ==
  /\ at = "described"
  /\ AppendEvent(Boot)
  /\ at' = "driving"
  /\ UNCHANGED <<beginRest, exists, status, begins>>

\* begin cleans up and raises; it may be called again with the same id.
CleanUp ==
  /\ exists' = FALSE /\ status' = "none" /\ lines' = << >> /\ open' = FALSE
  /\ given' = << >> /\ noted' = {} /\ torn' = FALSE
  /\ at' = "free"
  /\ UNCHANGED <<beginRest, begins>>

\* The clean-up is refused too: the directory or the row stays, and begin will find
\* the id taken; rmtree has removed some of the files.
CleanUpFails(left) ==
  /\ faults + 2 <= MaxFaults /\ faults' = faults + 2
  /\ at' = "stuck"
  /\ \E d \in left : lines' = d.lines /\ open' = d.open
  /\ torn' = (torn \/ lines' # lines) /\ noted' = {}
  /\ UNCHANGED <<beginRest, exists, begins>>

Kept == {[lines |-> lines, open |-> open]}

FileDescribeFails ==
  /\ at = "claimed" /\ UNCHANGED buffer
  /\ \/ Refuse /\ CleanUp
     \/ CleanUpFails(Kept) /\ UNCHANGED <<status, given>>

LeftBuffered == IF Mode = "sync" THEN buffer ELSE Pending(Boot)

\* rmtree leaves the buffer alone.
FileBootFails ==
  /\ at = "described" /\ File /\ Due
  /\ buffer' = LeftBuffered
  /\ \/ Refuse /\ CleanUp
     \/ /\ CleanUpFails(FilePartial(Pending(Boot)) \cup {[lines |-> << >>, open |-> FALSE]})
        /\ status' \in {status, "none"} /\ Give(Boot)

\* The row is deleted, then the rows of the journal, then the buffer is dropped: a
\* statement that is refused ends it.
SqliteBootFails ==
  /\ at = "described" /\ ~File /\ Due
  /\ \/ Refuse /\ CleanUp /\ buffer' = << >>
     \/ /\ CleanUpFails(Kept) /\ UNCHANGED status /\ Give(Boot)
        /\ buffer' = LeftBuffered
     \/ /\ faults + 2 <= MaxFaults /\ faults' = faults + 2 /\ CleanUp
        /\ buffer' = LeftBuffered

-----------------------------------------------------------------------------
(* The calls of the run; nothing is served while finish holds the lock. *)

Unlocked == at \in {"driving", "ended", "finished", "raised"}

\* The run is driven, or the call's thread has outlived it.
Serve(c, from) ==
  /\ stage[c] = from /\ Unlocked
  /\ at = "driving" \/ setup.late

Goto(c, to) == stage' = [stage EXCEPT ![c] = to]

callRest == <<setup, at, exists, status, begins, finishes>>
journal == <<lines, open, buffer, given, noted, torn>>

\* The runner answers, or the call is denied or fails.
Succeed(c) ==
  /\ Serve(c, "new")
  /\ ok' = ok \cup {c}
  /\ Goto(c, "ran")
  /\ UNCHANGED <<callRest, journal, cache, end, faults, unsaved>>

Deny(c) ==
  /\ Serve(c, "new")
  /\ Goto(c, "recorded")
  /\ UNCHANGED <<callRest, journal, ok, cache, end, faults, unsaved>>

\* A success is recorded before it is noted, a failure that is recorded after.
Recordable(c) == stage[c] \in {"ran", "noted"} /\ Serve(c, stage[c])
Recorded(c) == Goto(c, IF stage[c] = "ran" THEN "recorded" ELSE "replied")

\* What the cache ends in after a line: it is glued to an entry without a newline.
Ended(as) == IF end = "line" THEN as ELSE "corrupt"

RecordCall(c) ==
  /\ Recordable(c)
  /\ cache' = cache \cup {c} /\ end' = Ended("line")
  /\ Recorded(c)
  /\ UNCHANGED <<callRest, journal, ok, faults, unsaved>>

\* What may be there of a cache line whose write did not come to its end.
RecordStops(c) ==
  \/ UNCHANGED <<cache, end>>
  \/ File /\ end' = "corrupt" /\ UNCHANGED cache
  \/ File /\ end' \in {Ended("line"), Ended("entry")} /\ cache' = cache \cup {c}

\* _persist_success and _persist_failure go on without the cache line.
RecordFails(c) ==
  /\ Recordable(c) /\ Refuse
  /\ RecordStops(c)
  /\ unsaved' = unsaved \cup {c}
  /\ Recorded(c)
  /\ UNCHANGED <<callRest, journal, ok>>

\* Mutant: a success is noted, then recorded.
NotableEarly(c) == stage[c] \in {"ran", "recorded"}

Notable(c) == stage[c] = "recorded"

NoteCall(c) ==
  /\ Notable(c) /\ Serve(c, stage[c])
  /\ AppendEvent(CallEvent(c))
  /\ \/ Goto(c, "replied")
     \/ c \notin ok /\ Goto(c, "noted")
  /\ UNCHANGED <<callRest, ok, cache, end, unsaved>>

\* The answer of a success goes out all the same; the error of a denial's event
\* ends the thread that was to answer it.
NoteFails(c) ==
  /\ Notable(c) /\ Serve(c, stage[c])
  /\ AppendRaises(CallEvent(c))
  /\ Goto(c, IF c \in ok THEN "replied" ELSE "lost")
  /\ UNCHANGED <<callRest, ok, cache, end, unsaved>>

-----------------------------------------------------------------------------
(* finish *)

finishRest == <<setup, exists, calls, begins>>

\* The VM returns: every call is over, or is left behind by the deadline.
End ==
  /\ at = "driving"
  /\ setup.late \/ \A c \in Calls : stage[c] \in {"new", "replied", "lost"}
  /\ at' = "ended"
  /\ UNCHANGED <<finishRest, status, lines, open, buffer, finishes, faults, given, noted, torn>>

\* finish may be called again when it has raised.
WriteStatus ==
  /\ at \in {"ended", "raised"} /\ finishes < MaxFinishes
  /\ status' = "over" /\ finishes' = finishes + 1
  /\ at' = "closing"
  /\ UNCHANGED <<finishRest, lines, open, buffer, faults, given, noted, torn>>

WriteStatusFails ==
  /\ at \in {"ended", "raised"} /\ finishes < MaxFinishes /\ Refuse
  /\ finishes' = finishes + 1
  /\ at' = "raised"
  /\ UNCHANGED <<finishRest, status, lines, open, buffer, given, noted, torn>>

AppendDone ==
  /\ at = "closing"
  /\ AppendEvent(Done)
  /\ at' = "flushing"
  /\ UNCHANGED <<finishRest, status, finishes>>

AppendDoneFails ==
  /\ at = "closing"
  /\ AppendRaises(Done)
  /\ at' = "raised"
  /\ UNCHANGED <<finishRest, status, finishes>>

\* Mutant: what the exit mode buffered is left to the exit.
LeftToFlushInAsync == IF Mode = "exit" THEN << >> ELSE buffer

\* _flush_journal_locked
LeftToFlush == buffer

Flush ==
  /\ at = "flushing"
  /\ IF LeftToFlush = << >> THEN UNCHANGED <<lines, open, buffer>>
     ELSE WriteLines(LeftToFlush) /\ buffer' = Flushed
  /\ at' = "finished"
  /\ UNCHANGED <<finishRest, status, finishes, faults, given, noted, torn>>

FlushFails ==
  /\ at = "flushing"
  /\ WriteRefused(LeftToFlush)
  /\ at' = "raised"
  /\ UNCHANGED <<finishRest, status, buffer, finishes, given, noted>>

-----------------------------------------------------------------------------
(* The process dies, or exits after the run. *)

dieRest == <<setup, exists, status, stage, ok, begins, finishes, faults, noted,
             unsaved, torn>>

Die ==
  /\ at \notin {"free", "stuck", "dead"}
  /\ at' = "dead" /\ buffer' = << >>
  /\ UNCHANGED <<dieRest, lines, open, given, cache, end>>

\* The events whose append may be under way.
Upcoming ==
  {e \in {Boot} : at = "described"} \cup {e \in {Done} : at = "closing"}
  \cup {CallEvent(c) : c \in {d \in Calls : Notable(d) /\ Serve(d, stage[d])}}

\* ... while it writes to the journal.
DieWriting ==
  /\ \/ Due /\ \E e \in Upcoming : WriteStops(Pending(e)) /\ Give(e)
     \/ at = "flushing" /\ WriteStops(buffer) /\ UNCHANGED given
  /\ at' = "dead" /\ buffer' = << >>
  /\ UNCHANGED <<dieRest, cache, end>>

\* ... while it writes to the cache.
DieRecording(c) ==
  /\ Recordable(c) /\ RecordStops(c)
  /\ at' = "dead" /\ buffer' = << >>
  /\ UNCHANGED <<dieRest, lines, open, given>>

Init ==
  /\ setup \in Setups
  /\ at = "free" /\ exists = FALSE /\ status = "none" /\ lines = << >> /\ open = FALSE
  /\ cache = {} /\ end = "line" /\ buffer = << >> /\ stage = [c \in Calls |-> "new"] /\ ok = {}
  /\ begins = 0 /\ finishes = 0 /\ faults = 0
  /\ given = << >> /\ noted = {} /\ unsaved = {} /\ torn = FALSE

Begin ==
  \/ FileClaim \/ FileDescribe \/ SqliteDescribe \/ AppendBoot
  \/ FileDescribeFails \/ FileBootFails \/ SqliteBootFails

Call(c) ==
  \/ Succeed(c) \/ Deny(c) \/ RecordCall(c) \/ RecordFails(c) \/ NoteCall(c) \/ NoteFails(c)
  \/ DieRecording(c)

Finish ==
  \/ End \/ WriteStatus \/ WriteStatusFails \/ AppendDone \/ AppendDoneFails
  \/ Flush \/ FlushFails

Next == Begin \/ (\E c \in Calls : Call(c)) \/ Finish \/ Die \/ DieWriting

Spec == Init /\ [][Next]_vars

-----------------------------------------------------------------------------
(* Properties. *)

\* Type correctness of the store, its buffer and the run's progress.
TypeOK ==
  /\ setup \in Setups
  /\ at \in {"free", "claimed", "described", "driving", "ended", "closing", "flushing",
             "finished", "raised", "stuck", "dead"}
  /\ {exists, open, torn} \subseteq BOOLEAN /\ status \in {"none", "running", "over"}
  /\ lines \in Seq(Event \cup {Junk}) /\ buffer \in Seq(Event) /\ given \in Seq(Event)
  /\ noted \subseteq Event
  /\ stage \in [Calls -> {"new", "ran", "recorded", "noted", "replied", "lost"}]
  /\ cache \cup unsaved \cup ok \subseteq Calls /\ end \in {"line", "entry", "corrupt"}
  /\ begins \in Nat /\ finishes \in 0..MaxFinishes /\ faults \in 0..MaxFaults

Stored == ToSet(lines) \ {Junk}

\* The crash window of a mode: how many noted events may be in memory only.
Window == IF Mode = "sync" THEN 0 ELSE setup.every - 1

\* Wherever the process dies, writes are refused or threads interleave, no more
\* noted events are lost than a mode that flushes before the end allows, unless a
\* refused write left part of itself behind.
LossBounded == ~torn /\ Mode # "exit" => Cardinality(noted \ Stored) <= Window

Position(e) == CHOOSE i \in DOMAIN given : given[i] = e

\* A boot event flushes the buffer at once, which leaves it there if the disk refuses.
Eager == Mode = "async" /\ setup.every = 1

\* What is on disk is a part of what this run appended, in that order, no event
\* twice: whatever was buffered, flushed, refused and flushed again, and whatever
\* an earlier begin of the same id left behind in a store that is not eager.
JournalInOrder ==
  ~torn /\ ~Eager =>
    /\ Stored \subseteq ToSet(given)
    /\ \A i, j \in Readable : i < j => Position(lines[i]) < Position(lines[j])

\* Once finish returns, all that was noted before is on disk in every mode, the
\* done event too, and the run is not left running.
FinishedIsWhole ==
  (at = "finished" /\ ~torn) =>
    /\ status = "over" /\ Done \in Stored
    /\ \A i \in 1..Position(Done) : given[i] \in noted => given[i] \in Stored

\* A success that the journal tells of is in the cache too, in whatever order
\* threads record and note and wherever they are cut off, unless its own cache write
\* was refused; and as long as the process lives the cache is one that a replay
\* accepts, unless some cache write was refused.
NotedIsReplayable ==
  /\ \A e \in Stored : e.kind = "ok" => e.of \in cache \cup unsaved
  /\ end = "corrupt" => at = "dead" \/ unsaved # {}

\* "a parent crash mid-run still leaves a consistent prefix of cached calls"
CrashLeavesPrefix == unsaved = {} => end # "corrupt"

\* JournalInOrder of every store: a begin that failed leaves nothing for the next.
BootsOnce ==
  ~torn => Cardinality({i \in Readable : lines[i].kind = "boot"}) <= 1

\* "Once finish() returns, the full journal for that run is on disk": also of the
\* calls whose threads the run left behind.
LateIsStored == (at = "finished" /\ ~torn) => noted \subseteq Stored

\* An event that was "written and fsynced before the call returns" is read, also
\* after an earlier write was refused half way.
NotedStaysReadable == Mode = "sync" => noted \subseteq Stored
=============================================================================
