---------------------------- MODULE WorkflowEvents ----------------------------
(***************************************************************************)
(* The durable external event queue of hermes_workflows/events.py:          *)
(* FileWorkflowEventStore (a JSON-lines file guarded by a lock file), the   *)
(* notifier, and WorkflowEventBroker.publish / wait_for.                    *)
(*                                                                          *)
(* Producers and consumers are processes sharing one store root.  A locked  *)
(* append or read is one step.  A producer can die inside its write, which  *)
(* leaves part of a line, or all of it but the newline: the next append is  *)
(* then glued to it and neither parses.  A producer can also die after its  *)
(* write and before notify.                                                 *)
(***************************************************************************)
EXTENDS Naturals, Sequences, FiniteSets, SequencesExt

CONSTANTS Ids,          \* event ids; a producer retries a delivery by its id
          Producers, Consumers,
          Wanted,       \* Wanted[c]: the ids consumer c's predicate matches
          MaxCuts       \* bound: how many writes a crash may cut short

ASSUME EventsAssumption ==
  /\ Wanted \in [Consumers -> SUBSET Ids]
  /\ MaxCuts \in Nat

VARIABLES
  log,        \* the lines of the file that parse, as [id, version] records
  tail,       \* the file ends in a "line", in a "fragment" that does not parse, or
              \* in an "event": all of the last line of log but its newline
  cuts,       \* history: writes cut short so far
  sending,    \* sending[p]: << >>, or <<event>> stored and not yet notified
  acked,      \* history: events returned to a producer by publish
  pc,         \* pc[c]: where consumer c is in wait_for
  cursor,     \* cursor[c]: the predicate's after_version
  checked,    \* checked[c]: checked_once
  deadline,   \* deadline[c]: "none", "ahead" or "passed"
  signalled,  \* consumers whose notifier.wait was ended by notify
  received,   \* history: ids returned by wait_for to c, in order
  owed        \* history: a matching event was stored when c's deadline passed

eventsVars == <<log, tail, cuts, sending, acked, pc, cursor, checked, deadline,
                signalled, received, owed>>
storeVars == <<log, tail, cuts>>
waitVars  == <<pc, cursor, checked, deadline, signalled, received, owed>>

Event == [id : Ids, version : Nat \ {0}]
Places == {"idle", "top", "find", "arm", "asleep"}

-----------------------------------------------------------------------------
(* The store. *)

Stored(e) == {i \in DOMAIN log : log[i].id = e}

LastVersion == IF log = << >> THEN 0 ELSE log[Len(log)].version

\* match_workflow_event: newer than after_version and of the wanted kind.
Matches(c, ev) == ev.version > cursor[c] /\ ev.id \in Wanted[c]

Matching(c) == {i \in DOMAIN log : Matches(c, log[i])}

\* Mutant of First: the newest match instead of the oldest.
Newest(S) == CHOOSE i \in S : \A j \in S : i >= j

\* find_events(pred, limit=1): the first match in version order.
First(S) == CHOOSE i \in S : \A j \in S : i <= j

\* The log when a write glues what it writes to a tail that is no line: what
\* was readable of the tail is lost.
Glued == IF tail = "event" THEN Front(log) ELSE log

-----------------------------------------------------------------------------
(* Producers. *)

\* Mutant of AppendEvent: a retry is answered with a version of its own.
AppendRenumbers(p, e) ==
  /\ sending[p] = << >>
  /\ LET stored == [id |-> e, version |-> LastVersion + 1]
     IN  /\ sending' = [sending EXCEPT ![p] = <<stored>>]
         /\ log' = CASE Stored(e) # {} -> log
                     [] Stored(e) = {} /\ tail = "line" -> Append(log, stored)
                     [] OTHER -> Glued
         /\ tail' = "line"
  /\ UNCHANGED <<cuts, acked, waitVars>>

\* append_event under the exclusive lock: a known id returns the stored
\* event, also if only its newline is missing; a new one is written after the
\* last version.  What is written after a torn tail is unreadable with it.
AppendEvent(p, e) ==
  /\ sending[p] = << >>
  /\ IF Stored(e) # {}
     THEN /\ sending' = [sending EXCEPT ![p] = <<log[First(Stored(e))]>>]
          /\ UNCHANGED <<log, tail>>
     ELSE LET stored == [id |-> e, version |-> LastVersion + 1]
          IN  /\ sending' = [sending EXCEPT ![p] = <<stored>>]
              /\ log' = IF tail = "line" THEN Append(log, stored) ELSE Glued
              /\ tail' = "line"
  /\ UNCHANGED <<cuts, acked, waitVars>>

\* notifier.notify and the return of publish.
Notify(p) ==
  /\ sending[p] # << >>
  /\ signalled' = signalled \cup {c \in Consumers : pc[c] = "asleep"}
  /\ acked' = acked \cup {sending[p][1]}
  /\ sending' = [sending EXCEPT ![p] = << >>]
  /\ UNCHANGED <<storeVars, pc, cursor, checked, deadline, received, owed>>

\* The producer's process dies inside handle.write: a fragment is left, or all
\* but the newline.
CrashInWrite(p, e) ==
  /\ cuts < MaxCuts
  /\ sending[p] = << >>
  /\ Stored(e) = {}
  /\ \/ log' = Glued /\ tail' = "fragment"
     \/ /\ tail = "line" /\ tail' = "event"
        /\ log' = Append(log, [id |-> e, version |-> LastVersion + 1])
  /\ cuts' = cuts + 1
  /\ UNCHANGED <<sending, acked, waitVars>>

\* The producer's process dies between append_event and notify.
CrashBeforeNotify(p) ==
  /\ sending[p] # << >>
  /\ sending' = [sending EXCEPT ![p] = << >>]
  /\ UNCHANGED <<storeVars, acked, waitVars>>

-----------------------------------------------------------------------------
(* Consumers: WorkflowEventBroker.wait_for with after_version = cursor[c]. *)

Goto(c, place) == pc' = [pc EXCEPT ![c] = place]

StartWait(c, timed) ==
  /\ pc[c] = "idle"
  /\ Goto(c, "top")
  /\ checked' = [checked EXCEPT ![c] = FALSE]
  /\ deadline' = [deadline EXCEPT ![c] = IF timed THEN "ahead" ELSE "none"]
  /\ owed' = [owed EXCEPT ![c] = FALSE]
  /\ UNCHANGED <<storeVars, sending, acked, cursor, signalled, received>>

\* Time: the monotonic clock reaches c's deadline.
DeadlinePasses(c) ==
  /\ pc[c] # "idle"
  /\ deadline[c] = "ahead"
  /\ deadline' = [deadline EXCEPT ![c] = "passed"]
  /\ owed' = [owed EXCEPT ![c] = Matching(c) # {}]
  /\ UNCHANGED <<storeVars, sending, acked, pc, cursor, checked, signalled,
                 received>>

\* The check at the head of the loop: a second pass after the deadline raises
\* TimeoutError before reading.
LoopTop(c) ==
  /\ pc[c] = "top"
  /\ Goto(c, IF checked[c] /\ deadline[c] = "passed" THEN "idle" ELSE "find")
  /\ UNCHANGED <<storeVars, sending, acked, cursor, checked, deadline,
                 signalled, received, owed>>

Find(c) ==
  /\ pc[c] = "find"
  /\ IF Matching(c) # {}
     THEN LET ev == log[First(Matching(c))]
          IN  /\ Goto(c, "idle")
              /\ cursor' = [cursor EXCEPT ![c] = ev.version]
              /\ received' = [received EXCEPT ![c] = Append(@, ev.id)]
              /\ UNCHANGED checked
     ELSE /\ Goto(c, "arm")
          /\ checked' = [checked EXCEPT ![c] = TRUE]
          /\ UNCHANGED <<cursor, received>>
  /\ UNCHANGED <<storeVars, sending, acked, deadline, signalled, owed>>

\* remaining <= 0 raises; otherwise notifier.wait samples and sleeps, so a
\* notify that came since Find is not seen.
Arm(c) ==
  /\ pc[c] = "arm"
  /\ Goto(c, IF deadline[c] = "passed" THEN "idle" ELSE "asleep")
  /\ signalled' = signalled \ {c}
  /\ UNCHANGED <<storeVars, sending, acked, cursor, checked, deadline,
                 received, owed>>

WakeBySignal(c) ==
  /\ pc[c] = "asleep" /\ c \in signalled
  /\ Goto(c, "top")
  /\ signalled' = signalled \ {c}
  /\ UNCHANGED <<storeVars, sending, acked, cursor, checked, deadline,
                 received, owed>>

\* Mutant of WakeByIdle: a wait without a timeout sleeps until it is notified.
WakeByDeadline(c) ==
  /\ pc[c] = "asleep" /\ c \notin signalled /\ deadline[c] = "passed"
  /\ Goto(c, "top")
  /\ UNCHANGED <<storeVars, sending, acked, cursor, checked, deadline,
                 signalled, received, owed>>

\* The sleep is bounded by min(_IDLE_WAIT_S, remaining).
WakeByIdle(c) ==
  /\ pc[c] = "asleep" /\ c \notin signalled
  /\ Goto(c, "top")
  /\ UNCHANGED <<storeVars, sending, acked, cursor, checked, deadline,
                 signalled, received, owed>>

\* The waiting process restarts; its cursor is part of its durable state.
RestartConsumer(c) ==
  /\ pc[c] # "idle"
  /\ Goto(c, "idle")
  /\ signalled' = signalled \ {c}
  /\ UNCHANGED <<storeVars, sending, acked, cursor, checked, deadline,
                 received, owed>>

-----------------------------------------------------------------------------

EventsInit ==
  /\ log = << >> /\ tail = "line" /\ cuts = 0
  /\ sending = [p \in Producers |-> << >>]
  /\ acked = {}
  /\ pc = [c \in Consumers |-> "idle"]
  /\ cursor = [c \in Consumers |-> 0]
  /\ checked = [c \in Consumers |-> FALSE]
  /\ deadline = [c \in Consumers |-> "none"]
  /\ signalled = {}
  /\ received = [c \in Consumers |-> << >>]
  /\ owed = [c \in Consumers |-> FALSE]

ProducerStep(p) ==
  \/ \E e \in Ids : AppendEvent(p, e) \/ CrashInWrite(p, e)
  \/ Notify(p)
  \/ CrashBeforeNotify(p)

WaitStep(c) ==
  LoopTop(c) \/ Find(c) \/ Arm(c) \/ WakeBySignal(c) \/ WakeByIdle(c)

ConsumerStep(c) ==
  \/ \E timed \in BOOLEAN : StartWait(c, timed)
  \/ DeadlinePasses(c)
  \/ WaitStep(c)
  \/ RestartConsumer(c)

EventsNext ==
  \/ \E p \in Producers : ProducerStep(p)
  \/ \E c \in Consumers : ConsumerStep(c)

EventsSpec == EventsInit /\ [][EventsNext]_eventsVars

\* The thread inside wait_for keeps running; nothing obliges a producer to
\* publish, a consumer to wait, or a deadline to be set.
EventsFairSpec == EventsSpec /\ \A c \in Consumers : WF_eventsVars(WaitStep(c))

-----------------------------------------------------------------------------
(* Properties. *)

EventsTypeOK ==
  /\ log \in Seq(Event)
  /\ tail \in {"line", "fragment", "event"} /\ cuts \in 0..MaxCuts
  /\ \A p \in Producers : sending[p] = << >> \/ sending[p] \in Seq(Event)
  /\ DOMAIN sending = Producers
  /\ acked \subseteq Event
  /\ pc \in [Consumers -> Places]
  /\ cursor \in [Consumers -> Nat]
  /\ checked \in [Consumers -> BOOLEAN]
  /\ deadline \in [Consumers -> {"none", "ahead", "passed"}]
  /\ signalled \subseteq Consumers
  /\ received \in [Consumers -> Seq(Ids)]
  /\ owed \in [Consumers -> BOOLEAN]

\* "Restart-safe and idempotent by event id": an event whose publish returned
\* stays in the store, under the version that was returned.
AckedStaysStored == \A ev \in acked : \E i \in DOMAIN log : log[i] = ev

Lost == {ev \in acked : \A i \in DOMAIN log : log[i] # ev}

\* However producers race, retry and die, a write that was cut short costs at
\* most two acknowledged events (the one written next, and its own if it was
\* acknowledged from a line without newline), and nothing else does.
LossesAreCuts == Cardinality(Lost) <= 2 * cuts

\* A version names one event for ever ("monotonic per store").
VersionsNameOne ==
  \A a, b \in acked : a.version = b.version => a = b

\* A wait with a wanted event in the store ends, even when the notify came
\* between the read and the sleep and was lost: the sleep is bounded.  Only the
\* loss of that event leaves it waiting.
WaitAnswered ==
  \A c \in Consumers :
    (pc[c] # "idle" /\ Matching(c) # {}) ~> (pc[c] = "idle" \/ Matching(c) = {})

\* What DESIGN.md claims of missed wakeups ("degrade to bounded idle
\* re-read"): wait_for raises TimeoutError at the head of its loop only if no
\* wanted event was stored when the deadline passed.
TimeoutMeansNoEvent ==
  [][\A c \in Consumers :
       (LoopTop(c) /\ pc'[c] = "idle") => ~owed[c]]_eventsVars

-----------------------------------------------------------------------------
(* The readable log is a stream of ids, in which a cursor is a place; its     *)
(* last id is loose while its line has no newline.                            *)

Queue == INSTANCE EventStream WITH
           stream <- [i \in DOMAIN log |-> log[i].id],
           place <- cursor,
           loose <- tail = "event"

\* Every step of the file store, the broker and their crashes is a Publish, a
\* BreakOff, a Withdraw, a Deliver or nothing: the promise of EventStream is kept.
ImplementsStream == Queue!StreamSpec
=============================================================================
