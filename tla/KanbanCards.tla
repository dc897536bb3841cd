------------------------------ MODULE KanbanCards ------------------------------
(***************************************************************************)
(* One Kanban card of a script: kanban_agent in the broker (vm.py), the      *)
(* Hermes and the durable backend over the event-log backend (kanban.py,     *)
(* kanban_notify.py, hermes_kanban.py), the card record and the event log    *)
(* of the file store (script_store.py).                                      *)
(*                                                                           *)
(* A parent is a process running the script, first or resumed: the card is   *)
(* the same, keyed by root run and call id.  Several may be alive at once.   *)
(* A publisher is a gateway or worker process that logs the card's outcomes. *)
(* All share the disk and the card's FIFO, and any may die between steps; a  *)
(* store's lock excludes nobody in another process.                          *)
(***************************************************************************)
EXTENDS Naturals, Sequences, FiniteSets

CONSTANTS Parents, Publishers,
          Setups,     \* who takes part, the backend and the call's on_block
          Outcomes,   \* outcomes published; see AllOutcomes
          MaxStarts,  \* bound: calls of kanban_agent by all parents
          MaxEvents,  \* bound: attempts to publish
          MaxFaults   \* bound: failing commands, OSErrors of the store, read or
                      \* write, and appends cut short

\* A completed card by whether its workflow_result fits the call's schema.
AllOutcomes == {"valid", "invalid", "blocked", "failed"}

ASSUME CardsAssumption ==
  /\ Setups \subseteq [cast : SUBSET (Parents \cup Publishers),
                      backend : {"hermes", "durable"},
                      policy : {"pause", "return"},
                      splits : SUBSET (1..MaxEvents)]
  /\ Outcomes \subseteq AllOutcomes
  /\ {MaxStarts, MaxEvents, MaxFaults} \subseteq Nat

VARIABLES
  cast, backend, policy,  \* one of Setups, with
  splits,    \* the events whose payload holds a line separator of Unicode
  lines,     \* the event log: a record per readable line, Junk for the others
  open,      \* the last line has no newline
  garbled,   \* a line was cut inside a character: the log is no UTF-8 any more
  card,      \* the card record: [kind, real], kind "none" if there is no file
  alias,     \* the real task's record names the logical card
  board,     \* the real task exists
  fifo,      \* a byte is in the card's FIFO
  pub,       \* pub[g]: where publisher g is in publish_kanban_event
  sent, acked,   \* events attempted; history: events whose publish returned
  call,      \* call[p]: p's kanban_agent call, see Call
  starts, faults,
  overlap,   \* history: two parents were at work on the card at once
  crossed,   \* history: an append was cut short between shape and write of another,
             \* or could not read the shape of a log that ends in a fragment
  early,     \* history: an outcome was logged before there was a card record
  unread     \* history: a parent's read failed and passed for one that finds nothing

logVars == <<lines, open, garbled>>
pubVars == <<pub, sent, acked>>
cardHistory == <<overlap, crossed, early>>
fixed   == <<cast, backend, policy, splits>>
\* What a step of a parent leaves alone, but for call, card, alias, board, fifo.
most == <<fixed, logVars, pubVars, starts, cardHistory>>
rest == <<most, unread>>
cardsVars == <<rest, card, alias, board, fifo, call, faults>>

-----------------------------------------------------------------------------
(* Data. *)

Terminal == {"valid", "invalid", "failed"}
Kinds == AllOutcomes \cup {"none", "waiting"}
Card == [kind : Kinds, real : BOOLEAN]
Event == [n : 1..MaxEvents, kind : Outcomes]
Junk == [n |-> 0, kind |-> "junk"]
Places == {"idle", "look", "reattach", "create", "decide", "replace", "alias",
           "ask", "read", "check", "wait", "drain", "judge"}

\* saving, real, next: the record under way to the store and what follows;
\* after: the broker's after_version; due: the nearer of run deadline and
\* suspend window ended p's last wait; served, floor, stamp: _served, _inner_after and
\* _next of the durable wrapper; got, version: the resolution handed over;
\* owed (history): an acceptable outcome was there when p last began to look.
Call == [at : Places, saving : Kinds, real : BOOLEAN,
         next : {"ask", "alias", "judge"},
         after : Nat, due : BOOLEAN, served : BOOLEAN, floor : Nat, stamp : Nat,
         got : Kinds, version : Nat, owed : BOOLEAN]
NoCall == [at |-> "idle", saving |-> "none", real |-> FALSE, next |-> "ask",
           after |-> 0, due |-> FALSE, served |-> FALSE, floor |-> 0, stamp |-> 0,
           got |-> "none", version |-> 0, owed |-> FALSE]

Pausing == policy # "return"
Accepted(kind) == kind \in Terminal \/ (kind = "blocked" /\ ~Pausing)

Events == {i \in DOMAIN lines : lines[i] # Junk}
HighestOf(S) == CHOOSE i \in S : \A j \in S : i >= j

\* The version space the event log is read in: the durable wrapper keeps the
\* highest log position it consumed, the broker's own cursor is its stamp.
Floor(p) == IF backend = "durable" THEN call[p].floor ELSE call[p].after

\* _latest_accepted: what the event-log backend may answer p with.
Answers(p) == {i \in Events : i > Floor(p) /\ Accepted(lines[i].kind)}

\* The durable outcome of the card: the log's last one, else the record's.
Durable == IF Events # {} THEN lines[HighestOf(Events)].kind ELSE card.kind

\* Mutant of Protects: the record is last-write-wins.
ProtectsNothing(old, new) == FALSE

\* The precedence guard of record_kanban_card_state.
Protects(old, new) == old \in Terminal /\ new \notin Terminal

\* Mutant of Prefix: the shape of the log is not looked at.
PrefixNever == FALSE

\* _event_log_shape: a newline is written first if the log ends in a fragment.
Prefix == open

\* The line of an event as splitlines sees it: a separator in the payload, which
\* json.dumps leaves as it is, breaks it in two.
Text(event) == IF event.n \in splits THEN Junk ELSE event

\* The lines after `text` (an event or a fragment) is appended.
Written(prefix, text) ==
  CASE open /\ ~prefix -> [lines EXCEPT ![Len(lines)] = Junk]
    [] ~open /\ prefix -> lines \o <<Junk, text>>
    [] OTHER           -> Append(lines, text)

\* Mutant of Listening: a reader attaches when it has something to wait for.
ListeningLate == {p \in Parents : call[p].at \in {"wait", "drain"}}

\* Who holds the FIFO open: await_resolution subscribes before its first read.
Listening == {p \in Parents : call[p].at \in {"read", "check", "wait", "drain"}}

-----------------------------------------------------------------------------
(* Parents. *)

Set(p, c) == call' = [call EXCEPT ![p] = c]
Goto(p, place) == call' = [call EXCEPT ![p].at = place]
Save(c, kind, real, next) ==
  [c EXCEPT !.at = "decide", !.saving = kind, !.real = real, !.next = next]

Saved(p) ==
  Set(p, [call[p] EXCEPT !.at = call[p].next, !.saving = "none", !.real = FALSE,
                         !.next = "ask"])

\* Closing the last read end discards the byte.
HangUp(p) == fifo' = (fifo /\ Listening \ {p} # {})

\* An OSError of a read, which store and backend treat as a file that is not there.
ReadError == faults < MaxFaults /\ faults' = faults + 1 /\ unread' = TRUE

\* The call ends, with its process in the case of a suspension or a crash.
End(p) == Set(p, NoCall) /\ HangUp(p)

\* A script reaches its kanban_agent call, for the first time or resumed: the
\* process is new, and with it the wrapper's memory.
StartCall(p) ==
  /\ p \in cast /\ call[p].at = "idle" /\ starts < MaxStarts
  /\ starts' = starts + 1
  /\ overlap' = (overlap \/ \E q \in Parents : call[q].at # "idle")
  /\ Goto(p, "look")
  /\ UNCHANGED <<fixed, logVars, pubVars, card, alias, board, fifo, faults, crossed,
                 early, unread>>

\* Without a history Hermes opens a real card, the event-log backend records its
\* waiting marker.
Fresh(p) ==
  IF backend = "hermes" THEN Goto(p, "create")
  ELSE Set(p, Save(call[p], "waiting", FALSE, "ask"))

\* has_kanban_history: the record or, if there is none, the log.
Look(p) ==
  /\ call[p].at = "look" /\ (card.kind = "none" => ~garbled)
  /\ IF card.kind # "none" \/ Events # {}
     THEN Goto(p, IF backend = "hermes" THEN "reattach" ELSE "ask")
     ELSE Fresh(p)
  /\ UNCHANGED <<rest, card, alias, board, fifo, faults>>

\* Neither can be read.
LookInVain(p) ==
  /\ call[p].at = "look" /\ (card.kind # "none" \/ Events # {} \/ garbled)
  /\ ReadError
  /\ Fresh(p)
  /\ UNCHANGED <<most, card, alias, board, fifo>>

\* Mutant of Reattach: the alias is not repaired.
ReattachOnly(p) ==
  /\ call[p].at = "reattach"
  /\ Goto(p, "ask")
  /\ UNCHANGED <<rest, card, alias, board, fifo, faults>>

\* A known card is not created again; its alias is repaired if the record
\* knows the real task.
Reattach(p) ==
  /\ call[p].at = "reattach"
  /\ Goto(p, IF card.real THEN "alias" ELSE "ask")
  /\ UNCHANGED <<rest, card, alias, board, fifo, faults>>

\* The record cannot be read, and nothing is repaired.
ReattachInVain(p) ==
  /\ call[p].at = "reattach" /\ card.real
  /\ ReadError
  /\ Goto(p, "ask")
  /\ UNCHANGED <<most, card, alias, board, fifo>>

\* hermes kanban create.  The board de-duplicates by the idempotency key.
Create(p) ==
  /\ call[p].at = "create"
  /\ board' = TRUE
  /\ Set(p, Save(call[p], "waiting", TRUE, "alias"))
  /\ UNCHANGED <<rest, card, alias, fifo, faults>>

\* The command fails or its answer is unusable; the task may exist all the same.
CreateFails(p) ==
  /\ call[p].at = "create" /\ faults < MaxFaults
  /\ faults' = faults + 1
  /\ board' \in {board, TRUE}
  /\ End(p)
  /\ UNCHANGED <<rest, card, alias>>

\* record_kanban_card_state loads the record and decides under its own lock ...
Decide(p) ==
  /\ call[p].at = "decide"
  /\ IF Protects(card.kind, call[p].saving) THEN Saved(p) ELSE Goto(p, "replace")
  /\ UNCHANGED <<rest, card, alias, board, fifo, faults>>

\* (a record it cannot read does not count) ...
DecideInVain(p) ==
  /\ call[p].at = "decide" /\ Protects(card.kind, call[p].saving)
  /\ ReadError
  /\ Goto(p, "replace")
  /\ UNCHANGED <<most, card, alias, board, fifo>>

\* ... and replaces the file.
Replace(p) ==
  /\ call[p].at = "replace"
  /\ card' = [kind |-> call[p].saving, real |-> call[p].real]
  /\ Saved(p)
  /\ UNCHANGED <<rest, alias, board, fifo, faults>>

\* An OSError loses the mapping of a real task, which is an error of the call;
\* markers and mirrored outcomes are best-effort.
ReplaceFails(p) ==
  /\ call[p].at = "replace" /\ faults < MaxFaults
  /\ faults' = faults + 1
  /\ IF call[p].real THEN End(p) ELSE Saved(p) /\ UNCHANGED fifo
  /\ UNCHANGED <<rest, card, alias, board>>

RecordAlias(p) ==
  /\ call[p].at = "alias"
  /\ alias' = TRUE
  /\ Goto(p, "ask")
  /\ UNCHANGED <<rest, card, board, fifo, faults>>

RecordAliasFails(p) ==
  /\ call[p].at = "alias" /\ faults < MaxFaults
  /\ faults' = faults + 1
  /\ End(p)
  /\ UNCHANGED <<rest, card, alias, board>>

\* The durable wrapper serves what is on record once, on the first await ...
Consults(p) == backend = "durable" /\ call[p].after = 0 /\ ~call[p].served
MayServe(p) == Consults(p) /\ Accepted(Durable)

Serves(p, kind) ==
  Set(p, Save([call[p] EXCEPT !.served = TRUE, !.stamp = @ + 1, !.got = kind,
                              !.version = call[p].stamp + 1],
              kind, FALSE, "judge"))

Serve(p) ==
  /\ call[p].at = "ask" /\ MayServe(p) /\ ~garbled
  /\ Serves(p, Durable)
  /\ UNCHANGED <<rest, card, alias, board, fifo, faults>>

\* The log cannot be read, the record can.
ServeRecord(p) ==
  /\ call[p].at = "ask" /\ Consults(p) /\ (Events # {} \/ garbled)
  /\ Accepted(card.kind)
  /\ ReadError
  /\ Serves(p, card.kind)
  /\ UNCHANGED <<most, card, alias, board, fifo>>

\* p looks at the log (again); owed records what was there.
LookAgain(c, p, place) ==
  Set(p, [c EXCEPT !.at = place, !.owed = Answers(p) # {}])

\* ... and otherwise, like Hermes, asks the event-log backend, which subscribes.
Subscribe(p) ==
  /\ call[p].at = "ask" /\ ~MayServe(p) /\ (Consults(p) => ~garbled)
  /\ LookAgain(call[p], p, "read")
  /\ UNCHANGED <<rest, card, alias, board, fifo, faults>>

\* The log cannot be read, and the record cannot or says nothing of use.
SubscribeInVain(p) ==
  /\ call[p].at = "ask" /\ Consults(p) /\ (MayServe(p) \/ garbled)
  /\ ReadError
  /\ LookAgain(call[p], p, "read")
  /\ UNCHANGED <<most, card, alias, board, fifo>>

\* The newest answer is consumed, stamped and mirrored to the card record.
Read(p) ==
  /\ call[p].at = "read" /\ Answers(p) # {} /\ ~garbled
  /\ LET at == HighestOf(Answers(p))
         c  == [call[p] EXCEPT !.got = lines[at].kind]
     IN  Set(p, Save(IF backend = "durable"
                     THEN [c EXCEPT !.floor = at, !.stamp = @ + 1,
                                    !.version = c.stamp + 1]
                     ELSE [c EXCEPT !.version = at],
                     lines[at].kind, FALSE, "judge"))
  /\ HangUp(p)
  /\ UNCHANGED <<rest, card, alias, board, faults>>

ReadNothing(p) ==
  /\ call[p].at = "read" /\ Answers(p) = {} /\ ~garbled
  /\ Goto(p, "check")
  /\ UNCHANGED <<rest, card, alias, board, fifo, faults>>

\* A log that cannot be read is an empty one: what was there is not owed then.
ReadInVain(p) ==
  /\ call[p].at = "read" /\ (Answers(p) # {} \/ garbled)
  /\ ReadError
  /\ Set(p, [call[p] EXCEPT !.at = "check", !.owed = FALSE])
  /\ UNCHANGED <<most, card, alias, board, fifo>>

\* Bytes that are no UTF-8 are another matter: the read raises a UnicodeDecodeError,
\* which nobody takes for an empty log, and the call ends in an error.
Undecodable(p) ==
  /\ garbled
  /\ \/ call[p].at = "look" /\ card.kind = "none"
     \/ call[p].at = "ask" /\ Consults(p)
     \/ call[p].at = "read"
  /\ End(p)
  /\ UNCHANGED <<rest, card, alias, board, faults>>

\* The clock is looked at after the read and may show any time not before the
\* last one: KanbanTimeout, which suspends the run if the window was the nearer
\* bound ...
TimeOut(p) ==
  /\ call[p].at = "check"
  /\ End(p)
  /\ UNCHANGED <<rest, card, alias, board, faults>>

\* ... or a wait on the FIFO for all the time that is left.
Sleep(p) ==
  /\ call[p].at = "check" /\ ~call[p].due
  /\ Goto(p, "wait")
  /\ UNCHANGED <<rest, card, alias, board, fifo, faults>>

\* select() finds the FIFO readable; the byte is drained in a step of its own,
\* so that several readers may be woken by one byte, or only one of them.
WakeByByte(p) ==
  /\ call[p].at = "wait" /\ fifo
  /\ Goto(p, "drain")
  /\ UNCHANGED <<rest, card, alias, board, fifo, faults>>

Drain(p) ==
  /\ call[p].at = "drain"
  /\ fifo' = FALSE
  /\ LookAgain(call[p], p, "read")
  /\ UNCHANGED <<rest, card, alias, board, faults>>

\* Mutant of WakeByDeadline: the clock is looked at before the log.
WakeAndCheck(p) ==
  /\ call[p].at = "wait"
  /\ LookAgain([call[p] EXCEPT !.due = TRUE], p, "check")
  /\ UNCHANGED <<rest, card, alias, board, fifo, faults>>

\* The nearer of the call's two deadlines passes.
WakeByDeadline(p) ==
  /\ call[p].at = "wait"
  /\ LookAgain([call[p] EXCEPT !.due = TRUE], p, "read")
  /\ UNCHANGED <<rest, card, alias, board, fifo, faults>>

\* The broker refuses a version that did not grow; after an invalid result under
\* pause it waits for a newer one; anything else is handed to the script.
Judge(p) ==
  /\ call[p].at = "judge"
  /\ LET c == call[p]
         stale == c.after # 0 /\ c.version <= c.after
     IN  IF ~stale /\ c.got = "invalid" /\ Pausing
         THEN /\ Set(p, [c EXCEPT !.at = "ask", !.after = c.version,
                                  !.got = "none", !.version = 0])
              /\ UNCHANGED fifo
         ELSE End(p)
  /\ UNCHANGED <<rest, card, alias, board, faults>>

\* The parent's process dies.
Crash(p) ==
  /\ call[p].at # "idle"
  /\ End(p)
  /\ UNCHANGED <<rest, card, alias, board, faults>>

-----------------------------------------------------------------------------
(* Publishers. *)

pubRest == <<fixed, card, alias, board, call, starts, overlap, unread>>
Idle == [at |-> "idle", event |-> Junk, prefix |-> FALSE]

\* publish_hermes_kanban_event finds the logical id (an event of a real task
\* that is not mapped is refused) and append_kanban_event looks at the shape of the
\* log, in bytes; a log that cannot be read has the shape of an empty one.  A
\* producer knows the logical id from the task's body or, with the durable backend,
\* from the waiting marker.
Shape(g, kind, id) ==
  /\ g \in cast /\ pub[g] = Idle /\ sent < MaxEvents
  /\ IF backend = "hermes" THEN board ELSE id = "logical" /\ card.kind # "none"
  /\ id = "real" => alias
  /\ sent' = sent + 1
  /\ \E seen \in {Prefix, FALSE} :
       /\ pub' = [pub EXCEPT ![g] = [at |-> "shaped",
                                     event |-> [n |-> sent', kind |-> kind],
                                     prefix |-> seen]]
       /\ seen # Prefix => faults < MaxFaults
       /\ faults' = faults + (IF seen # Prefix THEN 1 ELSE 0)
       /\ crossed' = (crossed \/ seen # Prefix)
  /\ early' = (early \/ card.kind = "none")
  /\ UNCHANGED <<pubRest, logVars, fifo, acked>>

AppendEvent(g) ==
  /\ pub[g].at = "shaped"
  /\ lines' = Written(pub[g].prefix, Text(pub[g].event))
  /\ open' = FALSE
  /\ pub' = [pub EXCEPT ![g].at = "written"]
  /\ UNCHANGED <<pubRest, garbled, fifo, sent, acked, faults, crossed, early>>

\* A publisher dies inside the write: part of the line is there, at worst all of
\* it but the newline, and the cut may be inside a character.
CutShort(g) ==
  /\ pub[g].at = "shaped" /\ faults < MaxFaults
  /\ faults' = faults + 1
  /\ \E text \in {Junk, Text(pub[g].event)} :
       /\ lines' = Written(pub[g].prefix, text)
       /\ garbled' \in {garbled, garbled \/ text = Junk}
  /\ open' = TRUE
  /\ pub' = [pub EXCEPT ![g] = Idle]
  /\ crossed' = (crossed \/ \E h \in Publishers \ {g} : pub[h].at = "shaped")
  /\ UNCHANGED <<pubRest, fifo, sent, acked, early>>

\* FifoEventNotifier.notify: a byte, if some reader has the FIFO open.
Notify(g) ==
  /\ pub[g].at = "written"
  /\ fifo' = (fifo \/ Listening # {})
  /\ acked' = acked \cup {pub[g].event}
  /\ pub' = [pub EXCEPT ![g] = Idle]
  /\ UNCHANGED <<pubRest, logVars, sent, faults, crossed, early>>

\* A publisher dies between its append and the notify.
DieUnnotified(g) ==
  /\ pub[g].at = "written"
  /\ pub' = [pub EXCEPT ![g] = Idle]
  /\ UNCHANGED <<pubRest, logVars, fifo, sent, acked, faults, crossed, early>>

-----------------------------------------------------------------------------

CardsInit ==
  /\ \E u \in Setups :
       cast = u.cast /\ backend = u.backend /\ policy = u.policy /\ splits = u.splits
  /\ lines = << >> /\ open = FALSE /\ garbled = FALSE
  /\ card = [kind |-> "none", real |-> FALSE]
  /\ alias = FALSE /\ board = FALSE /\ fifo = FALSE
  /\ pub = [g \in Publishers |-> Idle] /\ sent = 0 /\ acked = {}
  /\ call = [p \in Parents |-> NoCall]
  /\ starts = 0 /\ faults = 0
  /\ overlap = FALSE /\ crossed = FALSE /\ early = FALSE /\ unread = FALSE

\* A step a parent takes by itself once the call is made.
ParentStep(p) ==
  \/ Look(p) \/ Reattach(p) \/ Create(p) \/ CreateFails(p)
  \/ Decide(p) \/ Replace(p) \/ ReplaceFails(p)
  \/ RecordAlias(p) \/ RecordAliasFails(p)
  \/ Serve(p) \/ Subscribe(p) \/ Read(p) \/ ReadNothing(p) \/ TimeOut(p)
  \/ Sleep(p) \/ WakeByByte(p) \/ Drain(p) \/ Judge(p)
  \/ LookInVain(p) \/ ReattachInVain(p) \/ DecideInVain(p) \/ ServeRecord(p)
  \/ SubscribeInVain(p) \/ ReadInVain(p) \/ Undecodable(p)

PublisherStep(g) ==
  \/ \E kind \in Outcomes, id \in {"real", "logical"} : Shape(g, kind, id)
  \/ AppendEvent(g) \/ CutShort(g) \/ Notify(g) \/ DieUnnotified(g)

CardsNext ==
  \/ \E p \in Parents : StartCall(p) \/ ParentStep(p) \/ WakeByDeadline(p) \/ Crash(p)
  \/ \E g \in Publishers : PublisherStep(g)

CardsSpec == CardsInit /\ [][CardsNext]_cardsVars

\* A parent's thread keeps running.  Nobody is obliged to publish, to resume or
\* to be late.
CardsFairSpec == CardsSpec /\ \A p \in Parents : WF_cardsVars(ParentStep(p))

-----------------------------------------------------------------------------
(* Properties. *)

CardsTypeOK ==
  /\ [cast |-> cast, backend |-> backend, policy |-> policy, splits |-> splits] \in Setups
  /\ lines \in Seq(Event \cup {Junk}) /\ {open, garbled} \subseteq BOOLEAN
  /\ card \in Card /\ {alias, board, fifo} \subseteq BOOLEAN
  /\ pub \in [Publishers -> [at : {"idle", "shaped", "written"},
                             event : Event \cup {Junk}, prefix : BOOLEAN]]
  /\ sent \in 0..MaxEvents /\ acked \subseteq Event
  /\ call \in [Parents -> Call]
  /\ starts \in 0..MaxStarts /\ faults \in 0..MaxFaults
  /\ {overlap, crossed, early, unread} \subseteq BOOLEAN

\* "A slow stale writer ... can never regress a recorded terminal result": so it
\* is as long as one parent at a time is at work on the card and can read its record,
\* whatever crashes, resumptions and superseded outcomes come in between.
TerminalStands ==
  [][(card.kind \in Terminal /\ ~overlap /\ ~unread) => card'.kind \in Terminal]_cardsVars

\* The same of parents that overlap: the decision is made under a lock that no
\* other process takes.
NeverRegressed == [][card.kind \in Terminal => card'.kind \in Terminal]_cardsVars

\* An event whose publish returned and whose payload holds no line separator is
\* read by every later await: a line cut short damages itself only, unless it is cut
\* inside a character, or while another publisher has already looked at the shape of
\* the log, or that other cannot read the shape.
AckedStaysReadable ==
  (~crossed /\ ~garbled)
    => \A e \in acked : e.n \notin splits => \E i \in DOMAIN lines : lines[i] = e

\* The same whatever the payload and the shape ("isolates the damage to that one
\* line").
DamageIsIsolated == \A e \in acked : \E i \in DOMAIN lines : lines[i] = e

\* An outcome that was in the log when an await began, or when its last wait
\* ended, is never answered with a timeout or a suspension of the run, if the read
\* that followed did not fail.
TimeoutIsTrue ==
  [][\A p \in Parents : (TimeOut(p) /\ ~crossed) => ~call[p].owed]_cardsVars

\* While a parent awaits a card of the real board, the task's own events find
\* it: through creation, crashes, failing writes and reattachment the alias is
\* there, unless an outcome was logged before the card had a record or that record
\* could not be read.
AwaitedIsRoutable ==
  (backend = "hermes" /\ ~early /\ ~unread)
    => \A p \in Parents :
         call[p].at \in {"ask", "read", "check", "wait", "drain", "judge"} => alias

\* The same of a card whose first outcome came under its logical id before the
\* parent that had created it recorded anything, and died.
AlwaysRoutable ==
  backend = "hermes" =>
    \A p \in Parents : call[p].at \in {"read", "check", "wait", "drain"} => alias

\* p awaits, and an event it would accept was published and notified.
Owing(p) ==
  /\ call[p].at \in {"ask", "read", "check", "wait", "drain"}
  /\ \E i \in Answers(p) : lines[i] \in acked

\* "A signal that races in is buffered": with one parent on the card, such an
\* event is consumed without waiting for the deadline, whatever the moment of
\* its append and notify, unless a read fails, which leaves the byte drained.
WokenWhenNotified ==
  \A p \in Parents : (Owing(p) /\ ~overlap) ~> (~Owing(p) \/ overlap \/ unread)

\* The same of several parents that wait on one card: one byte wakes one.
AllWokenWhenNotified == \A p \in Parents : Owing(p) ~> ~Owing(p)
=============================================================================
