----------------------------- MODULE ControlPlane -----------------------------
(***************************************************************************)
(* Operator controls of a run and the capability call they govern: the file  *)
(* store of controls.py with its verbs and projection, and the broker's      *)
(* checks and approval decisions (vm.py), through the generations of a run    *)
(* that is suspended and resumed.                                            *)
(*                                                                           *)
(* Every operator has a store object of its own, in this or another process: *)
(* a store's lock excludes no other.  Generation 1 is the fresh run; each    *)
(* resumption has a run id, and so a control log, of its own.  The script    *)
(* makes one capability call, the same in every generation.                  *)
(***************************************************************************)
EXTENDS Naturals, Sequences, FiniteSets, FiniteSetsExt

CONSTANTS Operators,
          Setups,       \* what operators ask for and write, and how the call is gated
          MaxGens,      \* bound: the fresh run and its resumptions
          MaxIssues,    \* bound: controls asked for
          MaxFaults     \* bound: appends cut short and logs that cannot be opened

Decisions == {"approve", "edit", "reject", "respond"}
Verbs == {"pause", "resume", "stop", "task_stop", "retry", "force"} \cup Decisions

ASSUME ControlAssumption ==
  /\ Setups \subseteq [verbs : SUBSET Verbs, splits : SUBSET (1..MaxIssues),
                      capability : {"gated", "unreplayable", "provisioned"}]
  /\ MaxGens \in Nat \ {0} /\ {MaxIssues, MaxFaults} \subseteq Nat

VARIABLES
  verbs, capability,  \* one of Setups
  splits,   \* with them: the controls whose text has a line separator in it
  log,      \* log[g]: controls.jsonl of generation g, a control or Junk per line
  open,     \* open[g]: its last line has no newline
  garbled,  \* logs with a character that was cut short
  blind,    \* logs that cannot be opened for reading now
  op,       \* op[o]: what operator o is doing
  issued,   \* controls asked for so far
  told,     \* history: [run, control] as returned to operators
  torn,     \* history: [run, control] whose write was cut short
  gen, at,  \* the generation that runs, and where its call is
  why,      \* the decision that lets the call run
  ending,   \* ending[g]: how the call ended in generation g
  cache,    \* the root's entry of the call: "none", "plain", "edited"
  overlap,  \* history: two operators were at work at once
  known,    \* history: what operators had been told when the call arrived
  missed    \* history: the checks of the call that could not open a log

opVars      == <<log, open, garbled, op, issued, told, torn, overlap>>
runVars     == <<gen, at, why, ending, cache, known, missed>>
fixed       == <<verbs, capability, splits>>
controlVars == <<fixed, opVars, runVars, blind>>

-----------------------------------------------------------------------------
(* Controls, and what a reader makes of a log. *)

Gens == 1..MaxGens
Junk == [n |-> 0, verb |-> "junk", attempt |-> 0]
Control == [n : 1..MaxIssues, verb : Verbs, attempt : 0..MaxIssues]
IsRetry(c) == c.verb \in {"retry", "force"}

\* A retry's id is a hash of run, target and attempt; other ids are fresh.
Id(c) == IF IsRetry(c) THEN <<"retry", c.attempt>> ELSE <<"fresh", c.n>>

\* Mutant of Legible: a reader gives up at the first line it cannot read.
LegibleUntilTorn(g) ==
  {i \in DOMAIN log[g] :
     /\ \A j \in 1..i : log[g][j] # Junk
     /\ \A j \in 1..(i - 1) : Id(log[g][j]) # Id(log[g][i])}

\* _load_unlocked: unreadable lines are skipped, of equal ids the first counts.
Legible(g) ==
  {i \in DOMAIN log[g] :
     /\ log[g][i] # Junk
     /\ \A j \in 1..(i - 1) : log[g][j] # Junk => Id(log[g][j]) # Id(log[g][i])}

\* A log that cannot be opened is read as an empty one; one that is not UTF-8
\* makes every read of it raise.
Live(g) == IF g \in blind THEN {} ELSE Legible(g)
Raises(g) == g \in garbled \ blind

Recorded(g) == {log[g][i] : i \in Live(g)}
Retries(g) == {c \in Recorded(g) : IsRetry(c)}
Lines(g, V) == {i \in Live(g) : log[g][i].verb \in V}

\* Mutant of Desired: the last word counts, whatever it is.
DesiredLast(g) ==
  LET said == Lines(g, {"pause", "resume", "stop"})
      last == log[g][Max(said)].verb
  IN  CASE said = {} \/ last = "resume" -> "running"
        [] said # {} /\ last = "pause" -> "paused"
        [] OTHER -> "stopped"

\* project_control_state: a stop is terminal, else the last pause or resume counts.
Desired(g) ==
  LET said == Lines(g, {"pause", "resume"})
  IN  CASE Lines(g, {"stop"}) # {} -> "stopped"
        [] Lines(g, {"stop"}) = {} /\ said # {} /\ log[g][Max(said)].verb = "pause"
             -> "paused"
        [] OTHER -> "running"

\* The runs whose logs a call of generation g asks for a decision, root first.
Chain(g) == IF g = 1 THEN {1} ELSE 1..(g - 1)

\* Mutant of Decision: the first decision of the chain counts.
DecisionFirst(g) ==
  LET runs == {r \in Chain(g) : Lines(r, Decisions) # {}}
      run  == Min(runs)
  IN  IF runs = {} THEN Junk ELSE log[run][Min(Lines(run, Decisions))]

\* _pending_call_decision: the last one of the logs joined in the order of Chain.
Decision(g) ==
  LET runs == {r \in Chain(g) : Lines(r, Decisions) # {}}
      run  == Max(runs)
  IN  IF runs = {} THEN Junk ELSE log[run][Max(Lines(run, Decisions))]

-----------------------------------------------------------------------------
(* Operators. *)

Idle == [at |-> "idle", run |-> 1, control |-> Junk]
Return(o, g, c) ==
  /\ op' = [op EXCEPT ![o] = Idle]
  /\ told' = told \cup {[run |-> g, control |-> c]}

\* A verb of controls.py on a run there is.
Issue(o, g, verb) ==
  /\ op[o] = Idle /\ issued < MaxIssues /\ verb \in verbs /\ g <= gen
  /\ issued' = issued + 1
  /\ op' = [op EXCEPT ![o] =
              [at |-> IF verb \in {"retry", "force"} THEN "list" ELSE "load", run |-> g,
               control |-> [n |-> issued + 1, verb |-> verb, attempt |-> 0]]]
  /\ overlap' = (overlap \/ \E q \in Operators : op[q] # Idle)
  /\ UNCHANGED <<fixed, runVars, blind, log, open, garbled, told, torn>>

\* retry: a recorded retry of the target is returned as it is; a forced or first
\* one gets the next attempt.
List(o) ==
  LET g == op[o].run
      c == op[o].control
      last == Max({0} \cup {r.attempt : r \in Retries(g)})
  IN  /\ op[o].at = "list" /\ ~Raises(g)
      /\ IF Retries(g) # {} /\ c.verb = "retry"
         THEN \E r \in Retries(g) : r.attempt = last /\ Return(o, g, r)
         ELSE /\ op' = [op EXCEPT ![o] = [at |-> "load", run |-> g,
                                          control |-> [c EXCEPT !.attempt = last + 1]]]
              /\ UNCHANGED told
      /\ UNCHANGED <<fixed, runVars, blind, log, open, garbled, issued, torn, overlap>>

\* FileControlStore.append reads the ids there are ...
Load(o) ==
  LET g == op[o].run
      same == {r \in Recorded(g) : Id(r) = Id(op[o].control)}
  IN  /\ op[o].at = "load" /\ ~Raises(g)
      /\ IF same # {}
         THEN \E r \in same : Return(o, g, r)
         ELSE op' = [op EXCEPT ![o].at = "write"] /\ UNCHANGED told
      /\ UNCHANGED <<fixed, runVars, blind, log, open, garbled, issued, torn, overlap>>

\* A read raises, or the log cannot be opened for the write: so does the verb.
Fail(o) ==
  /\ \/ op[o].at \in {"list", "load"} /\ Raises(op[o].run)
     \/ op[o].at = "write"
  /\ op' = [op EXCEPT ![o] = Idle]
  /\ UNCHANGED <<fixed, runVars, blind, log, open, garbled, issued, told, torn, overlap>>

\* What readers make of a control's line: splitlines breaks it at a separator.
Text(c) == IF c.n \in splits THEN Junk ELSE c

\* The lines after `text` is appended, to a fragment if the log ends in one.
Written(g, text) ==
  IF open[g] THEN [log[g] EXCEPT ![Len(log[g])] = Junk] ELSE Append(log[g], text)

\* ... and writes the line after whatever is there.
Write(o) ==
  LET g == op[o].run
  IN  /\ op[o].at = "write"
      /\ log' = [log EXCEPT ![g] = Written(g, Text(op[o].control))]
      /\ open' = [open EXCEPT ![g] = FALSE]
      /\ Return(o, g, op[o].control)
      /\ UNCHANGED <<fixed, runVars, blind, garbled, issued, torn, overlap>>

\* The process dies inside the write, or the disk is full: the line lacks its end,
\* or just its newline, or it ends inside a character.
CutShort(o) ==
  LET g == op[o].run
  IN  /\ op[o].at = "write" /\ Cardinality(torn) + Cardinality(blind) < MaxFaults
      /\ torn' = torn \cup {[run |-> g, control |-> op[o].control]}
      /\ \/ /\ \E text \in {Junk, Text(op[o].control)} :
                 log' = [log EXCEPT ![g] = Written(g, text)]
            /\ UNCHANGED garbled
         \/ /\ log' = [log EXCEPT ![g] = Written(g, Junk)]
            /\ garbled' = garbled \cup {g}
      /\ open' = [open EXCEPT ![g] = TRUE]
      /\ op' = [op EXCEPT ![o] = Idle]
      /\ UNCHANGED <<fixed, runVars, blind, issued, told, overlap>>

-----------------------------------------------------------------------------
(* The run. *)

Step(place) == at' = place /\ UNCHANGED <<gen, why, ending, cache, known>>

\* A check reads the log of the run.
Check == /\ ~Raises(gen)
         /\ missed' = IF gen \in blind THEN missed \cup {at} ELSE missed

\* The call, and with it the generation, comes to an end.
End(how) ==
  /\ at' = "over"
  /\ ending' = [ending EXCEPT ![gen] = how]
  /\ why' = Junk /\ known' = {} /\ missed' = {}
  /\ UNCHANGED gen

\* handle: only a stop keeps a call from being served; a replay serves the root's
\* entry if its arguments are those of the script, and aborts if they are not.
Arrive ==
  /\ at = "out" /\ Check
  /\ known' = told
  /\ at' = "start" /\ UNCHANGED <<gen, why, ending, cache>>
  /\ Desired(gen) # "stopped" /\ (gen = 1 \/ cache = "none")
  /\ UNCHANGED <<fixed, opVars, blind>>

ArriveStopped ==
  /\ at = "out" /\ ~Raises(gen) /\ Desired(gen) = "stopped"
  /\ End("stopped") /\ UNCHANGED <<cache, fixed, opVars, blind>>

Replay ==
  /\ at = "out" /\ ~Raises(gen) /\ Desired(gen) # "stopped" /\ gen > 1 /\ cache # "none"
  /\ End(IF cache = "plain" THEN "replayed" ELSE "drift")
  /\ UNCHANGED <<cache, fixed, opVars, blind>>

\* _check_start_control: a stop, a pause, a stop of this task; and a mutating
\* capability that is not replayable is not dispatched by a resumed run.
MayStart ==
  /\ at = "start" /\ Check
  /\ Desired(gen) = "running" /\ Lines(gen, {"task_stop"}) = {}
  /\ ~(capability = "unreplayable" /\ gen > 1)
  /\ Step("consult") /\ UNCHANGED <<fixed, opVars, blind>>

MayNotStart ==
  /\ at = "start" /\ ~Raises(gen)
  /\ CASE Desired(gen) # "running" -> End(Desired(gen))
       [] Desired(gen) = "running" /\ Lines(gen, {"task_stop"}) # {} -> End("denied")
       [] OTHER -> capability = "unreplayable" /\ gen > 1 /\ End("unsafe")
  /\ UNCHANGED <<cache, fixed, opVars, blind>>

\* _resolve_approval_decision: an approval id given beforehand needs no decision,
\* an unreplayable capability cannot get one.
Fast ==
  /\ at = "consult" /\ capability # "gated"
  /\ IF capability = "provisioned"
     THEN Step("dispatch") /\ UNCHANGED missed
     ELSE End("denied") /\ UNCHANGED cache
  /\ UNCHANGED <<fixed, opVars, blind>>

\* Without a decision the run is suspended; an approval or an edit lets the call
\* run, a rejection or an answer takes its place.
Consult ==
  LET d == Decision(gen)
  IN  /\ at = "consult" /\ capability = "gated" /\ \A g \in Chain(gen) : ~Raises(g)
      /\ CASE d = Junk -> End("pending") /\ UNCHANGED cache
           [] d.verb = "reject" -> End("denied") /\ UNCHANGED cache
           [] d.verb = "respond" ->
                /\ End("answered")
                /\ cache' = IF gen = 1 THEN "plain" ELSE cache
           [] OTHER -> /\ at' = "dispatch" /\ why' = d
                       /\ UNCHANGED <<gen, ending, cache, known, missed>>
      /\ UNCHANGED <<fixed, opVars, blind>>

\* handle answers a read that raises as it answers a runner that does.
CheckRaises ==
  /\ \/ at \in {"out", "start"} /\ Raises(gen)
     \/ at = "consult" /\ capability = "gated" /\ \E g \in Chain(gen) : Raises(g)
  /\ End("failed") /\ UNCHANGED <<cache, fixed, opVars, blind>>

\* Only a fresh run has a recorder.  The entry of an edited call has the
\* operator's arguments.
Entry ==
  CASE gen > 1 -> cache
    [] gen = 1 /\ why.verb = "edit" -> "edited"
    [] OTHER -> IF capability = "unreplayable" THEN "none" ELSE "plain"

\* The capability runs; it may raise.
Dispatch ==
  /\ at = "dispatch"
  /\ \/ End("executed") /\ cache' = Entry
     \/ End("failed") /\ UNCHANGED cache
  /\ UNCHANGED <<fixed, opVars, blind>>

\* The run's process dies, or the run is interrupted by something else.
Crash ==
  /\ at \notin {"out", "over"}
  /\ End("crashed") /\ UNCHANGED <<cache, fixed, opVars, blind>>

\* replay_from the latest generation.
Resume ==
  /\ at = "over" /\ gen < MaxGens
  /\ gen' = gen + 1 /\ at' = "out"
  /\ UNCHANGED <<fixed, opVars, blind, why, ending, cache, known, missed>>

\* External: which logs can be opened for reading changes.
Disk ==
  /\ \E logs \in SUBSET (1..gen) :
       blind' = logs /\ Cardinality(logs) + Cardinality(torn) <= MaxFaults
  /\ UNCHANGED <<fixed, opVars, runVars>>

-----------------------------------------------------------------------------

ControlInit ==
  /\ \E u \in Setups :
       verbs = u.verbs /\ capability = u.capability /\ splits = u.splits
  /\ log = [g \in Gens |-> << >>] /\ open = [g \in Gens |-> FALSE]
  /\ garbled = {} /\ blind = {}
  /\ op = [o \in Operators |-> Idle] /\ issued = 0 /\ told = {} /\ torn = {}
  /\ gen = 1 /\ at = "out" /\ why = Junk /\ cache = "none"
  /\ known = {} /\ missed = {}
  /\ ending = [g \in Gens |-> "none"]
  /\ overlap = FALSE

OperatorStep(o) ==
  \/ \E g \in Gens, verb \in Verbs : Issue(o, g, verb)
  \/ List(o) \/ Load(o) \/ Fail(o) \/ Write(o) \/ CutShort(o)

Run ==
  \/ Arrive \/ ArriveStopped \/ Replay \/ MayStart \/ MayNotStart
  \/ Fast \/ Consult \/ CheckRaises \/ Dispatch \/ Crash \/ Resume

ControlNext == (\E o \in Operators : OperatorStep(o)) \/ Run \/ Disk

ControlSpec == ControlInit /\ [][ControlNext]_controlVars

-----------------------------------------------------------------------------
(* Properties. *)

ControlTypeOK ==
  /\ [verbs |-> verbs, splits |-> splits, capability |-> capability] \in Setups
  /\ {garbled, blind} \subseteq SUBSET Gens /\ missed \subseteq {"out", "start"}
  /\ log \in [Gens -> Seq(Control \cup {Junk})] /\ open \in [Gens -> BOOLEAN]
  /\ op \in [Operators -> [at : {"idle", "list", "load", "write"}, run : Gens,
                           control : Control \cup {Junk}]]
  /\ issued \in 0..MaxIssues
  /\ {told, torn} \subseteq SUBSET [run : Gens, control : Control] /\ known \subseteq told
  /\ gen \in Gens /\ at \in {"out", "start", "consult", "dispatch", "over"}
  /\ why \in Control \cup {Junk} /\ cache \in {"none", "plain", "edited"}
  /\ ending \in [Gens -> {"none", "stopped", "paused", "denied", "unsafe", "pending",
                          "answered", "executed", "failed", "replayed", "drift",
                          "crashed"}]
  /\ overlap \in BOOLEAN

\* The controls of run g among those of set S.
Of(S, g) == {t.control : t \in {u \in S : u.run = g}}
Ids(C) == {Id(c) : c \in C}

\* A write cut short hides, besides its own control, at most the one appended
\* next, unless it was cut inside a character: then every read of the log raises.
\* Every other acknowledged control without a line separator is read for ever,
\* whenever the log can be opened.
OneLossPerCut ==
  \A g \in Gens \ blind :
    \/ g \in garbled /\ Of(torn, g) # {}
    \/ LET written == {c \in Of(told, g) : c.n \notin splits}
       IN  Cardinality(Ids(written) \ Ids(Recorded(g) \cup Of(torn, g)))
             <= Cardinality(Of(torn, g))

\* Acknowledged controls are read for ever ("one torn write never hides the
\* rest of a run's audit trail").
AuditTrailWhole ==
  \A g \in Gens \ blind : ~Raises(g) /\ Ids(Of(told, g)) \subseteq Ids(Recorded(g))

\* A control is one line of the log ("an append-only JSONL log").
LinePerControl ==
  \A g \in Gens \ blind : torn = {} => Ids(Of(told, g)) \subseteq Ids(Recorded(g))

\* Retries of one target, asked for by operators in any order at once, make one
\* line of attempts 1, 2, ... of which all but the first were forced.
RetryNotForked ==
  \A g \in Gens \ blind :
    LET attempts == {c.attempt : c \in Retries(g)}
    IN  /\ Cardinality(Retries(g)) = Cardinality(attempts)
        /\ torn = {} => attempts = 1..Cardinality(attempts)
        /\ \A c \in Retries(g) : c.attempt > 1 => c.verb = "force"

\* What an operator is told of a retry is what the log says of it ("a retried
\* record is deduped across a restart").
RetryToldIsRecorded ==
  \A g \in Gens \ blind, c \in Control :
    (IsRetry(c) /\ c \in Of(told, g) /\ torn = {}) => c \in Recorded(g)

\* No call is dispatched that arrived after a stop of its run was acknowledged,
\* whatever pauses and resumes are recorded before, after or at the same time;
\* unless both checks of the call could not open the log, or the line of the stop
\* had a separator in it or was joined to one that was cut short.
NoWorkAfterStop ==
  at = "dispatch" =>
    \A t \in known : t.run = gen /\ t.control.verb = "stop" =>
      \/ {"out", "start"} \subseteq missed
      \/ t.control.n \in splits
      \/ Of(torn, gen) # {} /\ \A i \in Legible(gen) : log[gen][i] # t.control

\* The decision a call runs under is the last one its operators, one at a time,
\* were told of before the call arrived, among those recorded for the same run,
\* but for lines with a separator in them; which logs can be opened does not matter.
DecisionGoverns ==
  (at = "dispatch" /\ why # Junk /\ ~overlap /\ torn = {}) =>
    \A t \in known : /\ t.control.verb \in Decisions /\ why \in Of(told, t.run)
                      /\ t.control.n \notin splits
                      => t.control.n <= why.n

\* The same for decisions recorded for any generation of the run ("the *last* one
\* recorded is the one that governs").
LastDecisionGoverns ==
  (at = "dispatch" /\ why # Junk /\ ~overlap /\ torn = {}) =>
    \A t \in known : (t.control.verb \in Decisions /\ t.run \in Chain(gen))
                       => t.control.n <= why.n

\* A run whose call was carried out can be replayed.
ReplaysWhatRan == \A g \in Gens : ending[g] # "drift"
=============================================================================
