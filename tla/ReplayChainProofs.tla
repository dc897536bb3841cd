--------------------------- MODULE ReplayChainProofs ---------------------------
(***************************************************************************)
(* Theorems about ReplayChain, for every set of chains: what the script of   *)
(* the root run is told is on disk, an entry answers only the call it was    *)
(* recorded for, and where ids are stable the chain keeps to StepMemo.       *)
(***************************************************************************)
EXTENDS ReplayChain, FiniteSetTheorems, TLAPS

-----------------------------------------------------------------------------
(* The id that a step gets where ids are stable: its place in the order of    *)
(* branches.                                                                 *)

Precedes(s, t) == s[1] < t[1] \/ (s[1] = t[1] /\ s[2] < t[2])
Before(s) == {t \in Steps : Precedes(t, s)}
IdOf(s) == Cardinality(Before(s)) + 1

Active(b) == stage[b] # "idle"
Driving == up /\ ending # "raised"
Sent == {s \in Steps : s[2] < at[s[1]] \/ (s[2] = at[s[1]] /\ Active(s[1]))}

-----------------------------------------------------------------------------
(* The inductive invariant. *)

\* A call at work is one of a process that lives, and a step of the script.
Typed ==
  /\ TypeOK /\ chain \in Chains /\ (up => run > 0)
  /\ \A b \in Branches : Active(b) => up /\ at[b] <= Len(Script[b])

\* The entries on disk and those that wait for the end of the run.
Kept == cache \cup buffer

\* Histories do not run ahead, only pure calls are recorded, and only by run 1.
Past ==
  /\ run = 0 => cache = {} /\ told = {} /\ effects = {}
  /\ run # 1 => buffer = {}
  /\ \A t \in told : t.run <= run
  /\ \A d \in effects : d.run <= run /\ KindOf(d.step) # "card"
  /\ \A e \in Kept : e.call = CallOf(e.step) /\ e.call.kind = "pure"

\* A fingerprint is on disk, or its line was refused or glued.
Noticed(w) == (\E e \in prompts : e.what = w) \/ [id |-> 0, what |-> w] \in unsaved

\* An answer on its way to the script of run 1 is on disk if it is a success of a
\* recorded call whose line was not refused; one that is waited for is not.
Persisted ==
  /\ \A b \in Branches : stage[b] = "waiting" => Current(b).kind = "card"
  /\ Recording => \A w \in written : Noticed(w)
  /\ Recording => \A m \in memo : Noticed(m.what)
  /\ \A b \in Branches : Recording /\ stage[b] = "reply" /\ answer[b].ok =>
       /\ Current(b).kind = "pure" =>
            Entry(b, answer[b]) \in cache \/ Line(Step(b), asked[b]) \in unsaved
       /\ Current(b).kind = "prompt" => Noticed(Current(b).what)

\* What has been asked for in run 1 and not answered has no entry, by id or step.
Fresh ==
  /\ \A b \in Branches : Active(b) => asked[b] \in 1..nextId
  /\ \A b, c \in Branches : Active(b) /\ Active(c) /\ asked[b] = asked[c] => b = c
  /\ Recording => \A e \in Kept :
       /\ e.id <= nextId
       /\ \A b \in Branches : stage[b] \in {"sent", "calling"} => e.id # asked[b]
       /\ up => \/ e.step[2] < at[e.step[1]]
                \/ /\ e.step[2] = at[e.step[1]]
                   /\ \/ stage[e.step[1]] = "reply"
                      \/ stage[e.step[1]] = "idle" /\ ending = "raised"

\* No two entries are of one id, one step or one fingerprint.
Unique ==
  /\ \A e, f \in Kept : e.id = f.id \/ e.step = f.step => e = f
  /\ \A e, f \in prompts : e.what = f.what => e = f

\* In a resumed run, a call that is let through has no entry under its id, and a
\* success is the answer of the entry there.
Served ==
  \A b \in Branches, e \in cache :
    run > 1 /\ Active(b) /\ e.id = asked[b] /\ Current(b).kind = "pure" =>
      /\ stage[b] # "calling"
      /\ stage[b] = "reply" /\ answer[b].ok =>
           e.call = Current(b) /\ e.answer = answer[b]

\* Branches start in order, one after the other if they run one at a time, and the
\* guest has counted the steps it has sent.
Ordered ==
  Driving =>
    /\ nextId = Cardinality(Sent)
    /\ \A b, c \in Branches : Started(b) /\ c < b =>
         Started(c) /\ (chain.parallel = 1 => Finished(c))

\* Where ids are stable, they are the places of the steps.
Placed ==
  StableIds =>
    /\ \A b \in Branches : Active(b) => asked[b] = IdOf(Step(b))
    /\ \A e \in Kept : e.id = IdOf(e.step)

\* An answer on its way to the script agrees with the entry of its step.
Agrees ==
  Recording \/ StableIds =>
    \A b \in Branches, e \in cache :
      stage[b] = "reply" /\ e.step = Step(b) => e.answer = answer[b]

-----------------------------------------------------------------------------
(* Scripts, steps and types. *)

LEMMA ScriptType ==
  ASSUME chain \in Chains
  PROVE  /\ Branches \subseteq Nat \ {0}
         /\ \A b \in Branches : Script[b] \in Seq(Call) /\ Len(Script[b]) \in Nat \ {0}
         /\ \A s \in Steps : /\ s[1] \in Branches /\ s[2] \in 1..Len(Script[s[1]])
                            /\ s = <<s[1], s[2]>> /\ CallOf(s) \in Call
         /\ \A b \in Branches : \A k \in 1..Len(Script[b]) : <<b, k>> \in Steps
         /\ chain.parallel \in Nat \ {0} /\ chain.runs \in Nat \ {0}
<1>1. Script \in Seq(Seq(Call)) /\ \A b \in DOMAIN Script : Script[b] # << >>
  BY ReplayAssumption DEF ReplayAssumption, Script
<1>2. Branches = 1..Len(Script)
  BY <1>1 DEF Branches
<1>3. ASSUME NEW b \in Branches
      PROVE  Script[b] \in Seq(Call) /\ Len(Script[b]) \in Nat \ {0}
  <2>1. Script[b] \in Seq(Call) /\ Script[b] # << >>
    BY <1>1, <1>2 DEF Branches
  <2> QED
    BY <2>1
<1>4. \A s : s \in Steps <=> \E b \in Branches : \E k \in 1..Len(Script[b]) : s = <<b, k>>
  BY <1>3 DEF Steps, StepsOf, Branches
<1>5. ASSUME NEW s \in Steps
      PROVE  /\ s[1] \in Branches /\ s[2] \in 1..Len(Script[s[1]])
             /\ s = <<s[1], s[2]>> /\ CallOf(s) \in Call
  <2>1. PICK b \in Branches : \E k \in 1..Len(Script[b]) : s = <<b, k>>
    BY <1>4
  <2>2. PICK k \in 1..Len(Script[b]) : s = <<b, k>>
    BY <2>1
  <2>3. Script[b][k] \in Call
    BY <1>3
  <2> QED
    BY <2>2, <2>3 DEF CallOf
<1> QED
  BY <1>2, <1>3, <1>4, <1>5, ReplayAssumption DEF ReplayAssumption

LEMMA AtStep ==
  ASSUME Typed, NEW b \in Branches, Active(b)
  PROVE  /\ up /\ Step(b) \in Steps /\ Current(b) \in Call
         /\ Step(b)[1] = b /\ Step(b)[2] = at[b] /\ Current(b) = CallOf(Step(b))
<1>1. at[b] \in 1..Len(Script[b]) /\ up
  BY ScriptType DEF Typed, TypeOK
<1>2. Step(b) \in Steps
  BY <1>1, ScriptType DEF Step, Typed
<1> QED
  BY <1>1, <1>2, ScriptType DEF Typed, Step, Current

LEMMA AnswerType ==
  /\ Failure \in Answer
  /\ SomeValue \in Values
  /\ \A v \in Values, ok \in BOOLEAN : [ok |-> ok, v |-> v] \in Answer
<1>1. SomeValue \in Values
  BY ReplayAssumption DEF ReplayAssumption, SomeValue
<1> QED
  BY <1>1 DEF Failure, Answer

\* No step changes the script, so neither its steps.
LEMMA ChainKept ==
  ASSUME [Next]_vars
  PROVE  /\ chain' = chain /\ Script' = Script /\ Branches' = Branches
         /\ Steps' = Steps /\ Runs' = Runs /\ Entered' = Entered
         /\ StableIds' = StableIds
<1>1. chain' = chain
  BY DEF Next, FirstRun, Resume, Begin, Send, Handle, PromptHit, ReplayHit, Drift,
     Dispatch, CreateOrReattach, AwaitCard, Succeeds, Fails, Deliver, Finish, Crash,
     CrashInWrite, CrashInFlush, Die, ResolveCard, vars
<1> QED
  BY <1>1 DEF Script, Branches, Steps, Runs, Entered, StableIds

\* Only the begin of a run changes the number of the run.
LEMMA RunKept ==
  ASSUME [Next]_vars
  PROVE  \/ run' = run /\ (up' => up)
         \/ run' = run + 1 /\ \E from \in 0..run : Begin(from)
<1> SUFFICES (run' = run /\ (up' => up)) \/ \E from \in 0..run : Begin(from)
  BY DEF Begin
<1>1. ASSUME FirstRun \/ \E r \in Runs : Resume(r)
      PROVE  \E from \in 0..run : Begin(from)
  BY <1>1 DEF FirstRun, Resume
<1>2. ASSUME NEW b \in Branches, Send(b) \/ Handle(b) \/ Deliver(b)
      PROVE  run' = run /\ up' = up
  BY <1>2 DEF Send, Handle, PromptHit, ReplayHit, Drift, Dispatch,
     CreateOrReattach, AwaitCard, Succeeds, Fails, Deliver
<1>3. CASE Finish \/ Crash \/ CrashInWrite \/ CrashInFlush \/ \E c \in cards : ResolveCard(c)
  BY <1>3 DEF Finish, Crash, CrashInWrite, CrashInFlush, Over, CrashInFlush, Over, Die, ResolveCard
<1>4. CASE UNCHANGED vars
  BY <1>4 DEF vars
<1> QED
  BY <1>1, <1>2, <1>3, <1>4 DEF Next

\* Writing a status over another leaves a sequence of them.
LEMMA StatusKept ==
  ASSUME NEW S, NEW q \in Seq(S), NEW i, NEW x \in S
  PROVE  [q EXCEPT ![i] = x] \in Seq(S)
<1> DEFINE w == [q EXCEPT ![i] = x]
<1>1. /\ q \in [1..Len(q) -> S] /\ Len(q) \in Nat
  OBVIOUS
<1>2. w \in [1..Len(q) -> S]
  BY <1>1
<1>3. \A n \in Nat : \A g \in [1..n -> S] : g \in Seq(S)
  OBVIOUS
<1> QED
  BY <1>1, <1>2, <1>3

\* What _persist_success leaves in the cache.
LEMMA Saves ==
  ASSUME NEW b, NEW v, Succeeds(b, v)
  PROVE  LET mine == [what |-> Current(b).what, v |-> v]
             entry == Entry(b, [ok |-> TRUE, v |-> v])
             line == Line(Step(b), asked[b])
         IN  /\ \/ cache' = cache
                \/ WritesCall(b) /\ cache' = cache \cup {entry}
             /\ \/ prompts' = prompts
                \/ /\ WritesPrompt(b) /\ prompts' = prompts \cup {mine}
                   /\ \A e \in prompts : e.what # mine.what
             /\ end' \in {end, "line", "entry", "corrupt"}
             /\ written' = written \/ (WritesPrompt(b) /\ written' = written \cup {mine.what})
             /\ unsaved' \in {unsaved, unsaved \cup {line}}
             /\ WritesCall(b) => cache' = cache \cup {entry} \/ line \in unsaved'
             /\ WritesPrompt(b) => prompts' = prompts \cup {mine} \/ line \in unsaved'
             /\ ~Writes(b) => UNCHANGED <<cache, prompts, end, written, unsaved>>
<1>1. CASE ~Writes(b)
  BY <1>1 DEF Succeeds, Writes
<1>2. CASE Writes(b)
  <2>1. SaveLine(b, v)
    BY <1>2 DEF Succeeds
  <2>2. PICK saved \in BOOLEAN : \E o \in IF saved THEN Written(b) ELSE Refused(b) :
          /\ end' = o.end
          /\ cache' = IF o.there /\ WritesCall(b)
                      THEN cache \cup {Entry(b, [ok |-> TRUE, v |-> v])} ELSE cache
          /\ prompts' = IF o.there /\ WritesPrompt(b)
                        THEN prompts \cup {[what |-> Current(b).what, v |-> v]} ELSE prompts
          /\ written' = IF saved /\ WritesPrompt(b) THEN written \cup {Current(b).what}
                        ELSE written
          /\ unsaved' = IF saved /\ o.there THEN unsaved
                        ELSE unsaved \cup {Line(Step(b), asked[b])}
    BY <2>1 DEF SaveLine
  <2>3. PICK o \in IF saved THEN Written(b) ELSE Refused(b) :
          /\ end' = o.end
          /\ cache' = IF o.there /\ WritesCall(b)
                      THEN cache \cup {Entry(b, [ok |-> TRUE, v |-> v])} ELSE cache
          /\ prompts' = IF o.there /\ WritesPrompt(b)
                        THEN prompts \cup {[what |-> Current(b).what, v |-> v]} ELSE prompts
          /\ written' = IF saved /\ WritesPrompt(b) THEN written \cup {Current(b).what}
                        ELSE written
          /\ unsaved' = IF saved /\ o.there THEN unsaved
                        ELSE unsaved \cup {Line(Step(b), asked[b])}
    BY <2>2
  <2>4. /\ o.there => Fits(b)
        /\ o.end \in {end, "line", "entry", "corrupt"}
    <3>1. CASE saved
      BY <2>3, <3>1 DEF Written, Outcome
    <3>2. CASE ~saved
      <4>1. o \in Refused(b)
        BY <2>3, <3>2
      <4>2. \/ o \in {Outcome(FALSE, end), Outcome(FALSE, "corrupt")}
            \/ Fits(b) /\ o \in {Outcome(TRUE, "line"), Outcome(TRUE, "entry")}
        BY <4>1 DEF Refused
      <4> QED BY <4>2 DEF Outcome
    <3> QED BY <3>1, <3>2
  <2>5. o.there /\ WritesPrompt(b) => \A e \in prompts : e.what # Current(b).what
    BY <2>4 DEF Fits, WritesPrompt
  <2> QED
    BY <1>2, <2>3, <2>4, <2>5
<1> QED
  BY <1>1, <1>2

\* What a flush of the buffered failures leaves, whole or not.
LEMMA FlushLeaves ==
  ASSUME FlushFailures \/ FlushStops
  PROVE  /\ cache \subseteq cache' /\ cache' \subseteq cache \cup buffer
         /\ end' \in {end, "corrupt"}
BY DEF FlushFailures, FlushStops

LEMMA Typing ==
  ASSUME Typed, [Next]_vars
  PROVE  Typed'
<1> USE DEF disk, board, guest, broker, history
<1>0. /\ chain' = chain /\ Script' = Script /\ Branches' = Branches
      /\ Steps' = Steps /\ Runs' = Runs /\ Entered' = Entered
  BY ChainKept
<1>1. /\ chain \in Chains /\ TypeOK
      /\ \A b \in Branches : Active(b) => up /\ at[b] <= Len(Script[b])
      /\ \A b \in Branches : Active(b) => Step(b) \in Steps /\ Current(b) \in Call
      /\ up => run > 0
  BY AtStep DEF Typed
<1>2. chain.runs \in Nat \ {0} /\ \A b \in Branches : Len(Script[b]) \in Nat \ {0}
  BY <1>1, ScriptType
<1>u. up' => run' > 0
  <2>1. CASE run' = run /\ (up' => up)
    BY <1>1, <2>1
  <2>2. CASE run' = run + 1
    BY <1>1, <2>2 DEF TypeOK
  <2> QED
    BY <2>1, <2>2, RunKept
<1> USE AnswerType
<1>3. ASSUME NEW from \in 0..run, Begin(from)
      PROVE  Typed'
  <2>1. TypeOK'
    BY <1>0, <1>1, <1>2, <1>3 DEF Begin, TypeOK, Runs
  <2>2. \A b \in Branches : ~Active(b)'
    BY <1>0, <1>3 DEF Begin, Active
  <2> QED
    BY <1>0, <1>1, <1>u, <2>1, <2>2 DEF Typed
<1>4. ASSUME NEW b \in Branches, Send(b)
      PROVE  Typed'
  <2>1. TypeOK'
    BY <1>0, <1>1, <1>4 DEF Send, TypeOK
  <2>2. \A c \in Branches : Active(c)' => up' /\ at'[c] <= Len(Script'[c])
    BY <1>0, <1>1, <1>2, <1>4 DEF Send, TypeOK, Active, Finished
  <2> QED
    BY <1>0, <1>1, <1>u, <2>1, <2>2 DEF Typed
<1>5. ASSUME NEW b \in Branches, Handle(b)
      PROVE  Typed'
  <2>0. Active(b)
    BY <1>5 DEF Handle, PromptHit, ReplayHit, Drift, Dispatch, Misses,
       CreateOrReattach, AwaitCard, Succeeds, Fails, Active
  <2>1. Step(b) \in Steps /\ Current(b) \in Call /\ run \in Runs /\ run > 0 /\ up
    BY <1>1, <1>2, <2>0 DEF TypeOK, Runs, Typed
  <2>2. TypeOK'
    <3>1. CASE PromptHit(b)
      <4>1. PICK e \in PromptHits(b) : Reply(b, [ok |-> TRUE, v |-> e.v])
        BY <3>1 DEF PromptHit
      <4>2. e \in memo \/ e \in prompts
        BY DEF PromptHits
      <4>3. [ok |-> TRUE, v |-> e.v] \in Answer
        BY <1>1, <4>2 DEF TypeOK
      <4> QED
        BY <1>0, <1>1, <3>1, <4>1, <4>3 DEF PromptHit, Reply, TypeOK
    <3>2. CASE ReplayHit(b)
      BY <1>0, <1>1, <3>2 DEF ReplayHit, Entries, Entered, Reply, TypeOK
    <3>3. CASE Drift(b)
      BY <1>0, <1>1, <3>3 DEF Drift, Reply, CutShort, TypeOK
    <3>4. CASE Dispatch(b)
      BY <1>0, <1>1, <2>1, <3>4 DEF Dispatch, Misses, TypeOK
    <3>5. CASE CreateOrReattach(b)
      BY <1>0, <1>1, <2>1, <3>5 DEF CreateOrReattach, Misses, TypeOK
    <3>6. CASE AwaitCard(b)
      BY <1>0, <1>1, <3>6 DEF AwaitCard, Reply, CutShort, TypeOK
    <3>7. ASSUME NEW v \in Values, Succeeds(b, v)
          PROVE  TypeOK'
      <4>1. Entry(b, [ok |-> TRUE, v |-> v]) \in Entered
        BY <1>1, <2>1 DEF Entry, Entered, TypeOK
      <4>2. [what |-> Current(b).what, v |-> v] \in [what : STRING, v : Values]
        BY <2>1 DEF Call
      <4>3. Line(Step(b), asked[b]) \in [id : Nat, what : STRING] /\ Current(b).what \in STRING
        BY <1>1, <2>1 DEF Line, Call, TypeOK, Current
      <4>4. /\ cache' \subseteq Entered' /\ prompts' \subseteq [what : STRING, v : Values]
            /\ unsaved' \subseteq [id : Nat, what : STRING] /\ written' \subseteq STRING
            /\ end' \in {"line", "entry", "corrupt"}
        <5>1. /\ cache' = cache \/ cache' = cache \cup {Entry(b, [ok |-> TRUE, v |-> v])}
              /\ prompts' = prompts \/ prompts' = prompts \cup {[what |-> Current(b).what, v |-> v]}
              /\ end' \in {end, "line", "entry", "corrupt"}
              /\ written' = written \/ written' = written \cup {Current(b).what}
              /\ unsaved' \in {unsaved, unsaved \cup {Line(Step(b), asked[b])}}
          BY <3>7, Saves
        <5>2. cache \subseteq Entered /\ prompts \subseteq [what : STRING, v : Values]
              /\ unsaved \subseteq [id : Nat, what : STRING] /\ written \subseteq STRING
              /\ end \in {"line", "entry", "corrupt"}
          BY <1>1 DEF TypeOK
        <5> QED
          BY <1>0, <4>1, <4>2, <4>3, <5>1, <5>2
      <4>5. /\ UNCHANGED <<run, up, status, source, board, guest, buffer, ending, told, effects,
                            attached>>
            /\ Reply(b, [ok |-> TRUE, v |-> v])
            /\ memo' \subseteq memo \cup {[what |-> Current(b).what, v |-> v]}
        BY <3>7 DEF Succeeds
      <4> QED
        BY <1>0, <1>1, <4>2, <4>4, <4>5 DEF Reply, TypeOK
    <3>8. CASE Fails(b)
      <4>1. Entry(b, Failure) \in Entered
        BY <1>1, <2>1 DEF Entry, Entered, TypeOK
      <4> QED
        BY <1>0, <1>1, <3>8, <4>1 DEF Fails, Reply, TypeOK
    <3> QED
      BY <1>5, <3>1, <3>2, <3>3, <3>4, <3>5, <3>6, <3>7, <3>8 DEF Handle
  <2>3. /\ up' = up /\ at' = at
        /\ \A c \in Branches : Active(c)' => Active(c)
    BY <1>1, <1>5, <2>0 DEF Handle, PromptHit, ReplayHit, Drift, Dispatch, Misses,
       CreateOrReattach, AwaitCard, Succeeds, Fails, Active, Reply, TypeOK
  <2> QED
    BY <1>0, <1>1, <1>u, <2>2, <2>3 DEF Typed
<1>6. ASSUME NEW b \in Branches, Deliver(b)
      PROVE  Typed'
  <2>1. Step(b) \in Steps /\ run \in Runs /\ Active(b)
    BY <1>1, <1>2, <1>6 DEF Deliver, TypeOK, Runs, Active, Typed
  <2>2. TypeOK'
    <3>1. /\ at' \in [Branches -> Nat \ {0}]
          /\ ending' \in {"no", "drift", "suspended", "raised"}
      BY <1>1, <1>6 DEF Deliver, TypeOK
    <3>2. [run |-> run, step |-> Step(b), id |-> asked[b], answer |-> answer[b]] \in
             [run : Runs, step : Steps, id : Nat, answer : Answer]
      BY <1>1, <2>1 DEF TypeOK
    <3>3. told' \subseteq [run : Runs, step : Steps, id : Nat, answer : Answer]
      BY <1>1, <1>6, <3>2 DEF Deliver, TypeOK
    <3>4. stage' \in [Branches -> {"idle", "sent", "calling", "waiting", "reply"}]
      BY <1>1, <1>6 DEF Deliver, TypeOK
    <3> QED
      BY <1>0, <1>1, <1>6, <3>1, <3>3, <3>4 DEF Deliver, TypeOK
  <2>3. \A c \in Branches : Active(c)' => Active(c) /\ at'[c] = at[c]
    BY <1>1, <1>6 DEF Deliver, Active, TypeOK
  <2> QED
    BY <1>0, <1>1, <1>6, <2>2, <2>3 DEF Typed, Deliver
<1>7. CASE Finish
  <2>1. PICK final \in Finals : status' = [status EXCEPT ![run] = final]
    BY <1>7 DEF Finish
  <2>2. final \in {"succeeded", "failed", "suspended"}
    BY <2>1 DEF Finals
  <2>3. TypeOK'
    <3>1. status' \in Seq({"running", "succeeded", "failed", "suspended"})
      BY <1>1, <2>1, <2>2, StatusKept DEF TypeOK
    <3>2. cache' \subseteq Entered /\ end' \in {"line", "entry", "corrupt"}
      BY <1>1, <1>7, FlushLeaves DEF Finish, TypeOK
    <3> QED
      BY <1>0, <1>1, <1>7, <3>1, <3>2 DEF Finish, TypeOK
  <2>4. \A c \in Branches : ~Active(c)'
    BY <1>0, <1>7 DEF Finish, Active
  <2> QED
    BY <1>0, <1>1, <1>u, <2>3, <2>4 DEF Typed
<1>8. CASE Crash \/ CrashInWrite \/ CrashInFlush
  <2>1. TypeOK'
    <3>1. CASE Crash \/ CrashInWrite
      BY <1>0, <1>1, <3>1 DEF Crash, CrashInWrite, Die, TypeOK
    <3>2. CASE CrashInFlush
      <4>1. cache' \subseteq Entered /\ end' \in {"line", "entry", "corrupt"}
        BY <1>1, <3>2, FlushLeaves DEF CrashInFlush, TypeOK
      <4> QED
        BY <1>0, <1>1, <3>2, <4>1 DEF CrashInFlush, Die, TypeOK
    <3> QED
      BY <1>8, <3>1, <3>2
  <2>2. \A c \in Branches : ~Active(c)'
    BY <1>0, <1>8 DEF Crash, CrashInWrite, CrashInFlush, Die, Active
  <2> QED
    BY <1>0, <1>1, <1>u, <2>1, <2>2 DEF Typed
<1>9. ASSUME NEW c \in cards, ResolveCard(c)
      PROVE  Typed'
  <2>1. TypeOK'
    BY <1>0, <1>1, <1>9 DEF ResolveCard, TypeOK
  <2> QED
    BY <1>0, <1>1, <1>9, <2>1 DEF ResolveCard, Typed, Active
<1>10. CASE UNCHANGED vars
  BY <1>0, <1>1, <1>10 DEF vars, Typed, TypeOK, Active
<1> QED
  <2>1. ASSUME FirstRun \/ \E r \in Runs : Resume(r)
        PROVE  \E from \in 0..run : Begin(from)
    BY <1>1, <2>1 DEF FirstRun, Resume, TypeOK
  <2> QED
    BY <1>3, <1>4, <1>5, <1>6, <1>7, <1>8, <1>9, <1>10, <2>1 DEF Next

-----------------------------------------------------------------------------
(* What a step leaves alone. *)

\* A handler of the broker works on one call that the guest has sent.
LEMMA HandleFrame ==
  ASSUME Typed, NEW b \in Branches, Handle(b)
  PROVE  /\ Active(b) /\ up /\ run > 0
         /\ UNCHANGED <<chain, run, up, nextId, at, asked, told>>
         /\ stage'[b] # "idle" /\ stage[b] # "reply"
         /\ \A c \in Branches \ {b} : stage'[c] = stage[c] /\ answer'[c] = answer[c]
<1>1. /\ stage[b] # "idle" /\ stage[b] # "reply" /\ Active(b)
      /\ UNCHANGED <<chain, run, up, nextId, at, asked, told>>
  BY DEF Handle, PromptHit, ReplayHit, Drift, Dispatch, Misses, CreateOrReattach,
     AwaitCard, Succeeds, Fails, Active, guest, history
<1>2. /\ stage'[b] # "idle"
      /\ \A c \in Branches \ {b} : stage'[c] = stage[c] /\ answer'[c] = answer[c]
  BY DEF Typed, TypeOK, Handle, PromptHit, ReplayHit, Drift, Dispatch,
     CreateOrReattach, AwaitCard, Succeeds, Fails, Reply
<1> QED
  BY <1>1, <1>2, AtStep DEF Typed

\* Where a branch stands changes only when an answer is delivered to it.
LEMMA StepKept ==
  ASSUME chain' = chain, NEW b, at'[b] = at[b]
  PROVE  Step(b)' = Step(b) /\ Current(b)' = Current(b)
BY DEF Step, Current, CallOf, Script

LEMMA CallKept ==
  ASSUME chain' = chain
  PROVE  \A s : CallOf(s)' = CallOf(s) /\ KindOf(s)' = KindOf(s)
BY DEF CallOf, Script, KindOf

\* Entries and prompts are only added, by the successes and failures of run 1.
LEMMA StoreKept ==
  ASSUME Typed, Past, [Next]_vars
  PROVE  \/ /\ UNCHANGED <<cache, prompts>>
            /\ buffer' \in {buffer, {}}
         \/ /\ run = 1 /\ (Finish \/ CrashInFlush)
            /\ cache \subseteq cache' /\ cache' \subseteq cache \cup buffer
            /\ UNCHANGED <<prompts, buffer>>
         \/ \E b \in Branches, v \in Values :
              run = 1 /\ Succeeds(b, v) /\ UNCHANGED buffer
         \/ \E b \in Branches :
              /\ run = 1 /\ Fails(b) /\ UNCHANGED <<cache, prompts>>
              /\ Current(b).kind = "pure" /\ buffer' = buffer \cup {Entry(b, Failure)}
<1> USE DEF disk, broker
<1>1. ASSUME NEW b \in Branches, NEW v \in Values, Succeeds(b, v)
      PROVE  run = 1 \/ UNCHANGED <<cache, prompts, buffer>>
  BY <1>1 DEF Succeeds, Writes, WritesCall, WritesPrompt, Recording
<1>2. ASSUME NEW b \in Branches, Fails(b)
      PROVE  /\ UNCHANGED <<cache, prompts>>
             /\ \/ UNCHANGED buffer
                \/ /\ run = 1 /\ Current(b).kind = "pure"
                   /\ buffer' = buffer \cup {Entry(b, Failure)}
  BY <1>2 DEF Fails, Recording
<1>3. CASE Finish \/ CrashInFlush
  <2>1. /\ UNCHANGED <<prompts, buffer>>
        /\ cache \subseteq cache' /\ cache' \subseteq cache \cup buffer
    BY <1>3, FlushLeaves DEF Finish, CrashInFlush
  <2> QED
    BY <1>3, <2>1 DEF Past
<1>4. ASSUME NEW b \in Branches,
             \/ Send(b) \/ Deliver(b) \/ PromptHit(b) \/ ReplayHit(b) \/ Drift(b)
             \/ Dispatch(b) \/ CreateOrReattach(b) \/ AwaitCard(b)
      PROVE  UNCHANGED <<cache, prompts, buffer>>
  BY <1>4 DEF Send, Deliver, PromptHit, ReplayHit, Drift, Dispatch,
     CreateOrReattach, AwaitCard
<1>5. CASE Crash \/ CrashInWrite \/ (\E c \in cards : ResolveCard(c)) \/ UNCHANGED vars
  BY <1>5 DEF Crash, CrashInWrite, ResolveCard, vars
<1>6. CASE \E from \in 0..run : Begin(from)
  BY <1>6 DEF Begin
<1>7. ASSUME FirstRun \/ \E r \in Runs : Resume(r)
      PROVE  \E from \in 0..run : Begin(from)
  BY <1>7 DEF FirstRun, Resume
<1>8. ASSUME NEW b \in Branches, Handle(b), UNCHANGED <<cache, prompts, buffer>>
      PROVE  UNCHANGED <<cache, prompts>> /\ buffer' \in {buffer, {}}
  BY <1>8
<1>9. ASSUME NEW b \in Branches, NEW v \in Values, Succeeds(b, v)
      PROVE  UNCHANGED buffer
  BY <1>9 DEF Succeeds
<1> QED
  BY <1>1, <1>2, <1>3, <1>4, <1>5, <1>6, <1>7, <1>9 DEF Next, Handle

\* Only the line of a success is counted as unsaved, for good.
LEMMA UnsavedKept ==
  ASSUME [Next]_vars
  PROVE  unsaved \subseteq unsaved'
<1> USE DEF history
<1>1. ASSUME NEW b \in Branches, NEW v \in Values, Succeeds(b, v)
      PROVE  unsaved \subseteq unsaved'
  BY <1>1, Saves
<1>2. ASSUME NEW b \in Branches,
             \/ Send(b) \/ Deliver(b) \/ PromptHit(b) \/ ReplayHit(b) \/ Drift(b)
             \/ Dispatch(b) \/ CreateOrReattach(b) \/ AwaitCard(b) \/ Fails(b)
      PROVE  unsaved' = unsaved
  BY <1>2 DEF Send, Deliver, PromptHit, ReplayHit, Drift, Dispatch,
     CreateOrReattach, AwaitCard, Fails
<1>3. CASE Finish \/ Crash \/ CrashInWrite \/ CrashInFlush \/ (\E c \in cards : ResolveCard(c))
           \/ UNCHANGED vars
  BY <1>3 DEF Finish, Crash, CrashInWrite, CrashInFlush, ResolveCard, vars
<1>4. ASSUME FirstRun \/ \E r \in Runs : Resume(r)
      PROVE  unsaved' = unsaved
  BY <1>4 DEF FirstRun, Resume, Begin
<1> QED
  BY <1>1, <1>2, <1>3, <1>4 DEF Next, Handle

\* A resumed run adds nothing to the root's cache.
LEMMA RootCache ==
  ASSUME Typed, Past, [Next]_vars
  PROVE  /\ run' # 1 => UNCHANGED <<cache, prompts>>
         /\ cache \subseteq cache' /\ prompts \subseteq prompts' /\ unsaved \subseteq unsaved'
<1>1. ASSUME run' # 1 PROVE UNCHANGED <<cache, prompts>>
  <2>1. ASSUME NEW b \in Branches, NEW v \in Values, Succeeds(b, v) \/ Fails(b)
        PROVE  run' = run
    BY <2>1 DEF Succeeds, Fails
  <2>2. ASSUME Finish \/ CrashInFlush PROVE run' = run
    BY <2>2 DEF Finish, CrashInFlush
  <2> QED
    BY <1>1, <2>1, <2>2, StoreKept, AnswerType
<1>2. cache \subseteq cache' /\ prompts \subseteq prompts'
  BY StoreKept, Saves
<1>3. unsaved \subseteq unsaved'
  BY UnsavedKept
<1> QED
  BY <1>1, <1>2, <1>3

LEMMA PastStep ==
  ASSUME Typed, Past, [Next]_vars, Typed'
  PROVE  Past'
<1>0. chain' = chain /\ Steps' = Steps /\ \A s : CallOf(s)' = CallOf(s) /\ KindOf(s)' = KindOf(s)
  BY ChainKept, CallKept
<1>1. run' \in {run, run + 1} /\ run \in Nat /\ run' >= run
  BY RunKept DEF Typed, TypeOK
<1>2. run' = 0 => cache' = {} /\ told' = {} /\ effects' = {}
  <2> SUFFICES ASSUME run' = 0 PROVE cache' = {} /\ told' = {} /\ effects' = {}
    OBVIOUS
  <2>1. run = 0 /\ ~up
    BY <1>1 DEF Typed
  <2>2. \A b \in Branches : ~Deliver(b) /\ ~Handle(b) /\ ~Send(b)
    BY <2>1, HandleFrame DEF Deliver, Send, Typed, Active
  <2>3. ~Finish /\ ~Crash /\ ~CrashInWrite /\ ~CrashInFlush
    BY <2>1 DEF Finish, Crash, CrashInWrite, CrashInFlush, Over
  <2>4. ~FirstRun /\ ~\E r \in Runs : Resume(r)
    BY <1>1, <2>1 DEF FirstRun, Resume, Begin
  <2>5. UNCHANGED <<cache, told, effects>>
    BY <2>2, <2>3, <2>4 DEF Next, ResolveCard, vars, disk, history
  <2> QED
    BY <2>1, <2>5 DEF Past
<1>3. ASSUME NEW e \in Kept'
      PROVE  e.call = CallOf(e.step) /\ e.call.kind = "pure"
  <2>1. CASE e \in Kept
    BY <2>1 DEF Past
  <2>2. ASSUME NEW b \in Branches, NEW a, Active(b), e = Entry(b, a), Current(b).kind = "pure"
        PROVE  e.call = CallOf(e.step) /\ e.call.kind = "pure"
    BY <2>2, AtStep DEF Entry
  <2>3. ASSUME NEW b \in Branches, NEW v \in Values, Succeeds(b, v), e \notin Kept
        PROVE  e.call = CallOf(e.step) /\ e.call.kind = "pure"
    <3>1. Active(b) /\ buffer' = buffer
      BY <2>3 DEF Succeeds, Active
    <3>2. cache' = cache \/ (WritesCall(b) /\ cache' = cache \cup {Entry(b, [ok |-> TRUE, v |-> v])})
      BY <2>3, Saves
    <3> QED
      BY <2>2, <2>3, <3>1, <3>2 DEF Kept, WritesCall
  <2>4. ASSUME NEW b \in Branches, Fails(b), e \notin Kept
        PROVE  e.call = CallOf(e.step) /\ e.call.kind = "pure"
    BY <2>2, <2>4 DEF Fails, Kept, Active, disk
  <2> QED
    BY <2>1, <2>3, <2>4, StoreKept DEF Kept
<1>4. run' # 1 => buffer' = {}
  <2>1. CASE run' = run /\ (up' => up)
    BY <2>1, StoreKept DEF Past
  <2> QED
    BY <2>1, RunKept DEF Begin
<1>5. ASSUME NEW t \in told' PROVE t.run <= run'
  <2>1. t \in told \/ t.run = run
    <3>1. ASSUME NEW b \in Branches, Handle(b) PROVE told' = told
      BY <3>1, HandleFrame
    <3>2. ASSUME NEW b \in Branches, Deliver(b) PROVE t \in told \/ t.run = run
      BY <3>2 DEF Deliver
    <3> QED
      BY <3>1, <3>2 DEF Next, FirstRun, Resume, Begin, Send, Finish, Crash,
         CrashInWrite, CrashInFlush, Over, ResolveCard, vars, history
  <2> QED
    BY <1>1, <2>1 DEF Past, Typed, TypeOK, Runs
<1>6. ASSUME NEW d \in effects' PROVE d.run <= run' /\ KindOf(d.step)' # "card"
  <2>1. \/ d \in effects
        \/ d.run = run /\ \E b \in Branches : Dispatch(b) /\ d.step = Step(b)
    <3>1. ASSUME NEW b \in Branches, Handle(b), ~Dispatch(b) PROVE effects' = effects
      BY <3>1 DEF Handle, PromptHit, ReplayHit, Drift, CreateOrReattach, AwaitCard,
         Succeeds, Fails, history
    <3>2. ASSUME NEW b \in Branches, Dispatch(b)
          PROVE  d \in effects \/ (d.run = run /\ d.step = Step(b))
      BY <3>2 DEF Dispatch
    <3>3. ASSUME NEW b \in Branches, Send(b) \/ Deliver(b) PROVE effects' = effects
      BY <3>3 DEF Send, Deliver, history
    <3> QED
      BY <3>1, <3>2, <3>3 DEF Next, FirstRun, Resume, Begin, Finish, Crash,
         CrashInWrite, CrashInFlush, Over, ResolveCard, vars, history
  <2>2. ASSUME NEW b \in Branches, Dispatch(b) PROVE KindOf(Step(b)) # "card"
    BY <2>2 DEF Dispatch, KindOf, CallOf, Current, Step
  <2> QED
    BY <1>0, <1>1, <2>1, <2>2 DEF Past, Typed, TypeOK, Runs
<1> QED
  BY <1>0, <1>2, <1>3, <1>4, <1>5, <1>6 DEF Past

\* Which results _maybe_prompt_cache_hit may find.
LEMMA PromptHitsAre ==
  ASSUME NEW b
  PROVE  /\ Current(b).kind # "prompt" => PromptHits(b) = {}
         /\ \A e \in PromptHits(b) :
              e.what = Current(b).what /\ (e \in memo \/ (~Recording /\ e \in prompts))
         /\ Current(b).kind = "prompt" /\ ~Recording /\ PromptHits(b) = {} =>
              \A e \in prompts : e.what # Current(b).what
<1> DEFINE named(S) == {e \in S : e.what = Current(b).what}
<1>1. PromptHits(b) = IF Current(b).kind # "prompt" THEN {}
                      ELSE IF named(memo) # {} THEN named(memo)
                      ELSE IF Recording THEN {} ELSE named(prompts)
  BY DEF PromptHits
<1>2. \A S : \A e : e \in named(S) <=> e \in S /\ e.what = Current(b).what
  OBVIOUS
<1> HIDE DEF named
<1>3. CASE Current(b).kind # "prompt"
  BY <1>1, <1>3
<1>4. CASE Current(b).kind = "prompt" /\ named(memo) # {}
  BY <1>1, <1>2, <1>4
<1>5. CASE Current(b).kind = "prompt" /\ named(memo) = {}
  BY <1>1, <1>2, <1>5
<1> QED
  BY <1>3, <1>4, <1>5

\* The script is told of one answer at a time.
LEMMA ToldGrows ==
  ASSUME Typed, [Next]_vars
  PROVE  \/ told' = told
         \/ \E b \in Branches :
              /\ Deliver(b) /\ stage[b] = "reply" /\ run' = run /\ up
              /\ told' = told \cup {[run |-> run, step |-> Step(b), id |-> asked[b],
                                     answer |-> answer[b]]}
<1>1. ASSUME NEW b \in Branches, Deliver(b)
      PROVE  \/ told' = told
             \/ /\ Deliver(b) /\ stage[b] = "reply" /\ run' = run /\ up
                /\ told' = told \cup {[run |-> run, step |-> Step(b), id |-> asked[b],
                                       answer |-> answer[b]]}
  BY <1>1 DEF Deliver, Typed, Active
<1>2. ASSUME NEW b \in Branches, Handle(b)
      PROVE  told' = told
  BY <1>2, HandleFrame
<1> QED
  BY <1>1, <1>2 DEF Next, FirstRun, Resume, Begin, Send, Finish, Crash, CrashInWrite, CrashInFlush, Over,
     ResolveCard, vars, history

\* One dispatch at a time.
LEMMA EffectsGrow ==
  ASSUME Typed, [Next]_vars
  PROVE  \/ effects' = effects
         \/ \E b \in Branches :
              /\ Dispatch(b) /\ Active(b) /\ run' = run
              /\ effects' = effects \cup {[run |-> run, step |-> Step(b)]}
<1>1. ASSUME NEW b \in Branches, Handle(b), ~Dispatch(b) PROVE effects' = effects
  BY <1>1 DEF Handle, PromptHit, ReplayHit, Drift, CreateOrReattach, AwaitCard,
     Succeeds, Fails, history
<1>2. ASSUME NEW b \in Branches, Dispatch(b)
      PROVE  /\ Dispatch(b) /\ Active(b) /\ run' = run
             /\ effects' = effects \cup {[run |-> run, step |-> Step(b)]}
  BY <1>2 DEF Dispatch, Misses, Active
<1>3. ASSUME NEW b \in Branches, Send(b) \/ Deliver(b) PROVE effects' = effects
  BY <1>3 DEF Send, Deliver, history
<1> QED
  BY <1>1, <1>2, <1>3 DEF Next, FirstRun, Resume, Begin, Finish, Crash,
     CrashInWrite, CrashInFlush, Over, ResolveCard, vars, history

\* A branch whose call is at work after a step of another was so before.
LEMMA OthersKept ==
  ASSUME Typed, [Next]_vars, NEW c \in Branches, stage'[c] # "idle"
  PROVE  \/ /\ UNCHANGED <<chain, run, up, stage[c], answer[c], asked[c], at[c], told>>
            /\ \E b \in Branches \ {c} : Handle(b)
         \/ /\ UNCHANGED <<chain, run, up, stage[c], answer[c], asked[c], at[c], memo>>
            /\ UNCHANGED <<cache, prompts, buffer>>
         \/ /\ Handle(c)
            /\ UNCHANGED <<chain, run, up, asked[c], at[c]>>
         \/ /\ Send(c) /\ UNCHANGED <<chain, run, up, at[c]>>
<1>1. ASSUME NEW b \in Branches, Handle(b)
      PROVE  \/ b = c /\ UNCHANGED <<chain, run, up, asked[c], at[c]>>
             \/ /\ b # c
                /\ UNCHANGED <<chain, run, up, stage[c], answer[c], asked[c], at[c], told>>
  BY <1>1, HandleFrame
<1>2. ASSUME NEW b \in Branches, Send(b) \/ Deliver(b)
      PROVE  \/ Send(c) /\ UNCHANGED <<chain, run, up, at[c]>>
             \/ /\ UNCHANGED <<chain, run, up, stage[c], answer[c], asked[c], at[c], memo>>
                /\ UNCHANGED <<cache, prompts, buffer>>
  BY <1>2 DEF Send, Deliver, Typed, TypeOK, disk, broker
<1>3. ~FirstRun /\ (~\E r \in Runs : Resume(r)) /\ ~Finish /\ ~Crash /\ ~CrashInWrite /\ ~CrashInFlush
  BY ChainKept DEF FirstRun, Resume, Begin, Finish, Crash, CrashInWrite, CrashInFlush, Over, Die
<1>4. ASSUME (\E d \in cards : ResolveCard(d)) \/ UNCHANGED vars
      PROVE  /\ UNCHANGED <<chain, run, up, stage[c], answer[c], asked[c], at[c], memo>>
             /\ UNCHANGED <<cache, prompts, buffer>>
  BY <1>4 DEF ResolveCard, vars, disk, broker, guest
<1> QED
  BY <1>1, <1>2, <1>3, <1>4 DEF Next

LEMMA PersistedStep ==
  ASSUME Typed, Past, Persisted, [Next]_vars, Typed', Past'
  PROVE  Persisted'
<1>0. chain' = chain /\ Branches' = Branches
  BY ChainKept
<1>1. ASSUME NEW c \in Branches, stage'[c] = "waiting"
      PROVE  Current(c)'.kind = "card"
  <2>0. stage'[c] # "idle"
    BY <1>1
  <2>1. CASE stage'[c] = stage[c] /\ at'[c] = at[c]
    BY <1>0, <1>1, <2>1, StepKept DEF Persisted
  <2>2. CASE Send(c)
    BY <1>1, <2>2 DEF Send, Typed, TypeOK
  <2>3. CASE Handle(c) /\ at'[c] = at[c]
    <3>1. stage[c] = "waiting" \/ Current(c).kind = "card"
      BY <1>1, <2>3 DEF Handle, PromptHit, ReplayHit, Drift, Dispatch, Misses,
         CreateOrReattach, AwaitCard, Succeeds, Fails, Reply, Typed, TypeOK
    <3> QED
      BY <1>0, <2>3, <3>1, StepKept DEF Persisted
  <2> QED
    BY <2>0, <2>1, <2>2, <2>3, OthersKept
<1>k. \A w : Noticed(w) => Noticed(w)'
  BY RootCache DEF Noticed
<1>s. ASSUME NEW b \in Branches, NEW v \in Values, Succeeds(b, v), Recording,
             Current(b).kind = "prompt", NEW w, w = Current(b).what
      PROVE  Noticed(w)'
  <2>1. CASE WritesPrompt(b)
    <3> DEFINE mine == [what |-> Current(b).what, v |-> v]
    <3>1. prompts' = prompts \cup {mine} \/ Line(Step(b), asked[b]) \in unsaved'
      BY <1>s, <2>1, Saves
    <3>2. Line(Step(b), asked[b]) = [id |-> 0, what |-> Current(b).what]
      BY <1>s DEF Line, KindOf, Current
    <3>3. mine.what = Current(b).what
      OBVIOUS
    <3>4. CASE prompts' = prompts \cup {mine}
      <4>1. mine \in prompts' /\ mine.what = w
        BY <1>s, <3>3, <3>4
      <4> QED
        BY <4>1 DEF Noticed
    <3>5. CASE Line(Step(b), asked[b]) \in unsaved'
      BY <1>s, <3>2, <3>5 DEF Noticed
    <3> QED
      BY <3>1, <3>4, <3>5
  <2>2. CASE ~WritesPrompt(b)
    <3>1. Current(b).what \in written
      BY <1>s, <2>2 DEF WritesPrompt
    <3> QED
      BY <1>k, <1>s, <3>1 DEF Persisted
  <2> QED
    BY <2>1, <2>2
<1>w. ASSUME Recording', NEW w \in written'
      PROVE  Noticed(w)'
  <2>1. CASE \E from \in 0..run : Begin(from)
    BY <1>w, <2>1 DEF Begin
  <2>2. CASE w \in written /\ Recording
    BY <1>k, <2>2 DEF Persisted
  <2>3. ASSUME NEW b \in Branches, NEW v \in Values, Succeeds(b, v), w \notin written
        PROVE  Noticed(w)'
    <3>1. WritesPrompt(b) /\ w = Current(b).what
      <4>1. written' = written \/ (WritesPrompt(b) /\ written' = written \cup {Current(b).what})
        BY <2>3, Saves
      <4> QED
        BY <1>w, <2>3, <4>1
    <3> QED
      BY <1>s, <2>3, <3>1 DEF WritesPrompt
  <2>4. \/ \E from \in 0..run : Begin(from)
        \/ \E b \in Branches, v \in Values : Succeeds(b, v)
        \/ written' = written
    BY DEF Next, FirstRun, Resume, Send, Handle, PromptHit, ReplayHit, Drift, Dispatch,
       CreateOrReattach, AwaitCard, Fails, Deliver, Finish, Crash, CrashInWrite, CrashInFlush,
       Over, ResolveCard, vars, broker
  <2>5. ASSUME NEW b \in Branches, NEW v \in Values, Succeeds(b, v)
        PROVE  run' = run
    BY <2>5 DEF Succeeds
  <2>6. run' = run \/ \E from \in 0..run : Begin(from)
    BY RunKept
  <2> QED
    BY <1>w, <2>1, <2>2, <2>3, <2>4, <2>5, <2>6 DEF Recording
<1>2. ASSUME Recording', NEW m \in memo'
      PROVE  Noticed(m.what)'
  <2>1. CASE \E from \in 0..run : Begin(from)
    BY <1>2, <2>1 DEF Begin
  <2>2. CASE m \in memo /\ Recording
    BY <1>k, <2>2 DEF Persisted
  <2>3. ASSUME NEW b \in Branches, NEW v \in Values, Succeeds(b, v), m \notin memo
        PROVE  Noticed(m.what)'
    <3>1. m = [what |-> Current(b).what, v |-> v] /\ Current(b).kind = "prompt"
      BY <1>2, <2>3 DEF Succeeds
    <3>2. Recording
      BY <1>2, <2>3 DEF Succeeds, Recording
    <3> QED
      BY <1>s, <2>3, <3>1, <3>2
  <2>4. \/ \E from \in 0..run : Begin(from)
        \/ \E b \in Branches, v \in Values : Succeeds(b, v)
        \/ memo' = memo
    BY DEF Next, FirstRun, Resume, Send, Handle, PromptHit, ReplayHit, Drift, Dispatch,
       CreateOrReattach, AwaitCard, Fails, Deliver, Finish, Crash, CrashInWrite, CrashInFlush,
       Over,
       ResolveCard, vars, broker
  <2>5. ASSUME NEW b \in Branches, NEW v \in Values, Succeeds(b, v)
        PROVE  run' = run
    BY <2>5 DEF Succeeds
  <2>6. run' = run \/ \E from \in 0..run : Begin(from)
    BY RunKept
  <2> QED
    BY <1>2, <2>1, <2>2, <2>3, <2>4, <2>5, <2>6 DEF Recording
<1>3. ASSUME Recording', NEW c \in Branches, stage'[c] = "reply", answer'[c].ok
      PROVE  /\ Current(c)'.kind = "pure" =>
                  Entry(c, answer[c])' \in cache' \/ Line(Step(c), asked[c])' \in unsaved'
             /\ Current(c)'.kind = "prompt" => Noticed(Current(c).what)'
  <2>0. stage'[c] # "idle" /\ cache \subseteq cache' /\ unsaved \subseteq unsaved'
    BY <1>3, RootCache
  <2>1. CASE UNCHANGED <<run, stage[c], answer[c], asked[c], at[c]>>
    <3>1. /\ Current(c)' = Current(c) /\ Entry(c, answer[c])' = Entry(c, answer[c])
          /\ Line(Step(c), asked[c])' = Line(Step(c), asked[c])
          /\ Noticed(Current(c).what) => Noticed(Current(c).what)'
      BY <1>0, <2>1, StepKept, CallKept, RootCache DEF Entry, Line, Noticed
    <3>2. Recording /\ stage[c] = "reply" /\ answer[c].ok
      BY <1>3, <2>1 DEF Recording
    <3> QED
      BY <2>0, <3>1, <3>2 DEF Persisted
  <2>2. CASE Send(c)
    BY <1>3, <2>2 DEF Send, Typed, TypeOK
  <2>3. CASE Handle(c) /\ UNCHANGED <<run, asked[c], at[c]>>
    <3>0. /\ Current(c)' = Current(c) /\ \A a : Entry(c, a)' = Entry(c, a)
          /\ Line(Step(c), asked[c])' = Line(Step(c), asked[c])
          /\ Noticed(Current(c).what) => Noticed(Current(c).what)'
      BY <1>0, <2>3, StepKept, CallKept, RootCache DEF Entry, Line, Noticed
    <3>1. Recording
      BY <1>3, <2>3 DEF Recording
    <3>2. CASE PromptHit(c)
      <4>1. Current(c).kind = "prompt" /\ \E m \in memo : m.what = Current(c).what
        BY <3>1, <3>2, PromptHitsAre DEF PromptHit
      <4> QED
        BY <2>0, <3>0, <3>1, <4>1 DEF Persisted
    <3>3. ~ReplayHit(c) /\ ~Drift(c)
      BY <3>1 DEF ReplayHit, Drift, Entries
    <3>4. CASE AwaitCard(c)
      BY <3>0, <3>4 DEF AwaitCard, Persisted
    <3>5. ~Dispatch(c) /\ ~CreateOrReattach(c)
      BY <1>3 DEF Dispatch, CreateOrReattach, Typed, TypeOK
    <3>6. ASSUME NEW v \in Values, Succeeds(c, v)
          PROVE  /\ Current(c)'.kind = "pure" => \/ Entry(c, answer[c])' \in cache'
                                                 \/ Line(Step(c), asked[c])' \in unsaved'
                 /\ Current(c)'.kind = "prompt" => Noticed(Current(c).what)'
      <4>1. answer'[c] = [ok |-> TRUE, v |-> v]
        BY <3>6 DEF Succeeds, Reply, Typed, TypeOK
      <4>2. Current(c).kind = "pure" => \/ Entry(c, answer'[c]) \in cache'
                                       \/ Line(Step(c), asked[c]) \in unsaved'
        BY <3>1, <3>6, <4>1, Saves DEF WritesCall
      <4>3. Current(c).kind = "prompt" => Noticed(Current(c).what)'
        <5>1. ASSUME Current(c).kind = "prompt", NEW w, w = Current(c).what PROVE Noticed(w)'
          BY <1>s, <3>1, <3>6, <5>1
        <5> QED
          BY <3>0, <5>1 DEF Noticed
      <4>4. Entry(c, answer[c])' = Entry(c, answer'[c])
        BY <1>0, <2>3, StepKept DEF Entry
      <4> QED
        BY <3>0, <4>2, <4>3, <4>4
    <3>7. CASE Fails(c)
      <4>1. answer'[c] = Failure
        BY <3>7 DEF Fails, Reply, Typed, TypeOK
      <4> QED
        BY <1>3, <4>1 DEF Failure
    <3> QED
      BY <2>3, <3>2, <3>3, <3>4, <3>5, <3>6, <3>7 DEF Handle
  <2> QED
    BY <2>0, <2>1, <2>2, <2>3, OthersKept
<1> QED
  BY <1>0, <1>1, <1>2, <1>3, <1>w DEF Persisted

-----------------------------------------------------------------------------
(* Ids and entries. *)

\* Ids are given out by Send alone.
LEMMA IdsKept ==
  ASSUME Typed, [Next]_vars
  PROVE  \/ \E from \in 0..run : Begin(from)
         \/ /\ UNCHANGED <<nextId, asked>>
            /\ \A c \in Branches : Active(c)' => Active(c)
         \/ \E b \in Branches : Send(b)
<1>1. ASSUME NEW b \in Branches, Handle(b)
      PROVE  UNCHANGED <<nextId, asked>> /\ \A c \in Branches : Active(c)' => Active(c)
  BY <1>1, HandleFrame DEF Active
<1>2. ASSUME NEW b \in Branches, Deliver(b)
      PROVE  UNCHANGED <<nextId, asked>> /\ \A c \in Branches : Active(c)' => Active(c)
  BY <1>2 DEF Deliver, Active, Typed, TypeOK
<1>3. CASE Finish \/ Crash \/ CrashInWrite \/ CrashInFlush
  BY <1>3, ChainKept DEF Finish, Crash, CrashInWrite, CrashInFlush, Over, CrashInFlush, Over, Die, Active, guest
<1>4. CASE (\E c \in cards : ResolveCard(c)) \/ UNCHANGED vars
  BY <1>4 DEF ResolveCard, Active, guest, vars
<1>5. ASSUME FirstRun \/ \E r \in Runs : Resume(r)
      PROVE  \E from \in 0..run : Begin(from)
  BY <1>5 DEF FirstRun, Resume
<1> QED
  BY <1>1, <1>2, <1>3, <1>4, <1>5 DEF Next

\* An entry is added for a call of run 1 that was let through.
LEMMA KeptGrows ==
  ASSUME Typed, Past, [Next]_vars
  PROVE  \/ Kept' \subseteq Kept
         \/ \E b \in Branches, a \in Answer :
              /\ run = 1 /\ Handle(b) /\ stage[b] = "calling" /\ stage'[b] = "reply"
              /\ Current(b).kind = "pure"
              /\ Entry(b, a) \in Kept' /\ Kept' \subseteq Kept \cup {Entry(b, a)}
<1>1. ASSUME NEW b \in Branches, NEW v \in Values, run = 1, Succeeds(b, v),
             UNCHANGED buffer
      PROVE  \/ Kept' \subseteq Kept
             \/ \E a \in Answer :
                  /\ Handle(b) /\ stage[b] = "calling" /\ stage'[b] = "reply"
                  /\ Current(b).kind = "pure"
                  /\ Entry(b, a) \in Kept' /\ Kept' \subseteq Kept \cup {Entry(b, a)}
  <2> DEFINE a == [ok |-> TRUE, v |-> v]
  <2>1. /\ stage[b] = "calling" /\ stage'[b] = "reply" /\ a \in Answer /\ Handle(b)
        /\ cache' = cache \/ (WritesCall(b) /\ cache' = cache \cup {Entry(b, a)})
    <3>1. stage[b] = "calling" /\ stage'[b] = "reply" /\ a \in Answer /\ Handle(b)
      BY <1>1, AnswerType DEF Succeeds, Reply, Typed, TypeOK, Handle
    <3> QED
      BY <1>1, <3>1, Saves
  <2> HIDE DEF a
  <2> QED
    BY <1>1, <2>1 DEF Kept, WritesCall
<1>2. ASSUME NEW b \in Branches, run = 1, Fails(b), UNCHANGED cache,
             Current(b).kind = "pure", buffer' = buffer \cup {Entry(b, Failure)}
      PROVE  \E a \in Answer :
               /\ Handle(b) /\ stage[b] = "calling" /\ stage'[b] = "reply"
               /\ Current(b).kind = "pure"
               /\ Entry(b, a) \in Kept' /\ Kept' \subseteq Kept \cup {Entry(b, a)}
  <2>1. /\ stage[b] = "calling" /\ stage'[b] = "reply" /\ Failure \in Answer
        /\ Handle(b)
    BY <1>2, AnswerType DEF Fails, Reply, Typed, TypeOK, Handle
  <2> QED
    BY <1>2, <2>1 DEF Kept
<1>3. ASSUME UNCHANGED cache, buffer' \in {buffer, {}}
      PROVE  Kept' \subseteq Kept
  BY <1>3 DEF Kept
<1>4. ASSUME cache' \subseteq cache \cup buffer, UNCHANGED buffer
      PROVE  Kept' \subseteq Kept
  BY <1>4 DEF Kept
<1> QED
  BY <1>1, <1>2, <1>3, <1>4, StoreKept

LEMMA FreshStep ==
  ASSUME Typed, Past, Fresh, [Next]_vars, Typed', Past'
  PROVE  Fresh'
<1>0. chain' = chain /\ Branches' = Branches
  BY ChainKept
<1>1. CASE \E from \in 0..run : Begin(from)
  <2>1. \A b \in Branches : stage'[b] = "idle"
    BY <1>1 DEF Begin
  <2>2. Recording' => Kept' = {}
    BY <1>1 DEF Begin, Recording, Kept, Past, Typed, TypeOK
  <2> QED
    BY <1>0, <2>1, <2>2 DEF Fresh, Active
<1>2. CASE ~\E from \in 0..run : Begin(from)
  <2>0. run' = run
    BY <1>2, RunKept
  <2>1. /\ \A b \in Branches : Active(b)' => asked'[b] \in 1..nextId'
        /\ \A b, c \in Branches :
             Active(b)' /\ Active(c)' /\ asked'[b] = asked'[c] => b = c
        /\ nextId' \in Nat /\ nextId' >= nextId
    <3>1. CASE UNCHANGED <<nextId, asked>> /\ \A c \in Branches : Active(c)' => Active(c)
      BY <3>1 DEF Fresh, Typed, TypeOK
    <3>2. ASSUME NEW b \in Branches, Send(b)
          PROVE  /\ \A c \in Branches : Active(c)' => asked'[c] \in 1..nextId'
                 /\ \A c, d \in Branches :
                      Active(c)' /\ Active(d)' /\ asked'[c] = asked'[d] => c = d
                 /\ nextId' \in Nat /\ nextId' >= nextId
      BY <3>2 DEF Fresh, Typed, TypeOK, Send, Active
    <3> QED
      BY <1>2, <3>1, <3>2, IdsKept
  <2>2. ASSUME Recording', NEW e \in Kept, NEW b \in Branches,
               stage'[b] \in {"sent", "calling"}
        PROVE  e.id # asked'[b]
    <3>1. /\ e.id <= nextId /\ e.id \in Nat
          /\ stage[b] \in {"sent", "calling"} => e.id # asked[b]
      BY <2>0, <2>2 DEF Fresh, Recording, Typed, TypeOK, Kept, Entered
    <3>2. CASE Send(b)
      <4>1. asked'[b] = nextId + 1 /\ nextId \in Nat
        BY <3>2 DEF Send, Typed, TypeOK
      <4> QED
        BY <3>1, <4>1
    <3>3. CASE Handle(b)
      <4>1. stage[b] = "sent" /\ asked' = asked
        BY <2>2, <3>3, HandleFrame DEF Handle, PromptHit, ReplayHit, Drift, Dispatch,
           Misses, CreateOrReattach, AwaitCard, Succeeds, Fails, Reply, Typed, TypeOK
      <4> QED
        BY <3>1, <4>1
    <3> QED
      BY <2>2, <3>1, <3>2, <3>3, OthersKept
  <2>3. ASSUME Recording', up', NEW e \in Kept
        PROVE  \/ e.step[2] < at'[e.step[1]]
               \/ /\ e.step[2] = at'[e.step[1]]
                  /\ \/ stage'[e.step[1]] = "reply"
                     \/ stage'[e.step[1]] = "idle" /\ ending' = "raised"
    <3> DEFINE b == e.step[1]
               k == e.step[2]
    <3>0. b \in Branches /\ k \in Nat /\ at[b] \in Nat /\ up /\ Recording
      <4>1. e.step \in Steps
        BY DEF Kept, Typed, TypeOK, Entered
      <4> QED
        BY <1>2, <2>0, <2>3, <4>1, RunKept, ScriptType DEF Typed, TypeOK, Recording
    <3>1. \/ k < at[b]
          \/ /\ k = at[b]
             /\ stage[b] = "reply" \/ (stage[b] = "idle" /\ ending = "raised")
      BY <3>0 DEF Fresh
    <3> HIDE DEF b, k
    <3> DEFINE Behind == \/ k < at'[b]
                         \/ /\ k = at'[b]
                            /\ \/ stage'[b] = "reply"
                               \/ stage'[b] = "idle" /\ ending' = "raised"
    <3>2. ASSUME NEW c \in Branches, Handle(c)
          PROVE  Behind
      <4>1. /\ at' = at /\ stage[c] # "idle" /\ stage[c] # "reply"
            /\ b # c => stage'[b] = stage[b]
        BY <3>0, <3>2, HandleFrame DEF Active
      <4>2. ending = "raised" => ending' = "raised"
        BY <3>2 DEF Handle, PromptHit, ReplayHit, Drift, Dispatch, CreateOrReattach,
           AwaitCard, Succeeds, Fails, CutShort
      <4> QED
        BY <3>1, <4>1, <4>2
    <3>3. ASSUME NEW c \in Branches, Send(c) PROVE Behind
      BY <3>0, <3>1, <3>3 DEF Send, Typed, TypeOK
    <3>4. ASSUME NEW c \in Branches, Deliver(c) PROVE Behind
      BY <3>0, <3>1, <3>4 DEF Deliver, Typed, TypeOK
    <3>5. ~Finish /\ ~Crash /\ ~CrashInWrite /\ ~CrashInFlush
      BY <2>3 DEF Finish, Crash, CrashInWrite, CrashInFlush, Over, Die
    <3>6. ASSUME (\E c \in cards : ResolveCard(c)) \/ UNCHANGED vars
          PROVE  Behind
      <4>1. UNCHANGED <<at, stage, ending>>
        BY <3>6 DEF ResolveCard, vars, guest
      <4> QED
        BY <3>1, <4>1
    <3>7. ~FirstRun /\ ~\E r \in Runs : Resume(r)
      BY <1>2 DEF FirstRun, Resume
    <3> QED
      BY <3>2, <3>3, <3>4, <3>5, <3>6, <3>7 DEF Next, b, k
  <2>4. ASSUME NEW e \in Kept', e \notin Kept
        PROVE  /\ e.id <= nextId'
               /\ \A b \in Branches : stage'[b] \in {"sent", "calling"} => e.id # asked'[b]
               /\ e.step[2] = at'[e.step[1]] /\ stage'[e.step[1]] = "reply"
    <3>1. PICK b \in Branches, a \in Answer :
                 /\ Handle(b) /\ stage[b] = "calling" /\ stage'[b] = "reply"
                 /\ e = Entry(b, a)
      BY <2>4, KeptGrows
    <3>2. /\ e.id = asked[b] /\ e.step = Step(b) /\ Active(b)
          /\ UNCHANGED <<nextId, asked, at>>
      BY <3>1, HandleFrame DEF Entry, Active
    <3>3. e.step[1] = b /\ e.step[2] = at[b]
      BY <3>2, AtStep
    <3>4. \A c \in Branches : stage'[c] \in {"sent", "calling"} => Active(c) /\ c # b
      BY <3>1, HandleFrame DEF Active
    <3> QED
      BY <3>1, <3>2, <3>3, <3>4 DEF Fresh, Typed, TypeOK
  <2>5. ASSUME Recording', NEW e \in Kept'
        PROVE  /\ e.id <= nextId'
               /\ \A b \in Branches : stage'[b] \in {"sent", "calling"} => e.id # asked'[b]
               /\ up' => \/ e.step[2] < at'[e.step[1]]
                         \/ /\ e.step[2] = at'[e.step[1]]
                            /\ \/ stage'[e.step[1]] = "reply"
                               \/ stage'[e.step[1]] = "idle" /\ ending' = "raised"
    <3>1. CASE e \in Kept
      <4>1. e.id <= nextId /\ e.id \in Nat
        BY <2>0, <2>5, <3>1 DEF Fresh, Recording, Typed, TypeOK, Kept, Entered
      <4> QED
        BY <2>1, <2>2, <2>3, <2>5, <3>1, <4>1 DEF Typed, TypeOK
    <3>2. CASE e \notin Kept
      BY <2>4, <3>2
    <3> QED
      BY <3>1, <3>2
  <2> QED
    BY <1>0, <2>1, <2>5 DEF Fresh
<1> QED
  BY <1>1, <1>2

LEMMA UniqueStep ==
  ASSUME Typed, Past, Fresh, Unique, [Next]_vars
  PROVE  Unique'
<1>1. ASSUME NEW e \in Kept', NEW f \in Kept', e.id = f.id \/ e.step = f.step
      PROVE  e = f
  <2>1. ASSUME NEW b \in Branches, NEW a \in Answer, NEW g \in Kept,
               run = 1, Handle(b), stage[b] = "calling"
        PROVE  g.id # Entry(b, a).id /\ g.step # Entry(b, a).step
    <3>1. Recording /\ up /\ Active(b) /\ Step(b)[1] = b /\ Step(b)[2] = at[b]
      BY <2>1, AtStep DEF Recording, Active
    <3>2. g.id # asked[b]
      BY <2>1, <3>1 DEF Fresh
    <3>3. g.step # Step(b)
      <4>1. \/ g.step[2] < at[g.step[1]]
            \/ /\ g.step[2] = at[g.step[1]]
               /\ \/ stage[g.step[1]] = "reply"
                  \/ stage[g.step[1]] = "idle" /\ ending = "raised"
        BY <2>1, <3>1 DEF Fresh
      <4>2. at[b] \in Nat
        BY <3>1 DEF Typed, TypeOK
      <4> SUFFICES ASSUME g.step[1] = b, g.step[2] = at[b]
                   PROVE  FALSE
        BY <3>1
      <4>3. ~(g.step[2] < at[g.step[1]])
        BY <4>2
      <4> QED
        BY <2>1, <4>1, <4>3
    <3> QED
      BY <3>2, <3>3 DEF Entry
  <2>2. CASE e \in Kept /\ f \in Kept
    BY <1>1, <2>2 DEF Unique
  <2>3. CASE ~(Kept' \subseteq Kept)
    <3>1. PICK b \in Branches, a \in Answer :
                 /\ run = 1 /\ Handle(b) /\ stage[b] = "calling"
                 /\ Kept' \subseteq Kept \cup {Entry(b, a)}
      BY <2>3, KeptGrows
    <3> QED
      BY <1>1, <2>1, <2>2, <3>1
  <2> QED
    BY <2>2, <2>3
<1>2. ASSUME NEW e \in prompts', NEW f \in prompts', e.what = f.what
      PROVE  e = f
  <2>1. CASE prompts' = prompts
    BY <1>2, <2>1 DEF Unique
  <2>2. ASSUME NEW b \in Branches, NEW v \in Values, Succeeds(b, v), WritesPrompt(b)
        PROVE  e = f
    <3>1. \/ prompts' = prompts
          \/ /\ prompts' = prompts \cup {[what |-> Current(b).what, v |-> v]}
             /\ \A g \in prompts : g.what # Current(b).what
      BY <2>2, Saves
    <3> QED
      BY <1>2, <3>1 DEF Unique
  <2>3. ASSUME NEW b \in Branches, NEW v \in Values, Succeeds(b, v), ~WritesPrompt(b)
        PROVE  prompts' = prompts
    BY <2>3, Saves
  <2> QED
    BY <2>1, <2>2, <2>3, StoreKept
<1> QED
  BY <1>1, <1>2 DEF Unique

LEMMA ServedStep ==
  ASSUME Typed, Past, Persisted, Unique, Served, [Next]_vars
  PROVE  Served'
<1>0. chain' = chain /\ Branches' = Branches
  BY ChainKept
<1> SUFFICES ASSUME NEW b \in Branches, NEW e \in cache',
                    run' > 1, Active(b)', e.id = asked'[b], Current(b)'.kind = "pure"
             PROVE  /\ stage'[b] # "calling"
                    /\ stage'[b] = "reply" /\ answer'[b].ok =>
                         e.call = Current(b)' /\ e.answer = answer'[b]
  BY <1>0 DEF Served
<1>1. e \in cache /\ stage'[b] # "idle"
  BY RootCache DEF Active
<1>2. CASE UNCHANGED <<run, stage[b], answer[b], asked[b], at[b]>>
  BY <1>0, <1>1, <1>2, StepKept DEF Served, Active
<1>3. CASE Send(b)
  BY <1>3 DEF Send, Typed, TypeOK
<1>4. CASE Handle(b) /\ UNCHANGED <<run, asked[b], at[b]>>
  <2>1. /\ ~Recording /\ e.id = asked[b] /\ e \in Entries(b) /\ Active(b)
        /\ Current(b)' = Current(b) /\ Current(b).kind = "pure" /\ run > 1
    BY <1>0, <1>1, <1>4, HandleFrame, StepKept DEF Recording, Entries
  <2>2. ~PromptHit(b)
    BY <2>1, PromptHitsAre DEF PromptHit
  <2>3. CASE ReplayHit(b)
    <3>1. PICK f \in Entries(b) : Matches(f, b) /\ Reply(b, f.answer)
      BY <2>3 DEF ReplayHit
    <3>2. f = e
      BY <1>1, <2>1, <3>1 DEF Entries, Unique, Kept
    <3> QED
      BY <2>1, <3>1, <3>2 DEF Matches, Reply, Typed, TypeOK
  <2>4. CASE Drift(b)
    BY <2>4 DEF Drift, Reply, Failure, Typed, TypeOK
  <2>5. ~Dispatch(b) /\ ~CreateOrReattach(b)
    BY <2>1 DEF Dispatch, CreateOrReattach, Misses
  <2>6. ~AwaitCard(b)
    BY <2>1 DEF AwaitCard, Persisted
  <2>7. ~Fails(b) /\ ~\E v \in Values : Succeeds(b, v)
    BY <1>1, <2>1 DEF Fails, Succeeds, Served
  <2> QED
    BY <1>4, <2>2, <2>3, <2>4, <2>5, <2>6, <2>7 DEF Handle
<1> QED
  BY <1>1, <1>2, <1>3, <1>4, OthersKept

LEMMA ToldStep ==
  ASSUME Typed, Past, Persisted, ToldIsRecorded, [Next]_vars
  PROVE  ToldIsRecorded'
<1>0. \A s : CallOf(s)' = CallOf(s) /\ KindOf(s)' = KindOf(s)
  BY ChainKept, CallKept
<1> SUFFICES ASSUME NEW t \in told', t.run = 1, t.answer.ok, ~Unsaved(t)'
             PROVE  /\ KindOf(t.step) = "pure" =>
                         \E e \in cache' : /\ e.id = t.id /\ e.step = t.step
                                           /\ e.answer = t.answer
                    /\ KindOf(t.step) = "prompt" =>
                         \E e \in prompts' : e.what = CallOf(t.step).what
  BY <1>0 DEF ToldIsRecorded
<1>1. /\ cache \subseteq cache' /\ prompts \subseteq prompts' /\ unsaved \subseteq unsaved'
      /\ ~Unsaved(t)
  BY <1>0, RootCache DEF Unsaved, Line
<1>2. CASE t \in told
  BY <1>1, <1>2 DEF ToldIsRecorded
<1>3. ASSUME NEW b \in Branches, stage[b] = "reply",
             t = [run |-> run, step |-> Step(b), id |-> asked[b], answer |-> answer[b]]
      PROVE  /\ KindOf(t.step) = "pure" =>
                  \E e \in cache : /\ e.id = t.id /\ e.step = t.step
                                   /\ e.answer = t.answer
             /\ KindOf(t.step) = "prompt" =>
                  \E e \in prompts : e.what = CallOf(t.step).what
  <2>1. /\ Recording /\ t.step = Step(b) /\ CallOf(t.step) = Current(b)
        /\ t.id = asked[b] /\ t.answer = answer[b] /\ answer[b].ok
    BY <1>3, AtStep DEF Recording, Active
  <2>0. /\ Line(Step(b), asked[b]) \notin unsaved
        /\ Current(b).kind = "prompt" => [id |-> 0, what |-> Current(b).what] \notin unsaved
    BY <1>1, <2>1 DEF Unsaved, Line, KindOf
  <2>2. Current(b).kind = "pure" => Entry(b, answer[b]) \in cache
    BY <1>3, <2>0, <2>1 DEF Persisted
  <2>3. Current(b).kind = "prompt" => \E e \in prompts : e.what = Current(b).what
    BY <1>3, <2>0, <2>1 DEF Persisted, Noticed
  <2>4. /\ Entry(b, answer[b]).id = asked[b] /\ Entry(b, answer[b]).step = Step(b)
        /\ Entry(b, answer[b]).answer = answer[b]
    BY DEF Entry
  <2> QED
    BY <2>1, <2>2, <2>3, <2>4 DEF KindOf
<1> QED
  BY <1>1, <1>2, <1>3, ToldGrows

LEMMA ClosedStep ==
  ASSUME Typed, Past, Served, FailsClosed, [Next]_vars
  PROVE  FailsClosed'
<1>0. \A s : CallOf(s)' = CallOf(s) /\ KindOf(s)' = KindOf(s)
  BY ChainKept, CallKept
<1> SUFFICES ASSUME NEW t \in told', NEW e \in cache',
                    t.run > 1, t.id = e.id, t.answer.ok, KindOf(t.step) = "pure"
             PROVE  e.call = CallOf(t.step) /\ e.answer = t.answer
  BY <1>0 DEF FailsClosed
<1>1. run' > 1 /\ run' # 1
  <2>1. t.run <= run /\ t.run \in Nat /\ run \in Nat
    BY ToldGrows DEF Typed, TypeOK, Past, Runs
  <2> QED
    BY <2>1, RunKept
<1>2. e \in cache
  BY <1>1, RootCache
<1>3. CASE t \in told
  BY <1>2, <1>3 DEF FailsClosed
<1>4. ASSUME NEW b \in Branches, stage[b] = "reply", run' = run,
             t = [run |-> run, step |-> Step(b), id |-> asked[b], answer |-> answer[b]]
      PROVE  e.call = CallOf(t.step) /\ e.answer = t.answer
  <2>1. /\ Active(b) /\ t.step = Step(b) /\ CallOf(t.step) = Current(b) /\ run > 1
        /\ e.id = asked[b] /\ t.answer = answer[b] /\ Current(b).kind = "pure"
    BY <1>1, <1>4, AtStep DEF Active, KindOf
  <2> QED
    BY <1>2, <1>4, <2>1 DEF Served
<1> QED
  BY <1>3, <1>4, ToldGrows

-----------------------------------------------------------------------------
(* Stable ids. *)

LEMMA StepsFinite ==
  ASSUME chain \in Chains
  PROVE  IsFiniteSet(Steps)
<1> DEFINE Of(b) == {<<b, k>> : k \in 1..Len(Script[b])}
           All == {Of(b) : b \in Branches}
<1>1. Script \in Seq(Seq(Call)) /\ Branches = 1..Len(Script) /\ Len(Script) \in Nat
  BY ReplayAssumption DEF ReplayAssumption, Script, Branches
<1>2. ASSUME NEW b \in Branches PROVE IsFiniteSet(Of(b))
  <2> DEFINE f == [k \in 1..Len(Script[b]) |-> <<b, k>>]
  <2>1. f \in Surjection(1..Len(Script[b]), Of(b))
    BY DEF Surjection
  <2>2. IsFiniteSet(1..Len(Script[b]))
    <3>1. Len(Script[b]) \in Int /\ 1 \in Int
      BY ScriptType
    <3> QED
      BY <3>1, FS_Interval
  <2> QED
    BY <2>1, <2>2, FS_Surjection
<1>3. IsFiniteSet(All)
  <2> HIDE DEF Of
  <2> DEFINE g == [b \in Branches |-> Of(b)]
  <2>1. g \in Surjection(Branches, All)
    BY DEF Surjection
  <2>2. IsFiniteSet(Branches)
    BY <1>1, FS_Interval
  <2> QED
    BY <2>1, <2>2, FS_Surjection
<1>4. Steps \subseteq UNION All
  BY ScriptType
<1>5. IsFiniteSet(UNION All)
  <2>1. \A T \in All : IsFiniteSet(T)
    BY <1>2
  <2> QED
    BY <1>3, <2>1, FS_UNION
<1> QED
  BY <1>4, <1>5, FS_Subset

LEMMA RunningFinite ==
  ASSUME chain \in Chains
  PROVE  IsFiniteSet(Running) /\ (Running = {} <=> Cardinality(Running) < 1)
<1>1. Script \in Seq(Seq(Call))
  BY ReplayAssumption DEF ReplayAssumption, Script
<1>2. Branches = 1..Len(Script) /\ Len(Script) \in Int /\ 1 \in Int
  BY <1>1 DEF Branches
<1>3. IsFiniteSet(Branches) /\ Running \subseteq Branches
  BY <1>2, FS_Interval DEF Running
<1>4. IsFiniteSet(Running) /\ Cardinality(Running) \in Nat
  BY <1>3, FS_Subset, FS_CardinalityType
<1> QED
  BY <1>4, FS_EmptySet

LEMMA IdsDiffer ==
  ASSUME chain \in Chains, NEW s \in Steps, NEW t \in Steps, IdOf(s) = IdOf(t)
  PROVE  s = t
<1>1. ASSUME NEW x \in Steps, NEW y \in Steps, Precedes(x, y)
      PROVE  IdOf(x) # IdOf(y)
  <2>1. Before(x) \subseteq Before(y) /\ x \in Before(y) /\ x \notin Before(x)
    BY <1>1, ScriptType DEF Before, Precedes
  <2>2. IsFiniteSet(Before(x)) /\ IsFiniteSet(Before(y))
    BY StepsFinite, FS_Subset DEF Before
  <2>3. Cardinality(Before(x)) # Cardinality(Before(y))
    BY <2>1, <2>2, FS_Subset
  <2> QED
    BY <2>2, <2>3, FS_CardinalityType DEF IdOf
<1>2. Precedes(s, t) \/ Precedes(t, s) \/ s = t
  BY ScriptType DEF Precedes
<1> QED
  BY <1>1, <1>2

LEMMA IdsOfChain ==
  ASSUME chain' = chain
  PROVE  \A s : IdOf(s)' = IdOf(s)
BY DEF IdOf, Before, Steps, StepsOf, Script

LEMMA OrderedStep ==
  ASSUME Typed, Ordered, [Next]_vars, Typed'
  PROVE  Ordered'
<1>0. /\ chain' = chain /\ Branches' = Branches /\ Steps' = Steps /\ Script' = Script
      /\ Branches \subseteq Nat \ {0} /\ at \in [Branches -> Nat \ {0}]
      /\ IsFiniteSet(Sent)
  BY ChainKept, ScriptType, StepsFinite, FS_Subset DEF Typed, TypeOK, Sent
<1> SUFFICES ASSUME Driving'
             PROVE  /\ nextId' = Cardinality(Sent')
                    /\ \A b, c \in Branches : Started(b)' /\ c < b =>
                         Started(c)' /\ (chain.parallel = 1 => Finished(c)')
  BY <1>0 DEF Ordered
<1>1. CASE \E from \in 0..run : Begin(from)
  <2>1. nextId' = 0 /\ \A b \in Branches : at'[b] = 1 /\ stage'[b] = "idle"
    BY <1>1 DEF Begin
  <2>2. Sent' = {}
    BY <1>0, <2>1, ScriptType DEF Sent, Active, Typed
  <2> QED
    BY <1>0, <2>1, <2>2, FS_EmptySet DEF Started
<1>2. ASSUME Driving, nextId' = nextId, at' = at,
             \A b \in Branches : Active(b)' <=> Active(b)
      PROVE  /\ nextId' = Cardinality(Sent')
             /\ \A b, c \in Branches : Started(b)' /\ c < b =>
                  Started(c)' /\ (chain.parallel = 1 => Finished(c)')
  <2>1. Sent' = Sent
    BY <1>0, <1>2, ScriptType DEF Sent, Typed
  <2>2. \A b \in Branches : (Started(b)' <=> Started(b)) /\ (Finished(b)' <=> Finished(b))
    BY <1>0, <1>2 DEF Started, Finished, Active
  <2> QED
    BY <1>0, <1>2, <2>1, <2>2 DEF Ordered
<1>3. ASSUME NEW b \in Branches, Send(b)
      PROVE  /\ nextId' = Cardinality(Sent')
             /\ \A c, d \in Branches : Started(c)' /\ d < c =>
                  Started(d)' /\ (chain.parallel = 1 => Finished(d)')
  <2>0. Driving
    BY <1>3 DEF Send, Driving
  <2>1. Sent' = Sent \cup {Step(b)} /\ Step(b) \notin Sent
    <3>1. /\ stage[b] = "idle" /\ at' = at
          /\ \A c \in Branches : Active(c)' <=> Active(c) \/ c = b
      BY <1>3 DEF Send, Active, Typed, TypeOK
    <3>2. Step(b) \in Steps /\ Step(b)[1] = b /\ Step(b)[2] = at[b]
      <4>1. chain \in Chains /\ at[b] \in Nat \ {0} /\ ~(at[b] > Len(Script[b]))
        BY <1>0, <1>3 DEF Send, Finished, Typed
      <4>2. at[b] \in 1..Len(Script[b])
        BY <4>1, ScriptType
      <4> QED
        BY <4>1, <4>2, ScriptType DEF Step
    <3>3. \A s \in Steps : s[1] = b /\ s[2] = at[b] => s = Step(b)
      BY ScriptType DEF Step, Typed
    <3>4. \A s \in Steps : s[1] \in Branches
      BY ScriptType DEF Typed
    <3>5. \A s \in Steps : s \in Sent' <=> s \in Sent \/ s = Step(b)
      BY <1>0, <3>1, <3>2, <3>3, <3>4 DEF Sent
    <3>6. Sent \subseteq Steps /\ Sent' \subseteq Steps
      BY <1>0 DEF Sent
    <3>7. Step(b) \notin Sent
      BY <1>0, <3>1, <3>2 DEF Sent, Active
    <3> QED
      BY <3>2, <3>5, <3>6, <3>7
  <2>2. nextId' = Cardinality(Sent')
    BY <1>0, <1>3, <2>0, <2>1, FS_AddElement DEF Ordered, Send
  <2>3. /\ at' = at /\ \A c \in Branches : Started(c)' <=> Started(c) \/ c = b
        /\ \A c \in Branches : Finished(c)' <=> Finished(c)
    BY <1>0, <1>3 DEF Send, Started, Finished, Typed, TypeOK
  <2>4. ASSUME ~Started(b), NEW d \in Branches, d < b
        PROVE  Started(d) /\ (chain.parallel = 1 => Finished(d))
    <3>1. Started(d) /\ Cardinality(Running) < chain.parallel
      BY <1>3, <2>4 DEF Send, MayStart
    <3>3. chain.parallel = 1 => Running = {}
      BY <3>1, RunningFinite DEF Typed
    <3> QED
      BY <3>1, <3>3 DEF Running
  <2>5. ASSUME NEW c \in Branches, NEW d \in Branches, Started(c)', d < c
        PROVE  Started(d)' /\ (chain.parallel = 1 => Finished(d)')
    BY <2>0, <2>3, <2>4, <2>5 DEF Ordered
  <2> QED
    BY <2>2, <2>5
<1>4. ASSUME NEW b \in Branches, Handle(b)
      PROVE  /\ Driving /\ nextId' = nextId /\ at' = at
             /\ \A c \in Branches : Active(c)' <=> Active(c)
  <2>1. ending = "raised" => ending' = "raised"
    BY <1>4 DEF Handle, PromptHit, ReplayHit, Drift, Dispatch, CreateOrReattach,
       AwaitCard, Succeeds, Fails, CutShort
  <2> QED
    BY <1>4, <2>1, HandleFrame DEF Driving, Active
<1>5. ASSUME NEW b \in Branches, Deliver(b)
      PROVE  /\ nextId' = Cardinality(Sent')
             /\ \A c, d \in Branches : Started(c)' /\ d < c =>
                  Started(d)' /\ (chain.parallel = 1 => Finished(d)')
  <2>1. /\ Driving /\ nextId' = nextId /\ stage[b] = "reply" /\ stage'[b] = "idle"
        /\ at' = [at EXCEPT ![b] = @ + 1]
        /\ \A c \in Branches \ {b} : stage'[c] = stage[c]
    BY <1>5 DEF Deliver, Driving, Typed, TypeOK
  <2>2. /\ at'[b] = at[b] + 1 /\ \A c \in Branches \ {b} : at'[c] = at[c]
        /\ at[b] \in Nat \ {0}
    BY <1>0, <2>1
  <2>3. Sent' = Sent
    <3>1. \A s \in Steps : s[1] \in Branches /\ s[2] \in Nat
      BY ScriptType DEF Typed
    <3>2. \A s \in Steps : s[1] = b => (s \in Sent' <=> s \in Sent)
      BY <1>0, <2>1, <2>2, <3>1 DEF Sent, Active
    <3>3. \A s \in Steps : s[1] # b => (s \in Sent' <=> s \in Sent)
      BY <1>0, <2>1, <2>2, <3>1 DEF Sent, Active
    <3> QED
      BY <1>0, <3>2, <3>3 DEF Sent
  <2>4. \A c \in Branches : /\ Started(c)' <=> Started(c)
                            /\ Finished(c) => Finished(c)'
    <3>1. Len(Script[b]) \in Nat
      BY ScriptType DEF Typed
    <3> QED
      BY <1>0, <2>1, <2>2, <3>1 DEF Started, Finished
  <2> QED
    BY <2>1, <2>3, <2>4 DEF Ordered
<1>6. ~Finish /\ ~Crash /\ ~CrashInWrite /\ ~CrashInFlush
  BY DEF Finish, Crash, CrashInWrite, CrashInFlush, Over, Die, Driving
<1>7. CASE (\E c \in cards : ResolveCard(c)) \/ UNCHANGED vars
  <2>1. UNCHANGED <<up, ending, nextId, at, stage>>
    BY <1>7 DEF ResolveCard, vars, guest
  <2>2. Driving /\ \A b \in Branches : Active(b)' <=> Active(b)
    BY <2>1 DEF Driving, Active
  <2> QED
    BY <1>2, <2>1, <2>2
<1>8. ASSUME FirstRun \/ \E r \in Runs : Resume(r)
      PROVE  \E from \in 0..run : Begin(from)
  BY <1>8 DEF FirstRun, Resume
<1> QED
  BY <1>1, <1>2, <1>3, <1>4, <1>5, <1>6, <1>7, <1>8 DEF Next

\* Where ids are stable, a branch sends when the steps before its own are sent.
LEMMA InOrder ==
  ASSUME Typed, Ordered, StableIds, NEW b \in Branches, Send(b)
  PROVE  nextId + 1 = IdOf(Step(b))
<1>0. /\ chain \in Chains /\ Branches \subseteq Nat \ {0} /\ at \in [Branches -> Nat \ {0}]
      /\ Driving /\ stage[b] = "idle" /\ at[b] <= Len(Script[b])
      /\ \A c \in Branches : Len(Script[c]) \in Nat \ {0}
      /\ chain.parallel \in Nat \ {0}
  BY ScriptType DEF Typed, TypeOK, Send, Driving, Finished
<1>1. \A s \in Steps : s[1] \in Branches /\ s[2] \in 1..Len(Script[s[1]])
  BY <1>0, ScriptType
<1>2. \A c \in Branches : c < b => Started(c) /\ (chain.parallel = 1 => Finished(c))
  <2>1. CASE Started(b)
    BY <1>0, <2>1 DEF Ordered
  <2>2. CASE ~Started(b)
    <3>1. (\A c \in Branches : c < b => Started(c)) /\ Cardinality(Running) < chain.parallel
      BY <2>2 DEF Send, MayStart
    <3>3. chain.parallel = 1 => Running = {}
      BY <3>1, RunningFinite DEF Typed
    <3> QED
      BY <3>1, <3>3 DEF Running
  <2> QED
    BY <2>1, <2>2
<1>3. \A c \in Branches : b < c => ~Started(c)
  <2> SUFFICES ASSUME NEW c \in Branches, b < c, Started(c) PROVE FALSE
    OBVIOUS
  <2>1. Started(b) /\ (chain.parallel = 1 => Finished(b))
    BY <1>0 DEF Ordered
  <2>2. ~Finished(b)
    BY DEF Send
  <2>3. at[b] > 1
    BY <1>0, <2>1 DEF Started
  <2>4. chain.parallel # 1 /\ Len(Script[b]) # 1
    BY <1>0, <2>1, <2>2, <2>3 DEF Finished
  <2> QED
    BY <2>4 DEF StableIds
<1>4. ASSUME NEW s \in Steps
      PROVE  s \in Sent <=> Precedes(s, Step(b))
  <2> DEFINE c == s[1]
             k == s[2]
  <2>0. c \in Branches /\ k \in Nat /\ 1 <= k /\ k <= Len(Script[c])
    BY <1>0, <1>1
  <2>1. s \in Sent <=> k < at[c] \/ (k = at[c] /\ stage[c] # "idle")
    BY DEF Sent, Active
  <2>2. Precedes(s, Step(b)) <=> c < b \/ (c = b /\ k < at[b])
    BY DEF Precedes, Step
  <2> HIDE DEF c, k
  <2>3. CASE c = b
    BY <1>0, <2>0, <2>1, <2>2, <2>3
  <2>4. CASE b < c
    <3>1. at[c] = 1 /\ stage[c] = "idle"
      BY <1>0, <1>3, <2>0, <2>4 DEF Started
    <3> QED
      BY <1>0, <2>0, <2>1, <2>2, <2>4, <3>1
  <2>5. CASE c < b
    <3>1. Started(c) /\ (chain.parallel = 1 => Finished(c))
      BY <1>2, <2>0, <2>5
    <3>2. CASE chain.parallel = 1
      <4>1. at[c] > Len(Script[c])
        BY <3>1, <3>2 DEF Finished
      <4> QED
        BY <1>0, <2>0, <2>1, <2>2, <2>5, <4>1
    <3>3. CASE chain.parallel # 1
      <4>1. Len(Script[c]) = 1
        BY <2>0, <3>3 DEF StableIds
      <4> QED
        BY <1>0, <2>0, <2>1, <2>2, <2>5, <3>1, <4>1 DEF Started
    <3> QED
      BY <3>2, <3>3
  <2> QED
    BY <1>0, <2>0, <2>3, <2>4, <2>5
<1>5. Sent = Before(Step(b))
  BY <1>4 DEF Sent, Before
<1> QED
  BY <1>0, <1>5 DEF Ordered, IdOf

LEMMA PlacedStep ==
  ASSUME Typed, Past, Ordered, Placed, [Next]_vars
  PROVE  Placed'
<1>0. /\ chain' = chain /\ Branches' = Branches /\ StableIds' = StableIds
      /\ \A s : IdOf(s)' = IdOf(s)
  BY ChainKept, IdsOfChain
<1> SUFFICES ASSUME StableIds
             PROVE  /\ \A b \in Branches : Active(b)' => asked'[b] = IdOf(Step(b)')
                    /\ \A e \in Kept' : e.id = IdOf(e.step)
  BY <1>0 DEF Placed, IdOf, Before, Steps, StepsOf, Script
<1>1. ASSUME NEW b \in Branches, Active(b)'
      PROVE  asked'[b] = IdOf(Step(b)')
  <2>1. CASE Active(b) /\ UNCHANGED <<asked[b], at[b]>>
    BY <1>0, <2>1, StepKept DEF Placed
  <2>2. CASE Send(b)
    <3>1. asked'[b] = nextId + 1 /\ at'[b] = at[b]
      BY <2>2 DEF Send, Typed, TypeOK
    <3> QED
      BY <1>0, <2>2, <3>1, InOrder, StepKept
  <2>3. CASE Handle(b) /\ UNCHANGED <<asked[b], at[b]>>
    BY <1>0, <2>3, HandleFrame, StepKept DEF Placed
  <2> QED
    BY <1>1, <2>1, <2>2, <2>3, OthersKept DEF Active
<1>2. ASSUME NEW e \in Kept'
      PROVE  e.id = IdOf(e.step)
  <2>1. CASE e \in Kept
    BY <2>1 DEF Placed
  <2>2. CASE e \notin Kept
    <3>1. PICK b \in Branches, a \in Answer : stage[b] = "calling" /\ e = Entry(b, a)
      BY <2>2, KeptGrows
    <3> QED
      BY <3>1 DEF Placed, Active, Entry
  <2> QED
    BY <2>1, <2>2
<1> QED
  BY <1>1, <1>2

\* Where ids are stable, what is found under a call's id is the call's own.
LEMMA OwnEntry ==
  ASSUME Typed, Past, Placed, StableIds, NEW b \in Branches, Active(b), NEW e \in cache
  PROVE  /\ e.id = asked[b] <=> e.step = Step(b)
         /\ e.id = asked[b] => e.call = Current(b)
<1>1. e \in Kept /\ e.step \in Steps /\ chain \in Chains
  BY DEF Kept, Typed, TypeOK, Entered
<1>2. e.id = IdOf(e.step) /\ asked[b] = IdOf(Step(b)) /\ Step(b) \in Steps
  BY <1>1, AtStep DEF Placed
<1> QED
  BY <1>1, <1>2, IdsDiffer, AtStep DEF Past

LEMMA AgreesStep ==
  ASSUME Typed, Past, Persisted, Fresh, Unique, Served, Placed, Agrees, [Next]_vars
  PROVE  Agrees'
<1>0. chain' = chain /\ Branches' = Branches /\ StableIds' = StableIds
  BY ChainKept
<1> SUFFICES ASSUME Recording' \/ StableIds, NEW b \in Branches, NEW e \in cache',
                    stage'[b] = "reply", e.step = Step(b)'
             PROVE  e.answer = answer'[b]
  BY <1>0 DEF Agrees
<1>1. \/ e \in cache
      \/ \E c \in Branches, v \in Values : run = 1 /\ Succeeds(c, v)
         /\ e = Entry(c, [ok |-> TRUE, v |-> v])
  <2>1. ~Finish /\ ~CrashInFlush
    BY DEF Finish, CrashInFlush, Die
  <2>2. ASSUME NEW c \in Branches, NEW v \in Values, Succeeds(c, v)
        PROVE  cache' \subseteq cache \cup {Entry(c, [ok |-> TRUE, v |-> v])}
    BY <2>2, Saves
  <2> QED
    BY <2>1, <2>2, StoreKept
<1>2. stage'[b] # "idle"
  OBVIOUS
<1>3. CASE UNCHANGED <<run, stage[b], answer[b], asked[b], at[b]>>
  <2>1. stage[b] = "reply" /\ Step(b)' = Step(b) /\ Active(b)
    BY <1>0, <1>3, StepKept DEF Active
  <2>2. CASE e \in cache
    BY <1>3, <2>1, <2>2 DEF Agrees, Recording
  <2>3. ASSUME NEW c \in Branches, NEW v \in Values, Succeeds(c, v),
               e = Entry(c, [ok |-> TRUE, v |-> v])
        PROVE  FALSE
    <3>1. stage[c] = "calling" /\ e.step = Step(c)
      BY <2>3 DEF Succeeds, Entry
    <3>2. Step(c) = Step(b)
      BY <2>1, <3>1
    <3>3. b = c
      BY <3>2 DEF Step
    <3> QED
      BY <2>1, <3>1, <3>3
  <2> QED
    BY <1>1, <2>2, <2>3
<1>4. CASE Send(b)
  BY <1>4 DEF Send, Typed, TypeOK
<1>5. CASE Handle(b) /\ UNCHANGED <<run, asked[b], at[b]>>
  <2>0. Active(b) /\ Step(b)' = Step(b) /\ e.step = Step(b) /\ stage[b] # "reply" /\ up
    BY <1>0, <1>5, HandleFrame, StepKept
  <2>1. CASE e \in cache
    <3>1. Current(b).kind = "pure" /\ e.call = Current(b) /\ e \in Kept
      BY <2>0, <2>1, AtStep DEF Past, Kept
    <3>2. stage[b] # "calling" /\ (Recording => stage[b] # "sent")
      <4>1. CASE Recording
        <5>1. Step(b)[1] = b /\ Step(b)[2] = at[b] /\ at[b] \in Nat
          BY <2>0, AtStep DEF Typed, TypeOK
        <5> QED
          BY <2>0, <3>1, <4>1, <5>1 DEF Fresh, Active
      <4>2. CASE ~Recording /\ StableIds
        <5>1. e.id = asked[b]
          BY <2>0, <2>1, <4>2, OwnEntry
        <5>2. run > 1
          BY <2>0, <4>2 DEF Recording, Typed, TypeOK
        <5> QED
          BY <2>0, <2>1, <3>1, <4>2, <5>1, <5>2 DEF Served
      <4> QED
        BY <1>5, <4>1, <4>2 DEF Recording
    <3>3. CASE ReplayHit(b)
      <4>1. PICK f \in Entries(b) : Reply(b, f.answer)
        BY <3>3 DEF ReplayHit
      <4>2. ~Recording /\ StableIds /\ f \in cache /\ f.id = asked[b]
        BY <1>5, <4>1 DEF Entries, Recording
      <4>3. e.id = asked[b]
        BY <2>0, <2>1, <4>2, OwnEntry
      <4>4. f = e
        BY <2>1, <4>2, <4>3 DEF Unique, Kept
      <4> QED
        BY <4>1, <4>4 DEF Reply, Typed, TypeOK
    <3>4. ~Drift(b)
      <4> SUFFICES ASSUME Drift(b) PROVE FALSE
        OBVIOUS
      <4>1. PICK f \in Entries(b) : ~Matches(f, b)
        BY DEF Drift
      <4>2. ~Recording /\ StableIds /\ f \in cache /\ f.id = asked[b]
        BY <1>5, <4>1 DEF Entries, Recording
      <4> QED
        BY <2>0, <4>1, <4>2, OwnEntry DEF Matches
    <3>5. ~PromptHit(b) /\ ~AwaitCard(b)
      BY <3>1, PromptHitsAre DEF PromptHit, AwaitCard, Persisted
    <3>6. ~Dispatch(b) /\ ~CreateOrReattach(b)
      BY DEF Dispatch, CreateOrReattach, Typed, TypeOK
    <3>7. ~Fails(b) /\ ~\E v \in Values : Succeeds(b, v)
      BY <3>2 DEF Fails, Succeeds
    <3> QED
      BY <1>5, <3>3, <3>4, <3>5, <3>6, <3>7 DEF Handle
  <2>2. ASSUME NEW c \in Branches, NEW v \in Values, Succeeds(c, v),
               e = Entry(c, [ok |-> TRUE, v |-> v])
        PROVE  e.answer = answer'[b]
    <3>1. e.step = Step(c) /\ e.answer = [ok |-> TRUE, v |-> v]
      BY <2>2 DEF Entry
    <3>2. Step(c) = Step(b)
      BY <2>0, <3>1
    <3>3. b = c
      BY <3>2 DEF Step
    <3> QED
      BY <2>2, <3>1, <3>3 DEF Succeeds, Reply, Typed, TypeOK
  <2> QED
    BY <1>1, <2>1, <2>2
<1> QED
  BY <1>2, <1>3, <1>4, <1>5, OthersKept

LEMMA RedoneStep ==
  ASSUME Typed, Past, ToldIsRecorded, Placed, CompletedNotRedone, [Next]_vars
  PROVE  CompletedNotRedone'
<1>0. /\ StableIds' = StableIds
      /\ \A s : CallOf(s)' = CallOf(s) /\ KindOf(s)' = KindOf(s)
  BY ChainKept, CallKept
<1> SUFFICES ASSUME StableIds, NEW t \in told', NEW d \in effects',
                    t.run = 1, t.answer.ok, ~Unsaved(t)', d.run > 1, d.step = t.step
             PROVE  KindOf(t.step) = "live"
  BY <1>0 DEF CompletedNotRedone
<1>u. ~Unsaved(t)
  BY <1>0, UnsavedKept DEF Unsaved, Line
<1>1. CASE t \in told /\ d \in effects
  BY <1>1, <1>u DEF CompletedNotRedone
<1>2. CASE t \notin told
  <2>1. PICK b \in Branches : Deliver(b) /\ t.run = run
    BY <1>2, ToldGrows
  <2>2. effects' = effects
    BY <2>1 DEF Deliver
  <2> QED
    BY <2>1, <2>2 DEF Past, Typed, TypeOK, Runs
<1>3. CASE t \in told /\ d \notin effects
  <2>1. PICK b \in Branches : Dispatch(b) /\ Active(b)
                              /\ d = [run |-> run, step |-> Step(b)]
    BY <1>3, EffectsGrow
  <2>2. /\ t.step = Step(b) /\ ~Recording /\ Entries(b) = {} /\ PromptHits(b) = {}
        /\ Current(b).kind # "card" /\ Current(b) = CallOf(t.step)
        /\ Current(b) \in Call
    BY <2>1, AtStep DEF Recording, Dispatch, Misses
  <2>3. Current(b).kind # "pure"
    <3> SUFFICES ASSUME Current(b).kind = "pure" PROVE FALSE
      OBVIOUS
    <3>1. PICK e \in cache : e.step = t.step
      BY <1>3, <1>u, <2>2 DEF ToldIsRecorded, KindOf
    <3>2. e.id = asked[b]
      BY <2>1, <2>2, <3>1, OwnEntry
    <3> QED
      BY <2>2, <3>1, <3>2 DEF Entries
  <2>4. Current(b).kind # "prompt"
    <3> SUFFICES ASSUME Current(b).kind = "prompt" PROVE FALSE
      OBVIOUS
    <3>1. \E e \in prompts : e.what = Current(b).what
      BY <1>3, <1>u, <2>2 DEF ToldIsRecorded, KindOf
    <3> QED
      BY <2>2, <3>1, PromptHitsAre
  <2> QED
    BY <2>2, <2>3, <2>4 DEF Call, KindOf
<1> QED
  BY <1>1, <1>2, <1>3

\* Where ids are stable no replayed call is taken for another.
LEMMA DriftStep ==
  ASSUME Typed, Past, Placed, StableIds => NoDrift, [Next]_vars
  PROVE  (StableIds => NoDrift)'
<1> SUFFICES ASSUME StableIds, NoDrift PROVE ending' # "drift"
  BY ChainKept DEF NoDrift
<1>1. ASSUME NEW b \in Branches PROVE ~Drift(b)
  <2> SUFFICES ASSUME Drift(b) PROVE FALSE
    OBVIOUS
  <2>1. Active(b) /\ \E e \in cache : e.id = asked[b] /\ ~Matches(e, b)
    BY DEF Drift, Entries, Active
  <2> QED
    BY <2>1, OwnEntry DEF Matches
<1>2. ASSUME NEW b \in Branches, Handle(b)
      PROVE  ending' # "drift"
  BY <1>1, <1>2 DEF Handle, PromptHit, ReplayHit, Dispatch, CreateOrReattach,
     AwaitCard, Succeeds, Fails, CutShort, NoDrift
<1>3. ASSUME NEW b \in Branches, Send(b) \/ Deliver(b)
      PROVE  ending' # "drift"
  BY <1>3 DEF Send, Deliver, NoDrift
<1>4. CASE FirstRun \/ \E r \in Runs : Resume(r)
  BY <1>4 DEF FirstRun, Resume, Begin
<1> QED
  BY <1>2, <1>3, <1>4 DEF Next, Finish, Crash, CrashInWrite, CrashInFlush, Over, ResolveCard, vars, NoDrift

-----------------------------------------------------------------------------
(* The theorems. *)

IInv ==
  /\ Typed /\ Past /\ Persisted /\ Fresh /\ Unique /\ Served /\ Ordered /\ Placed
  /\ Agrees /\ ToldIsRecorded /\ FailsClosed /\ CompletedNotRedone
  /\ StableIds => NoDrift

LEMMA Inductive == Spec => []IInv
<1>1. Init => IInv
  <2> SUFFICES ASSUME Init PROVE IInv
    OBVIOUS
  <2>1. Typed
    <3>1. chain \in Chains /\ chain.runs \in Nat /\ Failure \in Answer
      BY ScriptType, AnswerType DEF Init
    <3>2. \A b \in Branches : ~Active(b)
      BY DEF Init, Active
    <3>3. TypeOK
      <4>1. /\ status \in Seq({"running", "succeeded", "failed", "suspended"})
            /\ source \in Seq(0..chain.runs)
        BY DEF Init
      <4>2. /\ at \in [Branches -> Nat \ {0}] /\ asked \in [Branches -> Nat]
            /\ stage \in [Branches -> {"idle", "sent", "calling", "waiting", "reply"}]
            /\ answer \in [Branches -> Answer]
        BY <3>1 DEF Init
      <4>3. /\ run = 0 /\ up = FALSE /\ cache = {}
            /\ prompts = {} /\ end = "line" /\ written = {} /\ unsaved = {} /\ cards = {} /\ resolved = {} /\ nextId = 0
            /\ memo = {} /\ buffer = {} /\ ending = "no" /\ told = {} /\ effects = {}
            /\ attached = {}
        BY DEF Init
      <4>4. run \in 0..chain.runs
        BY <3>1, <4>3
      <4> QED
        BY <4>1, <4>2, <4>3, <4>4 DEF TypeOK
    <3>4. up = FALSE
      BY DEF Init
    <3> QED
      BY <3>1, <3>2, <3>3, <3>4 DEF Typed
  <2>2. \A b \in Branches : stage[b] = "idle" /\ at[b] = 1
    BY DEF Init
  <2>3. cache = {} /\ buffer = {} /\ prompts = {} /\ memo = {} /\ told = {} /\ effects = {}
        /\ run = 0 /\ up = FALSE /\ ending = "no" /\ written = {}
    BY DEF Init
  <2> QED
    BY <2>1, <2>2, <2>3 DEF IInv, Past, Persisted, Fresh, Unique, Served, Ordered,
       Placed, Agrees, ToldIsRecorded, FailsClosed, CompletedNotRedone, NoDrift, Kept,
       Active, Driving
<1>2. IInv /\ [Next]_vars => IInv'
  <2> SUFFICES ASSUME IInv, [Next]_vars PROVE IInv'
    OBVIOUS
  <2>1. Typed'
    BY Typing DEF IInv
  <2>2. Past'
    BY <2>1, PastStep DEF IInv
  <2>3. Persisted'
    BY <2>1, <2>2, PersistedStep DEF IInv
  <2>4. Fresh'
    BY <2>1, <2>2, FreshStep DEF IInv
  <2>5. Unique' /\ Served' /\ Ordered' /\ Placed' /\ Agrees'
    BY <2>1, UniqueStep, ServedStep, OrderedStep, PlacedStep, AgreesStep DEF IInv
  <2>6. ToldIsRecorded' /\ FailsClosed' /\ CompletedNotRedone' /\ (StableIds => NoDrift)'
    BY ToldStep, ClosedStep, RedoneStep, DriftStep DEF IInv
  <2> QED
    BY <2>1, <2>2, <2>3, <2>4, <2>5, <2>6 DEF IInv
<1> QED
  BY <1>1, <1>2, PTL DEF Spec

\* The variables stay within their types.
THEOREM TypeCorrect == Spec => []TypeOK
<1>1. IInv => TypeOK
  BY DEF IInv, Typed
<1> QED
  BY <1>1, Inductive, PTL

\* handle persists a success before it answers: what the script of the root run
\* was told of is in the root's cache, whenever the process dies.
THEOREM RecordedBeforeTold == Spec => []ToldIsRecorded
<1>1. IInv => ToldIsRecorded
  BY DEF IInv
<1> QED
  BY <1>1, Inductive, PTL

\* _maybe_replay compares the call before it answers from the cache, and a call is
\* dispatched only if its id has no entry: a success that a resumed run is given
\* under a recorded id is the recorded answer to the same call, in scripts whose
\* ids depend on the schedule too.
THEOREM AnswersOwnCall == Spec => []FailsClosed
<1>1. IInv => FailsClosed
  BY DEF IInv
<1> QED
  BY <1>1, Inductive, PTL

\* The pending-writes guarantee: a replayable step that completed in the root run
\* is dispatched by no run that resumes it, at any distance.
THEOREM CompletedReplays == Spec => []CompletedNotRedone
<1>1. IInv => CompletedNotRedone
  BY DEF IInv
<1> QED
  BY <1>1, Inductive, PTL

\* Where branches run one at a time, or make one call each, the guest's counter
\* gives every step the same id in every run, so no run of the chain aborts with
\* replay_mismatch.
THEOREM StableIdsNeverDrift == Spec => [](StableIds => NoDrift)
<1>1. IInv => (StableIds => NoDrift)
  BY DEF IInv
<1> QED
  BY <1>1, Inductive, PTL

\* The recorder writes no id and no fingerprint twice: what load_cache refuses is
\* only what a crash inside a write has left.
THEOREM OnlyTornIsRefused == Spec => [](end # "corrupt" => Loads)
<1>1. IInv => (end # "corrupt" => Loads)
  BY DEF IInv, Unique, Kept, Loads
<1> QED
  BY <1>1, Inductive, PTL

-----------------------------------------------------------------------------
(* ReplayChain implements StepMemo. *)

\* What the steps recorded by id come to, and what the script is told of them.
Memo == {[step |-> e.step, outcome |-> e.answer] : e \in IF StableIds THEN cache ELSE {}}
Told == {[run |-> t.run, step |-> t.step, outcome |-> t.answer] :
           t \in {u \in told : StableIds /\ KindOf(u.step) = "pure"}}

\* Every entry is of a replayable step, and entries are added one to a step.
LEMMA RecordStep ==
  ASSUME IInv, [Next]_vars, IInv', StableIds
  PROVE  /\ Memo \subseteq Memo'
         /\ Memo' \subseteq [step : PureSteps, outcome : Answer]
         /\ \A m, n \in Memo' : m.step = n.step => m = n
<1>0. StableIds' /\ chain' = chain /\ Steps' = Steps
      /\ \A s : CallOf(s)' = CallOf(s) /\ KindOf(s)' = KindOf(s)
  BY ChainKept, CallKept
<1>1. Memo = {[step |-> e.step, outcome |-> e.answer] : e \in cache}
      /\ Memo' = {[step |-> e.step, outcome |-> e.answer] : e \in cache'}
  BY <1>0 DEF Memo
<1>2. cache \subseteq cache'
  BY RootCache DEF IInv
<1>3. ASSUME NEW e \in cache'
      PROVE  e.step \in PureSteps /\ e.answer \in Answer
  <2>1. e \in Entered' /\ e \in Kept' /\ e.call = CallOf(e.step) /\ e.call.kind = "pure"
    BY <1>0 DEF IInv, Typed, TypeOK, Past, Kept
  <2>2. e.step \in Steps /\ e.answer \in Answer /\ chain \in Chains
    BY <1>0, <2>1 DEF Entered, IInv, Typed
  <2>3. e.step \in {s \in StepsOf(chain.script) :
                      chain.script[s[1]][s[2]].kind = "pure"}
    BY <2>1, <2>2 DEF Steps, Script, CallOf
  <2> QED
    BY <2>2, <2>3 DEF PureSteps
<1>4. \A e, f \in cache' : e.step = f.step => e = f
  BY DEF IInv, Unique, Kept
<1> QED
  BY <1>1, <1>2, <1>3, <1>4

\* Each step of the chain records an outcome, tells one, or does neither.
THEOREM ImplementsMemo == Spec => KeepsPromise
<1>1. Init => Promise!MemoInit
  BY DEF Init, Promise!MemoInit
<1>2. IInv /\ IInv' /\ [Next]_vars =>
        [Promise!Record \/ Promise!Tell]_(Promise!memoVars)
  <2> SUFFICES ASSUME IInv, IInv', [Next]_vars
               PROVE  \/ Promise!Record \/ Promise!Tell
                      \/ UNCHANGED Promise!memoVars
    OBVIOUS
  <2>0. StableIds' = StableIds /\ \A s : KindOf(s)' = KindOf(s)
    BY ChainKept, CallKept
  <2>1. Promise!memoVars = <<Memo, Told>> /\ Promise!memoVars' = <<Memo', Told'>>
    BY DEF Promise!memoVars, Memo, Told
  <2>2. CASE ~StableIds
    <3>1. Memo = {} /\ Told = {} /\ Memo' = {} /\ Told' = {}
      BY <2>0, <2>2 DEF Memo, Told
    <3> QED
      BY <2>1, <3>1
  <2>3. CASE StableIds /\ told' = told
    <3>1. Told' = Told
      BY <2>0, <2>3 DEF Told
    <3> QED
      BY <2>3, <3>1, RecordStep DEF Promise!Record, Memo, Told
  <2>4. CASE StableIds /\ told' # told
    <3>1. PICK b \in Branches :
                 /\ Deliver(b) /\ stage[b] = "reply"
                 /\ told' = told \cup {[run |-> run, step |-> Step(b), id |-> asked[b],
                                        answer |-> answer[b]]}
      BY <2>4, ToldGrows DEF IInv
    <3>2. Memo' = Memo
      BY <2>0, <3>1 DEF Deliver, Memo, disk
    <3> DEFINE t == [run |-> run, step |-> Step(b), outcome |-> answer[b]]
    <3>3. CASE KindOf(Step(b)) # "pure"
      <4>1. Told' = Told
        BY <2>0, <3>1, <3>3 DEF Told
      <4> QED
        BY <2>1, <3>2, <4>1
    <3>4. CASE KindOf(Step(b)) = "pure"
      <4>1. Told' = Told \cup {t}
        BY <2>0, <2>4, <3>1, <3>4 DEF Told
      <4>2. \A m \in Memo : m.step = t.step => m.outcome = t.outcome
        BY <2>4, <3>1 DEF Memo, IInv, Agrees
      <4> HIDE DEF t
      <4>3. /\ \E u \in Told' : Told' = Told \cup {u}
            /\ \A u \in Told' \ Told, m \in Memo : u.step = m.step => u.outcome = m.outcome
        BY <4>1, <4>2
      <4> QED
        BY <3>2, <4>3 DEF Promise!Tell, Memo, Told
    <3> QED
      BY <3>3, <3>4
  <2> QED
    BY <2>2, <2>3, <2>4
<1> QED
  BY <1>1, <1>2, Inductive, PTL DEF Spec, KeepsPromise, Promise!MemoSpec
=============================================================================
