--------------------------- MODULE RunJournalProofs ---------------------------
(***************************************************************************)
(* What the journal of a run says and what it may lose, for both stores, any *)
(* mode, and any calls, refused writes and deaths of the process.            *)
(***************************************************************************)
EXTENDS RunJournal, FiniteSetTheorems, TLAPS

Line == Event \cup {Junk}

-----------------------------------------------------------------------------
(* What a write, or part of one, leaves in the file: lines of the same set. *)

LEMMA PutLines ==
  ASSUME NEW S, Junk \in S, lines \in Seq(S), open => lines # << >>, NEW text \in Seq(S)
  PROVE  /\ Put(text) \in Seq(S)
         /\ lines # << >> \/ text # << >> => Put(text) # << >>
  <1>1. CASE ~(open /\ text # << >>)
    <2>1. Put(text) = lines \o text
      BY <1>1 DEF Put
    <2> QED BY <2>1
  <1>2. CASE open /\ text # << >>
    <2> DEFINE front == Front(lines)
               rest == Tail(text)
    <2>1. Len(lines) \in Nat /\ Len(lines) > 0 /\ Len(text) > 0
      BY <1>2
    <2>2. front \in Seq(S) /\ Len(front) = Len(lines) - 1
      <3>1. front = [k \in 1..Len(lines) - 1 |-> lines[k]]
        BY <2>1 DEF Front
      <3>2. \A k \in 1..Len(lines) - 1 : lines[k] \in S
        BY <2>1
      <3> QED BY <2>1, <3>1, <3>2
    <2>3. rest \in Seq(S)
      BY <2>1
    <2>4. Put(text) = front \o <<Junk>> \o rest
      BY <1>2 DEF Put
    <2> HIDE DEF front, rest
    <2> DEFINE head == front \o <<Junk>>
    <2>5. head \in Seq(S) /\ Len(head) > 0
      BY <2>1, <2>2
    <2> HIDE DEF head
    <2>6. head \o rest \in Seq(S) /\ Len(head \o rest) > 0
      BY <2>3, <2>5
    <2>7. Put(text) = head \o rest
      BY <2>4 DEF head
    <2> QED BY <2>6, <2>7
  <1> QED BY <1>1, <1>2

LEMMA Writes ==
  ASSUME NEW S, Junk \in S, lines \in Seq(S), open \in BOOLEAN, open => lines # << >>,
         NEW text \in Seq(S), WriteLines(text) \/ WriteStops(text)
  PROVE  lines' \in Seq(S) /\ open' \in BOOLEAN /\ (open' => lines' # << >>)
  <1>1. CASE WriteLines(text)
    BY <1>1, PutLines DEF WriteLines
  <1>2. CASE WriteStops(text) /\ ~File
    <2>1. PICK d \in SqlitePartial : lines' = d.lines /\ open' = d.open
      BY <1>2 DEF WriteStops
    <2>2. d = [lines |-> lines, open |-> FALSE]
      BY <2>1 DEF SqlitePartial
    <2> QED BY <2>1, <2>2
  <1>3. ASSUME NEW k \in 0..Len(text), lines' = Put(SubSeq(text, 1, k)), open' = (open /\ k = 0)
        PROVE  lines' \in Seq(S) /\ open' \in BOOLEAN /\ (open' => lines' # << >>)
    <2>1. SubSeq(text, 1, k) \in Seq(S)
      BY <1>3
    <2> QED BY <1>3, <2>1, PutLines
  <1>4. ASSUME NEW k \in DOMAIN text, NEW l \in {Junk, text[k]},
               lines' = Put(Append(SubSeq(text, 1, k - 1), l)), open' = TRUE
        PROVE  lines' \in Seq(S) /\ open' \in BOOLEAN /\ (open' => lines' # << >>)
    <2>1. l \in S /\ k - 1 \in 0..Len(text)
      BY <1>4
    <2>2. SubSeq(text, 1, k - 1) \in Seq(S)
      BY <2>1
    <2> DEFINE t == SubSeq(text, 1, k - 1)
    <2>3. t \in Seq(S) /\ lines' = Put(Append(t, l))
      BY <1>4, <2>2
    <2> HIDE DEF t
    <2>4. Append(t, l) \in Seq(S) /\ Append(t, l) # << >>
      BY <2>1, <2>3
    <2> QED BY <1>4, <2>3, <2>4, PutLines
  <1>5. CASE WriteStops(text) /\ File
    <2>1. PICK d \in FilePartial(text) : lines' = d.lines /\ open' = d.open
      BY <1>5 DEF WriteStops
    <2>2. \/ \E k \in 0..Len(text) : lines' = Put(SubSeq(text, 1, k)) /\ open' = (open /\ k = 0)
          \/ \E k \in DOMAIN text : \E l \in {Junk, text[k]} :
               lines' = Put(Append(SubSeq(text, 1, k - 1), l)) /\ open' = TRUE
      BY <2>1 DEF FilePartial
    <2> QED BY <1>3, <1>4, <2>2
  <1> QED BY <1>1, <1>2, <1>5

-----------------------------------------------------------------------------
(* What an append leaves in the file and in the buffer. *)

\* The file and the buffer hold lines of S only.
Within(S) ==
  /\ lines \in Seq(S) /\ buffer \in Seq(S \cap Event)
  /\ open \in BOOLEAN /\ (open => lines # << >>)

LEMMA Wider ==
  ASSUME NEW S, NEW s \in Seq(S \cap Event)
  PROVE  s \in Seq(S) /\ s \in Seq(Event)
  OBVIOUS

LEMMA Appends ==
  ASSUME NEW S, Junk \in S, Within(S), NEW e \in S \cap Event,
         AppendEvent(e) \/ AppendRaises(e)
  PROVE  Within(S)'
  <1>1. Pending(e) \in Seq(S \cap Event) /\ Pending(e) \in Seq(S)
    BY DEF Pending, Within
  <1>2. << >> \in Seq(S \cap Event)
    OBVIOUS
  <1>3. CASE AppendEvent(e)
    <2>1. CASE Due
      BY <1>1, <1>2, <1>3, <2>1, Writes DEF AppendEvent, Within, Flushed
    <2>2. CASE ~Due
      BY <1>1, <1>3, <2>2 DEF AppendEvent, Within
    <2> QED BY <2>1, <2>2
  <1>4. CASE AppendRaises(e)
    <2>1. WriteStops(Pending(e)) /\ buffer' \in {buffer, Pending(e)}
      BY <1>4 DEF AppendRaises, WriteRefused
    <2> QED BY <1>1, <2>1, Writes DEF Within
  <1> QED BY <1>3, <1>4

LEMMA Flushes ==
  ASSUME NEW S, Junk \in S, Within(S), Flush \/ FlushFails
  PROVE  Within(S)'
  <1>1. LeftToFlush \in Seq(S) /\ << >> \in Seq(S \cap Event)
    BY Wider DEF LeftToFlush, Within
  <1>2. CASE Flush
    BY <1>1, <1>2, Writes DEF Flush, Within, Flushed
  <1>3. CASE FlushFails
    BY <1>1, <1>3, Writes DEF FlushFails, WriteRefused, Within
  <1> QED BY <1>2, <1>3

-----------------------------------------------------------------------------
(* Types. *)

Rest ==
  /\ setup \in Setups
  /\ at \in {"free", "claimed", "described", "driving", "ended", "closing", "flushing",
             "finished", "raised", "stuck", "dead"}
  /\ {exists, torn} \subseteq BOOLEAN /\ status \in {"none", "running", "over"}
  /\ given \in Seq(Event) /\ noted \subseteq Event
  /\ stage \in [Calls -> {"new", "ran", "recorded", "noted", "replied", "lost"}]
  /\ cache \cup unsaved \cup ok \subseteq Calls /\ end \in {"line", "entry", "corrupt"}
  /\ begins \in Nat /\ finishes \in 0..MaxFinishes /\ faults \in 0..MaxFaults
  /\ end # "line" => at = "dead" \/ unsaved # {}

\* A success is noted only of what was recorded, or could not be.
Truthful == {l \in Line : l.kind = "ok" => l.of \in cache \cup unsaved}

Told ==
  /\ Within(Truthful)
  /\ \A c \in Calls :
       /\ stage[c] = "new" => c \notin ok
       /\ stage[c] = "ran" => c \in ok
       /\ stage[c] = "recorded" /\ c \in ok => c \in cache \cup unsaved

Inv == Rest /\ Told

LEMMA Junks == Junk \in Line /\ Junk \in Truthful /\ Truthful \subseteq Line
  BY DEF Junk, Line, Truthful

LEMMA InitInv == Init => Inv
  <1> SUFFICES ASSUME Init PROVE Inv
    OBVIOUS
  <1>1. << >> \in Seq(Truthful) /\ << >> \in Seq(Truthful \cap Event) /\ << >> \in Seq(Event)
    OBVIOUS
  <1>2. 0 \in 0..MaxFinishes /\ 0 \in 0..MaxFaults
    BY JournalAssumption DEF JournalAssumption
  <1>3. Within(Truthful)
    BY <1>1 DEF Init, Within
  <1>4. Rest
    BY <1>1, <1>2 DEF Init, Rest
  <1> QED BY <1>3, <1>4 DEF Init, Inv, Told

\* The events of a run are truthful when they are appended.
LEMMA Appended ==
  ASSUME Inv
  PROVE  /\ Boot \in Truthful \cap Event
         /\ Done \in Truthful \cap Event
         /\ \A c \in Calls : Notable(c) => CallEvent(c) \in Truthful \cap Event
  <1>1. Boot \in Truthful \cap Event
    BY DEF Inv, Rest, Boot, Truthful, Line, Event
  <1>3. Done \in Truthful \cap Event
    BY DEF Inv, Rest, Done, Truthful, Line, Event
  <1>4. ASSUME NEW c \in Calls, Notable(c) PROVE CallEvent(c) \in Truthful \cap Event
    BY <1>4 DEF Inv, Rest, Told, CallEvent, Notable, Truthful, Line, Event
  <1> QED BY <1>1, <1>3, <1>4

\* What an append changes besides the file and the buffer.
LEMMA Gives ==
  ASSUME Rest, NEW e \in Event, AppendEvent(e) \/ AppendRaises(e)
  PROVE  /\ given' \in Seq(Event) /\ noted' \subseteq Event
         /\ faults' \in 0..MaxFaults /\ torn' \in BOOLEAN
  <1>1. CASE AppendEvent(e)
    BY <1>1 DEF AppendEvent, Give, Rest
  <1>2. CASE AppendRaises(e)
    <2>1. faults' \in 0..MaxFaults /\ torn' \in BOOLEAN
      BY <1>2, JournalAssumption DEF AppendRaises, WriteRefused, Refuse, Rest, JournalAssumption
    <2> QED BY <1>2, <2>1 DEF AppendRaises, Give, Rest
  <1> QED BY <1>1, <1>2

\* What a begin leaves whose clean-up was refused.
Leaves(text) ==
  \/ lines' = << >> /\ open' = FALSE
  \/ UNCHANGED <<lines, open>>
  \/ text # << >> /\ WriteStops(text)

Stuck ==
  /\ at' = "stuck" /\ faults' \in faults..MaxFaults
  /\ \E text \in {<< >>, Pending(Boot)} : Leaves(text)
  /\ torn' = (torn \/ lines' # lines) /\ noted' = {}
  /\ given' \in {given, Append(given, Boot)} /\ status' \in {status, "none"}
  /\ UNCHANGED <<beginRest, exists, begins>>

LEMMA BootFails ==
  ASSUME Rest, FileDescribeFails \/ FileBootFails \/ SqliteBootFails
  PROVE  (CleanUp /\ faults' \in faults..MaxFaults) \/ Stuck
  <1>0. faults \in Nat /\ MaxFaults \in Nat /\ faults <= MaxFaults
    BY JournalAssumption DEF JournalAssumption, Rest
  <1>1. Refuse => faults' \in faults..MaxFaults
    BY <1>0 DEF Refuse
  <1>2. faults + 2 <= MaxFaults /\ faults' = faults + 2 => faults' \in faults..MaxFaults
    BY <1>0
  <1>3. Pending(Boot) # << >>
    BY DEF Pending
  <1>4. ASSUME CleanUpFails(Kept), UNCHANGED status, given' \in {given, Append(given, Boot)}
        PROVE  Stuck
    <2>1. Leaves(<< >>)
      BY <1>4 DEF CleanUpFails, Kept, Leaves
    <2> QED BY <1>2, <1>4, <2>1 DEF CleanUpFails, Stuck
  <1>5. CASE FileDescribeFails
    BY <1>1, <1>4, <1>5 DEF FileDescribeFails
  <1>6. CASE SqliteBootFails
    BY <1>1, <1>2, <1>4, <1>6 DEF SqliteBootFails, Give
  <1>7. CASE FileBootFails
    <2>1. CASE Refuse /\ CleanUp
      BY <1>1, <2>1
    <2>2. CASE CleanUpFails(FilePartial(Pending(Boot)) \cup {[lines |-> << >>, open |-> FALSE]})
               /\ status' \in {status, "none"} /\ Give(Boot)
      <3>1. Leaves(Pending(Boot))
        <4>1. PICK d \in FilePartial(Pending(Boot)) \cup {[lines |-> << >>, open |-> FALSE]} :
                lines' = d.lines /\ open' = d.open
          BY <2>2 DEF CleanUpFails
        <4>2. CASE d \in FilePartial(Pending(Boot))
          <5>1. WriteStops(Pending(Boot))
            BY <1>7, <4>1, <4>2 DEF WriteStops, FileBootFails
          <5> QED BY <1>3, <5>1 DEF Leaves
        <4>3. CASE d = [lines |-> << >>, open |-> FALSE]
          BY <4>1, <4>3 DEF Leaves
        <4> QED BY <4>1, <4>2, <4>3
      <3> HIDE DEF FilePartial
      <3> QED BY <1>2, <2>2, <3>1 DEF CleanUpFails, Stuck, Give
    <2> QED BY <1>7, <2>1, <2>2 DEF FileBootFails
  <1> QED BY <1>5, <1>6, <1>7

LEMMA BeginStep == Inv /\ Begin => Inv'
  <1> SUFFICES ASSUME Inv, Begin PROVE Inv'
    OBVIOUS
  <1>0. Truthful' = Truthful /\ (Within(Truthful)' => Told')
    BY DEF Begin, FileClaim, FileDescribe, SqliteDescribe, AppendBoot, FileDescribeFails,
           FileBootFails, SqliteBootFails, CleanUp, CleanUpFails, beginRest, calls,
           Truthful, Told, Inv
  <1>1. CASE FileClaim \/ FileDescribe \/ SqliteDescribe
    <2>1. Within(Truthful)'
      BY <1>0, <1>1 DEF FileClaim, FileDescribe, SqliteDescribe, Within, Inv, Told
    <2>2. Rest'
      <3>1. CASE FileClaim
        BY <3>1 DEF FileClaim, beginRest, calls, Inv, Rest
      <3>2. CASE FileDescribe
        BY <3>2 DEF FileDescribe, beginRest, calls, Inv, Rest
      <3>3. CASE SqliteDescribe
        BY <3>3 DEF SqliteDescribe, beginRest, calls, Inv, Rest
      <3> QED BY <1>1, <3>1, <3>2, <3>3
    <2> QED BY <1>0, <2>1, <2>2 DEF Inv
  <1>2. CASE AppendBoot
    <2>1. Boot \in Truthful \cap Event /\ AppendEvent(Boot)
      BY <1>2, Appended DEF AppendBoot
    <2>2. Within(Truthful)'
      BY <1>0, <2>1, Appends, Junks DEF Inv, Told
    <2>3. Rest'
      BY <1>2, <2>1, Gives DEF AppendBoot, beginRest, calls, Inv, Rest
    <2> QED BY <1>0, <2>2, <2>3 DEF Inv
  <1>3. CASE FileDescribeFails \/ FileBootFails \/ SqliteBootFails
    <2>1. /\ buffer' \in {buffer, Pending(Boot), << >>} /\ at # "dead"
          /\ \/ CleanUp /\ faults' \in faults..MaxFaults
             \/ Stuck
      <3>1. buffer' \in {buffer, Pending(Boot), << >>} /\ at # "dead"
        BY <1>3 DEF FileDescribeFails, FileBootFails, SqliteBootFails, LeftBuffered
      <3>2. \/ CleanUp /\ faults' \in faults..MaxFaults
            \/ Stuck
        BY <1>3, BootFails DEF Inv
      <3> QED BY <3>1, <3>2
    <2>2. Boot \in Truthful \cap Event /\ buffer \in Seq(Truthful \cap Event)
      BY Appended DEF Inv, Told, Within
    <2>3. buffer' \in Seq(Truthful \cap Event)
      <3>1. Pending(Boot) \in Seq(Truthful \cap Event) /\ << >> \in Seq(Truthful \cap Event)
        BY <2>2 DEF Pending
      <3> QED BY <2>1, <2>2, <3>1
    <2>4. Within(Truthful)'
      <3>1. CASE CleanUp
        <4>1. lines' = << >> /\ open' = FALSE /\ << >> \in Seq(Truthful)
          BY <3>1 DEF CleanUp
        <4> QED BY <1>0, <2>3, <4>1 DEF Within
      <3>2. CASE Stuck
        <4>1. PICK text \in {<< >>, Pending(Boot)} : Leaves(text)
          BY <3>2 DEF Stuck
        <4>2. CASE lines' = << >> /\ open' = FALSE
          <5>1. << >> \in Seq(Truthful)
            OBVIOUS
          <5> QED BY <1>0, <2>3, <4>2, <5>1 DEF Within
        <4>3. CASE WriteStops(Pending(Boot))
          <5>1. Pending(Boot) \in Seq(Truthful)
            BY <2>2 DEF Pending
          <5> QED BY <1>0, <2>3, <4>3, <5>1, Writes, Junks DEF Within, Inv, Told
        <4>4. CASE UNCHANGED <<lines, open>>
          BY <1>0, <2>3, <4>4 DEF Within, Inv, Told
        <4> QED BY <4>1, <4>2, <4>3, <4>4 DEF Leaves
      <3> QED BY <2>1, <3>1, <3>2
    <2>5. Rest'
      <3>1. CASE CleanUp
        <4>1. faults' \in 0..MaxFaults /\ << >> \in Seq(Event)
          BY <2>1, <3>1, JournalAssumption DEF Inv, Rest, JournalAssumption, CleanUp, Stuck
        <4> QED BY <2>1, <3>1, <4>1 DEF CleanUp, beginRest, calls, Inv, Rest
      <3>2. CASE Stuck
        <4>1. faults' \in 0..MaxFaults
          BY <3>2, JournalAssumption DEF Inv, Rest, JournalAssumption, Stuck
        <4>2. given' \in Seq(Event)
          BY <2>2, <3>2 DEF Inv, Rest, Stuck
        <4>3. torn' \in BOOLEAN /\ noted' \subseteq Event /\ status' \in {"none", "running", "over"}
          BY <3>2 DEF Inv, Rest, Stuck
        <4> QED BY <2>1, <3>2, <4>1, <4>2, <4>3 DEF Stuck, beginRest, calls, Inv, Rest
      <3> QED BY <2>1, <3>1, <3>2
    <2> QED BY <1>0, <2>4, <2>5 DEF Inv
  <1> QED BY <1>1, <1>2, <1>3 DEF Begin

LEMMA CallStep ==
  ASSUME Inv, NEW c \in Calls, Call(c)
  PROVE  Inv'
  <1>0. /\ Rest /\ Told
        /\ stage \in [Calls -> {"new", "ran", "recorded", "noted", "replied", "lost"}]
    BY DEF Inv, Rest
  <1>1. CASE Succeed(c) \/ Deny(c)
    <2>1. Truthful' = Truthful /\ Within(Truthful)'
      BY <1>0, <1>1 DEF Succeed, Deny, Truthful, Told, Within, callRest, journal
    <2>2. Told'
      BY <1>0, <1>1, <2>1 DEF Succeed, Deny, Serve, Goto, Told
    <2>3. Rest'
      <3>1. CASE Succeed(c)
        BY <1>0, <3>1 DEF Succeed, Goto, callRest, journal, Rest
      <3>2. CASE Deny(c)
        BY <1>0, <3>2 DEF Deny, Goto, callRest, journal, Rest
      <3> QED BY <1>1, <3>1, <3>2
    <2> QED BY <2>2, <2>3 DEF Inv
  <1>2. CASE RecordCall(c) \/ RecordFails(c)
    <2>1. /\ \E to \in {"recorded", "replied"} : stage' = [stage EXCEPT ![c] = to]
          /\ ok' = ok /\ at # "dead"
          /\ cache \cup unsaved \cup {c} = cache' \cup unsaved'
          /\ UNCHANGED <<callRest, journal>>
      BY <1>2 DEF RecordCall, RecordFails, RecordStops, Recordable, Recorded, Serve, Unlocked,
                  Goto
    <2>2. Truthful \subseteq Truthful'
      BY <2>1 DEF Truthful
    <2>3. Within(Truthful)'
      <3>1. lines \in Seq(Truthful) /\ buffer \in Seq(Truthful \cap Event)
        BY <1>0 DEF Told, Within
      <3>2. lines \in Seq(Truthful') /\ buffer \in Seq(Truthful' \cap Event)
        BY <2>2, <3>1
      <3> QED BY <1>0, <2>1, <3>2 DEF Within, Told, journal
    <2>4. Told'
      BY <1>0, <2>1, <2>3 DEF Told
    <2>5. Rest'
      <3>1. faults' \in 0..MaxFaults
        BY <1>0, <1>2, JournalAssumption
           DEF RecordCall, RecordFails, Refuse, Rest, JournalAssumption
      <3>2. /\ end' \in {"line", "entry", "corrupt"}
            /\ end' # "line" => at' = "dead" \/ unsaved' # {}
        BY <1>0, <1>2, <2>1 DEF RecordCall, RecordFails, RecordStops, Ended, Rest
      <3> QED BY <1>0, <2>1, <3>1, <3>2 DEF callRest, journal, Rest
    <2> QED BY <2>4, <2>5 DEF Inv
  <1>3. CASE NoteCall(c) \/ NoteFails(c)
    <2>1. /\ Notable(c) /\ (AppendEvent(CallEvent(c)) \/ AppendRaises(CallEvent(c)))
          /\ UNCHANGED <<callRest, ok, cache, end, unsaved>>
          /\ \E to \in {"replied", "noted", "lost"} : stage' = [stage EXCEPT ![c] = to]
      BY <1>3 DEF NoteCall, NoteFails, Goto
    <2>2. CallEvent(c) \in Truthful \cap Event /\ Truthful' = Truthful
      BY <2>1, Appended DEF Truthful
    <2>3. Within(Truthful)'
      BY <1>0, <1>3, <2>2, Appends, Junks DEF NoteCall, NoteFails, Told
    <2>4. Told'
      BY <1>0, <2>1, <2>3 DEF Told
    <2>5. Rest'
      <3>1. /\ given' \in Seq(Event) /\ noted' \subseteq Event
            /\ faults' \in 0..MaxFaults /\ torn' \in BOOLEAN
        BY <1>0, <1>3, <2>2, Gives DEF NoteCall, NoteFails
      <3> QED BY <1>0, <2>1, <3>1 DEF callRest, Rest
    <2> QED BY <2>4, <2>5 DEF Inv
  <1>4. CASE DieRecording(c)
    <2>1. /\ ok' = ok /\ stage' = stage /\ buffer' = << >> /\ at' = "dead"
          /\ cache \cup unsaved \subseteq cache' \cup unsaved'
          /\ UNCHANGED <<dieRest, lines, open, given>>
      BY <1>4 DEF DieRecording, RecordStops, dieRest
    <2>2. Truthful \subseteq Truthful' /\ << >> \in Seq(Truthful' \cap Event)
      BY <2>1 DEF Truthful
    <2>3. Within(Truthful)'
      <3>1. lines \in Seq(Truthful)
        BY <1>0 DEF Told, Within
      <3>2. lines \in Seq(Truthful')
        BY <2>2, <3>1
      <3> QED BY <1>0, <2>1, <2>2, <3>2 DEF Within, Told
    <2>4. Told'
      BY <1>0, <2>1, <2>3 DEF Told
    <2>5. Rest'
      <3>1. /\ end' \in {"line", "entry", "corrupt"} /\ cache' \subseteq cache \cup {c}
        BY <1>0, <1>4 DEF DieRecording, RecordStops, Ended, Rest
      <3> QED BY <1>0, <2>1, <3>1 DEF dieRest, Rest
    <2> QED BY <2>4, <2>5 DEF Inv
  <1> QED BY <1>1, <1>2, <1>3, <1>4 DEF Call

LEMMA FinishStep == Inv /\ Finish => Inv'
  <1> SUFFICES ASSUME Inv, Finish PROVE Inv'
    OBVIOUS
  <1>0. Rest /\ Told
    BY DEF Inv
  <1>a. Truthful' = Truthful /\ (Within(Truthful)' => Told')
    BY DEF Finish, End, WriteStatus, WriteStatusFails, AppendDone, AppendDoneFails, Flush,
           FlushFails, finishRest, calls, Truthful, Told, Inv
  <1>1. CASE End \/ WriteStatus \/ WriteStatusFails
    <2>1. Within(Truthful)'
      BY <1>0, <1>1, <1>a DEF End, WriteStatus, WriteStatusFails, Within, Told
    <2>2. /\ UNCHANGED <<finishRest, given, noted, torn>>
          /\ status' \in {status, "over"} /\ at' \in {"ended", "closing", "raised"}
          /\ finishes' \in {finishes, finishes + 1} /\ finishes' <= MaxFinishes
          /\ faults' \in 0..MaxFaults /\ at # "dead"
      BY <1>0, <1>1, JournalAssumption
         DEF End, WriteStatus, WriteStatusFails, Refuse, Rest, JournalAssumption
    <2>3. Rest'
      BY <1>0, <2>2, JournalAssumption DEF finishRest, calls, Rest, JournalAssumption
    <2> QED BY <1>a, <2>1, <2>3 DEF Inv
  <1>2. CASE AppendDone \/ AppendDoneFails
    <2>1. Done \in Truthful \cap Event /\ (AppendEvent(Done) \/ AppendRaises(Done))
      BY <1>2, Appended DEF AppendDone, AppendDoneFails
    <2>2. Within(Truthful)'
      BY <1>0, <1>a, <2>1, Appends, Junks DEF Told
    <2>3. UNCHANGED <<finishRest, status, finishes>> /\ at' \in {"flushing", "raised"} /\ at # "dead"
      BY <1>2 DEF AppendDone, AppendDoneFails
    <2>4. Rest'
      BY <1>0, <2>1, <2>3, Gives DEF finishRest, calls, Rest
    <2> QED BY <1>a, <2>2, <2>4 DEF Inv
  <1>3. CASE Flush \/ FlushFails
    <2>1. Within(Truthful)'
      BY <1>0, <1>3, <1>a, Flushes, Junks DEF Told
    <2>2. /\ UNCHANGED <<finishRest, status, finishes, given, noted>>
          /\ at' \in {"finished", "raised"} /\ faults' \in 0..MaxFaults /\ torn' \in BOOLEAN
          /\ at # "dead"
      <3>1. CASE Flush
        BY <1>0, <3>1 DEF Flush, Rest
      <3>2. CASE FlushFails
        <4>1. faults' \in 0..MaxFaults /\ torn' \in BOOLEAN
          BY <1>0, <3>2, JournalAssumption
             DEF FlushFails, WriteRefused, Refuse, Rest, JournalAssumption
        <4> QED BY <3>2, <4>1 DEF FlushFails
      <3> QED BY <1>3, <3>1, <3>2
    <2>3. Rest'
      BY <1>0, <2>2 DEF finishRest, calls, Rest
    <2> QED BY <1>a, <2>1, <2>3 DEF Inv
  <1> QED BY <1>1, <1>2, <1>3 DEF Finish

LEMMA DieStep == Inv /\ (Die \/ DieWriting) => Inv'
  <1> SUFFICES ASSUME Inv, Die \/ DieWriting PROVE Inv'
    OBVIOUS
  <1>0. Rest /\ Told
    BY DEF Inv
  <1>a. Truthful' = Truthful /\ (Within(Truthful)' => Told') /\ buffer' = << >> /\ at' = "dead"
    BY DEF Die, DieWriting, dieRest, Truthful, Told, Inv
  <1>b. << >> \in Seq(Truthful \cap Event)
    OBVIOUS
  <1>1. CASE Die
    <2>1. Within(Truthful)'
      BY <1>0, <1>1, <1>a, <1>b DEF Die, Within, Told
    <2>2. Rest'
      BY <1>0, <1>1 DEF Die, dieRest, Rest
    <2> QED BY <1>a, <2>1, <2>2 DEF Inv
  <1>2. CASE DieWriting
    <2>1. Upcoming \subseteq Truthful \cap Event
      BY Appended DEF Upcoming
    <2>2. /\ \E text \in Seq(Truthful \cap Event) : WriteStops(text)
          /\ given' \in Seq(Event)
      <3>1. CASE at = "flushing" /\ WriteStops(buffer) /\ UNCHANGED given
        BY <1>0, <3>1 DEF Told, Within, Rest
      <3>2. ASSUME NEW e \in Upcoming, WriteStops(Pending(e)), Give(e)
            PROVE  /\ \E text \in Seq(Truthful \cap Event) : WriteStops(text)
                   /\ given' \in Seq(Event)
        <4>1. Pending(e) \in Seq(Truthful \cap Event)
          BY <1>0, <2>1 DEF Told, Within, Pending
        <4> QED BY <1>0, <2>1, <3>2, <4>1 DEF Give, Rest
      <3> QED BY <1>2, <3>1, <3>2 DEF DieWriting
    <2>3. PICK text \in Seq(Truthful \cap Event) : WriteStops(text)
      BY <2>2
    <2>4. Within(Truthful)'
      <3>1. text \in Seq(Truthful)
        BY <2>3
      <3> QED BY <1>0, <1>a, <1>b, <2>3, <3>1, Writes, Junks DEF Within, Told
    <2>5. Rest'
      BY <1>0, <1>2, <2>2 DEF DieWriting, dieRest, Rest
    <2> QED BY <1>a, <2>4, <2>5 DEF Inv
  <1> QED BY <1>1, <1>2

LEMMA Invariant == Spec => []Inv
  <1>1. UNCHANGED vars /\ Inv => Inv'
    BY DEF vars, disk, Inv, Rest, Told, Truthful, Within
  <1>2. Inv /\ [Next]_vars => Inv'
    BY <1>1, BeginStep, CallStep, FinishStep, DieStep DEF Next
  <1> QED BY InitInv, <1>2, PTL DEF Spec

\* The file or table, the buffer and the run's progress keep their types, in every
\* mode, whatever is refused half way and wherever the process dies.
THEOREM TypeCorrect == Spec => []TypeOK
  <1>1. Inv => TypeOK
    <2> SUFFICES ASSUME Inv PROVE TypeOK
      OBVIOUS
    <2>1. lines \in Seq(Truthful) /\ buffer \in Seq(Truthful \cap Event) /\ open \in BOOLEAN
      BY DEF Inv, Told, Within
    <2>2. lines \in Seq(Event \cup {Junk}) /\ buffer \in Seq(Event)
      BY <2>1, Junks DEF Line
    <2> QED BY <2>1, <2>2 DEF Inv, Rest, TypeOK
  <1> QED BY Invariant, <1>1, PTL

\* No line on disk says that a call succeeded unless the call was recorded for a
\* replay, or its cache line was refused: broker threads record, then note, and a
\* write keeps to what was noted wherever it is cut off. What load_cache refuses
\* comes of a cache write that was refused, or of the death of the process.
THEOREM NotesAreReplayable == Spec => []NotedIsReplayable
  <1>1. Inv => NotedIsReplayable
    BY DEF Inv, Rest, Told, Within, Truthful, NotedIsReplayable, Stored, ToSet
  <1> QED BY Invariant, <1>1, PTL

-----------------------------------------------------------------------------
(* The crash window. *)

\* Nothing more happens in the run: its process is gone, or begin gave it up.
Dead == at \in {"dead", "stuck"}

\* Where in the buffer an event may be that is noted and not on disk.
Recent == {i \in DOMAIN buffer : i <= Window}
Unwritten == noted \ Stored

\* While the process lives, what was noted is on disk or among the first lines of
\* the buffer, and the file ends in a whole line.
Near ==
  ~torn /\ Mode # "exit" /\ ~Dead =>
    Unwritten \subseteq {buffer[i] : i \in Recent} /\ ~open

LEMMA Windows == ASSUME Rest PROVE Window \in Nat
  BY JournalAssumption DEF JournalAssumption, Rest, Window, Mode

\* So many lines of the buffer hold no more events than that.
LEMMA RecentBounded ==
  ASSUME Inv, NEW S, S \subseteq {buffer[i] : i \in Recent}
  PROVE  IsFiniteSet(S) /\ Cardinality(S) <= Window
  <1> DEFINE T == {buffer[i] : i \in Recent}
             f == [i \in Recent |-> buffer[i]]
  <1>1. Window \in Nat /\ Recent \subseteq 1..Window /\ buffer \in Seq(Event)
    BY Windows, Wider DEF Inv, Told, Within, Recent
  <1>2. IsFiniteSet(1..Window) /\ Cardinality(1..Window) = Window
    BY <1>1, FS_Interval
  <1>3. IsFiniteSet(Recent) /\ Cardinality(Recent) <= Window
    BY <1>1, <1>2, FS_Subset
  <1>4. f \in Surjection(Recent, T)
    BY DEF Surjection
  <1> HIDE DEF T, f
  <1>5. IsFiniteSet(T) /\ Cardinality(T) <= Cardinality(Recent)
    BY <1>3, <1>4, FS_Surjection
  <1>6. IsFiniteSet(S) /\ Cardinality(S) <= Cardinality(T)
    BY <1>5, FS_Subset DEF T
  <1>7. {Cardinality(T), Cardinality(Recent), Cardinality(S)} \subseteq Nat
    BY <1>3, <1>5, <1>6, FS_CardinalityType
  <1> QED BY <1>1, <1>3, <1>5, <1>6, <1>7

\* What is appended to a file that ends in a whole line is added to it.
LEMMA Added ==
  ASSUME lines \in Seq(Line), ~open, NEW text \in Seq(Event), lines' = Put(text)
  PROVE  /\ lines' = lines \o text
         /\ Stored' = Stored \cup ToSet(text)
  <1>1. lines' = lines \o text /\ text \in Seq(Line)
    BY DEF Put, Line
  <1>2. ToSet(lines \o text) = ToSet(lines) \cup ToSet(text)
    <2>1. ToSet(lines) \cup ToSet(text) \subseteq ToSet(lines \o text)
      <3>1. ASSUME NEW i \in DOMAIN lines PROVE lines[i] \in ToSet(lines \o text)
        <4>1. i \in DOMAIN (lines \o text) /\ (lines \o text)[i] = lines[i]
          BY <1>1
        <4> QED BY <4>1 DEF ToSet
      <3>2. ASSUME NEW i \in DOMAIN text PROVE text[i] \in ToSet(lines \o text)
        <4>1. /\ Len(lines) + i \in DOMAIN (lines \o text)
              /\ (lines \o text)[Len(lines) + i] = text[i]
          BY <1>1
        <4> QED BY <4>1 DEF ToSet
      <3> QED BY <3>1, <3>2 DEF ToSet
    <2>2. ToSet(lines \o text) \subseteq ToSet(lines) \cup ToSet(text)
      <3>1. ASSUME NEW i \in DOMAIN (lines \o text)
            PROVE  (lines \o text)[i] \in ToSet(lines) \cup ToSet(text)
        <4>1. i \in 1..Len(lines) + Len(text)
          BY <1>1
        <4>2. CASE i <= Len(lines)
          BY <1>1, <4>1, <4>2 DEF ToSet
        <4>3. CASE ~(i <= Len(lines))
          <5>1. i - Len(lines) \in DOMAIN text /\ (lines \o text)[i] = text[i - Len(lines)]
            BY <1>1, <4>1, <4>3
          <5> QED BY <5>1 DEF ToSet
        <4> QED BY <4>2, <4>3
      <3> QED BY <3>1 DEF ToSet
    <2> QED BY <2>1, <2>2
  <1>3. Junk \notin ToSet(text)
    BY DEF ToSet, Junk, Event
  <1> QED BY <1>1, <1>2, <1>3 DEF Stored

\* A write that was refused, and left nothing behind, left the file as it was.
LEMMA Refused ==
  ASSUME lines \in Seq(Line), ~open, NEW text \in Seq(Event), WriteStops(text)
  PROVE  /\ lines' = lines => ~open'
         /\ Stored \subseteq Stored'
  <1>1. CASE ~File
    BY <1>1 DEF WriteStops, SqlitePartial, Stored
  <1>2. ASSUME NEW k \in 0..Len(text), lines' = Put(SubSeq(text, 1, k)), open' = (open /\ k = 0)
        PROVE  ~open' /\ Stored \subseteq Stored'
    <2>1. SubSeq(text, 1, k) \in Seq(Event)
      BY <1>2
    <2> QED BY <1>2, <2>1, Added
  <1>3. ASSUME NEW k \in DOMAIN text, NEW l \in {Junk, text[k]},
               lines' = Put(Append(SubSeq(text, 1, k - 1), l))
        PROVE  lines' # lines /\ Stored \subseteq Stored'
    <2> DEFINE t == SubSeq(text, 1, k - 1)
    <2>1. t \in Seq(Line) /\ l \in Line
      BY <1>3 DEF Line
    <2>2. lines' = Put(Append(t, l))
      BY <1>3
    <2> HIDE DEF t
    <2>3. lines' = lines \o Append(t, l)
      BY <2>2 DEF Put
    <2>4. Len(lines') > Len(lines) /\ \A i \in DOMAIN lines : i \in DOMAIN lines' /\ lines'[i] = lines[i]
      BY <2>1, <2>3
    <2> QED BY <2>4 DEF Stored, ToSet
  <1>4. CASE File
    <2>1. PICK d \in FilePartial(text) : lines' = d.lines /\ open' = d.open
      BY <1>4 DEF WriteStops
    <2>2. \/ \E k \in 0..Len(text) : lines' = Put(SubSeq(text, 1, k)) /\ open' = (open /\ k = 0)
          \/ \E k \in DOMAIN text : \E l \in {Junk, text[k]} :
               lines' = Put(Append(SubSeq(text, 1, k - 1), l))
      BY <2>1 DEF FilePartial
    <2> QED BY <1>2, <1>3, <2>2
  <1> QED BY <1>1, <1>4

LEMMA NearBounded == Inv /\ Near /\ ~Dead => LossBounded
  <1> SUFFICES ASSUME Inv, Near, ~Dead, ~torn, Mode # "exit"
               PROVE  Cardinality(Unwritten) <= Window
    BY DEF LossBounded, Unwritten
  <1> QED BY RecentBounded DEF Near, Dead

\* Where more is on disk and the buffer is the same no more is lost.
LEMMA NoCloser ==
  ASSUME Near, ~Dead, UNCHANGED <<setup, noted, buffer>>, torn' \/ ~torn, torn' \/ ~open',
         Stored \subseteq Stored'
  PROVE  Near'
  BY DEF Near, Dead, Unwritten, Recent, Window, Mode

LEMMA AppendNear ==
  ASSUME Inv, Near, ~Dead, setup' = setup, NEW e \in Event,
         AppendEvent(e) \/ AppendRaises(e)
  PROVE  Near'
  <1> SUFFICES ASSUME ~torn', Mode # "exit"
               PROVE  Unwritten' \subseteq {buffer'[i] : i \in Recent'} /\ ~open'
    BY DEF Near, Mode
  <1>1. Window' = Window /\ Window \in Nat
    BY Windows DEF Window, Mode, Inv
  <1>2. lines \in Seq(Line) /\ buffer \in Seq(Event) /\ Pending(e) \in Seq(Event)
    <2>1. lines \in Seq(Truthful) /\ buffer \in Seq(Truthful \cap Event)
      BY DEF Inv, Told, Within
    <2> QED BY <2>1, Junks DEF Pending
  <1>3. ~torn /\ Unwritten \subseteq {buffer[i] : i \in Recent} /\ ~open
    <2>1. ~torn
      BY DEF AppendEvent, AppendRaises, WriteRefused
    <2> QED BY <2>1 DEF Near, Dead
  <1>4. /\ Len(Pending(e)) = Len(buffer) + 1 /\ Pending(e)[Len(buffer) + 1] = e
        /\ \A i \in DOMAIN buffer : i \in DOMAIN Pending(e) /\ Pending(e)[i] = buffer[i]
    BY <1>2 DEF Pending
  <1>5. CASE AppendEvent(e) /\ Due
    <2>1. lines' = Put(Pending(e)) /\ ~open' /\ noted' = noted \cup {e}
      BY <1>5 DEF AppendEvent, WriteLines
    <2>2. Stored' = Stored \cup ToSet(Pending(e))
      BY <1>2, <1>3, <2>1, Added
    <2>3. e \in ToSet(Pending(e)) /\ \A i \in Recent : buffer[i] \in ToSet(Pending(e))
      BY <1>2, <1>4 DEF ToSet, Recent
    <2> QED BY <1>3, <2>1, <2>2, <2>3 DEF Unwritten
  <1>6. CASE AppendEvent(e) /\ ~Due
    <2>1. buffer' = Pending(e) /\ UNCHANGED <<lines, open>> /\ noted' = noted \cup {e}
      BY <1>6 DEF AppendEvent
    <2>2. Len(buffer) + 1 <= Window /\ Len(buffer) + 1 \in DOMAIN Pending(e)
      <3>1. Mode = "async" /\ ~(Len(buffer) + 1 >= setup.every)
        BY <1>6, JournalAssumption DEF Due, Inv, Rest, Mode, JournalAssumption
      <3>2. setup.every \in Nat /\ Len(buffer) \in Nat
        BY <1>2, JournalAssumption DEF Inv, Rest, JournalAssumption
      <3> QED BY <1>2, <1>4, <3>1, <3>2 DEF Window
    <2>3. Len(buffer) + 1 \in Recent' /\ Recent \subseteq Recent'
      BY <1>1, <1>4, <2>1, <2>2 DEF Recent
    <2>4. Stored' = Stored
      BY <2>1 DEF Stored
    <2> QED BY <1>3, <1>4, <2>1, <2>3, <2>4 DEF Unwritten, Recent
  <1>7. CASE AppendRaises(e)
    <2>1. WriteStops(Pending(e)) /\ lines' = lines /\ noted' = noted
      BY <1>7 DEF AppendRaises, WriteRefused
    <2>2. ~open' /\ Stored' = Stored
      BY <1>2, <1>3, <2>1, Refused DEF Stored
    <2>3. buffer' \in {buffer, Pending(e)}
      BY <1>7 DEF AppendRaises
    <2>4. \A i \in Recent : i \in Recent' /\ buffer'[i] = buffer[i]
      BY <1>1, <1>4, <2>3 DEF Recent
    <2> QED BY <1>3, <2>1, <2>2, <2>4 DEF Unwritten
  <1> QED BY <1>5, <1>6, <1>7

\* Nothing is done for a process that is dead.
LEMMA DeadStays == Dead /\ [Next]_vars => UNCHANGED vars
  BY DEF Dead, Next, Begin, FileClaim, FileDescribe, SqliteDescribe, AppendBoot,
     FileDescribeFails, FileBootFails, SqliteBootFails, Call, Succeed, Deny, RecordCall,
     RecordFails, Recordable, DieRecording, NoteCall, NoteFails, Notable, Serve, Unlocked,
     Finish, End, WriteStatus, WriteStatusFails, AppendDone, AppendDoneFails, Flush, FlushFails,
     Die, DieWriting, Upcoming

\* The store and its mode stay what they are.
LEMMA SetupStays == [Next]_vars => setup' = setup /\ Mode' = Mode /\ Eager' = Eager
  <1> SUFFICES ASSUME [Next]_vars PROVE setup' = setup
    BY DEF Mode, Eager
  <1>1. Begin => setup' = setup
    BY DEF Begin, FileClaim, FileDescribe, SqliteDescribe, AppendBoot, FileDescribeFails,
       FileBootFails, SqliteBootFails, CleanUp, CleanUpFails, beginRest
  <1>2. \A c \in Calls : Call(c) => setup' = setup
    BY DEF Call, Succeed, Deny, RecordCall, RecordFails, NoteCall, NoteFails, DieRecording,
       callRest, dieRest
  <1>3. Finish => setup' = setup
    BY DEF Finish, End, WriteStatus, WriteStatusFails, AppendDone, AppendDoneFails, Flush,
       FlushFails, finishRest
  <1>4. Die \/ DieWriting \/ UNCHANGED vars => setup' = setup
    BY DEF Die, DieWriting, dieRest, vars
  <1> QED BY <1>1, <1>2, <1>3, <1>4 DEF Next

LEMMA NearStep == Inv /\ Near /\ [Next]_vars => Near'
  <1> SUFFICES ASSUME Inv, Near, [Next]_vars, ~Dead, ~Dead' PROVE Near'
    <2>1. Dead' => Near'
      BY DEF Dead, Near
    <2>2. Dead /\ [Next]_vars => Dead'
      BY DeadStays DEF Dead, vars
    <2> QED BY <2>1, <2>2
  <1>0. lines \in Seq(Line) /\ buffer \in Seq(Event)
    <2>1. lines \in Seq(Truthful) /\ buffer \in Seq(Truthful \cap Event)
      BY DEF Inv, Told, Within
    <2> QED BY <2>1, Junks
  <1>1. CASE Begin
    <2>1. CASE FileClaim \/ FileDescribe \/ SqliteDescribe
      <3>1. UNCHANGED <<setup, noted, buffer, torn, open, lines>>
        BY <2>1 DEF FileClaim, FileDescribe, SqliteDescribe, beginRest
      <3> QED BY <3>1 DEF Near, Dead, Unwritten, Stored, Recent, Window, Mode
    <2>2. CASE AppendBoot
      BY <2>2, AppendNear, Appended DEF AppendBoot, beginRest
    <2>3. CASE FileDescribeFails \/ FileBootFails \/ SqliteBootFails
      <3>1. noted' = {} /\ (open' = FALSE \/ Dead')
        BY <2>3 DEF FileDescribeFails, FileBootFails, SqliteBootFails, CleanUp, CleanUpFails,
                    Dead
      <3> QED BY <3>1 DEF Near, Unwritten
    <2> QED BY <1>1, <2>1, <2>2, <2>3 DEF Begin
  <1>2. ASSUME NEW c \in Calls, Call(c) PROVE Near'
    <2>1. CASE Succeed(c) \/ Deny(c) \/ RecordCall(c) \/ RecordFails(c)
      <3>1. UNCHANGED <<setup, noted, buffer, torn, open, lines, at>>
        BY <2>1 DEF Succeed, Deny, RecordCall, RecordFails, callRest, journal
      <3> QED BY <3>1 DEF Near, Dead, Unwritten, Stored, Recent, Window, Mode
    <2>2. CASE NoteCall(c) \/ NoteFails(c)
      BY <2>2, AppendNear, Appended DEF NoteCall, NoteFails, callRest
    <2>3. ~DieRecording(c)
      BY DEF DieRecording, Dead
    <2> QED BY <1>2, <2>1, <2>2, <2>3 DEF Call
  <1>3. CASE Finish
    <2>1. CASE End \/ WriteStatus \/ WriteStatusFails
      <3>1. UNCHANGED <<setup, noted, buffer, torn, open, lines>>
        BY <2>1 DEF End, WriteStatus, WriteStatusFails, finishRest
      <3> QED BY <3>1 DEF Near, Dead, Unwritten, Stored, Recent, Window, Mode
    <2>2. CASE AppendDone \/ AppendDoneFails
      BY <2>2, AppendNear, Appended DEF AppendDone, AppendDoneFails, finishRest
    <2>3. CASE Flush
      <3>1. CASE LeftToFlush = << >>
        <4>1. UNCHANGED <<setup, noted, buffer, torn, open, lines>>
          BY <2>3, <3>1 DEF Flush, finishRest
        <4> QED BY <4>1 DEF Near, Dead, Unwritten, Stored, Recent, Window, Mode
      <3>2. CASE LeftToFlush # << >>
        <4> SUFFICES ASSUME ~torn, Mode # "exit" PROVE Unwritten' = {} /\ ~open'
          BY <2>3 DEF Flush, finishRest, Near, Mode
        <4>1. lines' = Put(buffer) /\ ~open' /\ noted' = noted
          BY <2>3, <3>2 DEF Flush, WriteLines, LeftToFlush
        <4>2. ~open /\ Unwritten \subseteq {buffer[i] : i \in Recent}
          BY DEF Near, Dead
        <4>3. Stored' = Stored \cup ToSet(buffer)
          BY <1>0, <4>1, <4>2, Added
        <4> QED BY <4>1, <4>2, <4>3 DEF Unwritten, Recent, ToSet
      <3> QED BY <3>1, <3>2
    <2>4. CASE FlushFails
      <3> SUFFICES ASSUME ~torn', Mode # "exit" PROVE Near'
        BY <2>4 DEF FlushFails, finishRest, Near, Mode
      <3>1. /\ WriteStops(buffer) /\ lines' = lines /\ ~torn
            /\ UNCHANGED <<setup, noted, buffer>>
        BY <2>4 DEF FlushFails, WriteRefused, LeftToFlush, finishRest
      <3>2. ~open
        BY <3>1 DEF Near, Dead
      <3>3. ~open' /\ Stored \subseteq Stored'
        BY <1>0, <3>1, <3>2, Refused
      <3> QED BY <3>1, <3>3, NoCloser
    <2> QED BY <1>3, <2>1, <2>2, <2>3, <2>4 DEF Finish
  <1>4. CASE Die \/ DieWriting
    BY <1>4 DEF Die, DieWriting, Dead
  <1>5. CASE UNCHANGED vars
    BY <1>5 DEF vars, disk, Near, Dead, Unwritten, Stored, Recent, Window, Mode
  <1> QED BY <1>1, <1>2, <1>3, <1>4, <1>5 DEF Next

\* The death of the process loses what was in memory, no more.
LEMMA DeadStep == Inv /\ Near /\ LossBounded /\ [Next]_vars /\ Dead' => LossBounded'
  <1> SUFFICES ASSUME Inv, Near, LossBounded, [Next]_vars, Dead', ~torn', Mode' # "exit"
               PROVE  Cardinality(Unwritten)' <= Window'
    BY DEF LossBounded, Unwritten
  <1>0. lines \in Seq(Line) /\ buffer \in Seq(Event) /\ << >> \in Seq(Event)
    <2>1. lines \in Seq(Truthful) /\ buffer \in Seq(Truthful \cap Event)
      BY DEF Inv, Told, Within
    <2> QED BY <2>1, Junks
  <1> DEFINE Dies == Die \/ DieWriting \/ \E c \in Calls : DieRecording(c)
  <1>1. CASE Dies
    <2>1. /\ UNCHANGED <<setup, noted, torn>> /\ ~Dead
      BY <1>1, Appended DEF Die, DieWriting, DieRecording, Recordable, dieRest, Dead, Upcoming,
                            Serve, Unlocked
    <2>2. ~open /\ Unwritten \subseteq {buffer[i] : i \in Recent}
      BY <2>1 DEF Near, Mode, Dead
    <2>3. Stored \subseteq Stored'
      <3>1. CASE Die \/ \E c \in Calls : DieRecording(c)
        BY <3>1 DEF Die, DieRecording, Stored
      <3>2. CASE DieWriting
        <4>1. PICK text \in Seq(Event) : WriteStops(text)
          <5>1. \A e \in Upcoming : Pending(e) \in Seq(Event)
            BY <1>0, Appended DEF Upcoming, Pending
          <5> QED BY <1>0, <3>2, <5>1 DEF DieWriting
        <4> QED BY <1>0, <2>2, <4>1, Refused
      <3> QED BY <1>1, <3>1, <3>2
    <2>4. Unwritten' \subseteq {buffer[i] : i \in Recent}
      BY <2>1, <2>2, <2>3 DEF Unwritten
    <2> QED BY <2>1, <2>4, RecentBounded DEF Window, Mode
  <1>2. CASE ~Dies
    <2>1. CASE Dead
      <3>1. UNCHANGED <<setup, noted, lines, torn>>
        BY <2>1, DeadStays DEF vars, disk
      <3> QED BY <3>1 DEF LossBounded, Unwritten, Stored, Window, Mode
    <2>2. CASE ~Dead
      <3>1. FileDescribeFails \/ FileBootFails \/ SqliteBootFails \/ UNCHANGED vars
        BY <1>2, <2>2 DEF Dead, Next, Begin, FileClaim, FileDescribe, SqliteDescribe,
           AppendBoot, Call,
           Succeed, Deny, RecordCall, RecordFails, NoteCall, NoteFails, callRest, Finish, End,
           WriteStatus, WriteStatusFails, AppendDone, AppendDoneFails, Flush, FlushFails
      <3>2. noted' = {}
        BY <2>2, <3>1, BootFails DEF vars, Dead, Stuck, CleanUp, Inv
      <3>3. Cardinality(Unwritten)' = 0 /\ Window' \in Nat
        BY <3>2, FS_EmptySet, SetupStays, Windows DEF Unwritten, Window, Inv
      <3> QED BY <3>3
    <2> QED BY <2>1, <2>2
  <1> QED BY <1>1, <1>2

\* A mode that flushes before the end loses no more of what was noted than it says,
\* nothing in the sync mode and at most every - 1 events in the async mode,
\* wherever the process dies and whatever the disk refuses in full.
THEOREM LossIsBounded == Spec => []LossBounded
  <1>1. Init => Near /\ LossBounded
    <2> SUFFICES ASSUME Init PROVE Near /\ LossBounded
      OBVIOUS
    <2>1. noted = {} /\ ~open /\ ~Dead
      BY DEF Init, Dead
    <2>2. Near
      BY <2>1 DEF Near, Unwritten
    <2> QED BY <2>1, <2>2, InitInv, NearBounded
  <1>2. Inv /\ Near /\ LossBounded /\ [Next]_vars /\ Inv' => Near' /\ LossBounded'
    BY NearStep, DeadStep, NearBounded, PTL
  <1> QED BY Invariant, <1>1, <1>2, PTL DEF Spec

-----------------------------------------------------------------------------
(* What a finished run leaves. *)

\* While the process lives, what was noted is on disk or in the buffer.
Buffered == ~torn /\ ~Dead => Unwritten \subseteq ToSet(buffer) /\ ~open

\* finish writes the status first, and flushes once its own event is noted.
Closed ==
  /\ at \in {"closing", "flushing", "finished"} => status = "over"
  /\ at \in {"flushing", "finished"} => Done \in noted /\ Done \in ToSet(given)

\* A call is noted once.
Once ==
  ~Dead => \A c \in Calls, k \in {"ok", "denied"} :
    [kind |-> k, of |-> c] \in ToSet(given) => stage[c] \in {"noted", "replied", "lost"}

Whole == Buffered /\ Closed /\ Once /\ FinishedIsWhole


LEMMA Typed ==
  ASSUME Inv
  PROVE  /\ lines \in Seq(Line) /\ buffer \in Seq(Event) /\ given \in Seq(Event)
         /\ noted \subseteq Event
         /\ stage \in [Calls -> {"new", "ran", "recorded", "noted", "replied", "lost"}]
  <1>1. lines \in Seq(Truthful) /\ buffer \in Seq(Truthful \cap Event)
    BY DEF Inv, Told, Within
  <1> QED BY <1>1, Junks DEF Inv, Rest

LEMMA Longer ==
  ASSUME NEW S, NEW s \in Seq(S), NEW e \in S
  PROVE  /\ ToSet(Append(s, e)) = ToSet(s) \cup {e}
         /\ Len(Append(s, e)) = Len(s) + 1 /\ Len(s) \in Nat
         /\ Append(s, e)[Len(s) + 1] = e
         /\ \A i \in DOMAIN s : i \in DOMAIN Append(s, e) /\ Append(s, e)[i] = s[i]
  <1>1. /\ Len(Append(s, e)) = Len(s) + 1 /\ Len(s) \in Nat
        /\ DOMAIN Append(s, e) = 1..Len(s) + 1
        /\ \A i \in DOMAIN s : Append(s, e)[i] = s[i]
        /\ Append(s, e)[Len(s) + 1] = e /\ DOMAIN s = 1..Len(s)
    OBVIOUS
  <1> QED BY <1>1 DEF ToSet

\* An append keeps what it notes, on disk or in the buffer, in every mode.
LEMMA AppendBuffered ==
  ASSUME Inv, Buffered, ~Dead, NEW e \in Event, AppendEvent(e) \/ AppendRaises(e), ~torn'
  PROVE  Unwritten' \subseteq ToSet(buffer') /\ ~open' /\ Stored \subseteq Stored'
  <1>1. lines \in Seq(Line) /\ Pending(e) \in Seq(Event)
        /\ ToSet(Pending(e)) = ToSet(buffer) \cup {e}
    BY Typed, Longer DEF Pending
  <1>2. Unwritten \subseteq ToSet(buffer) /\ ~open
    BY DEF Buffered, AppendEvent, AppendRaises, WriteRefused
  <1>3. CASE AppendEvent(e) /\ Due
    <2>1. lines' = Put(Pending(e)) /\ ~open' /\ noted' = noted \cup {e}
      BY <1>3 DEF AppendEvent, WriteLines
    <2>2. Stored' = Stored \cup ToSet(Pending(e))
      BY <1>1, <1>2, <2>1, Added
    <2> QED BY <1>1, <1>2, <2>1, <2>2 DEF Unwritten
  <1>4. CASE AppendEvent(e) /\ ~Due
    <2>1. buffer' = Pending(e) /\ UNCHANGED <<lines, open>> /\ noted' = noted \cup {e}
      BY <1>4 DEF AppendEvent
    <2> QED BY <1>1, <1>2, <2>1 DEF Unwritten, Stored
  <1>5. CASE AppendRaises(e)
    <2>1. WriteStops(Pending(e)) /\ lines' = lines /\ noted' = noted
          /\ buffer' \in {buffer, Pending(e)}
      BY <1>5 DEF AppendRaises, WriteRefused
    <2>2. ~open'
      BY <1>1, <1>2, <2>1, Refused
    <2> QED BY <1>1, <1>2, <2>1, <2>2 DEF Unwritten, Stored
  <1> QED BY <1>3, <1>4, <1>5

\* The flush of finish leaves nothing in memory that was noted.
LEMMA FlushWrites ==
  ASSUME Inv, Buffered, Flush, ~torn
  PROVE  noted' \subseteq Stored' /\ ~open'
  <1>1. lines \in Seq(Line) /\ buffer \in Seq(Event)
        /\ Unwritten \subseteq ToSet(buffer) /\ ~open /\ noted' = noted
    BY Typed DEF Buffered, Dead, Flush
  <1>2. CASE buffer = << >>
    <2>1. UNCHANGED <<lines, open>>
      BY <1>2 DEF Flush, LeftToFlush
    <2>2. Unwritten = {}
      BY <1>1, <1>2 DEF ToSet
    <2> QED BY <1>1, <2>1, <2>2 DEF Unwritten, Stored
  <1>3. CASE buffer # << >>
    <2>1. lines' = Put(buffer) /\ ~open'
      BY <1>3 DEF Flush, LeftToFlush, WriteLines
    <2>2. Stored' = Stored \cup ToSet(buffer)
      BY <1>1, <2>1, Added
    <2> QED BY <1>1, <2>1, <2>2 DEF Unwritten
  <1> QED BY <1>2, <1>3

LEMMA BufferedStep == Inv /\ Buffered /\ [Next]_vars => Buffered'
  <1> SUFFICES ASSUME Inv, Buffered, [Next]_vars, ~torn', ~Dead'
               PROVE  Unwritten' \subseteq ToSet(buffer') /\ ~open'
    BY DEF Buffered
  <1>1. ~Dead
    BY DeadStays DEF Dead, vars
  <1>2. ASSUME UNCHANGED <<noted, buffer, torn, open, lines>>
        PROVE  Unwritten' \subseteq ToSet(buffer') /\ ~open'
    BY <1>1, <1>2 DEF Buffered, Unwritten, Stored
  <1>3. FileClaim \/ FileDescribe \/ SqliteDescribe \/ UNCHANGED vars
        \/ (\E c \in Calls : Succeed(c) \/ Deny(c) \/ RecordCall(c) \/ RecordFails(c))
        \/ End \/ WriteStatus \/ WriteStatusFails
        => UNCHANGED <<noted, buffer, torn, open, lines>>
    BY DEF FileClaim, FileDescribe, SqliteDescribe, beginRest, Succeed, Deny, RecordCall,
       RecordFails, callRest, journal, End, WriteStatus, WriteStatusFails, finishRest, vars,
       disk
  <1>4. AppendBoot \/ (\E c \in Calls : NoteCall(c) \/ NoteFails(c)) \/ AppendDone
        \/ AppendDoneFails
        => \E e \in Event : AppendEvent(e) \/ AppendRaises(e)
    BY Appended DEF AppendBoot, NoteCall, NoteFails, AppendDone, AppendDoneFails
  <1>5. ASSUME FileDescribeFails \/ FileBootFails \/ SqliteBootFails
        PROVE  Unwritten' \subseteq ToSet(buffer') /\ ~open'
    BY <1>5, BootFails DEF CleanUp, Stuck, Dead, Unwritten, Inv
  <1>6. ASSUME Flush PROVE Unwritten' \subseteq ToSet(buffer') /\ ~open'
    BY <1>6, FlushWrites DEF Flush, Unwritten
  <1>7. ASSUME FlushFails PROVE Unwritten' \subseteq ToSet(buffer') /\ ~open'
    <2>1. WriteStops(buffer) /\ lines' = lines /\ ~torn /\ UNCHANGED <<noted, buffer>>
      BY <1>7 DEF FlushFails, WriteRefused, LeftToFlush
    <2>2. lines \in Seq(Line) /\ buffer \in Seq(Event) /\ ~open
      BY <1>1, <2>1, Typed DEF Buffered
    <2>3. ~open'
      BY <2>1, <2>2, Refused
    <2> QED BY <1>1, <2>1, <2>3 DEF Buffered, Unwritten, Stored
  <1>8. ~Die /\ ~DieWriting /\ \A c \in Calls : ~DieRecording(c)
    BY DEF Die, DieWriting, DieRecording, Dead
  <1> QED
    BY <1>1, <1>2, <1>3, <1>4, <1>5, <1>6, <1>7, <1>8, AppendBuffered
       DEF Next, Begin, Call, Finish

LEMMA ClosedStep == Inv /\ Closed /\ [Next]_vars => Closed'
  <1> SUFFICES ASSUME Inv, Closed, [Next]_vars PROVE Closed'
    OBVIOUS
  <1>0. given \in Seq(Event) /\ Done \in Event
    BY Typed, Appended
  <1> USE DEF Closed
  <1>1. ASSUME UNCHANGED <<status, finishes>>, at' = at, noted \subseteq noted',
               ToSet(given) \subseteq ToSet(given')
        PROVE  Closed'
    BY <1>1 DEF Done
  <1>2. ASSUME NEW c \in Calls, Call(c), ~DieRecording(c) PROVE Closed'
    <2>1. UNCHANGED <<status, finishes>> /\ at' = at
      BY <1>2 DEF Call, Succeed, Deny, RecordCall, RecordFails, NoteCall, NoteFails, callRest
    <2>2. CASE NoteCall(c) \/ NoteFails(c)
      <3>1. /\ CallEvent(c) \in Event /\ given' = Append(given, CallEvent(c))
            /\ noted \subseteq noted'
        BY <2>2, Appended DEF NoteCall, NoteFails, AppendEvent, AppendRaises, Give
      <3> QED BY <1>0, <1>1, <2>1, <3>1, Longer
    <2>3. CASE ~(NoteCall(c) \/ NoteFails(c))
      BY <1>1, <1>2, <2>1, <2>3 DEF Call, Succeed, Deny, RecordCall, RecordFails, journal
    <2> QED BY <2>2, <2>3
  <1>3. CASE AppendDone
    <2>1. /\ at = "closing" /\ UNCHANGED <<status, finishes>>
          /\ noted' = noted \cup {Done} /\ given' = Append(given, Done)
      BY <1>3 DEF AppendDone, AppendEvent, Give
    <2> QED BY <1>0, <2>1, Longer DEF Done
  <1>4. CASE Flush
    BY <1>4 DEF Flush, Done
  <1>5. CASE WriteStatus
    BY <1>5 DEF WriteStatus
  <1>6. CASE UNCHANGED vars
    BY <1>6, <1>1 DEF vars, disk
  <1>7. Begin \/ End \/ WriteStatusFails \/ AppendDoneFails \/ FlushFails \/ Die \/ DieWriting
        \/ (\E c \in Calls : DieRecording(c))
        => at' \notin {"closing", "flushing", "finished"}
    BY DEF Begin, FileClaim, FileDescribe, SqliteDescribe, AppendBoot, FileDescribeFails,
       FileBootFails, SqliteBootFails, CleanUp, CleanUpFails, End, WriteStatusFails,
       AppendDoneFails, FlushFails, Die, DieWriting, DieRecording
  <1> QED BY <1>2, <1>3, <1>4, <1>5, <1>6, <1>7 DEF Next, Finish

LEMMA OnceStep == Inv /\ Once /\ [Next]_vars => Once'
  <1> SUFFICES ASSUME Inv, Once, [Next]_vars, ~Dead' PROVE Once'
    BY DEF Once
  <1>0. given \in Seq(Event) /\ stage \in [Calls -> {"new", "ran", "recorded", "noted", "replied", "lost"}]
    BY Typed
  <1>1. ~Dead
    BY DeadStays DEF Dead, vars
  <1>2. ASSUME NEW e \in Event, e.kind \notin {"ok", "denied"}, UNCHANGED stage,
               given' \in {given, Append(given, e), << >>}
        PROVE  Once'
    <2>1. \A c \in Calls, k \in {"ok", "denied"} : [kind |-> k, of |-> c] # e
      BY <1>2
    <2>2. ToSet(given') \subseteq ToSet(given) \cup {e}
      <3>1. ToSet(<< >>) = {}
        BY DEF ToSet
      <3>2. ToSet(Append(given, e)) = ToSet(given) \cup {e}
        BY <1>0, <1>2, Longer
      <3> QED BY <1>2, <3>1, <3>2
    <2>3. ASSUME NEW c \in Calls, NEW k \in {"ok", "denied"},
                 [kind |-> k, of |-> c] \in ToSet(given')
          PROVE  stage'[c] \in {"noted", "replied", "lost"}
      <3>1. [kind |-> k, of |-> c] \in ToSet(given)
        BY <2>1, <2>2, <2>3
      <3> QED BY <1>1, <1>2, <3>1 DEF Once
    <2> QED BY <2>3 DEF Once
  <1>3. Boot \in Event /\ Boot.kind \notin {"ok", "denied"}
        /\ Done \in Event /\ Done.kind \notin {"ok", "denied"}
    BY Appended DEF Boot, Done
  <1>4. ASSUME NEW c \in Calls, Call(c) PROVE Once'
    <2>1. CASE NoteCall(c) \/ NoteFails(c)
      <3>1. /\ CallEvent(c) \in Event /\ given' = Append(given, CallEvent(c))
            /\ \E to \in {"noted", "replied", "lost"} : stage' = [stage EXCEPT ![c] = to]
        BY <2>1, Appended DEF NoteCall, NoteFails, AppendEvent, AppendRaises, Give, Goto
      <3>2. ToSet(given') = ToSet(given) \cup {CallEvent(c)} /\ CallEvent(c).of = c
        BY <1>0, <3>1, Longer DEF CallEvent
      <3>3. ASSUME NEW d \in Calls, NEW k \in {"ok", "denied"},
                   [kind |-> k, of |-> d] \in ToSet(given')
            PROVE  stage'[d] \in {"noted", "replied", "lost"}
        <4>1. CASE d = c
          BY <1>0, <3>1, <4>1
        <4>2. CASE d # c
          <5>1. [kind |-> k, of |-> d] \in ToSet(given)
            BY <3>2, <3>3, <4>2
          <5> QED BY <1>0, <1>1, <3>1, <4>2, <5>1 DEF Once
        <4> QED BY <4>1, <4>2
      <3> QED BY <3>3 DEF Once
    <2>2. CASE ~(NoteCall(c) \/ NoteFails(c))
      <3>1. /\ given' = given
            /\ \E to : /\ stage' = [stage EXCEPT ![c] = to]
                      /\ (stage[c] \in {"new", "ran"} \/ to = "replied")
        BY <1>4, <2>2 DEF Call, Succeed, Deny, RecordCall, RecordFails, Recordable, Recorded,
                          DieRecording, Dead, Serve, Goto, journal
      <3> QED BY <1>0, <1>1, <3>1 DEF Once
    <2> QED BY <2>1, <2>2
  <1>5. CASE Begin
    <2>1. UNCHANGED stage /\ given' \in {given, Append(given, Boot), << >>}
      BY <1>5, BootFails DEF Begin, FileClaim, FileDescribe, SqliteDescribe, AppendBoot,
         AppendEvent, Give, CleanUp, Stuck, Inv, beginRest, calls
    <2> QED BY <1>2, <1>3, <2>1
  <1>6. CASE Finish
    <2>1. UNCHANGED stage /\ given' \in {given, Append(given, Done), << >>}
      BY <1>6 DEF Finish, End, WriteStatus, WriteStatusFails, AppendDone, AppendDoneFails,
         AppendEvent, AppendRaises, Give, Flush, FlushFails, finishRest, calls
    <2> QED BY <1>2, <1>3, <2>1
  <1>7. CASE UNCHANGED vars
    BY <1>1, <1>7 DEF vars, Once
  <1>8. ~Die /\ ~DieWriting
    BY DEF Die, DieWriting, Dead
  <1> QED BY <1>4, <1>5, <1>6, <1>7, <1>8 DEF Next

\* The place of the done event does not move, and what is noted later comes after it.
LEMMA FinishedStep ==
  Inv /\ Whole /\ [Next]_vars => FinishedIsWhole'
  <1> SUFFICES ASSUME Inv, Whole, [Next]_vars, at' = "finished", ~torn' PROVE FinishedIsWhole'
    BY DEF FinishedIsWhole
  <1> USE DEF Whole
  <1>0. given \in Seq(Event)
    BY Typed
  <1>1. CASE Flush
    <2>1. noted' \subseteq Stored' /\ Done' \in noted'
      BY <1>1, FlushWrites DEF Flush, Closed, Done
    <2>2. status' = "over"
      BY <1>1 DEF Flush, Closed
    <2> QED BY <2>1, <2>2 DEF FinishedIsWhole
  <1>2. ASSUME UNCHANGED <<given, noted, lines, torn, status, finishes, at>>
        PROVE  FinishedIsWhole'
    BY <1>2 DEF FinishedIsWhole, Position, Stored, Done
  <1>3. ASSUME NEW c \in Calls, NoteCall(c) \/ NoteFails(c) PROVE FinishedIsWhole'
    <2> DEFINE e == CallEvent(c)
    <2>1. /\ UNCHANGED <<status, finishes, at>> /\ stage[c] = "recorded"
          /\ AppendEvent(e) \/ AppendRaises(e)
      BY <1>3 DEF NoteCall, NoteFails, callRest, Notable
    <2>2. /\ e \in Event /\ e # Done /\ given' = Append(given, e)
          /\ noted' \in {noted, noted \cup {e}} /\ e \notin ToSet(given)
      <3>1. e \in Event
        BY <1>3, Appended DEF NoteCall, NoteFails
      <3>2. e # Done
        BY DEF CallEvent, Done
      <3>3. given' = Append(given, e) /\ noted' \in {noted, noted \cup {e}}
        BY <2>1 DEF AppendEvent, AppendRaises, Give
      <3>4. e \notin ToSet(given)
        <4>1. ~Dead
          BY <2>1 DEF Dead
        <4> QED BY <2>1, <4>1 DEF Once, CallEvent
      <3> QED BY <3>1, <3>2, <3>3, <3>4
    <2> HIDE DEF e
    <2>3. at = "finished" /\ ~torn /\ ~Dead /\ Done' = Done
      <3>1. at = "finished" /\ ~Dead /\ Done' = Done
        BY <2>1 DEF Dead, Done
      <3>2. ~torn
        BY <2>1 DEF AppendEvent, AppendRaises, WriteRefused
      <3> QED BY <3>1, <3>2
    <2>4. Stored \subseteq Stored'
      BY <2>1, <2>2, <2>3, AppendBuffered
    <2>5. \A i : (i \in DOMAIN given' /\ given'[i] = Done) <=> (i \in DOMAIN given /\ given[i] = Done)
      <3>1. DOMAIN given' = DOMAIN given \cup {Len(given) + 1} /\ given'[Len(given) + 1] = e
            /\ \A i \in DOMAIN given : given'[i] = given[i]
        BY <1>0, <2>2
      <3> QED BY <2>2, <3>1
    <2>6. Position(Done)' = Position(Done) /\ Position(Done) \in DOMAIN given
      <3>1. \E i \in DOMAIN given : given[i] = Done
        BY <2>3 DEF Closed, ToSet
      <3>2. Position(Done)' = CHOOSE i : i \in DOMAIN given' /\ given'[i] = Done
        BY <2>3 DEF Position
      <3>3. Position(Done) = CHOOSE i : i \in DOMAIN given /\ given[i] = Done
        BY DEF Position
      <3>4. Position(Done)' = Position(Done)
        BY <2>5, <3>2, <3>3
      <3> QED BY <3>1, <3>3, <3>4
    <2>7. \A i \in 1..Position(Done) : given'[i] = given[i] /\ given[i] # e
      BY <1>0, <2>2, <2>6 DEF ToSet
    <2>8. /\ status = "over" /\ Done \in Stored
          /\ \A i \in 1..Position(Done) : given[i] \in noted => given[i] \in Stored
      BY <2>3 DEF FinishedIsWhole
    <2> QED BY <2>1, <2>2, <2>3, <2>4, <2>6, <2>7, <2>8 DEF FinishedIsWhole
  <1>4. UNCHANGED vars \/ (\E c \in Calls : Succeed(c) \/ Deny(c) \/ RecordCall(c) \/ RecordFails(c))
        => UNCHANGED <<given, noted, lines, torn, status, finishes, at>>
    BY DEF vars, disk, Succeed, Deny, RecordCall, RecordFails, callRest, journal
  <1>5. ~Begin /\ (Finish => Flush) /\ ~Die /\ ~DieWriting /\ \A c \in Calls : ~DieRecording(c)
    BY DEF DieRecording, CleanUpFails, Begin, FileClaim, FileDescribe, SqliteDescribe, AppendBoot, FileDescribeFails,
       FileBootFails, SqliteBootFails, CleanUp, Finish, End, WriteStatus, WriteStatusFails,
       AppendDone, AppendDoneFails, FlushFails, Die, DieWriting
  <1> QED BY <1>1, <1>2, <1>3, <1>4, <1>5 DEF Next, Call

\* When finish has returned, the run is over on disk with its done event, and so is
\* every event whose append had returned by then, in every mode, whatever was
\* refused and retried before and whatever the threads it left behind note after.
THEOREM FinishWritesAll == Spec => []FinishedIsWhole
  <1>1. Init => Whole
    <2> SUFFICES ASSUME Init PROVE Whole
      OBVIOUS
    <2>1. ToSet(<< >>) = {}
      BY DEF ToSet
    <2> QED BY <2>1 DEF Init, Whole, Buffered, Unwritten, Closed, Once, FinishedIsWhole
  <1>2. Inv /\ Whole /\ [Next]_vars => Whole'
    BY BufferedStep, ClosedStep, OnceStep, FinishedStep DEF Whole
  <1>3. Whole => FinishedIsWhole
    BY DEF Whole
  <1> QED BY Invariant, <1>1, <1>2, <1>3, PTL DEF Spec

-----------------------------------------------------------------------------
(* The order of the journal. *)

PositionIn(g, e) == CHOOSE i \in DOMAIN g : g[i] = e

\* The events of s are among those of g, in that order.
ChainIn(g, s) ==
  \A i \in DOMAIN s :
    /\ s[i] \in ToSet(g)
    /\ \A j \in DOMAIN s : i < j => PositionIn(g, s[i]) < PositionIn(g, s[j])

\* A run starts from nothing, if a boot event that is refused is not buffered.
Fresh == ~Eager /\ at \in {"free", "claimed", "described"} =>
           given = << >> /\ lines = << >> /\ buffer = << >>

\* Each call of finish has a done event of its own.
Numbered ==
  \A e \in ToSet(given) : e.kind = "done" =>
    e.of \in Nat /\ e.of <= finishes /\ (at = "closing" => e.of < finishes)

\* What is on disk and then what is buffered was appended in that order.
Chained == ~torn /\ ~Dead /\ ~Eager => ChainIn(given, lines \o buffer)

InOrder == Fresh /\ Numbered /\ Chained /\ JournalInOrder


LEMMA ChainGrows ==
  ASSUME NEW S, NEW g \in Seq(S), NEW s \in Seq(S), NEW e \in S, e \notin ToSet(g), ChainIn(g, s)
  PROVE  ChainIn(Append(g, e), s) /\ ChainIn(Append(g, e), Append(s, e))
  <1> DEFINE h == Append(g, e)
  <1>1. /\ DOMAIN h = 1..Len(g) + 1 /\ DOMAIN g = 1..Len(g) /\ Len(g) \in Nat
        /\ h[Len(g) + 1] = e /\ \A i \in DOMAIN g : h[i] = g[i]
        /\ ToSet(h) = ToSet(g) \cup {e}
    BY Longer
  <1> HIDE DEF h
  <1>2. ASSUME NEW x \in ToSet(g)
        PROVE  PositionIn(h, x) = PositionIn(g, x) /\ PositionIn(g, x) \in 1..Len(g)
    <2>1. \A i : (i \in DOMAIN h /\ h[i] = x) <=> (i \in DOMAIN g /\ g[i] = x)
      BY <1>1
    <2>2. \E i \in DOMAIN g : g[i] = x
      BY DEF ToSet
    <2>3. PositionIn(g, x) = CHOOSE i : i \in DOMAIN g /\ g[i] = x
      BY DEF PositionIn
    <2>4. PositionIn(h, x) = CHOOSE i : i \in DOMAIN h /\ h[i] = x
      BY DEF PositionIn
    <2>5. PositionIn(h, x) = PositionIn(g, x)
      BY <2>1, <2>3, <2>4
    <2> QED BY <1>1, <2>2, <2>3, <2>5
  <1>3. PositionIn(h, e) = Len(g) + 1
    <2>1. \A i \in DOMAIN g : g[i] # e
      BY DEF ToSet
    <2>2. \A i \in DOMAIN h : h[i] = e <=> i = Len(g) + 1
      BY <1>1, <2>1
    <2> QED BY <1>1, <2>2 DEF PositionIn
  <1>4. ChainIn(h, s)
    BY <1>1, <1>2 DEF ChainIn
  <1>5. ChainIn(h, Append(s, e))
    <2> DEFINE t == Append(s, e)
    <2>1. /\ DOMAIN t = 1..Len(s) + 1 /\ DOMAIN s = 1..Len(s) /\ Len(s) \in Nat
          /\ t[Len(s) + 1] = e /\ \A i \in DOMAIN s : t[i] = s[i]
      OBVIOUS
    <2> HIDE DEF t
    <2>2. \A i \in DOMAIN s : s[i] \in ToSet(g)
      BY DEF ChainIn
    <2>3. ASSUME NEW i \in DOMAIN t PROVE t[i] \in ToSet(h)
      BY <1>1, <2>1, <2>2
    <2>4. ASSUME NEW i \in DOMAIN t, NEW j \in DOMAIN t, i < j
          PROVE  PositionIn(h, t[i]) < PositionIn(h, t[j])
      <3>1. i \in DOMAIN s
        BY <2>1, <2>4
      <3>2. CASE j \in DOMAIN s
        BY <1>4, <2>1, <2>4, <3>1, <3>2 DEF ChainIn
      <3>3. CASE j = Len(s) + 1
        BY <1>1, <1>2, <1>3, <2>1, <2>2, <3>1, <3>3
      <3> QED BY <2>1, <3>2, <3>3
    <2>5. ChainIn(h, t)
      BY <2>3, <2>4 DEF ChainIn
    <2> QED BY <2>5 DEF t
  <1> QED BY <1>4, <1>5 DEF h

LEMMA Joined ==
  ASSUME NEW S, NEW a \in Seq(S), NEW b \in Seq(S), NEW e \in S
  PROVE  /\ a \o Append(b, e) = Append(a \o b, e) /\ a \o Append(b, e) \in Seq(S)
         /\ a \o b \in Seq(S) /\ (a \o b) \o << >> = a \o b
  OBVIOUS

\* Every line of a file that was cut off in a write is Junk or one that was to be there.
LEMMA StopsWithin ==
  ASSUME lines \in Seq(Line), ~open, NEW text \in Seq(Event), WriteStops(text)
  PROVE  \A i \in DOMAIN lines' :
           \/ lines'[i] = Junk
           \/ i \in DOMAIN (lines \o text) /\ lines'[i] = (lines \o text)[i]
  <1>0. text \in Seq(Line) /\ lines \o text \in Seq(Line)
    BY DEF Line
  <1>1. CASE ~File
    <2>1. lines' = lines
      BY <1>1 DEF WriteStops, SqlitePartial
    <2> QED BY <1>0, <2>1
  <1>2. ASSUME NEW k \in 0..Len(text), lines' = Put(SubSeq(text, 1, k))
        PROVE  \A i \in DOMAIN lines' :
                 i \in DOMAIN (lines \o text) /\ lines'[i] = (lines \o text)[i]
    <2> DEFINE t == SubSeq(text, 1, k)
    <2>1. t \in Seq(Line) /\ Len(t) = k /\ k <= Len(text) /\ \A i \in 1..k : t[i] = text[i]
      BY <1>0
    <2>2. lines' = lines \o t
      BY <1>2 DEF Put
    <2> HIDE DEF t
    <2> QED BY <1>0, <2>1, <2>2
  <1>3. ASSUME NEW k \in DOMAIN text, NEW l \in {Junk, text[k]},
               lines' = Put(Append(SubSeq(text, 1, k - 1), l))
        PROVE  \A i \in DOMAIN lines' :
                 \/ lines'[i] = Junk
                 \/ i \in DOMAIN (lines \o text) /\ lines'[i] = (lines \o text)[i]
    <2> DEFINE t == SubSeq(text, 1, k - 1)
    <2>1. /\ t \in Seq(Line) /\ Len(t) = k - 1 /\ l \in Line /\ k \in 1..Len(text)
          /\ \A i \in 1..k - 1 : t[i] = text[i]
      BY <1>0 DEF Line
    <2>2. lines' = Put(Append(t, l))
      BY <1>3
    <2> HIDE DEF t
    <2>3. lines' = lines \o Append(t, l)
      BY <2>2 DEF Put
    <2>4. /\ Len(lines') = Len(lines) + k
          /\ \A i \in 1..Len(lines) : lines'[i] = lines[i]
          /\ \A i \in 1..k - 1 : lines'[Len(lines) + i] = text[i]
          /\ lines'[Len(lines) + k] = l
      <3> DEFINE u == Append(t, l)
      <3>1. /\ u \in Seq(Line) /\ Len(u) = k /\ u[k] = l
            /\ \A i \in 1..k - 1 : u[i] = text[i]
        BY <2>1
      <3>2. lines' = lines \o u
        BY <2>3
      <3> HIDE DEF u
      <3> QED BY <2>1, <3>1, <3>2
    <2>5. ASSUME NEW i \in DOMAIN lines'
          PROVE  \/ lines'[i] = Junk
                 \/ i \in DOMAIN (lines \o text) /\ lines'[i] = (lines \o text)[i]
      <3>1. i \in 1..Len(lines) + k /\ Len(lines) \in Nat /\ k \in Nat
        BY <2>1, <2>3, <2>4
      <3>2. CASE i <= Len(lines)
        BY <1>0, <2>4, <3>1, <3>2
      <3>3. CASE i > Len(lines) /\ i < Len(lines) + k
        <4>1. i - Len(lines) \in 1..k - 1 /\ i = Len(lines) + (i - Len(lines))
          BY <3>1, <3>3
        <4> QED BY <1>0, <2>1, <2>4, <3>1, <4>1
      <3>4. CASE i = Len(lines) + k
        BY <1>0, <2>1, <2>4, <3>4
      <3> QED BY <3>1, <3>2, <3>3, <3>4
    <2> QED BY <2>5
  <1>4. CASE File
    <2>1. PICK d \in FilePartial(text) : lines' = d.lines /\ open' = d.open
      BY <1>4 DEF WriteStops
    <2>2. \/ \E k \in 0..Len(text) : lines' = Put(SubSeq(text, 1, k))
          \/ \E k \in DOMAIN text : \E l \in {Junk, text[k]} :
               lines' = Put(Append(SubSeq(text, 1, k - 1), l))
      BY <2>1 DEF FilePartial
    <2> QED BY <1>2, <1>3, <2>2
  <1> QED BY <1>1, <1>4

\* A chain read as the journal, with lines that are skipped.
LEMMA Reads ==
  ASSUME NEW s, ChainIn(given', s),
         \A i \in DOMAIN lines' : lines'[i] = Junk \/ (i \in DOMAIN s /\ lines'[i] = s[i])
  PROVE  JournalInOrder'
  <1>1. \A i \in Readable' : i \in DOMAIN s /\ lines'[i] = s[i]
    BY DEF Readable
  <1>2. Stored' \subseteq ToSet(given')
    <2> SUFFICES ASSUME NEW i \in DOMAIN lines', lines'[i] # Junk PROVE lines'[i] \in ToSet(given')
      BY DEF Stored, ToSet
    <2> QED BY DEF ChainIn
  <1>3. \A i, j \in Readable' : i < j => PositionIn(given', lines'[i]) < PositionIn(given', lines'[j])
    BY <1>1 DEF ChainIn
  <1>4. \A e : Position(e)' = PositionIn(given', e)
    BY DEF Position, PositionIn
  <1> QED BY <1>2, <1>3, <1>4 DEF JournalInOrder

LEMMA AppendChained ==
  ASSUME Inv, Buffered, Chained, ~Dead, ~Eager, NEW e \in Event, e \notin ToSet(given),
         AppendEvent(e) \/ AppendRaises(e), ~torn'
  PROVE  ChainIn(given', lines' \o buffer')
  <1>1. /\ lines \in Seq(Line) /\ buffer \in Seq(Line) /\ given \in Seq(Line) /\ e \in Line
    BY Typed DEF Line
  <1>2. ~torn /\ ~open /\ ChainIn(given, lines \o buffer) /\ given' = Append(given, e)
    <2>1. given' = Append(given, e)
      BY DEF AppendEvent, AppendRaises, Give
    <2>2. ~torn
      BY DEF AppendEvent, AppendRaises, WriteRefused
    <2> QED BY <2>1, <2>2 DEF Buffered, Chained
  <1> DEFINE s == lines \o buffer
  <1>3. /\ s \in Seq(Line) /\ lines \o Pending(e) = Append(s, e)
        /\ (lines \o Pending(e)) \o << >> = Append(s, e)
    <2>1. lines \o Pending(e) = Append(s, e) /\ lines \o Pending(e) \in Seq(Line) /\ s \in Seq(Line)
      BY <1>1, Joined DEF Pending
    <2>2. Pending(e) \in Seq(Line)
      BY <1>1 DEF Pending
    <2> QED BY <1>1, <2>1, <2>2, Joined
  <1>4. ChainIn(given', s) /\ ChainIn(given', Append(s, e))
    BY <1>1, <1>2, <1>3, ChainGrows
  <1>5. lines' \o buffer' \in {s, Append(s, e)}
    <2>1. CASE AppendEvent(e) /\ Due
      <3>1. lines' = lines \o Pending(e) /\ buffer' = << >>
        BY <1>2, <2>1 DEF AppendEvent, WriteLines, Put, Flushed
      <3> QED BY <1>3, <3>1
    <2>2. CASE AppendEvent(e) /\ ~Due
      BY <1>3, <2>2 DEF AppendEvent
    <2>3. CASE AppendRaises(e)
      <3>1. lines' = lines /\ buffer' \in {buffer, Pending(e)}
        BY <2>3 DEF AppendRaises, WriteRefused
      <3> QED BY <1>3, <3>1
    <2> QED BY <2>1, <2>2, <2>3
  <1> QED BY <1>4, <1>5


LEMMA FreshStep == Inv /\ Fresh /\ [Next]_vars => Fresh'
  <1> SUFFICES ASSUME Inv, Fresh, [Next]_vars, ~Eager, at' \in {"free", "claimed", "described"}
               PROVE  given' = << >> /\ lines' = << >> /\ buffer' = << >>
    BY SetupStays DEF Fresh
  <1>1. CASE FileClaim \/ FileDescribe \/ SqliteDescribe \/ UNCHANGED vars
    BY <1>1 DEF FileClaim, FileDescribe, SqliteDescribe, vars, disk, Fresh
  <1>2. CASE FileDescribeFails \/ FileBootFails \/ SqliteBootFails
    <2>1. CleanUp /\ given' = << >> /\ lines' = << >>
      BY <1>2, BootFails DEF CleanUp, Stuck, Inv
    <2>2. CASE FileBootFails \/ SqliteBootFails
      <3>1. buffer = << >> /\ Due
        BY <2>2 DEF FileBootFails, SqliteBootFails, Fresh
      <3>2. setup.every # 1 \/ Mode # "async"
        BY <3>1 DEF Eager
      <3>3. Mode = "sync"
        BY <3>1, <3>2, JournalAssumption DEF Due, Mode, Inv, Rest, JournalAssumption
      <3>4. LeftBuffered = << >>
        BY <3>1, <3>3 DEF LeftBuffered
      <3> QED BY <2>1, <2>2, <3>4 DEF FileBootFails, SqliteBootFails
    <2>3. CASE FileDescribeFails
      BY <2>1, <2>3 DEF FileDescribeFails, Fresh
    <2> QED BY <1>2, <2>2, <2>3
  <1>3. ~AppendBoot /\ ~Finish /\ ~Die /\ ~DieWriting
    BY DEF AppendBoot, Finish, End, WriteStatus, WriteStatusFails, AppendDone,
       AppendDoneFails, Flush, FlushFails, Die, DieWriting
  <1>4. \A c \in Calls : ~Call(c)
    BY DEF Call, Succeed, Deny, RecordCall, RecordFails, NoteCall, NoteFails, Serve,
       DieRecording, Recordable, Notable, Unlocked, callRest
  <1> QED BY <1>1, <1>2, <1>3, <1>4 DEF Next, Begin

LEMMA NumberedStep == Inv /\ Numbered /\ [Next]_vars => Numbered'
  <1> SUFFICES ASSUME Inv, Numbered, [Next]_vars PROVE Numbered'
    OBVIOUS
  <1>0. given \in Seq(Event) /\ finishes \in Nat
    BY Typed, JournalAssumption DEF Inv, Rest, JournalAssumption
  <1> USE DEF Numbered
  <1>1. ASSUME NEW e \in Event, given' = Append(given, e), finishes' = finishes,
               at' = "closing" => at = "closing",
               e.kind = "done" => e.of = finishes /\ at' # "closing"
        PROVE  Numbered'
    <2>1. ToSet(given') = ToSet(given) \cup {e}
      BY <1>0, <1>1, Longer
    <2> QED BY <1>0, <1>1, <2>1
  <1>2. CASE given' = given /\ finishes' = finishes /\ (at' = "closing" => at = "closing")
    BY <1>2
  <1>3. ASSUME given' = << >> PROVE Numbered'
    <2>1. ToSet(<< >>) = {}
      BY DEF ToSet
    <2> QED BY <1>3, <2>1
  <1>4. ASSUME NEW c \in Calls, Call(c) PROVE Numbered'
    <2>1. CASE NoteCall(c) \/ NoteFails(c)
      <3>1. /\ CallEvent(c) \in Event /\ given' = Append(given, CallEvent(c))
            /\ finishes' = finishes /\ at' = at
        BY <2>1, Appended DEF NoteCall, NoteFails, AppendEvent, AppendRaises, Give, callRest
      <3>2. CallEvent(c).kind # "done"
        BY DEF CallEvent
      <3> QED BY <1>1, <3>1, <3>2
    <2>2. CASE ~(NoteCall(c) \/ NoteFails(c))
      BY <1>2, <1>4, <2>2 DEF Call, Succeed, Deny, RecordCall, RecordFails, DieRecording,
                              callRest, journal, dieRest
    <2> QED BY <2>1, <2>2
  <1>5. CASE AppendBoot
    <2>1. Boot \in Event /\ Boot.kind # "done"
      BY Appended DEF Boot
    <2>2. given' = Append(given, Boot) /\ finishes' = finishes /\ at' = "driving"
      BY <1>5 DEF AppendBoot, AppendEvent, Give, beginRest
    <2> QED BY <1>1, <2>1, <2>2
  <1>6. CASE AppendDone \/ AppendDoneFails
    <2>1. Done \in Event /\ Done.of = finishes
      BY Appended DEF Done
    <2>2. given' = Append(given, Done) /\ finishes' = finishes /\ at' # "closing"
      BY <1>6 DEF AppendDone, AppendDoneFails, AppendEvent, AppendRaises, Give
    <2> QED BY <1>1, <2>1, <2>2
  <1>7. CASE WriteStatus \/ WriteStatusFails
    BY <1>0, <1>7 DEF WriteStatus, WriteStatusFails
  <1>8. ASSUME FileDescribeFails \/ FileBootFails \/ SqliteBootFails PROVE Numbered'
    <2>1. Boot \in Event /\ Boot.kind # "done"
      BY Appended DEF Boot
    <2>2. CASE Stuck
      BY <1>1, <1>2, <2>1, <2>2 DEF Stuck, beginRest
    <2> QED BY <1>3, <1>8, <2>2, BootFails DEF CleanUp, Inv
  <1>9. FileClaim \/ FileDescribe \/ SqliteDescribe \/ End \/ Flush \/ FlushFails \/ Die
        \/ UNCHANGED vars
        => given' = given /\ finishes' = finishes /\ (at' = "closing" => at = "closing")
    BY DEF FileClaim, FileDescribe, SqliteDescribe, beginRest, End, Flush, FlushFails, Die,
       dieRest, vars
  <1>10. CASE DieWriting
    <2>1. at' = "dead" /\ finishes' = finishes
      BY <1>10 DEF DieWriting, dieRest
    <2>2. CASE UNCHANGED given
      BY <1>2, <2>1, <2>2
    <2>3. ASSUME NEW e \in Upcoming, Give(e) PROVE Numbered'
      <3>1. e \in Event /\ (e.kind = "done" => e.of = finishes)
        BY <2>3, Appended DEF Upcoming, Boot, Done, CallEvent
      <3> QED BY <1>1, <2>1, <2>3, <3>1 DEF Give
    <2> QED BY <1>10, <2>2, <2>3 DEF DieWriting
  <1> QED
    BY <1>2, <1>3, <1>4, <1>5, <1>6, <1>7, <1>8, <1>9, <1>10 DEF Next, Begin, Finish

\* The events that may be appended next have not been.
LEMMA Unheard ==
  ASSUME Inv, Once, Fresh, Numbered, ~Dead, ~Eager, NEW e \in Upcoming
  PROVE  e \in Event /\ e \notin ToSet(given)
  <1>1. e \in Event
    BY Appended DEF Upcoming
  <1>2. CASE e = Boot /\ at = "described"
    BY <1>1, <1>2 DEF Fresh, ToSet
  <1>3. CASE e = Done /\ at = "closing"
    <2>1. finishes \in Nat
      BY JournalAssumption DEF Inv, Rest, JournalAssumption
    <2> QED BY <1>1, <1>3, <2>1 DEF Numbered, Done
  <1>4. ASSUME NEW c \in Calls, e = CallEvent(c), stage[c] = "recorded" PROVE e \notin ToSet(given)
    BY <1>4 DEF Once, CallEvent
  <1> QED BY <1>1, <1>2, <1>3, <1>4 DEF Upcoming, Notable

LEMMA ChainedStep ==
  Inv /\ Buffered /\ Once /\ InOrder /\ [Next]_vars => Chained'
  <1> SUFFICES ASSUME Inv, Buffered, Once, InOrder, [Next]_vars, ~torn', ~Dead', ~Eager
               PROVE  ChainIn(given', lines' \o buffer')
    BY SetupStays DEF Chained
  <1> USE DEF InOrder
  <1>1. ~Dead /\ lines \in Seq(Line) /\ buffer \in Seq(Line) /\ given \in Seq(Event)
    <2>1. ~Dead
      BY DeadStays DEF Dead, vars
    <2> QED BY <2>1, Typed DEF Line
  <1>2. ASSUME UNCHANGED <<given, lines, buffer>>, torn' = torn
        PROVE  ChainIn(given', lines' \o buffer')
    BY <1>1, <1>2 DEF Chained
  <1>3. ASSUME NEW e \in Upcoming, AppendEvent(e) \/ AppendRaises(e)
        PROVE  ChainIn(given', lines' \o buffer')
    BY <1>1, <1>3, Unheard, AppendChained
  <1>4. AppendBoot \/ (\E c \in Calls : NoteCall(c) \/ NoteFails(c)) \/ AppendDone
        \/ AppendDoneFails
        => \E e \in Upcoming : AppendEvent(e) \/ AppendRaises(e)
    BY DEF AppendBoot, NoteCall, NoteFails, AppendDone, AppendDoneFails, Upcoming
  <1>5. FileClaim \/ FileDescribe \/ SqliteDescribe \/ UNCHANGED vars
        \/ (\E c \in Calls : Succeed(c) \/ Deny(c) \/ RecordCall(c) \/ RecordFails(c))
        \/ End \/ WriteStatus \/ WriteStatusFails
        => UNCHANGED <<given, lines, buffer>> /\ torn' = torn
    BY DEF FileClaim, FileDescribe, SqliteDescribe, beginRest, Succeed, Deny, RecordCall,
       RecordFails, callRest, journal, End, WriteStatus, WriteStatusFails, finishRest, vars,
       disk
  <1>6. ASSUME FileDescribeFails \/ FileBootFails \/ SqliteBootFails
        PROVE  ChainIn(given', lines' \o buffer')
    <2>1. at' = "free"
      BY <1>6, BootFails DEF CleanUp, Stuck, Dead, Inv
    <2>2. lines' = << >> /\ buffer' = << >>
      BY <2>1, FreshStep, SetupStays DEF Fresh
    <2> QED BY <2>2 DEF ChainIn
  <1>7. ASSUME Flush PROVE ChainIn(given', lines' \o buffer')
    <2>1. ~torn /\ ~open /\ given' = given /\ ChainIn(given, lines \o buffer)
      BY <1>1, <1>7 DEF Flush, Buffered, Chained
    <2>2. CASE buffer = << >>
      BY <1>7, <2>1, <2>2 DEF Flush, LeftToFlush
    <2>3. CASE buffer # << >>
      <3>1. lines' = lines \o buffer /\ buffer' = << >>
        BY <1>7, <2>1, <2>3 DEF Flush, LeftToFlush, WriteLines, Put, Flushed
      <3>2. (lines \o buffer) \o << >> = lines \o buffer
        BY <1>1
      <3> QED BY <2>1, <3>1, <3>2
    <2> QED BY <2>2, <2>3
  <1>8. ASSUME FlushFails PROVE ChainIn(given', lines' \o buffer')
    BY <1>1, <1>8 DEF FlushFails, WriteRefused, Chained
  <1>9. ~Die /\ ~DieWriting /\ \A c \in Calls : ~DieRecording(c)
    BY DEF Die, DieWriting, DieRecording, Dead
  <1> QED BY <1>2, <1>3, <1>4, <1>5, <1>6, <1>7, <1>8, <1>9 DEF Next, Begin, Call, Finish

LEMMA OrderStep ==
  Inv /\ Buffered /\ Once /\ InOrder /\ [Next]_vars => JournalInOrder'
  <1> SUFFICES ASSUME Inv, Buffered, Once, InOrder, [Next]_vars, ~torn', ~Eager
               PROVE  JournalInOrder'
    BY SetupStays DEF JournalInOrder
  <1> USE DEF InOrder
  <1>1. lines \in Seq(Line) /\ buffer \in Seq(Line) /\ given \in Seq(Event)
    BY Typed DEF Line
  <1>2. CASE ~Dead'
    <2>1. ChainIn(given', lines' \o buffer')
      BY <1>2, ChainedStep, SetupStays DEF Chained, Eager, Mode
    <2>2. lines' \in Seq(Line) /\ buffer' \in Seq(Line)
      <3>1. Inv'
        <4>1. UNCHANGED vars /\ Inv => Inv'
          BY DEF vars, disk, Inv, Rest, Told, Truthful, Within
        <4> QED BY <4>1, BeginStep, CallStep, FinishStep, DieStep DEF Next
      <3>2. (lines \in Seq(Line) /\ buffer \in Seq(Event))'
        <4>1. lines' \in Seq(Truthful)' /\ buffer' \in Seq(Truthful \cap Event)'
          BY <3>1 DEF Inv, Told, Within
        <4>2. Truthful' \subseteq Line
          BY DEF Truthful, Line, Event
        <4> QED BY <4>1, <4>2
      <3> QED BY <3>2 DEF Line
    <2>3. \A i \in DOMAIN lines' :
            i \in DOMAIN (lines' \o buffer') /\ lines'[i] = (lines' \o buffer')[i]
      BY <2>2
    <2> QED BY <2>1, <2>3, Reads
  <1>3. CASE Dead
    <2>1. UNCHANGED vars
      BY <1>3, DeadStays
    <2> QED BY <2>1 DEF vars, disk, JournalInOrder, Stored, Readable, Position
  <1>5. CASE FileDescribeFails \/ FileBootFails \/ SqliteBootFails
    <2>1. lines = << >> /\ (CleanUp \/ Stuck)
      BY <1>5, BootFails DEF Fresh, FileDescribeFails, FileBootFails, SqliteBootFails, Inv
    <2>2. lines' = << >>
      BY <2>1 DEF CleanUp, Stuck
    <2> QED BY <2>2 DEF JournalInOrder, Stored, Readable, ToSet
  <1>4. CASE /\ ~Dead /\ Dead'
             /\ ~(FileDescribeFails \/ FileBootFails \/ SqliteBootFails)
    <2>1. (Die \/ DieWriting \/ \E c \in Calls : DieRecording(c)) /\ UNCHANGED torn
      <3>1. ~Finish /\ (\A c \in Calls : Call(c) => DieRecording(c)) /\ ~(UNCHANGED vars)
        BY <1>4 DEF Dead, Finish, End, WriteStatus, WriteStatusFails, AppendDone,
           AppendDoneFails, Flush, FlushFails, Call, Succeed, Deny, RecordCall, RecordFails,
           NoteCall, NoteFails, callRest, vars
      <3>2. ~Begin
        BY <1>4 DEF Dead, Begin, FileClaim, FileDescribe, SqliteDescribe, AppendBoot
      <3> QED BY <3>1, <3>2 DEF Next, Die, DieWriting, DieRecording, dieRest
    <2>2. ~open /\ ChainIn(given, lines \o buffer)
      BY <1>4, <2>1 DEF Buffered, Chained
    <2>3. CASE Die \/ \E c \in Calls : DieRecording(c)
      <3>1. UNCHANGED <<lines, given>>
        BY <2>3 DEF Die, DieRecording
      <3>2. \A i \in DOMAIN lines : i \in DOMAIN (lines \o buffer) /\ lines[i] = (lines \o buffer)[i]
        BY <1>1
      <3> QED BY <2>2, <3>1, <3>2, Reads
    <2>4. CASE at = "flushing" /\ WriteStops(buffer) /\ UNCHANGED given
      <3>1. buffer \in Seq(Event)
        BY Typed
      <3> QED BY <1>1, <2>2, <2>4, <3>1, StopsWithin, Reads
    <2>5. ASSUME NEW e \in Upcoming, WriteStops(Pending(e)), Give(e) PROVE JournalInOrder'
      <3>1. e \in Event /\ e \in Line /\ e \notin ToSet(given) /\ given \in Seq(Line)
        BY <1>1, <1>4, Unheard DEF Line
      <3>2. /\ lines \o Pending(e) = Append(lines \o buffer, e) /\ lines \o buffer \in Seq(Line)
            /\ Pending(e) \in Seq(Event)
        <4>1. Pending(e) \in Seq(Event)
          BY <3>1, Typed DEF Pending
        <4> QED BY <1>1, <3>1, <4>1, Joined DEF Pending
      <3>3. ChainIn(given', lines \o Pending(e))
        BY <2>2, <2>5, <3>1, <3>2, ChainGrows DEF Give
      <3> QED BY <1>1, <2>2, <2>5, <3>2, <3>3, StopsWithin, Reads
    <2> QED BY <2>1, <2>3, <2>4, <2>5 DEF DieWriting
  <1> QED BY <1>2, <1>3, <1>4, <1>5

\* What is on disk was appended by this run, in that order, each event once, over
\* flushes that are refused and repeated, begins whose clean-up is refused, and deaths
\* in the middle of a write; in a store whose refused boot event is not buffered.
THEOREM JournalKeepsOrder == Spec => []JournalInOrder
  <1> DEFINE All == Buffered /\ Once /\ InOrder
  <1>1. Init => All
    <2> SUFFICES ASSUME Init PROVE All
      OBVIOUS
    <2>1. ToSet(<< >>) = {} /\ << >> \o << >> = << >>
      BY DEF ToSet
    <2>2. Buffered /\ Once
      BY <2>1 DEF Init, Buffered, Unwritten, Once
    <2>3. Fresh /\ Numbered
      BY <2>1 DEF Init, Fresh, Numbered
    <2>4. Chained /\ JournalInOrder
      BY <2>1 DEF Init, Chained, ChainIn, JournalInOrder, Stored, Readable
    <2> QED BY <2>2, <2>3, <2>4 DEF InOrder
  <1>2. Inv /\ All /\ [Next]_vars => All'
    <2> SUFFICES ASSUME Inv, All, [Next]_vars PROVE All'
      OBVIOUS
    <2>1. Buffered' /\ Once'
      BY BufferedStep, OnceStep
    <2>2. Fresh' /\ Numbered'
      BY FreshStep, NumberedStep DEF InOrder
    <2>3. Chained' /\ JournalInOrder'
      BY ChainedStep, OrderStep
    <2> QED BY <2>1, <2>2, <2>3 DEF InOrder
  <1>3. All => JournalInOrder
    BY DEF InOrder
  <1> QED BY Invariant, <1>1, <1>2, <1>3, PTL DEF Spec
=============================================================================
