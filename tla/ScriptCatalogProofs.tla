------------------------- MODULE ScriptCatalogProofs -------------------------
(***************************************************************************)
(* The stores that processes share as files.  What the catalog promises of   *)
(* a script name, for any savers, readers, sources and bundled versions; and *)
(* what the event queue (WorkflowEvents) promises its producers and waits,   *)
(* for any ids, processes, predicates and writes cut short.                  *)
(***************************************************************************)
EXTENDS ScriptCatalog, WorkflowEvents, FiniteSetTheorems, WellFoundedInduction,
        TLAPS

Saving == {"script", "meta", "read", "entry"}

\* What a call is about to read or to write is there.
Present ==
  /\ \A s \in Savers :
       /\ saver[s].at \in Saving => saver[s].source # None
       /\ saver[s].at \in {"meta", "read", "entry"} => script[saver[s].version] # None
       /\ saver[s].at = "entry" => saver[s].read # None
  /\ \A r \in Readers :
       /\ reader[r].at # "idle" => /\ script[reader[r].version] # None
                                  /\ reader[r].version <= MaxListed
       /\ reader[r].at \in {"meta", "text"} => reader[r].read # None
       /\ reader[r].at = "text" => reader[r].meta = reader[r].read
  /\ \A v \in Versions : meta[v].sha = meta[v].about

Typed == TypeOK /\ Present

\* Until two savers overlap one works at a time.
Alone ==
  ~overlap => \A s, q \in Savers : saver[s] # Idle /\ saver[q] # Idle => s = q

\* What a lone saver is to write is still free, and above what there is if it
\* appends; once written it is the newest of its root.
Above(s) == \A v \in Visible : v < saver[s].version
NewestOfOwn(s) ==
  /\ script[saver[s].version] = saver[s].source
  /\ \A v \in Own : v <= saver[s].version

Undisturbed ==
  ~overlap => \A s \in Savers :
    /\ saver[s].at = "script" => saver[s].replace \/ saver[s].version \notin Visible
    /\ saver[s].at = "script" /\ saver[s].append => Above(s)
    /\ saver[s].at \in {"meta", "read", "entry"} /\ saver[s].append => NewestOfOwn(s)

\* What a reader has read is still there, if the version is not being replaced, and
\* what it returned was.
Allowed == \A s \in Savers : saver[s].replace => saver[s].version \in replaced
Lasts ==
  ~overlap => \A r \in Readers :
    reader[r].at \in {"meta", "text"} /\ reader[r].version \notin replaced =>
      script[reader[r].version] = reader[r].read

Inv == Typed /\ Alone /\ Undisturbed /\ Allowed /\ Lasts

-----------------------------------------------------------------------------

LEMMA Constants ==
  /\ Versions \subseteq Nat /\ Bundled \subseteq Versions /\ 1 \in Versions
  /\ None \notin Sources /\ "bundled" \notin Sources
  /\ MaxSaves \in Nat /\ MaxReads \in Nat
  BY CatalogAssumption DEF CatalogAssumption, Versions

\* The versions are bounded, so that some of them have a largest.
LEMMA Largest ==
  ASSUME NEW S \in SUBSET Versions, S # {}
  PROVE  Max(S) \in S /\ \A v \in S : v <= Max(S)
  <1> DEFINE T == {MaxVersion - v : v \in S}
             Less == OpToRel(<, Nat)
  <1>1. MaxVersion \in Nat /\ S \subseteq Nat /\ \A v \in S : v <= MaxVersion
    BY CatalogAssumption DEF CatalogAssumption, Versions
  <1>2. T \subseteq Nat /\ T # {}
    <2>1. ASSUME NEW v \in S PROVE MaxVersion - v \in Nat
      BY <1>1
    <2>2. T \subseteq Nat
      BY <2>1, Zenon
    <2>3. PICK v \in S : TRUE
      OBVIOUS
    <2>4. MaxVersion - v \in T
      BY <2>3
    <2> QED BY <2>2, <2>4
  <1>3. IsWellFoundedOn(Less, Nat)
    BY NatLessThanWellFounded
  <1>4. \A y, x \in Nat : y < x => <<y, x>> \in Less
    BY DEF OpToRel
  <1> HIDE DEF Less
  <1>5. PICK x \in T : \A y \in T : <<y, x>> \notin Less
    <2> HIDE DEF T
    <2> QED BY <1>2, <1>3, WFMin
  <1>6. PICK m \in S : x = MaxVersion - m
    BY <1>5
  <1>7. ASSUME NEW v \in S PROVE m >= v
    <2>1. MaxVersion - v \in T /\ MaxVersion - v \in Nat /\ x \in Nat
      BY <1>1, <1>2
    <2>2. ~(MaxVersion - v < x)
      BY <1>4, <1>5, <2>1
    <2>3. v \in Nat /\ m \in Nat
      BY <1>1
    <2> HIDE DEF T
    <2> QED BY <1>1, <1>6, <2>2, <2>3
  <1>8. Max(S) \in S /\ \A v \in S : Max(S) >= v
    BY <1>7, Zenon DEF Max
  <1> QED BY <1>1, <1>8

LEMMA MaxIs ==
  ASSUME NEW S \in SUBSET Versions, NEW m \in S, \A v \in S : v <= m
  PROVE  Max(S) = m
  <1>1. Max(S) \in S /\ m <= Max(S)
    BY Largest
  <1>2. Max(S) \in Nat /\ m \in Nat /\ Max(S) <= m
    BY <1>1, Constants
  <1> HIDE DEF Max
  <1> QED BY <1>1, <1>2

LEMMA NextIsAbove == \A v \in Visible : v < NextVersion
  <1> SUFFICES ASSUME NEW v \in Visible PROVE v < NextVersion
    OBVIOUS
  <1>1. Visible \subseteq Versions
    BY Constants DEF Visible, Own
  <1>2. Max(Visible) \in Visible /\ v <= Max(Visible)
    BY <1>1, Largest
  <1>3. Max(Visible) \in Nat /\ v \in Nat
    BY <1>1, <1>2, Constants
  <1> QED BY <1>2, <1>3 DEF NextVersion
-----------------------------------------------------------------------------

LEMMA InitInv == Init => Inv
  <1> SUFFICES ASSUME Init PROVE Inv
    OBVIOUS
  <1>1. TypeOK
    <2>1. saves \in 0..MaxSaves /\ reads \in 0..MaxReads
      BY Constants DEF Init
    <2>5. /\ overlap \in BOOLEAN /\ replaced \subseteq Versions
          /\ shown \subseteq [version : Versions, sha : Sources, meta : Sources,
                             text : Sources \cup {None}]
      BY DEF Init
    <2>2. /\ script \in [Versions -> Sources \cup {None}]
          /\ meta \in [Versions -> [sha : Sources \cup {None}, about : Sources \cup {None}]]
      BY DEF Init
    <2>3. saver \in [Savers -> [at : {"idle", "script", "meta", "read", "entry"},
                               version : Versions, source : Sources \cup {None},
                               append : BOOLEAN, replace : BOOLEAN,
                               read : Sources \cup {None}]]
      BY Constants DEF Init, Idle
    <2>4. reader \in [Readers -> [at : {"idle", "source", "meta", "text"}, version : Versions,
                                 read : Sources \cup {None}, meta : Sources \cup {None}]]
      BY Constants DEF Init, Away
    <2> QED BY <2>1, <2>2, <2>3, <2>4, <2>5 DEF TypeOK
  <1>2. \A s \in Savers : saver[s] = Idle /\ saver[s].at = "idle"
    BY DEF Init, Idle
  <1>3. \A r \in Readers : reader[r].at = "idle"
    BY DEF Init, Away
  <1>4. \A v \in Versions : meta[v].sha = meta[v].about
    BY DEF Init
  <1>5. \A s \in Savers : ~saver[s].replace
    BY DEF Init, Idle
  <1> QED BY <1>1, <1>2, <1>3, <1>4, <1>5
    DEF Inv, Typed, Present, Alone, Undisturbed, Saving, Allowed, Lasts

\* What a metadata file says is about the source whose hash it has, so what MetaFor
\* answers is about the source it was asked for.
LEMMA MetaIsAbout ==
  ASSUME Present, NEW v \in Versions, NEW source
  PROVE  MetaFor(v, source) = source
  BY DEF MetaFor, Present

LEMMA TypeStep == Typed /\ [Next]_vars => Typed'
  <1> SUFFICES ASSUME Typed, [Next]_vars PROVE Typed'
    OBVIOUS
  <1> USE DEF Typed, TypeOK, Present, Saving
  <1>s. ASSUME NEW s \in Savers, Saver(s) PROVE Typed'
    <2>1. ASSUME NEW source \in Sources, NEW version \in {Latest} \cup Versions,
                 NEW replace \in BOOLEAN, Choose(s, source, version, replace)
          PROVE  Typed'
      <3> DEFINE chosen == IF version = Latest THEN NextVersion ELSE version
                 new == [at |-> "script", version |-> chosen, source |-> source,
                         append |-> version = Latest, replace |-> replace, read |-> None]
      <3>1. /\ chosen \in Versions /\ saves < MaxSaves /\ saves' = saves + 1
            /\ saver' = [saver EXCEPT ![s] = new]
            /\ overlap' \in BOOLEAN /\ replaced' \subseteq replaced \cup {chosen}
            /\ UNCHANGED <<script, meta, reader, reads, shown>>
        BY <2>1 DEF Choose
      <3>2. /\ new.at = "script" /\ new.source = source /\ source # None
            /\ chosen \in Versions => new \in [at : {"idle", "script", "meta", "read", "entry"},
                                             version : Versions, source : Sources \cup {None},
                                             append : BOOLEAN, replace : BOOLEAN,
                                             read : Sources \cup {None}]
        <4> HIDE DEF chosen
        <4> QED BY Constants
      <3> HIDE DEF chosen, new
      <3>3. saves' \in 0..MaxSaves /\ replaced' \subseteq Versions
        BY <3>1, CatalogAssumption DEF CatalogAssumption
      <3>4. saver' \in [Savers -> [at : {"idle", "script", "meta", "read", "entry"},
                                  version : Versions, source : Sources \cup {None},
                                  append : BOOLEAN, replace : BOOLEAN,
                                  read : Sources \cup {None}]]
        BY <3>1, <3>2
      <3>5. TypeOK'
        BY <3>1, <3>3, <3>4
      <3>6. saver'[s] = new /\ \A q \in Savers : q # s => saver'[q] = saver[q]
        BY <3>1
      <3>7. Present'
        BY <3>1, <3>2, <3>6
      <3> QED BY <3>5, <3>7
    <2>2. ASSUME NEW version \in Versions, Exists(s, version) PROVE Typed'
      BY <2>2, CatalogAssumption DEF Exists, CatalogAssumption
    <2>3. CASE WriteScript(s)
      BY <2>3 DEF WriteScript, savesRest
    <2>4. CASE WriteMeta(s)
      <3>1. saver'[s].version = saver[s].version /\ saver'[s].source = saver[s].source
        BY <2>4 DEF WriteMeta, savesRest
      <3>2. \A q \in Savers : q # s => saver'[q] = saver[q]
        BY <2>4 DEF WriteMeta, savesRest
      <3>3. TypeOK'
        <4>1. meta' \in [Versions -> [sha : Sources \cup {None}, about : Sources \cup {None}]]
          BY <2>4 DEF WriteMeta
        <4>2. saver' = [saver EXCEPT ![s] = [saver[s] EXCEPT !.at = "read"]]
          BY <2>4 DEF WriteMeta
        <4> QED BY <2>4, <4>1, <4>2 DEF WriteMeta, savesRest
      <3>4. \A v \in Versions : meta'[v].sha = meta'[v].about
        BY <2>4 DEF WriteMeta
      <3>5. UNCHANGED <<script, reader>>
        BY <2>4 DEF WriteMeta, savesRest
      <3>6. saver[s].at \in Saving /\ saver'[s].at = "read"
        BY <2>4 DEF WriteMeta
      <3>7. script[saver[s].version] # None
        BY <2>4 DEF WriteMeta
      <3>8. Present'
        BY <3>1, <3>2, <3>4, <3>5, <3>6, <3>7
      <3> QED BY <3>3, <3>8
    <2>5. CASE SaverReads(s)
      <3>1. saver'[s].version = saver[s].version /\ saver'[s].source = saver[s].source
        BY <2>5 DEF SaverReads, savesRest
      <3>2. \A q \in Savers : q # s => saver'[q] = saver[q]
        BY <2>5 DEF SaverReads, savesRest
      <3>3. TypeOK'
        <4>1. script[saver[s].version] \in Sources \cup {None}
          OBVIOUS
        <4>2. saver' = [saver EXCEPT ![s] = [saver[s] EXCEPT !.at = "entry",
                                               !.read = script[saver[s].version]]]
          BY <2>5 DEF SaverReads
        <4> QED BY <2>5, <4>1, <4>2 DEF SaverReads, savesRest
      <3> QED BY <2>5, <3>1, <3>2, <3>3 DEF SaverReads, savesRest
    <2>6. CASE Return(s)
      <3>1. Entry(saver[s].version, saver[s].read)
              \in [version : Versions, sha : Sources, meta : Sources, text : Sources \cup {None}]
        <4>1. MetaFor(saver[s].version, saver[s].read) = saver[s].read
          BY MetaIsAbout
        <4>2. saver[s].read \in Sources
          BY <2>6 DEF Return
        <4> QED BY <4>1, <4>2 DEF Entry
      <3>2. shown' \subseteq [version : Versions, sha : Sources, meta : Sources,
                              text : Sources \cup {None}]
        BY <2>6, <3>1 DEF Return
      <3>3. saver' = [saver EXCEPT ![s] = Idle]
        BY <2>6 DEF Return
      <3> QED BY <2>6, <3>2, <3>3, Constants DEF Return, savesRest, Idle
    <2>7. CASE Die(s)
      BY <2>7, Constants DEF Die, savesRest, Idle
    <2> HIDE DEF Typed, TypeOK, Present, Saving
    <2> QED BY <1>s, <2>1, <2>2, <2>3, <2>4, <2>5, <2>6, <2>7 DEF Saver
  <1>r. ASSUME NEW r \in Readers, Reader(r) PROVE Typed'
    <2>1. ASSUME NEW version \in {Latest} \cup Versions, Resolve(r, version) PROVE Typed'
      <3> DEFINE chosen == IF version = Latest THEN LatestVersion ELSE version
      <3>1. /\ chosen \in Own /\ reads < MaxReads /\ reads' = reads + 1
            /\ reader' = [reader EXCEPT ![r] = [Away EXCEPT !.at = "source",
                                                          !.version = chosen]]
            /\ UNCHANGED <<script, meta, saver, saves, replaced, overlap, shown>>
        BY <2>1 DEF Resolve, readsRest
      <3> HIDE DEF chosen
      <3>2. chosen \in Versions /\ script[chosen] # None /\ chosen <= MaxListed
        BY <3>1 DEF Own
      <3>3. TypeOK'
        <4>1. reads' \in 0..MaxReads
          BY <3>1, CatalogAssumption DEF CatalogAssumption
        <4> QED BY <3>1, <3>2, <4>1 DEF Away
      <3>4. /\ reader'[r].at = "source" /\ reader'[r].version = chosen
            /\ \A q \in Readers : q # r => reader'[q] = reader[q]
        BY <3>1 DEF Away
      <3>5. Present'
        BY <3>1, <3>2, <3>4
      <3> QED BY <3>3, <3>5
    <2>2. CASE ReadSource(r)
      <3>1. TypeOK'
        <4>1. script[reader[r].version] \in Sources \cup {None}
          OBVIOUS
        <4>2. reader' = [reader EXCEPT ![r] = [reader[r] EXCEPT !.at = "meta",
                                                 !.read = script[reader[r].version]]]
          BY <2>2 DEF ReadSource
        <4>c. [reader[r] EXCEPT !.at = "meta", !.read = script[reader[r].version]]
                \in [at : {"idle", "source", "meta", "text"}, version : Versions,
                    read : Sources \cup {None}, meta : Sources \cup {None}]
          <5>1. reader[r] \in [at : {"idle", "source", "meta", "text"}, version : Versions,
                               read : Sources \cup {None}, meta : Sources \cup {None}]
            OBVIOUS
          <5> QED BY ONLY <4>1, <5>1
        <4>3. reader' \in [Readers -> [at : {"idle", "source", "meta", "text"},
                                      version : Versions, read : Sources \cup {None},
                                      meta : Sources \cup {None}]]
          <5>1. reader \in [Readers -> [at : {"idle", "source", "meta", "text"},
                                       version : Versions, read : Sources \cup {None},
                                       meta : Sources \cup {None}]]
            OBVIOUS
          <5> QED BY <4>2, <4>c, <5>1
        <4> QED BY <2>2, <4>3 DEF ReadSource, readsRest
      <3>2. /\ reader'[r].read # None /\ reader'[r].at = "meta" /\ reader[r].at = "source"
            /\ reader'[r].version = reader[r].version
            /\ \A q \in Readers : q # r => reader'[q] = reader[q]
        BY <2>2 DEF ReadSource, readsRest
      <3> QED BY <2>2, <3>1, <3>2 DEF ReadSource, readsRest
    <2>3. CASE ReadMeta(r)
      <3>1. Entry(reader[r].version, reader[r].read)
              \in [version : Versions, sha : Sources, meta : Sources, text : Sources \cup {None}]
        <4>1. MetaFor(reader[r].version, reader[r].read) = reader[r].read
          BY MetaIsAbout
        <4>2. reader[r].read \in Sources
          BY <2>3 DEF ReadMeta
        <4> QED BY <4>1, <4>2 DEF Entry
      <3>2. MetaFor(reader[r].version, reader[r].read) = reader[r].read
              /\ reader[r].read \in Sources
        BY <2>3, MetaIsAbout DEF ReadMeta
      <3>3. CASE shown' = shown \cup {Entry(reader[r].version, reader[r].read)}
                 /\ reader' = [reader EXCEPT ![r] = Away]
        BY <2>3, <3>1, <3>3, Constants DEF ReadMeta, readsRest, Away
      <3>4. CASE reader' = [reader EXCEPT ![r].at = "text",
                                        ![r].meta = MetaFor(reader[r].version, reader[r].read)]
                 /\ UNCHANGED shown
        <4>1. reader' = [reader EXCEPT ![r] = [reader[r] EXCEPT !.at = "text",
                                                 !.meta = reader[r].read]]
          BY <3>2, <3>4
        <4>2. TypeOK'
          BY <2>3, <3>2, <3>4, <4>1 DEF ReadMeta, readsRest
        <4>3. /\ reader'[r].version = reader[r].version /\ reader'[r].read = reader[r].read
              /\ reader'[r].meta = reader[r].read /\ reader[r].at = "meta"
              /\ \A q \in Readers : q # r => reader'[q] = reader[q]
          BY <2>3, <4>1 DEF ReadMeta
        <4>4. UNCHANGED <<script, meta, saver>>
          BY <2>3 DEF ReadMeta, readsRest
        <4>5. reader[r].read # None
          BY <4>3
        <4>6. Present'
          BY <4>3, <4>4, <4>5
        <4> QED BY <4>2, <4>6
      <3> QED BY <2>3, <3>3, <3>4 DEF ReadMeta
    <2>4. CASE ReadText(r)
      <3>1. shown' \subseteq [version : Versions, sha : Sources, meta : Sources,
                              text : Sources \cup {None}]
        BY <2>4 DEF ReadText
      <3> QED BY <2>4, <3>1, Constants DEF ReadText, readsRest, Away
    <2> QED BY <1>r, <2>1, <2>2, <2>3, <2>4 DEF Reader
  <1>u. CASE UNCHANGED vars
    BY <1>u DEF vars
  <1> QED BY <1>s, <1>r, <1>u DEF Next

-----------------------------------------------------------------------------
(* One saver at a time. *)

\* A reader changes nothing of the root nor of the savers, and neither do the
\* steps of a saver that only read.
LEMMA ReaderReads ==
  ASSUME NEW r \in Readers, Reader(r)
  PROVE  UNCHANGED <<script, saver, overlap, replaced>>
  <1>1. ASSUME NEW version, Resolve(r, version)
        PROVE  UNCHANGED <<script, saver, overlap, replaced>>
    BY <1>1 DEF Resolve, readsRest
  <1>2. ReadSource(r) \/ ReadMeta(r) \/ ReadText(r)
          => UNCHANGED <<script, saver, overlap, replaced>>
    BY DEF ReadSource, ReadMeta, ReadText, readsRest
  <1> QED BY <1>1, <1>2 DEF Reader

LEMMA AloneStep == Inv /\ [Next]_vars => Alone'
  <1> SUFFICES ASSUME Inv, [Next]_vars PROVE Alone'
    OBVIOUS
  <1> USE DEF Inv, Typed, TypeOK, Alone
  <1>s. ASSUME NEW s \in Savers, Saver(s) PROVE Alone'
    <2>1. ASSUME NEW source \in Sources, NEW version \in {Latest} \cup Versions,
                 NEW replace \in BOOLEAN, Choose(s, source, version, replace)
          PROVE  Alone'
      <3>1. /\ \A q \in Savers : q # s => saver'[q] = saver[q]
            /\ overlap' = (overlap \/ \E q \in Savers : saver[q] # Idle)
        BY <2>1 DEF Choose
      <3> QED BY <3>1 DEF Idle
    <2>2. ASSUME NEW version \in Versions, Exists(s, version) PROVE Alone'
      BY <2>2 DEF Exists
    <2>3. CASE WriteScript(s) \/ WriteMeta(s) \/ SaverReads(s) \/ Return(s) \/ Die(s)
      <3>1. \A q \in Savers : q # s => saver'[q] = saver[q]
        BY <2>3 DEF WriteScript, WriteMeta, SaverReads, Return, Die
      <3>2. saver[s] # Idle /\ overlap' = overlap
        BY <2>3 DEF WriteScript, WriteMeta, SaverReads, Return, Die, Idle, savesRest
      <3> QED BY <3>1, <3>2
    <2> HIDE DEF Inv, Typed, TypeOK, Alone
    <2> QED BY <1>s, <2>1, <2>2, <2>3 DEF Saver
  <1>r. ASSUME NEW r \in Readers, Reader(r) PROVE Alone'
    BY <1>r, ReaderReads
  <1>u. CASE UNCHANGED vars
    BY <1>u DEF vars
  <1> QED BY <1>s, <1>r, <1>u DEF Next

\* While savers do not overlap every other saver is idle when one takes a step.
LEMMA OthersIdle ==
  ASSUME Alone, NEW s \in Savers, saver[s] # Idle, ~overlap
  PROVE  \A q \in Savers : q # s => saver[q] = Idle
  BY DEF Alone

LEMMA UndisturbedStep == Inv /\ [Next]_vars => Undisturbed'
  <1> SUFFICES ASSUME Inv, [Next]_vars, ~overlap' PROVE Undisturbed'
    BY DEF Undisturbed
  <1>t. saver \in [Savers -> [at : {"idle", "script", "meta", "read", "entry"}, version : Versions,
                             source : Sources \cup {None}, append : BOOLEAN, replace : BOOLEAN,
                             read : Sources \cup {None}]]
        /\ script \in [Versions -> Sources \cup {None}]
    BY DEF Inv, Typed, TypeOK
  <1>s. ASSUME NEW s \in Savers, Saver(s) PROVE Undisturbed'
    <2>1. ASSUME NEW source \in Sources, NEW version \in {Latest} \cup Versions,
                 NEW replace \in BOOLEAN, Choose(s, source, version, replace)
          PROVE  Undisturbed'
      <3> DEFINE chosen == IF version = Latest THEN NextVersion ELSE version
      <3>1. /\ \A q \in Savers : saver[q] = Idle
            /\ chosen \in Versions /\ (Free(chosen) \/ replace)
            /\ script' = script
            /\ saver' = [saver EXCEPT ![s] =
                           [at |-> "script", version |-> chosen, source |-> source,
                            append |-> version = Latest, replace |-> replace, read |-> None]]
        BY <2>1 DEF Choose
      <3> HIDE DEF chosen
      <3>2. \A q \in Savers : q # s => saver'[q].at = "idle"
        BY <3>1 DEF Idle
      <3>3. /\ saver'[s].at = "script" /\ saver'[s].version = chosen
            /\ saver'[s].append = (version = Latest) /\ saver'[s].replace = replace
        BY <1>t, <3>1
      <3>4. Visible' = Visible
        BY <3>1 DEF Visible, Own
      <3>5. saver'[s].append => \A v \in Visible : v < chosen
        BY <3>3, NextIsAbove DEF chosen
      <3> QED BY <3>1, <3>2, <3>3, <3>4, <3>5 DEF Undisturbed, Above, Free
    <2>2. ASSUME NEW version \in Versions, Exists(s, version) PROVE Undisturbed'
      BY <2>2 DEF Exists, Inv, Undisturbed, Above, NewestOfOwn, Visible, Own
    <2>3. CASE WriteScript(s)
      <3>1. ~overlap /\ saver[s] # Idle /\ saver[s].at = "script"
        BY <2>3 DEF WriteScript, savesRest, Idle
      <3>2. \A q \in Savers : q # s => saver'[q].at = "idle"
        BY <2>3, <3>1, OthersIdle DEF WriteScript, Inv, Idle
      <3>3. /\ saver'[s].at = "meta" /\ saver'[s].version = saver[s].version
            /\ saver'[s].append = saver[s].append /\ saver'[s].source = saver[s].source
        BY <1>t, <2>3 DEF WriteScript
      <3>4. script'[saver[s].version] = saver[s].source
        BY <1>t, <2>3 DEF WriteScript
      <3>5. ASSUME saver[s].append PROVE \A v \in Own' : v <= saver[s].version
        <4>1. \A v \in Visible : v < saver[s].version
          BY <3>1, <3>5 DEF Inv, Undisturbed, Above
        <4>2. Own' \subseteq Own \cup {saver[s].version}
          BY <1>t, <2>3 DEF WriteScript, Own
        <4>3. saver[s].version \in Nat /\ Visible \subseteq Nat
          BY <1>t, Constants DEF Visible, Own
        <4> QED BY <4>1, <4>2, <4>3 DEF Visible
      <3> QED BY <3>2, <3>3, <3>4, <3>5 DEF Undisturbed, NewestOfOwn
    <2>4. CASE WriteMeta(s) \/ SaverReads(s)
      <3>1. /\ saver[s].at \in {"meta", "read"} /\ ~overlap
            /\ script' = script /\ \A q \in Savers : q # s => saver'[q] = saver[q]
            /\ saver'[s].at \in {"read", "entry"} /\ saver'[s].version = saver[s].version
            /\ saver'[s].append = saver[s].append /\ saver'[s].source = saver[s].source
        BY <1>t, <2>4 DEF WriteMeta, SaverReads, savesRest
      <3>2. Own' = Own /\ Visible' = Visible
        BY <3>1 DEF Visible, Own
      <3> QED BY <3>1, <3>2 DEF Inv, Undisturbed, Above, NewestOfOwn
    <2>5. CASE Return(s) \/ Die(s)
      <3>1. /\ ~overlap /\ script' = script /\ saver'[s].at = "idle"
            /\ \A q \in Savers : q # s => saver'[q] = saver[q]
        BY <1>t, <2>5 DEF Return, Die, savesRest, Idle
      <3>2. Own' = Own /\ Visible' = Visible
        BY <3>1 DEF Visible, Own
      <3> QED BY <3>1, <3>2 DEF Inv, Undisturbed, Above, NewestOfOwn
    <2> QED BY <1>s, <2>1, <2>2, <2>3, <2>4, <2>5 DEF Saver
  <1>r. ASSUME NEW r \in Readers, Reader(r) PROVE Undisturbed'
    BY <1>r, ReaderReads DEF Inv, Undisturbed, Above, NewestOfOwn, Visible, Own
  <1>u. CASE UNCHANGED vars
    BY <1>u DEF vars, Inv, Undisturbed, Above, NewestOfOwn, Visible, Own
  <1> QED BY <1>s, <1>r, <1>u DEF Next

\* A saver that may replace a version has it marked.
LEMMA AllowedStep == Inv /\ [Next]_vars => Allowed'
  <1> SUFFICES ASSUME Inv, [Next]_vars PROVE Allowed'
    OBVIOUS
  <1>t. saver \in [Savers -> [at : {"idle", "script", "meta", "read", "entry"}, version : Versions,
                             source : Sources \cup {None}, append : BOOLEAN, replace : BOOLEAN,
                             read : Sources \cup {None}]]
    BY DEF Inv, Typed, TypeOK
  <1>a. Allowed
    BY DEF Inv
  <1>s. ASSUME NEW s \in Savers, Saver(s) PROVE Allowed'
    <2>1. ASSUME NEW source \in Sources, NEW version \in {Latest} \cup Versions,
                 NEW replace \in BOOLEAN, Choose(s, source, version, replace)
          PROVE  Allowed'
      <3> DEFINE chosen == IF version = Latest THEN NextVersion ELSE version
      <3>1. /\ saver' = [saver EXCEPT ![s] =
                           [at |-> "script", version |-> chosen, source |-> source,
                            append |-> version = Latest, replace |-> replace, read |-> None]]
            /\ replaced' = IF replace THEN replaced \cup {chosen} ELSE replaced
        BY <2>1 DEF Choose
      <3> HIDE DEF chosen
      <3>2. /\ saver'[s].version = chosen /\ saver'[s].replace = replace
            /\ \A q \in Savers : q # s => saver'[q] = saver[q]
        BY <1>t, <3>1
      <3> QED BY <1>a, <3>1, <3>2 DEF Allowed
    <2>2. ASSUME NEW version \in Versions, Exists(s, version) PROVE Allowed'
      BY <1>a, <2>2 DEF Exists, Allowed
    <2>3. CASE WriteScript(s) \/ WriteMeta(s) \/ SaverReads(s)
      <3>1. /\ saver'[s].version = saver[s].version /\ saver'[s].replace = saver[s].replace
            /\ \A q \in Savers : q # s => saver'[q] = saver[q]
            /\ replaced' = replaced
        BY <1>t, <2>3 DEF WriteScript, WriteMeta, SaverReads, savesRest
      <3> QED BY <1>a, <3>1 DEF Allowed
    <2>4. CASE Return(s) \/ Die(s)
      <3>1. /\ ~saver'[s].replace /\ replaced' = replaced
            /\ \A q \in Savers : q # s => saver'[q] = saver[q]
        BY <1>t, <2>4 DEF Return, Die, savesRest, Idle
      <3> QED BY <1>a, <3>1 DEF Allowed
    <2> QED BY <1>s, <2>1, <2>2, <2>3, <2>4 DEF Saver
  <1>r. ASSUME NEW r \in Readers, Reader(r) PROVE Allowed'
    BY <1>a, <1>r, ReaderReads DEF Allowed
  <1>u. CASE UNCHANGED vars
    BY <1>a, <1>u DEF vars, Allowed
  <1> QED BY <1>s, <1>r, <1>u DEF Next

\* A lone saver writes a version that nobody reads, or one that it replaces.
LEMMA LastsStep == Inv /\ [Next]_vars => Lasts'
  <1> SUFFICES ASSUME Inv, [Next]_vars, ~overlap' PROVE Lasts'
    BY DEF Lasts
  <1>t. /\ saver \in [Savers -> [at : {"idle", "script", "meta", "read", "entry"},
                                version : Versions, source : Sources \cup {None},
                                append : BOOLEAN, replace : BOOLEAN,
                                read : Sources \cup {None}]]
        /\ script \in [Versions -> Sources \cup {None}]
        /\ reader \in [Readers -> [at : {"idle", "source", "meta", "text"}, version : Versions,
                                  read : Sources \cup {None}, meta : Sources \cup {None}]]
    BY DEF Inv, Typed, TypeOK
  <1>i. Lasts /\ Allowed /\ Present /\ Undisturbed
    BY DEF Inv, Typed
  <1>s. ASSUME NEW s \in Savers, Saver(s) PROVE Lasts'
    <2>1. ASSUME NEW source \in Sources, NEW version \in {Latest} \cup Versions,
                 NEW replace \in BOOLEAN, Choose(s, source, version, replace)
          PROVE  Lasts'
      <3>1. /\ UNCHANGED <<script, reader>> /\ replaced \subseteq replaced' /\ ~overlap
        BY <2>1 DEF Choose
      <3> QED BY <1>i, <3>1 DEF Lasts
    <2>2. ASSUME NEW version \in Versions, Exists(s, version) PROVE Lasts'
      BY <1>i, <2>2 DEF Exists, Lasts
    <2>3. CASE WriteScript(s)
      <3>1. /\ ~overlap /\ UNCHANGED <<reader, replaced>> /\ saver[s].at = "script"
            /\ script' = [script EXCEPT ![saver[s].version] = saver[s].source]
        BY <2>3 DEF WriteScript, savesRest
      <3>2. ASSUME NEW r \in Readers, reader[r].at \in {"meta", "text"},
                   reader[r].version \notin replaced
            PROVE  reader[r].version # saver[s].version
        <4>1. reader[r].version \in Visible
          BY <1>t, <1>i, <3>2 DEF Present, Visible, Own
        <4>2. saver[s].replace => saver[s].version \in replaced
          BY <1>i DEF Allowed
        <4>3. saver[s].replace \/ saver[s].version \notin Visible
          BY <1>i, <3>1 DEF Undisturbed
        <4> QED BY <3>2, <4>1, <4>2, <4>3
      <3>3. ASSUME NEW r \in Readers, reader[r].at \in {"meta", "text"},
                   reader[r].version \notin replaced
            PROVE  script'[reader[r].version] = reader[r].read
        <4>1. script[reader[r].version] = reader[r].read
          BY <1>i, <3>1, <3>3 DEF Lasts
        <4> QED BY <1>t, <3>1, <3>2, <3>3, <4>1
      <3> QED BY <3>1, <3>3 DEF Lasts
    <2>4. CASE WriteMeta(s) \/ SaverReads(s) \/ Return(s) \/ Die(s)
      BY <1>i, <2>4 DEF WriteMeta, SaverReads, Return, Die, savesRest, Lasts
    <2> QED BY <1>s, <2>1, <2>2, <2>3, <2>4 DEF Saver
  <1>r. ASSUME NEW r \in Readers, Reader(r) PROVE Lasts'
    <2>0. UNCHANGED <<script, overlap, replaced>>
      BY <1>r, ReaderReads
    <2>1. ASSUME NEW version \in {Latest} \cup Versions, Resolve(r, version) PROVE Lasts'
      <3>1. /\ reader'[r].at = "source" /\ \A q \in Readers : q # r => reader'[q] = reader[q]
        BY <1>t, <2>1 DEF Resolve, Away
      <3> QED BY <1>i, <2>0, <3>1 DEF Lasts
    <2>2. CASE ReadSource(r)
      <3>1. /\ reader'[r].version = reader[r].version
            /\ reader'[r].read = script[reader[r].version]
            /\ \A q \in Readers : q # r => reader'[q] = reader[q]
        BY <1>t, <2>2 DEF ReadSource
      <3> QED BY <1>i, <2>0, <3>1 DEF Lasts
    <2>3. CASE ReadMeta(r) \/ ReadText(r)
      <3>1. /\ \/ reader'[r].at = "idle"
               \/ /\ reader[r].at = "meta" /\ reader'[r].version = reader[r].version
                  /\ reader'[r].read = reader[r].read
            /\ \A q \in Readers : q # r => reader'[q] = reader[q]
        BY <1>t, <2>3 DEF ReadMeta, ReadText, Away
      <3> QED BY <1>i, <2>0, <3>1 DEF Lasts
    <2> QED BY <1>r, <2>1, <2>2, <2>3 DEF Reader
  <1>u. CASE UNCHANGED vars
    BY <1>i, <1>u DEF vars, Lasts
  <1> QED BY <1>s, <1>r, <1>u DEF Next

LEMMA Invariant == Spec => []Inv
  <1>1. Inv /\ [Next]_vars => Inv'
    BY TypeStep, AloneStep, UndisturbedStep, AllowedStep, LastsStep DEF Inv
  <1> QED BY InitInv, <1>1, PTL DEF Spec

-----------------------------------------------------------------------------

\* Every variable of the catalog keeps its type: the versions of the root, and
\* what each save_script and inspect_script has read and is to write.
THEOREM TypeCorrect == Spec => []TypeOK
  <1>1. Inv => TypeOK
    BY DEF Inv, Typed
  <1> QED BY Invariant, <1>1, PTL

\* What an entry is put together from is of one source: its metadata always, whichever
\* saver wrote the two files that were found beside each other (_entry_for), and the
\* text that inspect_script reads afterwards when no other saver was at work and the
\* version was not being replaced.
THEOREM EntriesHangTogether == Spec => []EntryHangsTogether
  <1>1. Init => EntryHangsTogether
    BY DEF Init, EntryHangsTogether
  <1>2. Inv /\ EntryHangsTogether /\ [Next]_vars => EntryHangsTogether'
    <2> SUFFICES ASSUME Inv, EntryHangsTogether, [Next]_vars PROVE EntryHangsTogether'
      OBVIOUS
    <2> DEFINE Hangs(e) == /\ e.meta = e.sha
                           /\ e.text \in {None, e.sha} \/ overlap \/ e.version \in replaced
    <2>i. /\ \A e \in shown : Hangs(e)
          /\ Present /\ Lasts
          /\ saver \in [Savers -> [at : {"idle", "script", "meta", "read", "entry"},
                                   version : Versions, source : Sources \cup {None},
                                   append : BOOLEAN, replace : BOOLEAN,
                                   read : Sources \cup {None}]]
          /\ reader \in [Readers -> [at : {"idle", "source", "meta", "text"}, version : Versions,
                                     read : Sources \cup {None}, meta : Sources \cup {None}]]
      BY DEF Inv, Typed, TypeOK, EntryHangsTogether
    <2>1. ASSUME NEW v \in Versions, NEW source PROVE Hangs(Entry(v, source))
      BY <2>i, <2>1, MetaIsAbout DEF Entry
    <2>2. ASSUME \A e \in shown' : Hangs(e), overlap => overlap', replaced \subseteq replaced'
          PROVE  EntryHangsTogether'
      BY <2>2 DEF EntryHangsTogether
    <2>3. ASSUME NEW s \in Savers, Saver(s) PROVE EntryHangsTogether'
      <3>1. ASSUME NEW source, NEW version, NEW replace, Choose(s, source, version, replace)
            PROVE  shown' = shown /\ (overlap => overlap') /\ replaced \subseteq replaced'
        BY <3>1 DEF Choose
      <3>2. ASSUME NEW version, Exists(s, version)
            PROVE  UNCHANGED <<shown, overlap, replaced>>
        BY <3>2 DEF Exists
      <3>3. WriteScript(s) \/ WriteMeta(s) \/ SaverReads(s) \/ Die(s)
              => UNCHANGED <<shown, overlap, replaced>>
        BY DEF WriteScript, WriteMeta, SaverReads, Die, savesRest
      <3>4. ASSUME Return(s)
            PROVE  (\A e \in shown' : Hangs(e)) /\ UNCHANGED <<overlap, replaced>>
        <4>1. /\ shown' = shown \cup {Entry(saver[s].version, saver[s].read)}
              /\ UNCHANGED <<overlap, replaced>>
          BY <3>4 DEF Return, savesRest
        <4>2. Hangs(Entry(saver[s].version, saver[s].read))
          BY <2>i, <2>1
        <4> HIDE DEF Hangs
        <4> QED BY <2>i, <4>1, <4>2
      <3> HIDE DEF Hangs
      <3> QED BY <2>i, <2>2, <2>3, <3>1, <3>2, <3>3, <3>4 DEF Saver
    <2>4. ASSUME NEW r \in Readers, Reader(r) PROVE EntryHangsTogether'
      <3>0. UNCHANGED <<script, overlap, replaced>>
        BY <2>4, ReaderReads
      <3>1. ASSUME NEW version, Resolve(r, version) PROVE shown' = shown
        BY <3>1 DEF Resolve
      <3>2. ReadSource(r) => shown' = shown
        BY DEF ReadSource
      <3>3. ASSUME ReadMeta(r) PROVE \A e \in shown' : Hangs(e)
        <4>1. shown' \subseteq shown \cup {Entry(reader[r].version, reader[r].read)}
          BY <3>3 DEF ReadMeta
        <4>2. Hangs(Entry(reader[r].version, reader[r].read))
          BY <2>i, <2>1
        <4> HIDE DEF Hangs
        <4> QED BY <2>i, <4>1, <4>2
      <3>4. ASSUME ReadText(r) PROVE \A e \in shown' : Hangs(e)
        <4> DEFINE e == [version |-> reader[r].version, sha |-> reader[r].read,
                         meta |-> reader[r].meta, text |-> script[reader[r].version]]
        <4>1. shown' = shown \cup {e} /\ reader[r].at = "text"
          BY <3>4 DEF ReadText
        <4>2. Hangs(e)
          BY <2>i, <4>1 DEF Present, Lasts
        <4> HIDE DEF Hangs, e
        <4> QED BY <2>i, <4>1, <4>2
      <3> HIDE DEF Hangs
      <3> QED BY <2>i, <2>2, <2>4, <3>0, <3>1, <3>2, <3>3, <3>4 DEF Reader
    <2>5. UNCHANGED vars => UNCHANGED <<shown, overlap, replaced>>
      BY DEF vars
    <2> HIDE DEF Hangs
    <2> QED BY <2>i, <2>2, <2>3, <2>4, <2>5 DEF Next
  <1> QED BY Invariant, <1>1, <1>2, PTL DEF Spec

\* A script appended by a saver that had the name to itself is the latest version
\* from the moment it is written: what is chosen is above every root's versions.
THEOREM AppendsAreLatest == Spec => []AppendedIsLatest
  <1>1. Inv => AppendedIsLatest
    <2> SUFFICES ASSUME Inv, ~overlap, NEW s \in Savers,
                        saver[s].append, saver[s].version <= MaxListed,
                        saver[s].at \in {"meta", "read", "entry"}
                 PROVE  /\ LatestVersion = saver[s].version
                        /\ Source(LatestVersion) = saver[s].source
      BY DEF AppendedIsLatest
    <2>1. NewestOfOwn(s) /\ saver[s].version \in Versions /\ saver[s].source # None
      BY DEF Inv, Undisturbed, Typed, TypeOK, Present, Saving
    <2>2. saver[s].version \in Own /\ Own \subseteq Versions
      BY <2>1 DEF NewestOfOwn, Own
    <2>3. Max(Own) = saver[s].version
      BY <2>1, <2>2, MaxIs DEF NewestOfOwn
    <2>4. LatestVersion = saver[s].version
      <3> HIDE DEF Max
      <3> QED BY <2>2, <2>3 DEF LatestVersion
    <2>5. Source(saver[s].version) = script[saver[s].version]
      BY <2>2 DEF Source
    <2> QED BY <2>1, <2>4, <2>5 DEF NewestOfOwn
  <1> QED BY Invariant, <1>1, PTL

\* What a version loads as changes only by a replacement while savers do not
\* overlap: only the writing of a script changes it, and a lone saver writes a
\* version that is free or one it was told to replace.
THEOREM LoadedStaysPut == Spec => LoadedStays
  <1> DEFINE Stays ==
        \A v \in Versions :
          Source(v) # None /\ ~overlap /\ Source(v)' # Source(v)
            => \E s \in Savers : saver[s].replace /\ saver[s].version = v
  <1>1. ASSUME Inv, [Next]_vars PROVE Stays
    <2> SUFFICES ASSUME NEW v \in Versions, Source(v) # None, ~overlap, Source(v)' # Source(v)
                 PROVE  \E s \in Savers : saver[s].replace /\ saver[s].version = v
      OBVIOUS
    <2>1. script' # script
      BY DEF Source, Own
    <2>2. PICK s \in Savers : Saver(s)
      BY <1>1, <2>1, ReaderReads DEF Next, vars
    <2>3. WriteScript(s)
      <3>1. ASSUME NEW source, NEW version, NEW replace, Choose(s, source, version, replace)
            PROVE  script' = script
        BY <3>1 DEF Choose
      <3>2. ASSUME NEW version, Exists(s, version) PROVE script' = script
        BY <3>2 DEF Exists
      <3>3. WriteMeta(s) \/ SaverReads(s) \/ Return(s) \/ Die(s) => script' = script
        BY DEF WriteMeta, SaverReads, Return, Die
      <3> QED BY <2>1, <2>2, <3>1, <3>2, <3>3 DEF Saver
    <2>4. script \in [Versions -> Sources \cup {None}] /\ saver[s].at = "script"
      BY <1>1, <2>3 DEF Inv, Typed, TypeOK, WriteScript
    <2>5. saver[s].version = v
      BY <2>3, <2>4 DEF WriteScript, Source, Own
    <2>6. v \in Visible
      BY <2>4 DEF Source, Visible
    <2>7. saver[s].replace
      BY <1>1, <2>4, <2>5, <2>6 DEF Inv, Undisturbed
    <2> QED BY <2>5, <2>7
  <1>2. [][Stays]_vars <=> LoadedStays
    BY PTL DEF LoadedStays
  <1> HIDE DEF Stays
  <1>3. Inv /\ [Next]_vars => [Stays]_vars
    BY <1>1
  <1> QED BY Invariant, <1>2, <1>3, PTL DEF Spec


-----------------------------------------------------------------------------
(* The other files that processes share: the event queue of the workflows.    *)

\* The line of a version is the one in its place.
Numbered == \A i \in DOMAIN log : log[i].version = i

\* A producer has one event in hand or none.
InHand == \A p \in Producers : sending[p] = << >> \/ \E e \in Event : sending[p] = <<e>>

\* A line without its newline is the last of the log.
Ended == tail = "event" => log # << >>

EventsTyped == EventsTypeOK /\ Numbered /\ Ended /\ InHand

\* The first of some positions is the least of them.
LEMMA FirstIs ==
  ASSUME NEW S \in SUBSET Nat, S # {}
  PROVE  First(S) \in S /\ \A j \in S : First(S) <= j
  <1>1. \E x \in S : \A y \in S : <<y, x>> \notin OpToRel(<, Nat)
    BY WFMin, NatLessThanWellFounded
  <1>2. \A x, y \in S : <<y, x>> \notin OpToRel(<, Nat) => x <= y
    BY DEF OpToRel
  <1>3. \E x \in S : \A y \in S : x <= y
    BY <1>1, <1>2
  <1> QED BY <1>3 DEF First

\* What is glued to a tail leaves a log whose events keep their places.
LEMMA GluedIs ==
  ASSUME EventsTyped
  PROVE  /\ Glued \in Seq(Event) /\ DOMAIN Glued \subseteq DOMAIN log
         /\ \A i \in DOMAIN Glued : Glued[i] = log[i]
         /\ tail # "event" => Glued = log
         /\ tail = "event" => /\ Len(log) \in DOMAIN log /\ Len(log) \in Nat
                              /\ DOMAIN Glued = 1..(Len(log) - 1)
  <1>1. log \in Seq(Event)
    BY DEF EventsTyped, EventsTypeOK
  <1>2. CASE tail # "event"
    BY <1>1, <1>2 DEF Glued
  <1>3. CASE tail = "event"
    <2>1. log # << >>
      BY <1>3 DEF EventsTyped, Ended
    <2>2. Glued = SubSeq(log, 1, Len(log) - 1)
      BY <1>3 DEF Glued, Front
    <2> QED BY <1>1, <1>3, <2>1, <2>2
  <1> QED BY <1>2, <1>3

\* An append stores a new event in the next place, or finds the one of its id; a
\* new one behind a fragment is in hand and in no place.
LEMMA Appending ==
  ASSUME EventsTyped, NEW p \in Producers, NEW e \in Ids,
         AppendEvent(p, e)
  PROVE  \E ev \in Event :
           /\ sending[p] = << >> /\ sending' = [sending EXCEPT ![p] = <<ev>>]
           /\ \/ log' = log /\ tail' = tail /\ \E i \in DOMAIN log : log[i] = ev
              \/ log' = Glued /\ tail # "line" /\ tail' = "line"
              \/ /\ tail = "line" /\ tail' = "line" /\ log' = Append(log, ev)
                 /\ ev.id = e /\ ev.version = Len(log) + 1
                 /\ \A i \in DOMAIN log : log[i].id # e
  <1>1. log \in Seq(Event)
    BY DEF EventsTyped, EventsTypeOK
  <1>2. CASE Stored(e) # {}
    <2>1. Stored(e) \in SUBSET Nat
      BY <1>1 DEF Stored
    <2>2. First(Stored(e)) \in DOMAIN log
      BY <1>2, <2>1, FirstIs DEF Stored
    <2> DEFINE ev == log[First(Stored(e))]
    <2>3. ev \in Event
      BY <1>1, <2>2
    <2>4. /\ sending[p] = << >> /\ sending' = [sending EXCEPT ![p] = <<ev>>]
          /\ log' = log /\ tail' = tail /\ \E i \in DOMAIN log : log[i] = ev
      BY <1>2, <2>2 DEF AppendEvent
    <2> QED BY <2>3, <2>4
  <1>3. CASE Stored(e) = {}
    <2> DEFINE ev == [id |-> e, version |-> LastVersion + 1]
    <2>1. LastVersion = Len(log)
      BY <1>1 DEF LastVersion, EventsTyped, Numbered
    <2>2. ev \in Event
      BY <1>1, <2>1 DEF Event
    <2>3. /\ sending[p] = << >> /\ sending' = [sending EXCEPT ![p] = <<ev>>]
          /\ tail' = "line" /\ log' = IF tail = "line" THEN Append(log, ev) ELSE Glued
      BY <1>3 DEF AppendEvent
    <2>4. \A i \in DOMAIN log : log[i].id # e
      BY <1>3 DEF Stored
    <2>5. ev.id = e /\ ev.version = Len(log) + 1
      BY <2>1
    <2> QED BY <1>1, <2>2, <2>3, <2>4, <2>5
  <1> QED BY <1>2, <1>3

\* A write cut short leaves a fragment, or a line without its newline.
LEMMA CuttingShort ==
  ASSUME EventsTyped, NEW p \in Producers, NEW e \in Ids,
         CrashInWrite(p, e)
  PROVE  \/ log' = Glued /\ tail' = "fragment"
         \/ \E ev \in Event :
              /\ tail = "line" /\ tail' = "event" /\ log' = Append(log, ev)
              /\ ev.id = e /\ ev.version = Len(log) + 1
              /\ \A i \in DOMAIN log : log[i].id # e
  <1> DEFINE ev == [id |-> e, version |-> LastVersion + 1]
  <1>1. log \in Seq(Event)
    BY DEF EventsTyped, EventsTypeOK
  <1>2. LastVersion = Len(log)
    BY <1>1 DEF LastVersion, EventsTyped, Numbered
  <1>3. ev \in Event /\ ev.id = e /\ ev.version = Len(log) + 1
    BY <1>1, <1>2 DEF Event
  <1>4. \A i \in DOMAIN log : log[i].id # e
    BY DEF CrashInWrite, Stored
  <1>5. \/ log' = Glued /\ tail' = "fragment"
        \/ tail = "line" /\ tail' = "event" /\ log' = Append(log, ev)
    BY DEF CrashInWrite
  <1> QED BY <1>3, <1>4, <1>5

LEMMA EventIs == Event = [id : Ids, version : Nat \ {0}] /\ Event' = Event
  BY DEF Event

LEMMA EventsTypedFirst ==
  ASSUME EventsInit
  PROVE  EventsTyped
  <1>1. /\ log = << >> /\ sending = [p \in Producers |-> << >>] /\ cuts = 0
        /\ cuts \in 0..MaxCuts
    BY EventsAssumption DEF EventsInit
  <1>2. /\ pc \in [Consumers -> Places] /\ cursor \in [Consumers -> Nat]
        /\ checked \in [Consumers -> BOOLEAN]
        /\ deadline \in [Consumers -> {"none", "ahead", "passed"}]
        /\ received \in [Consumers -> Seq(Ids)] /\ owed \in [Consumers -> BOOLEAN]
        /\ acked = {} /\ signalled = {} /\ tail = "line"
    <2>1. received = [c \in Consumers |-> << >>] /\ << >> \in Seq(Ids)
      BY DEF EventsInit
    <2>2. received \in [Consumers -> Seq(Ids)]
      BY <2>1
    <2> QED BY <2>2 DEF EventsInit, Places
  <1>3. InHand /\ Numbered /\ Ended
    BY <1>1, <1>2 DEF InHand, Numbered, Ended
  <1> QED BY <1>1, <1>2, <1>3 DEF EventsTyped, EventsTypeOK

LEMMA EventsTypedStays ==
  ASSUME EventsTyped, [EventsNext]_(eventsVars)
  PROVE  EventsTyped'
  <1>s. /\ log \in Seq(Event) /\ tail \in {"line", "fragment", "event"} /\ cuts \in 0..MaxCuts
        /\ DOMAIN sending = Producers /\ acked \subseteq Event
        /\ signalled \subseteq Consumers /\ Numbered /\ Ended /\ InHand
    BY DEF EventsTyped, EventsTypeOK
  <1>w. /\ pc \in [Consumers -> Places] /\ cursor \in [Consumers -> Nat]
        /\ checked \in [Consumers -> BOOLEAN]
        /\ deadline \in [Consumers -> {"none", "ahead", "passed"}]
        /\ received \in [Consumers -> Seq(Ids)] /\ owed \in [Consumers -> BOOLEAN]
    BY DEF EventsTyped, EventsTypeOK
  <1>t. ASSUME InHand'
        PROVE  \A p \in Producers : sending'[p] = << >> \/ sending'[p] \in Seq(Event)
    <2>1. \A e \in Event : <<e>> \in Seq(Event)
      OBVIOUS
    <2>2. \A p \in Producers : sending'[p] = << >> \/ \E e \in Event : sending'[p] = <<e>>
      BY <1>t, EventIs DEF InHand
    <2> QED BY <2>1, <2>2
  <1>1. ASSUME NEW p \in Producers, NEW e \in Ids, AppendEvent(p, e)
        PROVE  EventsTyped'
    <2>1. PICK ev \in Event :
            /\ sending[p] = << >> /\ sending' = [sending EXCEPT ![p] = <<ev>>]
            /\ \/ log' = log /\ tail' = tail /\ \E i \in DOMAIN log : log[i] = ev
               \/ log' = Glued /\ tail # "line" /\ tail' = "line"
               \/ /\ tail = "line" /\ tail' = "line" /\ log' = Append(log, ev)
                  /\ ev.id = e /\ ev.version = Len(log) + 1
                  /\ \A i \in DOMAIN log : log[i].id # e
      BY <1>1, Appending
    <2>2. log' = log \/ log' = Glued \/ log' = Append(log, ev)
      BY <2>1
    <2>6. log' \in Seq(Event)
      <3>1. Append(log, ev) \in Seq(Event) /\ Glued \in Seq(Event)
        BY <1>s, GluedIs
      <3> QED BY <2>2, <3>1, <1>s
    <2>7. tail' \in {"line", "fragment", "event"} /\ Ended'
      BY <2>1, <1>s DEF Ended
    <2>5. Numbered'
      <3>1. CASE log' = Append(log, ev) /\ ev.version = Len(log) + 1
        BY <3>1, <1>s DEF Numbered
      <3>2. CASE log' = Glued \/ log' = log
        BY <3>2, <1>s, GluedIs DEF Numbered
      <3> QED BY <2>1, <3>1, <3>2
    <2>3. InHand' /\ DOMAIN sending' = Producers
      BY <2>1, <1>s DEF InHand
    <2>4. UNCHANGED <<cuts, acked, pc, cursor, checked, deadline, signalled, received, owed>>
      BY <1>1 DEF AppendEvent, waitVars
    <2> QED BY <2>6, <2>7, <2>3, <2>4, <2>5, <1>s, <1>w, <1>t DEF EventsTyped, EventsTypeOK
  <1>2. ASSUME NEW p \in Producers, NEW e \in Ids, CrashInWrite(p, e)
        PROVE  EventsTyped'
    <2>1. /\ cuts' = cuts + 1 /\ cuts < MaxCuts
          /\ UNCHANGED <<sending, acked, pc, cursor, checked, deadline, signalled, received,
                         owed>>
      BY <1>2 DEF CrashInWrite, waitVars
    <2>2. cuts' \in 0..MaxCuts /\ InHand'
      BY <2>1, <1>s, EventsAssumption DEF InHand
    <2>3. CASE log' = Glued /\ tail' = "fragment"
      <3>1. log' \in Seq(Event) /\ Numbered' /\ Ended'
        BY <2>3, <1>s, GluedIs DEF Numbered, Ended
      <3> QED BY <2>1, <2>2, <2>3, <3>1, <1>s, <1>w, <1>t DEF EventsTyped, EventsTypeOK
    <2>4. ASSUME NEW ev \in Event, tail' = "event", log' = Append(log, ev),
                 ev.version = Len(log) + 1
          PROVE  EventsTyped'
      <3>1. log' \in Seq(Event) /\ Numbered' /\ Ended'
        BY <2>4, <1>s DEF Numbered, Ended
      <3> QED BY <2>1, <2>2, <2>4, <3>1, <1>s, <1>w, <1>t DEF EventsTyped, EventsTypeOK
    <2> QED BY <1>2, <2>3, <2>4, CuttingShort
  <1>3. ASSUME NEW p \in Producers, Notify(p) \/ CrashBeforeNotify(p)
        PROVE  EventsTyped'
    <2>1. /\ sending[p] # << >> /\ sending' = [sending EXCEPT ![p] = << >>]
          /\ UNCHANGED <<log, tail, cuts, pc, cursor, checked, deadline, received, owed>>
          /\ signalled' \subseteq signalled \cup Consumers
          /\ acked' \subseteq acked \cup {sending[p][1]}
      BY <1>3 DEF Notify, CrashBeforeNotify, storeVars, waitVars
    <2>2. sending[p][1] \in Event
      BY <2>1, <1>s DEF InHand
    <2>3. acked' \subseteq Event /\ signalled' \subseteq Consumers /\ Numbered' /\ Ended'
      BY <2>1, <2>2, <1>s DEF Numbered, Ended
    <2>4. InHand' /\ DOMAIN sending' = Producers
      BY <2>1, <1>s DEF InHand
    <2> QED BY <2>1, <2>3, <2>4, <1>s, <1>w, <1>t DEF EventsTyped, EventsTypeOK
  <1>o. ASSUME UNCHANGED <<log, tail, cuts, sending, acked>>
        PROVE  /\ log' \in Seq(Event) /\ tail' \in {"line", "fragment", "event"}
               /\ cuts' \in 0..MaxCuts
               /\ DOMAIN sending' = Producers /\ acked' \subseteq Event
               /\ Numbered' /\ Ended' /\ InHand'
    BY <1>o, <1>s DEF Numbered, Ended, InHand
  <1>4. ASSUME NEW c \in Consumers, Find(c)
        PROVE  EventsTyped'
    <2> DEFINE ev == log[First(Matching(c))]
    <2>1. UNCHANGED <<log, tail, cuts, sending, acked, deadline, signalled, owed>>
      BY <1>4 DEF Find, storeVars
    <2>2. CASE Matching(c) # {}
      <3>1. Matching(c) \in SUBSET Nat /\ Matching(c) \subseteq DOMAIN log
        BY <1>s DEF Matching
      <3>2. First(Matching(c)) \in DOMAIN log
        BY <2>2, <3>1, FirstIs
      <3>3. ev \in Event
        BY <3>2, <1>s
      <3>4. /\ pc' = [pc EXCEPT ![c] = "idle"] /\ cursor' = [cursor EXCEPT ![c] = ev.version]
            /\ received' = [received EXCEPT ![c] = Append(@, ev.id)] /\ checked' = checked
        BY <1>4, <2>2 DEF Find, Goto
      <3> HIDE DEF ev
      <3>5. ev.id \in Ids /\ ev.version \in Nat
        BY <3>3 DEF Event
      <3>6. received' \in [Consumers -> Seq(Ids)]
        BY <3>4, <3>5, <1>w
      <3>7. pc' \in [Consumers -> Places] /\ cursor' \in [Consumers -> Nat]
        BY <3>4, <3>5, <1>w DEF Places
      <3> QED BY <2>1, <3>4, <3>6, <3>7, <1>s, <1>w, <1>o, <1>t DEF EventsTyped, EventsTypeOK
    <2>3. CASE Matching(c) = {}
      <3>1. /\ pc' = [pc EXCEPT ![c] = "arm"] /\ cursor' = cursor /\ received' = received
            /\ checked' = [checked EXCEPT ![c] = TRUE]
        BY <1>4, <2>3 DEF Find, Goto
      <3>2. pc' \in [Consumers -> Places] /\ checked' \in [Consumers -> BOOLEAN]
        BY <3>1, <1>w DEF Places
      <3> QED BY <2>1, <3>1, <3>2, <1>s, <1>w, <1>o, <1>t DEF EventsTyped, EventsTypeOK
    <2> QED BY <2>2, <2>3
  <1>5. ASSUME NEW c \in Consumers,
               \/ \E timed \in BOOLEAN : StartWait(c, timed)
               \/ DeadlinePasses(c) \/ LoopTop(c) \/ Arm(c)
               \/ WakeBySignal(c) \/ WakeByIdle(c) \/ RestartConsumer(c)
        PROVE  EventsTyped'
    <2> USE DEF StartWait, DeadlinePasses, LoopTop, Arm,
         WakeBySignal, WakeByIdle, RestartConsumer
    <2>1. UNCHANGED <<log, tail, cuts, sending, acked, cursor, received>>
      BY <1>5 DEF storeVars
    <2>2. /\ pc' \in [Consumers -> Places] /\ signalled' \subseteq Consumers
      BY <1>5, <1>s, <1>w DEF Goto, Places
    <2>3. /\ checked' \in [Consumers -> BOOLEAN] /\ owed' \in [Consumers -> BOOLEAN]
          /\ deadline' \in [Consumers -> {"none", "ahead", "passed"}]
      BY <1>5, <1>w
    <2> QED BY <2>1, <2>2, <2>3, <1>s, <1>w, <1>o, <1>t DEF EventsTyped, EventsTypeOK
  <1>6. CASE UNCHANGED eventsVars
    BY <1>6, <1>s, <1>w, <1>o, <1>t DEF eventsVars, EventsTyped, EventsTypeOK
  <1> QED
    BY <1>1, <1>2, <1>3, <1>4, <1>5, <1>6
       DEF EventsNext, ProducerStep, ConsumerStep, WaitStep

LEMMA EventsTypedAlways == EventsSpec => []EventsTyped
  BY EventsTypedFirst, EventsTypedStays, PTL DEF EventsSpec

\* Whatever the producers, their deaths and the waits, the queue's state is of its types.
THEOREM EventsTypeCorrect == EventsSpec => []EventsTypeOK
  <1>1. EventsTyped => EventsTypeOK
    BY DEF EventsTyped
  <1> QED BY <1>1, EventsTypedAlways, PTL

\* What is acknowledged, or in hand, and in no line; with what a tail has yet to take
\* with it, no more than two for each write cut short.
Missing ==
  {ev \in Event : /\ ev \in acked \/ \E p \in Producers : sending[p] = <<ev>>
                  /\ \A i \in DOMAIN log : log[i] # ev}
Due == CASE tail = "line" -> 0 [] tail = "fragment" -> 1 [] OTHER -> 2
Paid ==
  /\ IsFiniteSet(Missing)
  /\ Cardinality(Missing) + Due <= 2 * cuts

\* What a step adds to the missing events is the event of an append behind a tail, and
\* the tail.
LEMMA PaidStep ==
  ASSUME EventsTyped, Paid, [EventsNext]_(eventsVars)
  PROVE  Paid'
  <1>s. DOMAIN sending = Producers /\ log \in Seq(Event) /\ InHand
    BY DEF EventsTyped, EventsTypeOK
  <1>0. /\ cuts \in Nat /\ Cardinality(Missing) \in Nat
        /\ tail \in {"line", "fragment", "event"} /\ Due \in Nat
    BY FS_CardinalityType, EventsAssumption DEF Paid, EventsTyped, EventsTypeOK, Due
  <1>1. ASSUME Missing' \subseteq Missing, tail' = tail, cuts' = cuts
        PROVE  Paid'
    <2>1. IsFiniteSet(Missing') /\ Cardinality(Missing') <= Cardinality(Missing)
      BY <1>1, FS_Subset DEF Paid
    <2>2. Cardinality(Missing') \in Nat /\ Due' = Due
      BY <1>1, <2>1, FS_CardinalityType DEF Due
    <2> QED BY <1>0, <1>1, <2>1, <2>2 DEF Paid
  <1>a. ASSUME NEW S, IsFiniteSet(S), NEW x
        PROVE  /\ IsFiniteSet(S \cup {x}) /\ Cardinality(S \cup {x}) \in Nat
               /\ Cardinality(S \cup {x}) <= Cardinality(S) + 1
    <2>1. /\ IsFiniteSet(S \cup {x}) /\ Cardinality(S) \in Nat
          /\ Cardinality(S \cup {x}) =
               IF x \in S THEN Cardinality(S) ELSE Cardinality(S) + 1
      BY <1>a, FS_AddElement, FS_CardinalityType
    <2> QED BY <2>1
  <1>b. ASSUME NEW S, IsFiniteSet(S), Missing' \subseteq S, Due' \in Nat,
               Cardinality(S) + Due' <= 2 * cuts'
        PROVE  Paid'
    <2>1. IsFiniteSet(Missing') /\ Cardinality(Missing') <= Cardinality(S)
      BY <1>b, FS_Subset
    <2>2. Cardinality(Missing') \in Nat /\ Cardinality(S) \in Nat /\ cuts' \in Nat
      <3>1. EventsTyped'
        BY EventsTypedStays
      <3> QED BY <1>b, <2>1, <3>1, FS_CardinalityType, EventsAssumption DEF EventsTyped, EventsTypeOK
    <2> QED BY <1>b, <2>1, <2>2 DEF Paid
  <1>g. ASSUME log' = Glued, acked' = acked, NEW ev,
               \A q \in Producers, x \in Event :
                 sending'[q] = <<x>> => sending[q] = <<x>> \/ x = ev
        PROVE  Missing' \subseteq IF tail = "event" THEN (Missing \cup {ev}) \cup {log[Len(log)]}
                                 ELSE Missing \cup {ev}
    <2> SUFFICES ASSUME NEW x \in Missing', x # ev
                 PROVE  x \in Missing \/ (tail = "event" /\ x = log[Len(log)])
      OBVIOUS
    <2>1. /\ x \in Event /\ (x \in acked \/ \E p \in Producers : sending[p] = <<x>>)
          /\ \A i \in DOMAIN Glued : Glued[i] # x
      BY <1>g, EventIs DEF Missing
    <2>2. CASE \A i \in DOMAIN log : log[i] # x
      BY <2>1, <2>2, Zenon DEF Missing
    <2>3. CASE \E i \in DOMAIN log : log[i] = x
      <3>1. PICK i \in DOMAIN log : log[i] = x
        BY <2>3
      <3>2. i \notin DOMAIN Glued
        BY <2>1, <3>1, GluedIs
      <3>3. tail = "event" /\ i = Len(log)
        BY <1>s, <3>1, <3>2, GluedIs
      <3> QED BY <3>1, <3>3
    <2> QED BY <2>2, <2>3
  <1>2. ASSUME NEW p \in Producers, NEW e \in Ids, AppendEvent(p, e)
        PROVE  Paid'
    <2>1. PICK ev \in Event :
            /\ sending[p] = << >> /\ sending' = [sending EXCEPT ![p] = <<ev>>]
            /\ \/ log' = log /\ tail' = tail /\ \E i \in DOMAIN log : log[i] = ev
               \/ log' = Glued /\ tail # "line" /\ tail' = "line"
               \/ /\ tail = "line" /\ tail' = "line" /\ log' = Append(log, ev)
                  /\ ev.id = e /\ ev.version = Len(log) + 1
                  /\ \A i \in DOMAIN log : log[i].id # e
      BY <1>2, Appending
    <2>2. acked' = acked /\ cuts' = cuts
      BY <1>2 DEF AppendEvent
    <2>3. \A q \in Producers, x \in Event :
            sending'[q] = <<x>> => sending[q] = <<x>> \/ x = ev
      BY <2>1, <1>s
    <2>4. CASE log' = log /\ tail' = tail /\ \E i \in DOMAIN log : log[i] = ev
      <3>1. Missing' \subseteq Missing
        BY <2>2, <2>3, <2>4 DEF Missing
      <3> QED BY <1>1, <2>2, <2>4, <3>1
    <2>5. CASE log' = Glued /\ tail # "line" /\ tail' = "line"
      <3> DEFINE S == Missing \cup {ev}
                 last == log[Len(log)]
      <3>1. Due' = 0 /\ IsFiniteSet(Missing)
        BY <2>5 DEF Due, Paid
      <3>2. /\ IsFiniteSet(S) /\ Cardinality(S) \in Nat
            /\ Cardinality(S) <= Cardinality(Missing) + 1
        BY <1>a, <3>1
      <3>3. CASE tail = "fragment"
        <4>1. Missing' \subseteq S /\ Due = 1
          BY <1>g, <2>2, <2>3, <2>5, <3>3 DEF Due
        <4>2. Cardinality(S) + Due' <= 2 * cuts'
          BY <1>0, <2>2, <3>1, <3>2, <4>1 DEF Paid
        <4> HIDE DEF S
        <4> QED BY <1>b, <3>1, <3>2, <4>1, <4>2
      <3>4. CASE tail = "event"
        <4>1. Missing' \subseteq S \cup {last} /\ Due = 2
          BY <1>g, <2>2, <2>3, <2>5, <3>4 DEF Due
        <4> HIDE DEF S
        <4>2. /\ IsFiniteSet(S \cup {last}) /\ Cardinality(S \cup {last}) \in Nat
              /\ Cardinality(S \cup {last}) <= Cardinality(S) + 1
          BY <1>a, <3>2
        <4>3. Cardinality(S \cup {last}) + Due' <= 2 * cuts'
          BY <1>0, <2>2, <3>1, <3>2, <4>1, <4>2 DEF Paid
        <4> QED BY <1>b, <3>1, <4>1, <4>2, <4>3
      <3> QED BY <1>0, <2>5, <3>3, <3>4
    <2>6. CASE tail = "line" /\ tail' = "line" /\ log' = Append(log, ev)
      <3>1. \A i \in DOMAIN log : i \in DOMAIN log' /\ log'[i] = log[i]
        BY <2>6, <1>s
      <3>2. Len(log) + 1 \in DOMAIN log' /\ log'[Len(log) + 1] = ev
        BY <2>6, <1>s
      <3>3. Missing' \subseteq Missing
        BY <2>2, <2>3, <3>1, <3>2 DEF Missing
      <3> QED BY <1>1, <2>2, <2>6, <3>3
    <2> QED BY <2>1, <2>4, <2>5, <2>6
  <1>3. ASSUME NEW p \in Producers, NEW e \in Ids, CrashInWrite(p, e)
        PROVE  Paid'
    <2>1. UNCHANGED <<sending, acked>> /\ cuts' = cuts + 1 /\ IsFiniteSet(Missing)
      BY <1>3 DEF CrashInWrite, Paid
    <2>2. CASE log' = Glued /\ tail' = "fragment" /\ tail = "event"
      <3> DEFINE last == log[Len(log)]
      <3>1. Missing' \subseteq Missing \cup {last} /\ Due = 2 /\ Due' = 1
        BY <1>g, <2>1, <2>2 DEF Due
      <3>2. /\ IsFiniteSet(Missing \cup {last}) /\ Cardinality(Missing \cup {last}) \in Nat
            /\ Cardinality(Missing \cup {last}) <= Cardinality(Missing) + 1
        BY <1>a, <2>1
      <3>3. Cardinality(Missing \cup {last}) + Due' <= 2 * cuts'
        BY <1>0, <2>1, <3>1, <3>2 DEF Paid
      <3> QED BY <1>b, <3>1, <3>2, <3>3
    <2>3. CASE log' = Glued /\ tail' = "fragment" /\ tail # "event"
      <3>1. Missing' = Missing /\ Due' = 1
        BY <2>1, <2>3, GluedIs, EventIs DEF Missing, Due
      <3>2. Cardinality(Missing) + Due' <= 2 * cuts'
        BY <1>0, <2>1, <3>1 DEF Paid
      <3> QED BY <1>b, <2>1, <3>1, <3>2
    <2>4. ASSUME NEW ev \in Event, tail = "line", tail' = "event", log' = Append(log, ev)
          PROVE  Paid'
      <3>1. \A i \in DOMAIN log : i \in DOMAIN log' /\ log'[i] = log[i]
        BY <1>s, <2>4
      <3>2. Missing' \subseteq Missing /\ Due' = 2 /\ Due = 0
        BY <2>1, <2>4, <3>1, EventIs DEF Missing, Due
      <3>3. Cardinality(Missing) + Due' <= 2 * cuts'
        BY <1>0, <2>1, <3>2 DEF Paid
      <3> QED BY <1>b, <2>1, <3>2, <3>3
    <2> QED BY <1>3, <2>2, <2>3, <2>4, CuttingShort
  <1>4. ASSUME NEW p \in Producers, Notify(p) \/ CrashBeforeNotify(p)
        PROVE  Paid'
    <2>1. /\ sending[p] # << >> /\ sending' = [sending EXCEPT ![p] = << >>]
          /\ log' = log /\ acked' \subseteq acked \cup {sending[p][1]}
      BY <1>4 DEF Notify, CrashBeforeNotify, storeVars
    <2>3. PICK e \in Event : sending[p] = <<e>>
      BY <2>1, <1>s DEF InHand
    <2>4. \A q \in Producers, x \in Event : sending'[q] = <<x>> => sending[q] = <<x>>
      BY <2>1, <1>s
    <2>5. \A x \in Event : x \in acked' => x \in acked \/ sending[p] = <<x>>
      BY <2>1, <2>3
    <2>6. Missing' \subseteq Missing
      BY <2>1, <2>4, <2>5 DEF Missing
    <2>2. tail' = tail /\ cuts' = cuts
      BY <1>4 DEF Notify, CrashBeforeNotify, storeVars
    <2> QED BY <1>1, <2>2, <2>6
  <1>5. ASSUME UNCHANGED <<log, tail, cuts, sending, acked>>
        PROVE  Paid'
    BY <1>5 DEF Paid, Missing, Due
  <1>6. ASSUME NEW c \in Consumers, ConsumerStep(c)
        PROVE  UNCHANGED <<log, tail, cuts, sending, acked>>
    BY <1>6 DEF ConsumerStep, WaitStep, StartWait, DeadlinePasses,
         LoopTop, Find, Arm, WakeBySignal, WakeByIdle,
         RestartConsumer, storeVars
  <1>7. CASE UNCHANGED eventsVars
    BY <1>5, <1>7 DEF eventsVars
  <1> QED
    BY <1>2, <1>3, <1>4, <1>5, <1>6, <1>7 DEF EventsNext, ProducerStep

\* An append is read for ever but for the one that a partial line takes with it: of
\* the events whose publish returned no more are lost than two for each write cut
\* short, for any producers, retries, ids and deaths.
THEOREM LossesAreOfCuts == EventsSpec => []LossesAreCuts
  <1>1. EventsInit => Paid
    <2> SUFFICES ASSUME EventsInit PROVE Paid
      OBVIOUS
    <2>1. Missing = {}
      BY DEF EventsInit, Missing
    <2>2. Due = 0 /\ cuts = 0
      BY DEF EventsInit, Due
    <2> QED BY <2>1, <2>2, FS_EmptySet DEF Paid
  <1>2. EventsTyped /\ Paid => LossesAreCuts
    <2> SUFFICES ASSUME EventsTyped, Paid PROVE LossesAreCuts
      OBVIOUS
    <2>1. Lost \subseteq Missing
      BY DEF Lost, Missing, EventsTyped, EventsTypeOK
    <2>2. IsFiniteSet(Lost) /\ Cardinality(Lost) <= Cardinality(Missing)
      BY <2>1, FS_Subset DEF Paid
    <2>3. Cardinality(Lost) \in Nat /\ Cardinality(Missing) \in Nat /\ cuts \in Nat
      BY <2>2, FS_CardinalityType, EventsAssumption DEF Paid, EventsTyped, EventsTypeOK
    <2>4. Due \in Nat
      BY DEF Due
    <2> QED BY <2>2, <2>3, <2>4 DEF Paid, LossesAreCuts
  <1> QED BY EventsTypedAlways, <1>1, PaidStep, <1>2, PTL DEF EventsSpec

\* wait_for hands out the readable log: every step of the store, the broker and
\* their crashes publishes one event, withdraws the one whose publisher broke off,
\* delivers the next matching one to one consumer, or is none of the stream's.
THEOREM QueueIsAStream == EventsSpec => ImplementsStream
  <1> DEFINE stream == [i \in DOMAIN log |-> log[i].id]
  <1>1. EventsInit => Queue!StreamInit
    BY DEF EventsInit, Queue!StreamInit
  <1>2. ASSUME EventsTyped, [EventsNext]_(eventsVars)
        PROVE  [Queue!StreamNext]_(Queue!streamVars)
    <2>0. log \in Seq(Event) /\ cursor \in [Consumers -> Nat]
          /\ received \in [Consumers -> Seq(Ids)]
      BY <1>2 DEF EventsTyped, EventsTypeOK
    <2>a. ASSUME NEW ev \in Event, log' = Append(log, ev)
          PROVE  stream' = Append(stream, ev.id)
      BY <2>0, <2>a
    <2>g. ASSUME log' = Glued, tail' # "event", UNCHANGED <<cursor, received>>
          PROVE  Queue!Withdraw \/ UNCHANGED Queue!streamVars
      <3>1. CASE tail # "event"
        <4>1. log' = log
          BY <1>2, <2>g, <3>1, GluedIs
        <4> QED BY <2>g, <3>1, <4>1 DEF Queue!streamVars
      <3>2. CASE tail = "event"
        <4>1. /\ log' = SubSeq(log, 1, Len(log) - 1) /\ Len(log) \in DOMAIN log
              /\ Len(log) \in Nat
          BY <1>2, <2>g, <3>2, GluedIs DEF Glued, Front
        <4>2. stream' = Queue!Front(stream)
          <5>1. stream' = SubSeq(stream, 1, Len(stream) - 1)
            BY <2>0, <4>1
          <5> QED BY <5>1 DEF Queue!Front
        <4>3. (tail = "event") = TRUE /\ (tail' = "event") = FALSE
          BY <2>g, <3>2
        <4> QED BY <2>g, <3>2, <4>2, <4>3, Zenon DEF Queue!Withdraw
      <3> QED BY <3>1, <3>2
    <2>1. ASSUME NEW p \in Producers, NEW e \in Ids, AppendEvent(p, e)
          PROVE  Queue!Publish(e) \/ Queue!Withdraw \/ UNCHANGED Queue!streamVars
      <3>1. UNCHANGED <<cursor, received>>
        BY <2>1 DEF AppendEvent, waitVars
      <3>2. CASE log' = log /\ tail' = tail
        BY <3>1, <3>2 DEF Queue!streamVars
      <3>3. CASE log' = Glued /\ tail' = "line"
        BY <2>g, <3>1, <3>3
      <3>4. ASSUME NEW ev \in Event, log' = Append(log, ev), ev.id = e, tail = "line", tail' = "line",
                   \A i \in DOMAIN log : log[i].id # e
            PROVE  Queue!Publish(e)
        <4>1. stream' = Append(stream, e)
          BY <2>a, <3>4
        <4> QED BY <3>1, <3>4, <4>1 DEF Queue!Publish
      <3> QED BY <1>2, <2>1, <3>2, <3>3, <3>4, Appending
    <2>6. ASSUME NEW p \in Producers, NEW e \in Ids, CrashInWrite(p, e)
          PROVE  Queue!BreakOff(e) \/ Queue!Withdraw \/ UNCHANGED Queue!streamVars
      <3>1. UNCHANGED <<cursor, received>>
        BY <2>6 DEF CrashInWrite, waitVars
      <3>2. CASE log' = Glued /\ tail' = "fragment"
        BY <2>g, <3>1, <3>2
      <3>3. ASSUME NEW ev \in Event, log' = Append(log, ev), ev.id = e, tail = "line", tail' = "event",
                   \A i \in DOMAIN log : log[i].id # e
            PROVE  Queue!BreakOff(e)
        <4>1. stream' = Append(stream, e)
          BY <2>a, <3>3
        <4> QED BY <3>1, <3>3, <4>1 DEF Queue!BreakOff
      <3> QED BY <1>2, <2>6, <3>2, <3>3, CuttingShort
    <2>2. ASSUME NEW c \in Consumers, Find(c)
          PROVE  Queue!Deliver(c) \/ UNCHANGED Queue!streamVars
      <3>1. CASE Matching(c) = {}
        BY <2>2, <3>1 DEF Find, storeVars, Queue!streamVars
      <3>2. CASE Matching(c) # {}
        <4> DEFINE i == First(Matching(c))
        <4>1. Matching(c) \in SUBSET Nat
          BY <2>0 DEF Matching
        <4>2. i \in Matching(c) /\ \A j \in Matching(c) : i <= j
          BY <3>2, <4>1, FirstIs
        <4>3. \A j \in DOMAIN log :
                j \in Matching(c) <=> j > cursor[c] /\ log[j].id \in Wanted[c]
          BY <1>2 DEF Matching, Matches, EventsTyped, Numbered
        <4>4. i \in DOMAIN log /\ log[i].version = i
          BY <1>2, <4>2 DEF Matching, EventsTyped, Numbered
        <4>5. /\ log' = log /\ cursor' = [cursor EXCEPT ![c] = i]
              /\ received' = [received EXCEPT ![c] = Append(@, log[i].id)]
              /\ tail' = tail
          BY <2>2, <3>2, <4>4 DEF Find, storeVars
        <4> HIDE DEF i
        <4> QED BY <2>0, <4>2, <4>3, <4>4, <4>5 DEF Queue!Deliver
      <3> QED BY <3>1, <3>2
    <2>3. ASSUME NEW p \in Producers, Notify(p) \/ CrashBeforeNotify(p)
          PROVE  UNCHANGED Queue!streamVars
      BY <2>3 DEF Notify, CrashBeforeNotify,
           storeVars, waitVars, Queue!streamVars
    <2>4. ASSUME NEW c \in Consumers, ConsumerStep(c), ~Find(c)
          PROVE  UNCHANGED Queue!streamVars
      BY <2>4 DEF ConsumerStep, WaitStep, StartWait, DeadlinePasses,
           LoopTop, Arm, WakeBySignal, WakeByIdle,
           RestartConsumer, storeVars, Queue!streamVars
    <2>5. CASE UNCHANGED eventsVars
      BY <2>5 DEF eventsVars, Queue!streamVars
    <2> QED
      BY <1>2, <2>1, <2>2, <2>3, <2>4, <2>5, <2>6
         DEF EventsNext, ProducerStep, Queue!StreamNext
  <1> QED
    BY EventsTypedAlways, <1>1, <1>2, PTL
       DEF EventsSpec, ImplementsStream, Queue!StreamSpec
===============================================================================
