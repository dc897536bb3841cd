---------------------------- MODULE ScriptCatalog ----------------------------
(***************************************************************************)
(* One script name in FileWorkflowScriptCatalog (script_catalog.py).  Savers *)
(* and readers are processes of their own over the same roots; there is no   *)
(* lock.  Root 1 is written to; root 2 holds what came with the installation *)
(* and does not change.  Files are replaced atomically.                      *)
(***************************************************************************)
EXTENDS Naturals, FiniteSets, FiniteSetsExt

CONSTANTS Savers, Readers, Sources,
          Bundled,     \* the versions of root 2
          MaxListed,   \* the last version whose file name a listing matches
          MaxVersion,  \* bound: version numbers
          MaxSaves,    \* bound: calls of save_script
          MaxReads     \* bound: calls of inspect_script

Versions == 1..MaxVersion
None == "none"
Latest == 0

ASSUME CatalogAssumption ==
  /\ MaxVersion \in Nat \ {0} /\ Bundled \subseteq Versions
  /\ MaxListed \in Nat /\ \A v \in Bundled : v <= MaxListed
  /\ {MaxSaves, MaxReads} \subseteq Nat
  /\ Sources # {} /\ None \notin Sources /\ "bundled" \notin Sources

VARIABLES
  script,    \* script[v]: the source of v in root 1
  meta,      \* meta[v]: v's metadata file in root 1: the hash of a source, and what
             \* it says, which is about a source
  saver,     \* saver[s]: where s is in save_script
  reader,    \* reader[r]: where r is in inspect_script
  saves, reads,
  shown,     \* history: the entries returned, [version, sha, meta, text]
  replaced,  \* history: the versions that a call was allowed to replace
  overlap    \* history: two savers were at work at once

vars == <<script, meta, saver, reader, saves, reads, shown, replaced, overlap>>

\* _versions_for_dir of root 1: a file name with more digits is no version's.
Own == {v \in Versions : script[v] # None /\ v <= MaxListed}

\* list_versions, over all roots.
Visible == Own \cup Bundled

\* _resolve_script_path: the first root that has the version, for the latest the
\* first that has any.
Source(v) ==
  CASE v \in Own -> script[v] [] v \in Bundled \ Own -> "bundled" [] OTHER -> None
LatestVersion ==
  CASE Own # {} -> Max(Own) [] Own = {} /\ Bundled # {} -> Max(Bundled) [] OTHER -> 0

-----------------------------------------------------------------------------
(* save_script *)

Idle == [at |-> "idle", version |-> 1, source |-> None, append |-> FALSE,
         replace |-> FALSE, read |-> None]
savesRest == <<reader, reads, replaced, overlap>>

\* Mutant: the versions of the written root are counted.
NextByCount == Cardinality(Own) + 1

NextVersion == IF Visible = {} THEN 1 ELSE Max(Visible) + 1

\* Mutant: only the written root is asked.
FreeInOwn(v) == v \notin Own

Free(v) == v \notin Visible

\* A script that validates is given a version, which is free or to be replaced.
Choose(s, source, version, replace) ==
  LET chosen == IF version = Latest THEN NextVersion ELSE version
  IN  /\ saver[s] = Idle /\ saves < MaxSaves /\ chosen \in Versions
      /\ saves' = saves + 1
      /\ Free(chosen) \/ replace
      /\ saver' = [saver EXCEPT ![s] =
                     [at |-> "script", version |-> chosen, source |-> source,
                      append |-> version = Latest, replace |-> replace, read |-> None]]
      /\ overlap' = (overlap \/ \E q \in Savers : saver[q] # Idle)
      /\ replaced' = IF replace THEN replaced \cup {chosen} ELSE replaced
      /\ UNCHANGED <<script, meta, reader, reads, shown>>

\* FileExistsError
Exists(s, version) ==
  /\ saver[s] = Idle /\ saves < MaxSaves /\ ~Free(version)
  /\ saves' = saves + 1
  /\ UNCHANGED <<script, meta, saver, reader, reads, shown, replaced, overlap>>

WriteScript(s) ==
  /\ saver[s].at = "script"
  /\ script' = [script EXCEPT ![saver[s].version] = saver[s].source]
  /\ saver' = [saver EXCEPT ![s].at = "meta"]
  /\ UNCHANGED <<savesRest, meta, saves, shown>>

WriteMeta(s) ==
  /\ saver[s].at = "meta"
  /\ meta' = [meta EXCEPT ![saver[s].version] =
                [sha |-> saver[s].source, about |-> saver[s].source]]
  /\ saver' = [saver EXCEPT ![s].at = "read"]
  /\ UNCHANGED <<savesRest, script, saves, shown>>

\* Mutant: the metadata is taken as it is found.
MetaForUnchecked(v, source) ==
  IF meta[v].sha = None THEN source ELSE meta[v].about

\* _entry_for: metadata of another hash is ignored; the source is validated.
MetaFor(v, source) == IF meta[v].sha = source THEN meta[v].about ELSE source

\* An entry has the hash of one reading of the file; its text, if asked for, is
\* another reading's.
Entry(v, source) ==
  [version |-> v, sha |-> source, meta |-> MetaFor(v, source), text |-> None]

\* The entry of the saved version is read from the disk again, in two steps.
SaverReads(s) ==
  /\ saver[s].at = "read"
  /\ saver' = [saver EXCEPT ![s].at = "entry", ![s].read = script[saver[s].version]]
  /\ UNCHANGED <<savesRest, script, meta, saves, shown>>

Return(s) ==
  LET c == saver[s] IN
  /\ c.at = "entry"
  /\ saver' = [saver EXCEPT ![s] = Idle]
  /\ shown' = shown \cup {Entry(c.version, c.read)}
  /\ UNCHANGED <<savesRest, script, meta, saves>>

\* The process dies, or a write fails.
Die(s) ==
  /\ saver[s] # Idle
  /\ saver' = [saver EXCEPT ![s] = Idle]
  /\ UNCHANGED <<savesRest, script, meta, saves, shown>>

-----------------------------------------------------------------------------
(* inspect_script of one's own root: the path, the source, the metadata, and  *)
(* with include_source the source again. *)

readsRest == <<script, meta, saver, saves, replaced, overlap>>
Away == [at |-> "idle", version |-> 1, read |-> None, meta |-> None]

Resolve(r, version) ==
  LET chosen == IF version = Latest THEN LatestVersion ELSE version
  IN  /\ reader[r] = Away /\ reads < MaxReads /\ chosen \in Own
      /\ reads' = reads + 1
      /\ reader' = [reader EXCEPT ![r] = [Away EXCEPT !.at = "source", !.version = chosen]]
      /\ UNCHANGED <<readsRest, shown>>

ReadSource(r) ==
  /\ reader[r].at = "source"
  /\ reader' = [reader EXCEPT ![r].at = "meta", ![r].read = script[reader[r].version]]
  /\ UNCHANGED <<readsRest, reads, shown>>

ReadMeta(r) ==
  LET c == reader[r]
  IN  /\ c.at = "meta"
      /\ \/ /\ shown' = shown \cup {Entry(c.version, c.read)}
            /\ reader' = [reader EXCEPT ![r] = Away]
         \/ /\ reader' = [reader EXCEPT ![r].at = "text",
                                        ![r].meta = MetaFor(c.version, c.read)]
            /\ UNCHANGED shown
      /\ UNCHANGED <<readsRest, reads>>

ReadText(r) ==
  LET c == reader[r]
  IN  /\ c.at = "text"
      /\ shown' = shown \cup {[version |-> c.version, sha |-> c.read, meta |-> c.meta,
                               text |-> script[c.version]]}
      /\ reader' = [reader EXCEPT ![r] = Away]
      /\ UNCHANGED <<readsRest, reads>>

-----------------------------------------------------------------------------

Init ==
  /\ script = [v \in Versions |-> None]
  /\ meta = [v \in Versions |-> [sha |-> None, about |-> None]]
  /\ saver = [s \in Savers |-> Idle] /\ reader = [r \in Readers |-> Away]
  /\ saves = 0 /\ reads = 0 /\ shown = {} /\ replaced = {} /\ overlap = FALSE

Saver(s) ==
  \/ \E source \in Sources, version \in {Latest} \cup Versions, replace \in BOOLEAN :
       Choose(s, source, version, replace)
  \/ \E version \in Versions : Exists(s, version)
  \/ WriteScript(s) \/ WriteMeta(s) \/ SaverReads(s) \/ Return(s) \/ Die(s)

Reader(r) ==
  \/ \E version \in {Latest} \cup Versions : Resolve(r, version)
  \/ ReadSource(r) \/ ReadMeta(r) \/ ReadText(r)

Next == (\E s \in Savers : Saver(s)) \/ (\E r \in Readers : Reader(r))

Spec == Init /\ [][Next]_vars

-----------------------------------------------------------------------------
(* Properties. *)

\* Type correctness of the root and of the calls under way.
TypeOK ==
  /\ script \in [Versions -> Sources \cup {None}]
  /\ meta \in [Versions -> [sha : Sources \cup {None}, about : Sources \cup {None}]]
  /\ saver \in [Savers -> [at : {"idle", "script", "meta", "read", "entry"}, version : Versions,
                           source : Sources \cup {None}, append : BOOLEAN, replace : BOOLEAN,
                           read : Sources \cup {None}]]
  /\ reader \in [Readers -> [at : {"idle", "source", "meta", "text"}, version : Versions,
                             read : Sources \cup {None}, meta : Sources \cup {None}]]
  /\ saves \in 0..MaxSaves /\ reads \in 0..MaxReads /\ overlap \in BOOLEAN
  /\ shown \subseteq [version : Versions, sha : Sources, meta : Sources,
                      text : Sources \cup {None}]
  /\ replaced \subseteq Versions

\* What an entry is put together from three readings is of one source, wherever
\* savers died between their two files: its metadata always, and its text unless
\* savers overlapped or the version was being replaced.
EntryHangsTogether ==
  \A e \in shown :
    /\ e.meta = e.sha
    /\ e.text \in {None, e.sha} \/ overlap \/ e.version \in replaced

\* The same with replacements: an entry's hash is that of the text it comes with.
EntryAnyway == \A e \in shown : e.text \in {None, e.sha}

\* "Existing versions are immutable unless replace=True": with one saver at a time
\* what a version loads as, from whichever root, changes only by a replacement.
LoadedStays ==
  [][\A v \in Versions :
       Source(v) # None /\ ~overlap /\ Source(v)' # Source(v)
         => \E s \in Savers : saver[s].replace /\ saver[s].version = v]_vars

\* The same of savers that overlap.
ImmutableAnyway ==
  [][\A v \in Versions :
       Source(v) # None /\ Source(v)' # Source(v)
         => \E s \in Savers : saver[s].replace /\ saver[s].version = v]_vars

\* A script appended by a saver that had the name to itself is what the name loads
\* when no version is asked for, before the call returns, as long as the numbers
\* have the digits that a listing expects.
AppendedIsLatest ==
  ~overlap => \A s \in Savers :
    /\ saver[s].append /\ saver[s].version <= MaxListed
    /\ saver[s].at \in {"meta", "read", "entry"}
    => LatestVersion = saver[s].version /\ Source(LatestVersion) = saver[s].source
=============================================================================
