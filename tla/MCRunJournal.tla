---------------------------- MODULE MCRunJournal ----------------------------
(***************************************************************************)
(* RunJournal for TLC: both stores in the three modes.                       *)
(***************************************************************************)
EXTENDS RunJournal

CONSTANTS c1, c2

Store(backend, mode, every, late) ==
  [backend |-> backend, mode |-> mode, every |-> every, late |-> late]

MCSetups ==
  {Store(b, m, 2, FALSE) : b \in {"file", "sqlite"}, m \in {"sync", "async", "exit"}}
  \cup {Store("sqlite", "async", 1, FALSE), Store("file", "async", 3, TRUE),
        Store("sqlite", "exit", 2, TRUE)}

\* A file store that flushes every event: a begin that failed leaves its boot event.
MCEager == {Store("file", "async", 1, FALSE)} \cup MCSetups
=============================================================================
