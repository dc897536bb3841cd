--------------------------- MODULE MCScriptCatalog ---------------------------
(***************************************************************************)
(* ScriptCatalog for TLC.  Savers are interchangeable, and so are sources.   *)
(***************************************************************************)
EXTENDS ScriptCatalog, TLC

CONSTANTS s1, s2, r1, A, B

MCSymmetry == Permutations({s1, s2}) \cup Permutations({A, B})
=============================================================================
