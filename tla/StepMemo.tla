------------------------------- MODULE StepMemo -------------------------------
(***************************************************************************)
(* What the replay cache of hermes_workflows promises for one script: a     *)
(* step whose outcome is recorded has that outcome for ever, and every run  *)
(* of the chain that asks for it is told the recorded outcome.  Runs, call   *)
(* ids, files and crashes do not appear here.                               *)
(***************************************************************************)

CONSTANTS Steps,    \* the replayable steps of the script
          Outcomes  \* what a step may come to

VARIABLES memo,     \* what is recorded, as [step, outcome] records
          told      \* what the script was told, as [run, step, outcome] records

memoVars == <<memo, told>>

MemoInit == memo = {} /\ told = {}

\* Outcomes are recorded, of steps that have none yet.
Record ==
  /\ memo \subseteq memo'
  /\ memo' \subseteq [step : Steps, outcome : Outcomes]
  /\ \A m, n \in memo' : m.step = n.step => m = n
  /\ UNCHANGED told

\* The script of some run is told the outcome of a step.
Tell ==
  /\ \E t \in told' : told' = told \cup {t}
  /\ \A t \in told' \ told, m \in memo : t.step = m.step => t.outcome = m.outcome
  /\ UNCHANGED memo

MemoSpec == MemoInit /\ [][Record \/ Tell]_memoVars
=============================================================================
