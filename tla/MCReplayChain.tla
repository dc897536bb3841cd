---------------------------- MODULE MCReplayChain ----------------------------
(***************************************************************************)
(* ReplayChain for TLC: small scripts.                                      *)
(***************************************************************************)
EXTENDS ReplayChain

CallTo(kind, what) == [kind |-> kind, what |-> what]

\* One call in each branch.
FanOut == << <<CallTo("pure", "a")>>, <<CallTo("prompt", "p")>>,
             <<CallTo("card", "c")>>, <<CallTo("prompt", "p")>> >>

\* Two steps in each branch.
TwoStage == << <<CallTo("pure", "a1"), CallTo("pure", "a2")>>,
               <<CallTo("pure", "b1"), CallTo("pure", "b2")>> >>
TwoCards == << <<CallTo("pure", "a1"), CallTo("card", "a2")>>,
               <<CallTo("pure", "b1"), CallTo("card", "b2")>> >>
Mixed == << <<CallTo("pure", "a1"), CallTo("prompt", "p")>>,
            <<CallTo("prompt", "p"), CallTo("card", "c")>> >>

\* The same prompt in both branches.
SamePrompt == << <<CallTo("prompt", "p")>>, <<CallTo("prompt", "p")>> >>

Chain(script, parallel, catches, runs) ==
  [script |-> script, parallel |-> parallel, catches |-> catches, refuses |-> FALSE,
   runs |-> runs]

\* A call of each replayable kind, the prompt twice, on a disk that refuses lines.
Small == << <<CallTo("pure", "a")>>, <<CallTo("prompt", "p")>>, <<CallTo("prompt", "p")>> >>
Refusing == [Chain(Small, 2, TRUE, 2) EXCEPT !.refuses = TRUE]

\* Stable ids two ways, and ids that depend on the schedule.
AllChains == {Chain(FanOut, 2, TRUE, 2), Chain(Mixed, 1, FALSE, 3),
              Chain(TwoStage, 2, FALSE, 2), Refusing}
FindingChains == {Chain(FanOut, 2, FALSE, 3)}
  \cup {Chain(script, 2, FALSE, 2) : script \in {TwoStage, TwoCards, SamePrompt}}
=============================================================================
