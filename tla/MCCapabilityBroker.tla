-------------------------- MODULE MCCapabilityBroker --------------------------
(***************************************************************************)
(* CapabilityBroker for TLC: scripts of one to four rounds.                  *)
(***************************************************************************)
EXTENDS CapabilityBroker

Plain(kind) == [kind |-> kind, of |-> <<0, 0>>]
Prompt(p) == [kind |-> "prompt", of |-> <<0, p>>]
On(kind, r, k) == [kind |-> kind, of |-> <<r, k>>]

Limits(script, budget, cap, retries, faults) ==
  [script |-> script, budget |-> budget, agents |-> cap, retries |-> retries,
   faults |-> faults, deterministic |-> TRUE]

\* One child in the background, polled and cancelled at once.
Lifecycle ==
  << <<Plain("start"), Prompt(1)>>,
     <<On("check", 1, 1), On("cancel", 1, 1)>>,
     <<On("check", 1, 1), Prompt(1)>> >>

\* More work than the budget or the cap allows.
Fan == << <<Plain("agent"), Prompt(1)>>, <<Prompt(1), Plain("start")>>,
          <<On("check", 2, 2), Plain("typed")>> >>

\* One call after another, the last in the background.
Serial == << <<Plain("agent")>>, <<Prompt(1)>>, <<Plain("start")>>, <<On("check", 3, 1)>> >>

MCSetups ==
  {Limits(Lifecycle, 9, 4, 0, {}), Limits(Lifecycle, 9, 4, 1, {"raise", "schema"}), Limits(Lifecycle, 9, 2, 1, {"late cancel"}),
   Limits(Fan, 2, 4, 0, {}), Limits(Fan, 20, 3, 1, {"raise", "unrecorded"}),
   Limits(Serial, 2, 4, 1, {"schema", "large"}), Limits(Serial, 5, 3, 0, {"raise", "large"})}

\* An agent type that is unknown, two prompts that pass the budget together, a
\* prompt that is tried again, one child in the background.
MCTyped == {Limits(<< <<Plain("typed"), Prompt(1)>>, <<Plain("agent")>> >>, 9, 4, 0, {})}
MCPrompts == {Limits(<< <<Prompt(1), Prompt(2)>> >>, 2, 4, 0, {})}
MCRetried == {Limits(<< <<Prompt(1)>>, <<Prompt(1)>> >>, 9, 4, 0, {"raise"})}
MCSingle == {Limits(<< <<Plain("start")>>, <<On("check", 1, 1)>>, <<Prompt(1)>> >>, 9, 4, 1,
                    {"schema", "unrecorded"})}
MCFindings == MCTyped \cup MCPrompts \cup MCRetried \cup MCSingle
=============================================================================
