----------------------------- MODULE EventStream -----------------------------
(***************************************************************************)
(* What the workflow event queue promises (hermes_workflows/events.py): one *)
(* stream in which every event id occurs at most once, which only grows but *)
(* for an id whose publisher broke off and which is withdrawn before        *)
(* another is published, and, for every consumer that asks for "the next    *)
(* matching event after the last one I was given", the matching part of     *)
(* that stream from its place on, in order and without repetitions.  How    *)
(* events are stored, locked, signalled or waited for does not appear here. *)
(***************************************************************************)
EXTENDS Naturals, Sequences, SequencesExt

CONSTANTS Ids,        \* event ids
          Consumers,  \* waiting workflow parents
          Wanted      \* Wanted[c]: the ids consumer c's predicate matches

VARIABLES stream,     \* the published ids, oldest first
          loose,      \* the publisher of the last one broke off
          place,      \* place[c]: where in the stream the last id handed to c was
          received    \* received[c]: the ids handed to consumer c, in order

streamVars == <<stream, loose, place, received>>

StreamInit ==
  /\ stream = << >> /\ loose = FALSE
  /\ place = [c \in Consumers |-> 0]
  /\ received = [c \in Consumers |-> << >>]

Publish(e) ==
  /\ ~loose /\ \A i \in DOMAIN stream : stream[i] # e
  /\ stream' = Append(stream, e)
  /\ UNCHANGED <<loose, place, received>>

BreakOff(e) ==
  /\ ~loose /\ \A i \in DOMAIN stream : stream[i] # e
  /\ stream' = Append(stream, e) /\ loose' = TRUE
  /\ UNCHANGED <<place, received>>

\* The next place is given again: a consumer that was handed the id that is
\* withdrawn will not be handed the one that takes its place.
Withdraw ==
  /\ loose /\ loose' = FALSE
  /\ stream' = Front(stream)
  /\ UNCHANGED <<place, received>>

\* The first matching event after the one c was given last.
Deliver(c) ==
  \E i \in DOMAIN stream :
    /\ i > place[c] /\ stream[i] \in Wanted[c]
    /\ \A j \in DOMAIN stream : (j > place[c] /\ stream[j] \in Wanted[c]) => i <= j
    /\ place' = [place EXCEPT ![c] = i]
    /\ received' = [received EXCEPT ![c] = Append(@, stream[i])]
    /\ UNCHANGED <<stream, loose>>

StreamNext ==
  \/ \E e \in Ids : Publish(e) \/ BreakOff(e)
  \/ Withdraw
  \/ \E c \in Consumers : Deliver(c)

StreamSpec == StreamInit /\ [][StreamNext]_streamVars
=============================================================================
