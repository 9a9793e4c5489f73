-------------------------- MODULE MCEventPipeline --------------------------
(***************************************************************************)
(* Instances of the event system for TLC: the whole pipeline, and its two  *)
(* halves, each on its own, where larger bounds are within reach.          *)
(***************************************************************************)
EXTENDS EventPipeline, TLC

\* Events, publishers and consumer instances are interchangeable.
Symmetry ==
  Permutations(Events) \cup Permutations(Publishers) \cup Permutations(Consumers)

NothingTaken == acked = {} /\ outstanding = {} /\ InboxInit

\* Publishers fill the stream and nobody takes anything; extra copies matter
\* to consumers only, so the duplicate window stays open.  Two faults are
\* enough for one to hit the repair of the other.
OutboxHalf ==
  /\ NothingTaken
  /\ OutboxNext
  /\ window \subseteq window'
  /\ faults'.publish + faults'.write + faults'.stop <= 2
  /\ UNCHANGED <<queueVars, inboxVars>>

\* No publisher has started, and the broker feeds the consumers copies of the
\* only event, at any time.
InboxHalf ==
  /\ \A p \in Publishers : pub[p].at = "down" /\ faults.stop = 0
  /\ InboxStep
  /\ \E e \in Committed : \A f \in Events \ {e} : outbox[f] = Absent /\ copies'[f] = 0
  /\ UNCHANGED outboxVars

Halves == Init /\ [][OutboxHalf \/ InboxHalf]_vars
=============================================================================
