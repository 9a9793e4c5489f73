---------------------------- MODULE AtLeastOnce ----------------------------
(***************************************************************************)
(* What the event system promises the rest of the program, with no outbox, *)
(* broker or inbox in sight: an event is recorded once, its handler runs   *)
(* only afterwards, the event is settled only when the handler has run,    *)
(* and the handler runs more than once per worker only when a worker lost  *)
(* track of having run it.                                                 *)
(***************************************************************************)
EXTENDS Integers

CONSTANTS
  Events,
  Workers     \* how many workers there are

VARIABLES
  recorded,   \* the events committed with their business data
  applied,    \* applied[e]: runs of the handler that committed
  forgotten,  \* forgotten[e]: runs a worker lost track of
  settled     \* the events a worker has reported as done

Init ==
  /\ recorded = {}
  /\ applied = [e \in Events |-> 0]
  /\ forgotten = [e \in Events |-> 0]
  /\ settled = {}

Record(e) ==
  /\ e \notin recorded
  /\ recorded' = recorded \cup {e}
  /\ UNCHANGED <<applied, forgotten, settled>>

Apply(e) ==
  /\ e \in recorded
  /\ applied[e] < Workers + forgotten[e]
  /\ applied' = [applied EXCEPT ![e] = @ + 1]
  /\ UNCHANGED <<recorded, forgotten, settled>>

Forget(e) ==
  /\ forgotten[e] < applied[e]
  /\ forgotten' = [forgotten EXCEPT ![e] = @ + 1]
  /\ UNCHANGED <<recorded, applied, settled>>

Settle(e) ==
  /\ applied[e] > 0
  /\ settled' = settled \cup {e}
  /\ UNCHANGED <<recorded, applied, forgotten>>

Next == \E e \in Events : Record(e) \/ Apply(e) \/ Forget(e) \/ Settle(e)

Spec == Init /\ [][Next]_<<recorded, applied, forgotten, settled>>
=============================================================================
