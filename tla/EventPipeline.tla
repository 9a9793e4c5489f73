--------------------------- MODULE EventPipeline ---------------------------
(***************************************************************************)
(* The whole path of a domain event: the outbox and its publishers, the    *)
(* broker, and the consumers with their inbox (internal/events, cmd/       *)
(* publisher, cmd/consumer).                                               *)
(***************************************************************************)
EXTENDS Outbox, Inbox

vars == <<outboxVars, storeVars, queueVars, inboxVars>>

Init == JetStreamInit /\ OutboxInit /\ InboxInit

Next ==
  \/ OutboxNext /\ UNCHANGED <<queueVars, inboxVars>>
  \/ InboxNext /\ UNCHANGED <<outboxVars, storeVars>>

Spec ==
  /\ Init /\ [][Next]_vars
  /\ OutboxFairness /\ InboxFairness

-----------------------------------------------------------------------------
(* Properties.                                                             *)

\* Every variable of the three parts stays in its set: the statuses of the
\* CHECK constraint of migration 009, and counters within their limits.
TypeOK == JetStreamTypeOK /\ OutboxTypeOK /\ InboxTypeOK

Promise ==
  INSTANCE AtLeastOnce WITH
    Workers <- Cardinality(Consumers),
    recorded <- Committed,
    forgotten <- unmarked,
    settled <- {m[1] : m \in acked}

\* The pipeline implements AtLeastOnce: an event is handled only after its row
\* committed, settled only when handled, and repeated no more often than the
\* instances and the lost inbox rows account for.
ImplementsPromise == Promise!Spec

DeliveriesSpent(e) == \E m \in Copy : m[1] = e /\ Abandoned(m)

\* While other streams stay busy every committed event is handled, unless its
\* publish retries or its deliveries were used up; a crash of either process
\* only delays it (publisher.go Run, consumer.go HandleWithIdempotency).
EveryEventHandled ==
  \A e \in Events :
    e \in Committed ~> applied[e] > 0 \/ RetriesSpent(e) \/ DeliveriesSpent(e)
=============================================================================
