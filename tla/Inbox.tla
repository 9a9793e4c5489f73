------------------------------- MODULE Inbox -------------------------------
(***************************************************************************)
(* The consumer side: HandleWithIdempotency (internal/events/consumer.go)  *)
(* around a handler, in one or more running instances of cmd/consumer that *)
(* share the durable consumer.  Each instance runs its callback on one     *)
(* message at a time, from a local buffer the client library fills.        *)
(*                                                                         *)
(* The handler is any one that commits its effect in a transaction of its  *)
(* own: applied[e] counts those commits.  What a handler does about being  *)
(* run twice is the subject of the module of its component.                *)
(***************************************************************************)
EXTENDS JetStream, Sequences

CONSTANTS
  Consumers,   \* running instances of cmd/consumer
  MaxBuffer,   \* bound on the client's local buffer
  MaxHandlerErrors, MaxInboxErrors, MaxLostAcks, MaxConsumerStops,
  MaxAckWaits  \* bounds on faults and on AckWait timeouts

ASSUME InboxAssumption ==
  /\ IsFiniteSet(Consumers)
  /\ MaxBuffer \in Nat \ {0}
  /\ MaxHandlerErrors \in Nat /\ MaxInboxErrors \in Nat
  /\ MaxLostAcks \in Nat /\ MaxConsumerStops \in Nat /\ MaxAckWaits \in Nat

VARIABLES
  inbox,     \* inbox_consumed_events: the events marked as consumed
  applied,   \* applied[e]: commits of the handler for e
  buffer,    \* buffer[c]: copies delivered to c, the first being handled
  step,      \* step[c]: where the callback of c is
  unmarked,  \* history: commits whose inbox row was never written
  mishaps    \* faults spent so far, by kind

inboxVars == <<inbox, applied, buffer, step, unmarked, mishaps>>

Steps == {"check", "handle", "mark", "ack"}

NoMishap == [handler |-> 0, write |-> 0, ack |-> 0, stop |-> 0, wait |-> 0]

InboxInit ==
  /\ inbox = {}
  /\ applied = [e \in Events |-> 0]
  /\ buffer = [c \in Consumers |-> <<>>]
  /\ step = [c \in Consumers |-> "check"]
  /\ unmarked = [e \in Events |-> 0]
  /\ mishaps = NoMishap

Busy(c) == buffer[c] # <<>>

Current(c) == Head(buffer[c])

\* The callback returns; the next buffered message, if any, is checked.
Return(c) ==
  /\ buffer' = [buffer EXCEPT ![c] = Tail(@)]
  /\ step' = [step EXCEPT ![c] = "check"]

Advance(c, s) == step' = [step EXCEPT ![c] = s] /\ UNCHANGED buffer

Mishap(kind, bound) ==
  /\ mishaps[kind] < bound
  /\ mishaps' = [mishaps EXCEPT ![kind] = @ + 1]

-----------------------------------------------------------------------------
Receive(c) ==
  /\ Len(buffer[c]) < MaxBuffer
  /\ \E m \in Copy :
       /\ Deliver(m)
       /\ buffer' = [buffer EXCEPT ![c] = Append(@, m)]
  /\ UNCHANGED <<inbox, applied, step, unmarked, mishaps>>

\* Faulty variants: the inbox is not asked; a failed query is acked.
CheckWithoutInbox(c) ==
  /\ Busy(c) /\ step[c] = "check"
  /\ Advance(c, "handle")
  /\ UNCHANGED <<inbox, applied, unmarked, mishaps, queueVars>>

CheckAcksOnError(c) ==
  /\ Busy(c) /\ step[c] = "check"
  /\ \/ /\ Advance(c, IF Current(c)[1] \in inbox THEN "ack" ELSE "handle")
        /\ UNCHANGED mishaps
     \/ Mishap("write", MaxInboxErrors) /\ Advance(c, "ack")
  /\ UNCHANGED <<inbox, applied, unmarked, queueVars>>

\* IsEventConsumed: skip and ack, go on, or nak when the query fails.
Check(c) ==
  /\ Busy(c) /\ step[c] = "check"
  /\ \/ /\ Advance(c, IF Current(c)[1] \in inbox THEN "ack" ELSE "handle")
        /\ UNCHANGED <<mishaps, queueVars>>
     \/ /\ Mishap("write", MaxInboxErrors)
        /\ Release(Current(c))
        /\ Return(c)
  /\ UNCHANGED <<inbox, applied, unmarked>>

\* Faulty variants: a failed handler is acked; or is marked as consumed.
HandleAcksOnError(c) ==
  /\ Busy(c) /\ step[c] = "handle"
  /\ \/ /\ applied' = [applied EXCEPT ![Current(c)[1]] = @ + 1]
        /\ Advance(c, "mark")
        /\ UNCHANGED mishaps
     \/ /\ Mishap("handler", MaxHandlerErrors)
        /\ Advance(c, "ack")
        /\ UNCHANGED applied
  /\ UNCHANGED <<inbox, unmarked, queueVars>>

HandleIgnoresError(c) ==
  /\ Busy(c) /\ step[c] = "handle"
  /\ Advance(c, "mark")
  /\ \/ applied' = [applied EXCEPT ![Current(c)[1]] = @ + 1] /\ UNCHANGED mishaps
     \/ Mishap("handler", MaxHandlerErrors) /\ UNCHANGED applied
  /\ UNCHANGED <<inbox, unmarked, queueVars>>

\* The handler commits, or fails without effect and the message is nacked.
Handle(c) ==
  /\ Busy(c) /\ step[c] = "handle"
  /\ \/ /\ applied' = [applied EXCEPT ![Current(c)[1]] = @ + 1]
        /\ Advance(c, "mark")
        /\ UNCHANGED <<mishaps, queueVars>>
     \/ /\ Mishap("handler", MaxHandlerErrors)
        /\ Release(Current(c))
        /\ Return(c)
        /\ UNCHANGED applied
  /\ UNCHANGED <<inbox, unmarked>>

\* MarkEventConsumed, in a statement of its own; its error is discarded.
MarkConsumed(c) ==
  /\ Busy(c) /\ step[c] = "mark"
  /\ Advance(c, "ack")
  /\ \/ /\ inbox' = inbox \cup {Current(c)[1]}
        /\ UNCHANGED <<unmarked, mishaps>>
     \/ /\ Mishap("write", MaxInboxErrors)
        /\ unmarked' = [unmarked EXCEPT ![Current(c)[1]] = @ + 1]
        /\ UNCHANGED inbox
  /\ UNCHANGED <<applied, queueVars>>

\* msg.Ack, whose error is discarded too.
Acknowledge(c) ==
  /\ Busy(c) /\ step[c] = "ack"
  /\ \/ Ack(Current(c)) /\ UNCHANGED mishaps
     \/ Mishap("ack", MaxLostAcks) /\ UNCHANGED queueVars
  /\ Return(c)
  /\ UNCHANGED <<inbox, applied, unmarked>>

-----------------------------------------------------------------------------
\* The process stops, wherever the callback is, and is started again.
ConsumerStops(c) ==
  /\ Busy(c)
  /\ Mishap("stop", MaxConsumerStops)
  /\ buffer' = [buffer EXCEPT ![c] = <<>>]
  /\ step' = [step EXCEPT ![c] = "check"]
  /\ unmarked' = IF step[c] = "mark"
                 THEN [unmarked EXCEPT ![Current(c)[1]] = @ + 1]
                 ELSE unmarked
  /\ UNCHANGED <<inbox, applied, queueVars>>

\* The copy is held by a callback or waiting in a buffer.
Held(m) == \E c \in Consumers : \E i \in 1..Len(buffer[c]) : buffer[c][i] = m

\* 30 s without an ack.  Only the timeouts that overtake an instance still
\* holding the copy are bounded.
AckWait(m) ==
  /\ AckWaitElapses(m)
  /\ IF Held(m) THEN Mishap("wait", MaxAckWaits) ELSE UNCHANGED mishaps
  /\ UNCHANGED <<inbox, applied, buffer, step, unmarked>>

-----------------------------------------------------------------------------
CallbackStep(c) ==
  Check(c) \/ Handle(c) \/ MarkConsumed(c) \/ Acknowledge(c)

InboxNext ==
  \/ \E c \in Consumers : Receive(c) \/ CallbackStep(c) \/ ConsumerStops(c)
  \/ \E m \in Copy : AckWait(m)

\* Instances run, the broker delivers what it may, and AckWait elapses for a
\* copy that nobody holds any more.
InboxFairness ==
  /\ \A c \in Consumers :
       /\ WF_<<inboxVars, queueVars>>(CallbackStep(c))
       /\ WF_<<inboxVars, queueVars>>(Receive(c))
  /\ \A m \in Copy : WF_<<inboxVars, queueVars>>(~Held(m) /\ AckWait(m))

\* The publishers, as seen from here: the broker may store a copy, and its
\* duplicate window may elapse, at any time.
Arrive ==
  /\ \E e \in Events : Store(e) \/ WindowElapses(e)
  /\ UNCHANGED <<queueVars, inboxVars>>

InboxStep == Arrive \/ (InboxNext /\ UNCHANGED storeVars)

inVars == <<storeVars, queueVars, inboxVars>>

InboxSpec == JetStreamInit /\ InboxInit /\ [][InboxStep]_inVars

-----------------------------------------------------------------------------
(* Properties.                                                             *)

InboxTypeOK ==
  /\ inbox \subseteq Events
  /\ applied \in [Events -> Nat]
  /\ buffer \in [Consumers -> Seq(Copy)]
  /\ step \in [Consumers -> Steps]
  /\ unmarked \in [Events -> Nat]
  /\ mishaps \in [{"handler", "write", "ack", "stop", "wait"} -> Nat]

\* Nothing is lost by an ack: a copy leaves the work queue only if the
\* handler has committed for its event (every return of the callback in
\* HandleWithIdempotency either naks or follows a commit).
AckedIsApplied == \A m \in acked : applied[m[1]] > 0

\* Nothing is lost by the inbox: an event it would skip has been applied.
InboxIsApplied == \A e \in inbox : applied[e] > 0

\* How often a handler can run: once per instance, and once more for every
\* commit whose inbox row was not written (a crash or a failed INSERT
\* between the handler's commit and MarkEventConsumed).
DuplicatesBounded ==
  \A e \in Events : applied[e] <= Cardinality(Consumers) + unmarked[e]

-----------------------------------------------------------------------------
(* The invariant behind the three above.                                   *)

\* The instances at step s of the callback for event e.
At(s, e) == {c \in Consumers : step[c] = s /\ Busy(c) /\ Current(c)[1] = e}

\* A callback past its check is busy; past the handler, it has applied.
CallbackInv ==
  \A c \in Consumers :
    /\ step[c] # "check" => Busy(c)
    /\ step[c] \in {"mark", "ack"} => applied[Current(c)[1]] > 0

\* Until an event is in the inbox every commit is accounted for; from then
\* on only the instances already past the check can add one.  A commit whose
\* inbox row is lost is never a commit still to be marked.
CountInv ==
  \A e \in Events :
    /\ e \notin inbox => applied[e] = unmarked[e] + Cardinality(At("mark", e))
    /\ e \in inbox =>
         /\ applied[e] + Cardinality(At("handle", e))
              <= unmarked[e] + Cardinality(Consumers)
         /\ unmarked[e] + Cardinality(At("mark", e)) <= applied[e]

InboxInv ==
  /\ JetStreamTypeOK /\ InboxTypeOK
  /\ \A e \in Events \ window : copies[e] < MaxCopies
  /\ AckedIsApplied /\ InboxIsApplied /\ CallbackInv /\ CountInv
=============================================================================
