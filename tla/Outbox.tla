------------------------------- MODULE Outbox -------------------------------
(***************************************************************************)
(* The transactional outbox: table outbox_events (migration 009, queries/  *)
(* events.sql) and the publisher process that drains it into the broker    *)
(* (internal/events/publisher.go).                                         *)
(*                                                                         *)
(* A statement outside a transaction is a step of its own, and so are the  *)
(* broker call and the UPDATE that follows it: a publisher may stop, or    *)
(* another one run, between any two.  The FOR UPDATE SKIP LOCKED of the    *)
(* two SELECTs holds its locks for that statement only, which is why they  *)
(* do not appear here.                                                     *)
(***************************************************************************)
EXTENDS JetStream

CONSTANTS
  Publishers,     \* running instances of cmd/publisher
  BatchSize,      \* Publisher.BatchSize
  MaxRetries,     \* outbox_events.max_retries
  OtherTraffic,   \* whether events of other streams keep being committed
  MaxPublishErrors, MaxWriteErrors, MaxPublisherStops  \* bounds on faults

ASSUME OutboxAssumption ==
  /\ BatchSize \in Nat \ {0}
  /\ MaxRetries \in Nat
  /\ OtherTraffic \in BOOLEAN
  /\ MaxPublishErrors \in Nat /\ MaxWriteErrors \in Nat
  /\ MaxPublisherStops \in Nat

VARIABLES
  outbox,  \* outbox[e]: the row of e, open until its transaction commits; at
           \* is its created_at, due that next_retry_at is not in the future,
           \* done (history) the clock at the commit
  clock,   \* the latest created_at given out
  pub,     \* pub[p]: where publisher p is, why it reads rows (phase), the
           \* outcome of the row being handled
  batch,   \* batch[p]: the rows read and not handled yet
  row,     \* row[p]: the row being handled
  notes,   \* notes[p]: notifications buffered on p's LISTEN connection
  conn,    \* conn[p]: p's LISTEN connection works
  tick,    \* tick[p]: the 5 s ticker has fired (a channel of capacity 1)
  faults   \* faults spent so far, by kind

outboxVars == <<outbox, clock, pub, batch, row, notes, conn, tick, faults>>

Statuses == {"absent", "open", "pending", "published", "failed", "dlq"}
Phases   == {"startup", "notified", "poll", "retry"}
Places   == {"down", "listen", "loop", "wait", "rows", "mark"}
Outcomes == {"none", "ok", "fail", "dlq"}

OutboxRow ==
  [status : Statuses, retries : Nat, due : BOOLEAN, at : Nat, done : Nat]
ReadRow   == [event : Events, retries : Nat, at : Nat]
NoRow     == [event |-> "none", retries |-> 0, at |-> 0]

Absent == [status |-> "absent", retries |-> 0, due |-> TRUE, at |-> 0, done |-> 0]

Committed == {e \in Events : outbox[e].status \notin {"absent", "open"}}

\* Buffered notifications that differ in number only are told apart up to
\* one per event of the model and one more.
NoteCap == Cardinality(Events) + 1

OutboxInit ==
  /\ outbox = [e \in Events |-> Absent]
  /\ clock = 0
  /\ pub = [p \in Publishers |->
              [at |-> "down", phase |-> "startup", outcome |-> "none"]]
  /\ batch = [p \in Publishers |-> {}]
  /\ row = [p \in Publishers |-> NoRow]
  /\ notes = [p \in Publishers |-> 0]
  /\ conn = [p \in Publishers |-> FALSE]
  /\ tick = [p \in Publishers |-> FALSE]
  /\ faults = [publish |-> 0, write |-> 0, stop |-> 0]

-----------------------------------------------------------------------------
(* Queries.                                                                *)

AsRead(es) ==
  {[event |-> e, retries |-> outbox[e].retries, at |-> outbox[e].at] : e \in es}

\* Faulty variant: ORDER BY created_at DESC.
Newest(es, n) ==
  {e \in es : Cardinality({f \in es : outbox[f].at > outbox[e].at}) < n}

\* ORDER BY created_at LIMIT n: the n oldest of a set of events.
Oldest(es, n) ==
  {e \in es : Cardinality({f \in es : outbox[f].at < outbox[e].at}) < n}

PendingRows ==
  AsRead(Oldest({e \in Events : outbox[e].status = "pending"}, BatchSize))

Retryable(e) ==
  /\ outbox[e].status = "failed"
  /\ outbox[e].retries < MaxRetries
  /\ outbox[e].due

RetryableRows == AsRead(Oldest({e \in Events : Retryable(e)}, BatchSize))

\* MarkOutboxEventPublished, MarkOutboxEventFailed and MarkOutboxEventDLQ:
\* UPDATE ... WHERE id = $1, whatever the row's status has become.
Marked(r, outcome) ==
  CASE outcome = "ok"   -> [r EXCEPT !.status = "published"]
    [] outcome = "fail" -> [r EXCEPT !.status = "failed",
                                     !.retries = @ + 1, !.due = FALSE]
    [] outcome = "dlq"  -> [r EXCEPT !.status = "dlq"]

-----------------------------------------------------------------------------
(* The transactions that emit, and the notification they fire.             *)

Notify == [p \in Publishers |->
             IF conn[p] /\ notes[p] < NoteCap THEN notes[p] + 1 ELSE notes[p]]

\* EmitEvent: created_at is taken and the row written inside the business
\* transaction, which others see, and are notified of, at its commit only.
Emit(e) ==
  /\ outbox[e].status = "absent"
  /\ clock' = clock + 1
  /\ outbox' = [outbox EXCEPT ![e].status = "open", ![e].at = clock + 1]
  /\ UNCHANGED <<pub, batch, row, notes, conn, tick, faults, storeVars>>

CommitEmit(e) ==
  /\ outbox[e].status = "open"
  /\ outbox' = [outbox EXCEPT ![e].status = "pending", ![e].done = clock]
  /\ notes' = Notify
  /\ UNCHANGED <<clock, pub, batch, row, conn, tick, faults, storeVars>>

\* A later statement of the transaction fails: the row goes with the rest.
AbortEmit(e) ==
  /\ outbox[e].status = "open"
  /\ faults.write < MaxWriteErrors
  /\ faults' = [faults EXCEPT !.write = @ + 1]
  /\ outbox' = [outbox EXCEPT ![e] = Absent]
  /\ UNCHANGED <<clock, pub, batch, row, notes, conn, tick, storeVars>>

\* Rows of other streams commit too; the trigger notifies for each.
OtherCommit ==
  /\ OtherTraffic
  /\ \E p \in Publishers : conn[p] /\ notes[p] = 0
  /\ notes' = Notify
  /\ UNCHANGED <<outbox, clock, pub, batch, row, conn, tick, faults, storeVars>>

\* next_retry_at passes (getRetryDelay: 1 s to 10 min).
RetryFallsDue(e) ==
  /\ outbox[e].status = "failed" /\ ~outbox[e].due
  /\ outbox' = [outbox EXCEPT ![e].due = TRUE]
  /\ UNCHANGED <<clock, pub, batch, row, notes, conn, tick, faults, storeVars>>

-----------------------------------------------------------------------------
(* Publisher.Run.                                                          *)

Goto(p, place) == pub' = [pub EXCEPT ![p].at = place]

\* processBatch and processRetries begin: the SELECT, or its failure.
Read(p, phase, rows) ==
  /\ pub' = [pub EXCEPT ![p] = [at |-> "rows", phase |-> phase, outcome |-> "none"]]
  /\ \/ /\ batch' = [batch EXCEPT ![p] = rows]
        /\ UNCHANGED faults
     \/ /\ faults.write < MaxWriteErrors
        /\ batch' = [batch EXCEPT ![p] = {}]
        /\ faults' = [faults EXCEPT !.write = @ + 1]

Start(p) ==
  /\ pub[p].at = "down"
  /\ Read(p, "startup", PendingRows)
  /\ UNCHANGED <<outbox, clock, row, notes, conn, tick, storeVars>>

Listen(p) ==
  /\ pub[p].at = "listen"
  /\ Goto(p, "loop")
  /\ conn' = [conn EXCEPT ![p] = TRUE]
  /\ UNCHANGED <<outbox, clock, batch, row, notes, tick, faults, storeVars>>

TickerFires(p) ==
  /\ \/ pub[p].at \in {"loop", "wait"}
     \/ pub[p].at \in {"rows", "mark"} /\ pub[p].phase # "startup"
  /\ ~tick[p]
  /\ tick' = [tick EXCEPT ![p] = TRUE]
  /\ UNCHANGED <<outbox, clock, pub, batch, row, notes, conn, faults, storeVars>>

\* case <-ticker.C
Poll(p) ==
  /\ pub[p].at = "loop" /\ tick[p]
  /\ tick' = [tick EXCEPT ![p] = FALSE]
  /\ Read(p, "poll", PendingRows)
  /\ UNCHANGED <<outbox, clock, row, notes, conn, storeVars>>

\* default: taken only when the ticker has not fired, and then blocks.
EnterWait(p) ==
  /\ pub[p].at = "loop" /\ ~tick[p]
  /\ Goto(p, "wait")
  /\ UNCHANGED <<outbox, clock, batch, row, notes, conn, tick, faults, storeVars>>

Notified(p) ==
  /\ pub[p].at = "wait" /\ notes[p] > 0
  /\ notes' = [notes EXCEPT ![p] = @ - 1]
  /\ Read(p, "notified", PendingRows)
  /\ UNCHANGED <<outbox, clock, row, conn, tick, storeVars>>

\* WaitForNotification fails on a broken connection; the loop keeps it.
WaitFails(p) ==
  /\ pub[p].at = "wait" /\ ~conn[p]
  /\ Goto(p, "loop")
  /\ UNCHANGED <<outbox, clock, batch, row, notes, conn, tick, faults, storeVars>>

-----------------------------------------------------------------------------
(* The rows of a batch, oldest first.                                      *)

\* publishEvent, unless processRetries finds the row's retries used up.  An
\* error may hide a publish the broker did store.
Send(p) ==
  /\ pub[p].at = "rows"
  /\ \E r \in batch[p] :
       /\ \A q \in batch[p] : r.at <= q.at
       /\ batch' = [batch EXCEPT ![p] = @ \ {r}]
       /\ row' = [row EXCEPT ![p] = r]
       /\ IF pub[p].phase = "retry" /\ r.retries >= MaxRetries
          THEN /\ pub' = [pub EXCEPT ![p].at = "mark", ![p].outcome = "dlq"]
               /\ UNCHANGED <<faults, storeVars>>
          ELSE \/ /\ Store(r.event)
                  /\ pub' = [pub EXCEPT ![p].at = "mark", ![p].outcome = "ok"]
                  /\ UNCHANGED faults
               \/ /\ faults.publish < MaxPublishErrors
                  /\ faults' = [faults EXCEPT !.publish = @ + 1]
                  /\ Store(r.event) \/ UNCHANGED storeVars
                  /\ pub' = [pub EXCEPT ![p].at = "mark", ![p].outcome = "fail"]
  /\ UNCHANGED <<outbox, clock, notes, conn, tick>>

\* The UPDATE that records the outcome; its error is discarded.
Mark(p) ==
  /\ pub[p].at = "mark"
  /\ pub' = [pub EXCEPT ![p].at = "rows", ![p].outcome = "none"]
  /\ \/ /\ outbox' = [outbox EXCEPT ![row[p].event] = Marked(@, pub[p].outcome)]
        /\ UNCHANGED faults
     \/ /\ faults.write < MaxWriteErrors
        /\ faults' = [faults EXCEPT !.write = @ + 1]
        /\ UNCHANGED outbox
  /\ row' = [row EXCEPT ![p] = NoRow]
  /\ UNCHANGED <<clock, batch, notes, conn, tick, storeVars>>

\* The batch is done: LISTEN after startup, processRetries after the poll's
\* processBatch, the top of the loop otherwise.
EndBatch(p) ==
  /\ pub[p].at = "rows" /\ batch[p] = {}
  /\ \/ /\ pub[p].phase = "startup"
        /\ Goto(p, "listen")
        /\ UNCHANGED <<batch, faults>>
     \/ /\ pub[p].phase = "poll"
        /\ Read(p, "retry", RetryableRows)
     \/ /\ pub[p].phase \in {"notified", "retry"}
        /\ Goto(p, "loop")
        /\ UNCHANGED <<batch, faults>>
  /\ UNCHANGED <<outbox, clock, row, notes, conn, tick, storeVars>>

-----------------------------------------------------------------------------
(* Faults.                                                                 *)

\* A crash, a shutdown, or an error Run returns: nothing in memory is kept.
Stop(p) ==
  /\ pub[p].at # "down"
  /\ faults.stop < MaxPublisherStops
  /\ faults' = [faults EXCEPT !.stop = @ + 1]
  /\ pub' = [pub EXCEPT ![p] = [at |-> "down", phase |-> "startup", outcome |-> "none"]]
  /\ batch' = [batch EXCEPT ![p] = {}]
  /\ row' = [row EXCEPT ![p] = NoRow]
  /\ notes' = [notes EXCEPT ![p] = 0]
  /\ conn' = [conn EXCEPT ![p] = FALSE]
  /\ tick' = [tick EXCEPT ![p] = FALSE]
  /\ UNCHANGED <<outbox, clock, storeVars>>

\* The LISTEN connection breaks; what it had buffered is gone.
ConnectionLost(p) ==
  /\ conn[p]
  /\ faults.stop < MaxPublisherStops
  /\ faults' = [faults EXCEPT !.stop = @ + 1]
  /\ conn' = [conn EXCEPT ![p] = FALSE]
  /\ notes' = [notes EXCEPT ![p] = 0]
  /\ UNCHANGED <<outbox, clock, pub, batch, row, tick, storeVars>>

-----------------------------------------------------------------------------
PublisherStep(p) ==
  \/ Start(p) \/ Listen(p) \/ Poll(p) \/ EnterWait(p) \/ Notified(p)
  \/ WaitFails(p) \/ Send(p) \/ Mark(p) \/ EndBatch(p)

OutboxNext ==
  \/ \E e \in Events : Emit(e) \/ CommitEmit(e) \/ AbortEmit(e) \/ RetryFallsDue(e)
  \/ OtherCommit
  \/ \E p \in Publishers :
       PublisherStep(p) \/ TickerFires(p) \/ Stop(p) \/ ConnectionLost(p)
  \/ \E e \in Events : WindowElapses(e) /\ UNCHANGED outboxVars

\* The publisher's goroutine runs, its process is restarted, time passes,
\* and other streams, if any, stay busy.  No fault is ever required.
OutboxFairness ==
  /\ \A p \in Publishers :
       /\ WF_<<outboxVars, storeVars>>(PublisherStep(p))
       /\ WF_<<outboxVars, storeVars>>(TickerFires(p))
  /\ \A e \in Events : WF_<<outboxVars, storeVars>>(RetryFallsDue(e))
  /\ WF_<<outboxVars, storeVars>>(OtherCommit)

OutboxSpec ==
  /\ JetStreamInit /\ OutboxInit
  /\ [][OutboxNext /\ UNCHANGED queueVars]_<<outboxVars, storeVars, queueVars>>
  /\ OutboxFairness

-----------------------------------------------------------------------------
(* Properties.                                                             *)

\* The types of the outbox table and of the publishers' memory, with the
\* row a publisher is marking and the rows it still has to send.
OutboxTypeOK ==
  /\ outbox \in [Events -> OutboxRow]
  /\ clock \in Nat
  /\ pub \in [Publishers -> [at : Places, phase : Phases, outcome : Outcomes]]
  /\ batch \in [Publishers -> SUBSET ReadRow]
  /\ row \in [Publishers -> ReadRow \cup {NoRow}]
  /\ notes \in [Publishers -> Nat]
  /\ conn \in [Publishers -> BOOLEAN]
  /\ tick \in [Publishers -> BOOLEAN]
  /\ faults \in [{"publish", "write", "stop"} -> Nat]

\* A row says published only if the broker has stored the event, whatever
\* errors, restarts and concurrent publishers came between the publish and
\* the UPDATE (publisher.go processBatch and processRetries).
PublishedIsStored ==
  \A e \in Events : outbox[e].status = "published" => copies[e] > 0

\* The broker holds nothing but committed events (the transactional outbox:
\* EmitEvent writes in the business transaction, consumer.go).
StoredIsCommitted == \A e \in Events : copies[e] > 0 => e \in Committed

\* Unless a publish failed, events reach the broker in order, with any
\* number of publishers and restarts: one that was committed before the
\* other's transaction took its created_at is stored first (ORDER BY
\* created_at in both queries).  Of overlapping transactions the one with
\* the later created_at may commit, and be stored, first.
PublishedInOrder ==
  faults.publish = 0 =>
    \A e, f \in Committed :
      outbox[e].done < outbox[f].at /\ copies[f] > 0 => copies[e] > 0

\* With a single publisher a published row is never taken back, so the
\* event is not sent again by a later poll.  (Mark is an UPDATE by id: two
\* publishers can overwrite each other's outcome.)
PublishedIsFinal ==
  [][\A e \in Events :
       outbox[e].status = "published" => outbox'[e].status = "published"]_outbox

RetriesSpent(e) == outbox[e].status = "failed" /\ outbox[e].retries >= MaxRetries

\* The polling fallback, as the comments of Run describe it: every committed
\* event is stored by the broker, or its retries are spent, even when no
\* other event is committed.
PollingFallback ==
  \A e \in Events : e \in Committed ~> copies[e] > 0 \/ RetriesSpent(e)

\* An event whose retries are spent ends up in the dead letter queue.
SpentGoesToDLQ == \A e \in Events : RetriesSpent(e) ~> outbox[e].status = "dlq"

-----------------------------------------------------------------------------
(* The invariant behind PublishedIsStored, StoredIsCommitted and           *)
(* PublishedInOrder.                                                       *)

\* created_at is taken from the clock, and the commit comes no earlier.
ClockInv ==
  \A e \in Events :
    /\ outbox[e].at <= clock
    /\ e \in Committed => outbox[e].at <= outbox[e].done /\ outbox[e].done <= clock

\* A publisher holds rows of committed events only, as they were created; a
\* row it has sent without an error is in the stream.
HeldInv ==
  \A p \in Publishers :
    /\ \A r \in batch[p] : r.event \in Committed /\ r.at = outbox[r.event].at
    /\ pub[p].at = "mark" =>
         /\ row[p] \in ReadRow /\ row[p].event \in Committed
         /\ pub[p].outcome = "ok" => copies[row[p].event] > 0
         /\ pub[p].outcome # "none"

\* The rows committed before one that a publisher still has to send are in
\* the stream, or among those it still has to send.
BatchInOrder ==
  \A p \in Publishers : \A r \in batch[p] : \A e \in Committed :
    outbox[e].done < r.at => copies[e] > 0 \/ \E q \in batch[p] : q.event = e

\* Until a publish fails nothing is retried.
NothingRetried ==
  /\ \A e \in Committed : outbox[e].status \in {"pending", "published"}
  /\ \A p \in Publishers :
       /\ pub[p].at = "mark" => pub[p].outcome = "ok"
       /\ pub[p].phase = "retry" => batch[p] = {}

OutboxInv ==
  /\ StoreTypeOK /\ OutboxTypeOK
  /\ PublishedIsStored /\ StoredIsCommitted /\ ClockInv /\ HeldInv
  /\ faults.publish = 0 => NothingRetried /\ BatchInOrder
  /\ PublishedInOrder
=============================================================================
