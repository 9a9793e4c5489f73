----------------------------- MODULE Deliveries -----------------------------
(***************************************************************************)
(* What the handlers of internal/document and internal/tax live on: events *)
(* that come at least once and in any order, as AtLeastOnce promises, and  *)
(* the transactions they are about, which the API and the ledger move.     *)
(***************************************************************************)
EXTENDS Integers, FiniteSets

CONSTANTS
  Workers,           \* callbacks of the consumer that may run side by side
  MaxTransactions,
  MaxRepeats,        \* bound on deliveries of an event already settled
  MaxCuts            \* bound on callbacks cut off: a crash, an AckWait that
                     \* elapses, a statement or a call that fails

ASSUME DeliveriesAssumption ==
  IsFiniteSet(Workers) /\ {MaxTransactions, MaxRepeats, MaxCuts} \subseteq Nat

VARIABLES
  due,           \* recorded events not yet acknowledged; one whose deliveries
                 \* are spent stays here and is never taken again
  settled,       \* events a callback has acknowledged
  work,          \* work[w]: the callback w runs, or Idle
  repeats,
  cuts,
  transactions   \* transactions[t]: the status of transaction t

deliveryVars == <<due, settled, work, repeats, cuts, transactions>>

Transactions == 1..MaxTransactions
Statuses == {"none", "DRAFT", "POSTED", "VOID"}

\* An event is what happened and the number of the thing it happened to.
Event(kind, n) == [kind |-> kind, n |-> n]
Idle == [event |-> Event("none", 0), step |-> "idle", left |-> {}]

DeliveriesInit ==
  /\ due = {}
  /\ settled = {}
  /\ work = [w \in Workers |-> Idle]
  /\ repeats = 0
  /\ cuts = 0
  /\ transactions = [t \in Transactions |-> "none"]

-----------------------------------------------------------------------------
(* Building blocks of the handlers.                                        *)

On(w, kind, step) == work[w].event.kind = kind /\ work[w].step = step

\* Whether some callback works on e.
Handled(e) == \E w \in Workers : work[w].event = e

\* A delivery; the message stays with the broker until it is acknowledged.
Take(w, e, step) ==
  /\ work[w] = Idle
  /\ e \in due
  /\ work' = [work EXCEPT ![w] = [event |-> e, step |-> step, left |-> {}]]

GoTo(w, step) == work' = [work EXCEPT ![w].step = step]

\* The handler returns nil.
Acks(w) ==
  /\ work' = [work EXCEPT ![w] = Idle]
  /\ due' = due \ {work[w].event}
  /\ settled' = settled \cup {work[w].event}

\* The handler returns an error: the message comes again.
Naks(w) ==
  /\ work' = [work EXCEPT ![w] = Idle]
  /\ UNCHANGED <<due, settled>>

\* What a callback works with that ends early, for whatever reason.
CutOff(w) ==
  /\ cuts < MaxCuts
  /\ cuts' = cuts + 1
  /\ Naks(w)

\* The acknowledgement or the inbox row was lost.
Repeat(e) ==
  /\ repeats < MaxRepeats
  /\ e \in settled \ due
  /\ repeats' = repeats + 1
  /\ due' = due \cup {e}
  /\ UNCHANGED <<settled, work, cuts, transactions>>

-----------------------------------------------------------------------------
(* The transactions.                                                       *)

\* CreateTransaction as part of a step of another service; transactions are
\* numbered in the order they come.
CreateTransaction(t) ==
  /\ transactions[t] = "none"
  /\ \A s \in Transactions : s < t => transactions[s] # "none"
  /\ transactions' = [transactions EXCEPT ![t] = "DRAFT"]

\* The ledger posts a draft and records LedgerPosted with it.
LedgerPosts(t) ==
  /\ transactions[t] = "DRAFT"
  /\ transactions' = [transactions EXCEPT ![t] = "POSTED"]
  /\ due' = due \cup {Event("posted", t)}
  /\ UNCHANGED <<settled, work, repeats, cuts>>

\* A void, and the posting of its reversal, which records LedgerPosted with
\* is_reversal.
Void(t) ==
  /\ transactions[t] = "POSTED"
  /\ transactions' = [transactions EXCEPT ![t] = "VOID"]
  /\ due' = due \cup {Event("reversed", t)}
  /\ UNCHANGED <<settled, work, repeats, cuts>>
=============================================================================
