----------------------------- MODULE JetStream -----------------------------
(***************************************************************************)
(* The message broker as internal/events uses it: one work-queue stream    *)
(* (nats.go EnsureStreams) read through one durable consumer (nats.go      *)
(* Subscribe).  External code, modelled from the options the program sets. *)
(*                                                                         *)
(* An event may be stored more than once: copy <<e, k>> is its k-th copy.  *)
(* A publish whose MsgID was seen within the duplicate window is           *)
(* acknowledged without being stored.                                      *)
(***************************************************************************)
EXTENDS Integers, FiniteSets

CONSTANTS
  Events,      \* the domain events of one stream
  MaxDeliver,  \* ConsumerConfig.MaxDeliver
  MaxCopies    \* bound: how often the duplicate window may be outlived

ASSUME JetStreamAssumption ==
  /\ IsFiniteSet(Events)
  /\ MaxDeliver \in Nat \ {0}
  /\ MaxCopies \in Nat \ {0}

VARIABLES
  copies,       \* copies[e]: how many copies of e were ever stored
  window,       \* the events whose MsgID is inside the duplicate window
  acked,        \* the copies acknowledged, hence deleted from the work queue
  attempts,     \* attempts[m]: deliveries of copy m so far
  outstanding   \* the copies delivered and neither acked, nacked nor expired

storeVars == <<copies, window>>
queueVars == <<acked, attempts, outstanding>>

Copy == Events \X (1..MaxCopies)

Stored(m) == m[2] <= copies[m[1]]

InStream(m) == Stored(m) /\ m \notin acked

JetStreamTypeOK ==
  /\ copies \in [Events -> 0..MaxCopies]
  /\ window \subseteq Events
  /\ acked \subseteq Copy
  /\ attempts \in [Copy -> 0..MaxDeliver]
  /\ outstanding \subseteq Copy

\* The stream holds a copy of every event inside the window, and the window
\* closes only where MaxCopies has room for another.
StoreTypeOK ==
  /\ copies \in [Events -> 0..MaxCopies]
  /\ window \subseteq Events
  /\ \A e \in window : copies[e] > 0
  /\ \A e \in Events \ window : copies[e] < MaxCopies

JetStreamInit ==
  /\ copies = [e \in Events |-> 0]
  /\ window = {}
  /\ acked = {}
  /\ attempts = [m \in Copy |-> 0]
  /\ outstanding = {}

\* js.Publish with WithMsgID: stored unless the id is in the window.
Store(e) ==
  /\ copies' = [copies EXCEPT ![e] = IF e \in window THEN @ ELSE @ + 1]
  /\ window' = window \cup {e}

\* Five minutes pass after a publish; bounded so that copies stay in Copy.
WindowElapses(e) ==
  /\ e \in window
  /\ copies[e] < MaxCopies
  /\ window' = window \ {e}
  /\ UNCHANGED copies

Deliverable(m) ==
  /\ InStream(m)
  /\ m \notin outstanding
  /\ attempts[m] < MaxDeliver

Deliver(m) ==
  /\ Deliverable(m)
  /\ attempts' = [attempts EXCEPT ![m] = @ + 1]
  /\ outstanding' = outstanding \cup {m}
  /\ UNCHANGED acked

\* msg.Ack reaches the server: the copy leaves the work queue.
Ack(m) ==
  /\ acked' = acked \cup {m}
  /\ outstanding' = outstanding \ {m}
  /\ UNCHANGED attempts

\* msg.Nak reaches the server, or AckWait runs out: eligible again.
Release(m) ==
  /\ outstanding' = outstanding \ {m}
  /\ UNCHANGED <<acked, attempts>>

AckWaitElapses(m) == m \in outstanding /\ Release(m)

\* MaxDeliver reached without an ack: the copy is never delivered again.
Abandoned(m) == InStream(m) /\ m \notin outstanding /\ attempts[m] = MaxDeliver
=============================================================================
