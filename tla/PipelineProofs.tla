--------------------------- MODULE PipelineProofs ---------------------------
(***************************************************************************)
(* The consumer side, the outbox with its publishers, and the pipeline     *)
(* they make, proved for any number of events, copies, deliveries,         *)
(* publishers, consumer instances and faults: InboxInv and OutboxInv are   *)
(* inductive and give the invariants the runs check, and together they     *)
(* give the refinement of AtLeastOnce.                                     *)
(***************************************************************************)
EXTENDS EventPipeline, FiniteSetTheorems, TLAPS

-----------------------------------------------------------------------------
(* How At changes when one instance moves.                                 *)

LEMMA AtFinite ==
  ASSUME NEW s, NEW e
  PROVE  /\ IsFiniteSet(At(s, e))
         /\ Cardinality(At(s, e)) \in Nat
         /\ Cardinality(At(s, e)) <= Cardinality(Consumers)
<1>1. At(s, e) \in SUBSET Consumers
  BY DEF At
<1>2. IsFiniteSet(At(s, e)) /\ Cardinality(At(s, e)) <= Cardinality(Consumers)
  BY <1>1, FS_Subset, InboxAssumption DEF InboxAssumption
<1> QED
  BY <1>2, FS_CardinalityType

\* An instance is in one place at a time.
LEMMA AtDisjoint ==
  ASSUME NEW e
  PROVE  Cardinality(At("handle", e)) + Cardinality(At("mark", e))
           <= Cardinality(Consumers)
<1> DEFINE H == At("handle", e)
           K == At("mark", e)
<1>1. IsFiniteSet(H) /\ IsFiniteSet(K)
  BY AtFinite
<1>2. H \cap K = {} /\ H \cup K \in SUBSET Consumers
  BY DEF At
<1>3. IsFiniteSet(H \cup K) /\ Cardinality(H \cup K) <= Cardinality(Consumers)
  BY <1>2, FS_Subset, InboxAssumption DEF InboxAssumption
<1>4. Cardinality(H \cap K) = 0
  BY <1>2, FS_EmptySet
<1>5. Cardinality(H \cup K) = Cardinality(H) + Cardinality(K) - Cardinality(H \cap K)
  BY <1>1, FS_Union
<1>6. Cardinality(H) \in Nat /\ Cardinality(K) \in Nat
  BY AtFinite
<1>7. Cardinality(Consumers) \in Nat
  BY FS_CardinalityType, InboxAssumption DEF InboxAssumption
<1> HIDE DEF H, K
<1>8. Cardinality(H) + Cardinality(K) <= Cardinality(Consumers)
  BY <1>3, <1>4, <1>5, <1>6, <1>7
<1> QED
  BY <1>8 DEF H, K

\* Only c moves: the count changes by c's own comings and goings.
LEMMA AtMoves ==
  ASSUME NEW c \in Consumers, NEW s, NEW e,
         \A d \in Consumers \ {c} : step'[d] = step[d] /\ buffer'[d] = buffer[d]
  PROVE  /\ c \notin At(s, e) /\ c \in At(s, e)' =>
              Cardinality(At(s, e)') = Cardinality(At(s, e)) + 1
         /\ c \in At(s, e) /\ c \notin At(s, e)' =>
              Cardinality(At(s, e)') = Cardinality(At(s, e)) - 1
         /\ (c \in At(s, e) <=> c \in At(s, e)') => At(s, e)' = At(s, e)
<1>1. \A d \in Consumers \ {c} : d \in At(s, e)' <=> d \in At(s, e)
  BY DEF At, Busy, Current
<1>2. At(s, e) \subseteq Consumers /\ At(s, e)' \subseteq Consumers
  BY DEF At
<1>3. IsFiniteSet(At(s, e))
  BY AtFinite
<1>4. CASE c \notin At(s, e) /\ c \in At(s, e)'
  <2>1. At(s, e)' = At(s, e) \cup {c}
    BY <1>1, <1>2, <1>4
  <2> QED
    BY <2>1, <1>3, <1>4, FS_AddElement
<1>5. CASE c \in At(s, e) /\ c \notin At(s, e)'
  <2>1. At(s, e)' = At(s, e) \ {c}
    BY <1>1, <1>2, <1>5
  <2> QED
    BY <2>1, <1>3, <1>5, FS_RemoveElement
<1>6. CASE c \in At(s, e) <=> c \in At(s, e)'
  BY <1>1, <1>2, <1>6
<1> QED
  BY <1>4, <1>5, <1>6

-----------------------------------------------------------------------------
(* Facts every step uses.                                                  *)

LEMMA CurrentType ==
  ASSUME InboxTypeOK, NEW c \in Consumers, Busy(c)
  PROVE  /\ Current(c) \in Copy
         /\ Current(c)[1] \in Events
         /\ Tail(buffer[c]) \in Seq(Copy)
<1>1. buffer[c] \in Seq(Copy) /\ buffer[c] # <<>>
  BY DEF InboxTypeOK, Busy
<1>2. Current(c) \in Copy /\ Tail(buffer[c]) \in Seq(Copy)
  BY <1>1 DEF Current
<1> QED
  BY <1>2 DEF Copy

\* The counts of an event are numbers, before and after a step.
LEMMA CountType ==
  ASSUME NEW e
  PROVE  /\ Cardinality(Consumers) \in Nat
         /\ Cardinality(At("handle", e)) \in Nat
         /\ Cardinality(At("mark", e)) \in Nat
         /\ Cardinality(At("mark", e)) <= Cardinality(Consumers)
BY AtFinite, FS_CardinalityType, InboxAssumption DEF InboxAssumption

\* The messages returned to the queue change nothing InboxInv counts.
LEMMA ReleaseType ==
  ASSUME JetStreamTypeOK, NEW m, Release(m), UNCHANGED storeVars
  PROVE  JetStreamTypeOK' /\ UNCHANGED <<acked, attempts>>
BY DEF JetStreamTypeOK, Release, storeVars

\* A step that leaves the handler's world alone keeps the counts.
LEMMA CountsKept ==
  ASSUME CountInv, UNCHANGED <<inbox, applied, unmarked>>,
         \A e \in Events : At("mark", e)' = At("mark", e),
         \A e \in inbox : At("handle", e)' = At("handle", e)
  PROVE  CountInv'
BY DEF CountInv

-----------------------------------------------------------------------------
(* One lemma per action.                                                   *)

LEMMA ArriveKeeps ==
  ASSUME InboxInv, Arrive
  PROVE  InboxInv'
<1> USE DEF InboxInv
<1>1. UNCHANGED <<acked, attempts, outstanding, inboxVars>>
  BY DEF Arrive, queueVars
<1>2. PICK e \in Events : Store(e) \/ WindowElapses(e)
  BY DEF Arrive
<1>3. JetStreamTypeOK' /\ \A f \in Events \ window' : copies'[f] < MaxCopies
  <2>1. CASE Store(e)
    BY <1>1, <2>1, JetStreamAssumption
    DEF JetStreamAssumption, Store, JetStreamTypeOK
  <2>2. CASE WindowElapses(e)
    BY <1>1, <2>2 DEF WindowElapses, JetStreamTypeOK
  <2> QED
    BY <1>2, <2>1, <2>2
<1>4. \A s, f : At(s, f)' = At(s, f)
  BY <1>1 DEF At, Busy, Current, inboxVars
<1>5. InboxTypeOK' /\ AckedIsApplied' /\ InboxIsApplied' /\ CallbackInv'
  BY <1>1 DEF inboxVars, InboxTypeOK, AckedIsApplied, InboxIsApplied,
              CallbackInv, Busy, Current
<1>6. CountInv'
  BY <1>1, <1>4, CountsKept DEF inboxVars
<1> QED
  BY <1>3, <1>5, <1>6

LEMMA ReceiveKeeps ==
  ASSUME InboxInv, NEW c \in Consumers, Receive(c), UNCHANGED storeVars
  PROVE  InboxInv'
<1> USE DEF InboxInv
<1>1. PICK m \in Copy :
        Deliver(m) /\ buffer' = [buffer EXCEPT ![c] = Append(@, m)]
  BY DEF Receive
<1>2. UNCHANGED <<inbox, applied, step, unmarked, mishaps, acked, copies, window>>
  BY <1>1 DEF Receive, Deliver, storeVars
<1>3. JetStreamTypeOK'
  BY <1>1, <1>2, JetStreamAssumption
  DEF JetStreamAssumption, Deliver, Deliverable, JetStreamTypeOK
<1>4. InboxTypeOK'
  BY <1>1, <1>2 DEF InboxTypeOK
<1>5. \A d \in Consumers : Busy(d) => Busy(d)' /\ Current(d)' = Current(d)
  <2> TAKE d \in Consumers
  <2>1. buffer[d] \in Seq(Copy)
    BY DEF InboxTypeOK
  <2>2. CASE d = c
    <3>1. buffer'[c] = Append(buffer[c], m)
      BY <1>1 DEF InboxTypeOK
    <3> QED
      BY <2>1, <2>2, <3>1 DEF Busy, Current
  <2>3. CASE d # c
    BY <1>1, <2>3 DEF InboxTypeOK, Busy, Current
  <2> QED
    BY <2>2, <2>3
<1>6. CallbackInv'
  BY <1>2, <1>5 DEF CallbackInv
<1>7. \A s \in {"handle", "mark"} : \A e : At(s, e)' = At(s, e)
  BY <1>2, <1>5 DEF At, CallbackInv
<1>8. CountInv'
  BY <1>2, <1>7, CountsKept
<1> QED
  BY <1>2, <1>3, <1>4, <1>6, <1>8 DEF AckedIsApplied, InboxIsApplied

\* Return: c is at "check", and every other instance where it was.
LEMMA ReturnEffect ==
  ASSUME InboxTypeOK, NEW c \in Consumers, Busy(c), Return(c)
  PROVE  /\ step' \in [Consumers -> Steps] /\ buffer' \in [Consumers -> Seq(Copy)]
         /\ step'[c] = "check"
         /\ \A d \in Consumers \ {c} :
              step'[d] = step[d] /\ buffer'[d] = buffer[d]
BY CurrentType DEF InboxTypeOK, Return, Steps

\* Advance: c is at s with the same message.
LEMMA AdvanceEffect ==
  ASSUME InboxTypeOK, NEW c \in Consumers, NEW s \in Steps, Advance(c, s)
  PROVE  /\ step' \in [Consumers -> Steps]
         /\ buffer' = buffer /\ step'[c] = s
         /\ \A d \in Consumers \ {c} :
              step'[d] = step[d] /\ buffer'[d] = buffer[d]
BY DEF InboxTypeOK, Advance, Steps

LEMMA CheckKeeps ==
  ASSUME InboxInv, NEW c \in Consumers, Check(c), UNCHANGED storeVars
  PROVE  InboxInv'
<1> USE DEF InboxInv
<1>1. /\ Busy(c) /\ step[c] = "check"
      /\ UNCHANGED <<inbox, applied, unmarked, copies, window>>
  BY DEF Check, storeVars
<1> DEFINE e0 == Current(c)[1]
           to == IF e0 \in inbox THEN "ack" ELSE "handle"
<1>2. CASE /\ Advance(c, to) /\ UNCHANGED <<mishaps, queueVars>>
  <2>1. to \in Steps
    BY DEF Steps
  <2>2. /\ step' \in [Consumers -> Steps] /\ buffer' = buffer /\ step'[c] = to
        /\ \A d \in Consumers \ {c} :
             step'[d] = step[d] /\ buffer'[d] = buffer[d]
    BY <1>2, <2>1, AdvanceEffect
  <2>3. JetStreamTypeOK' /\ InboxTypeOK'
    BY <1>1, <1>2, <2>2 DEF JetStreamTypeOK, InboxTypeOK, queueVars
  <2>4. CallbackInv'
    BY <1>1, <2>2 DEF CallbackInv, Busy, Current, InboxIsApplied
  <2>5. \A e : c \notin At("mark", e) /\ c \notin At("mark", e)'
    BY <1>1, <2>2 DEF At
  <2>6. \A e \in inbox : c \notin At("handle", e) /\ c \notin At("handle", e)'
    BY <1>1, <2>2 DEF At, Current
  <2>7. CountInv'
    BY <1>1, <2>2, <2>5, <2>6, AtMoves, CountsKept DEF InboxTypeOK
  <2> QED
    BY <1>1, <1>2, <2>3, <2>4, <2>7
    DEF AckedIsApplied, InboxIsApplied, queueVars
<1>3. CASE /\ Mishap("write", MaxInboxErrors)
           /\ Release(Current(c)) /\ Return(c)
  <2>1. /\ step' \in [Consumers -> Steps] /\ buffer' \in [Consumers -> Seq(Copy)]
        /\ step'[c] = "check"
        /\ \A d \in Consumers \ {c} :
             step'[d] = step[d] /\ buffer'[d] = buffer[d]
    BY <1>1, <1>3, ReturnEffect
  <2>2. JetStreamTypeOK' /\ UNCHANGED <<acked, attempts>>
    BY <1>3, ReleaseType
  <2>3. InboxTypeOK'
    BY <1>1, <1>3, <2>1 DEF InboxTypeOK, Mishap
  <2>4. CallbackInv'
    BY <1>1, <2>1 DEF CallbackInv, Busy, Current
  <2>5. \A e : /\ c \notin At("mark", e) /\ c \notin At("mark", e)'
               /\ c \notin At("handle", e) /\ c \notin At("handle", e)'
    BY <1>1, <2>1 DEF At
  <2>6. CountInv'
    BY <1>1, <2>1, <2>5, AtMoves, CountsKept DEF InboxTypeOK
  <2> QED
    BY <1>1, <2>2, <2>3, <2>4, <2>6 DEF AckedIsApplied, InboxIsApplied
<1> QED
  BY <1>2, <1>3 DEF Check

LEMMA HandleKeeps ==
  ASSUME InboxInv, NEW c \in Consumers, Handle(c), UNCHANGED storeVars
  PROVE  InboxInv'
<1> USE DEF InboxInv
<1> DEFINE e0 == Current(c)[1]
<1>1. /\ Busy(c) /\ step[c] = "handle" /\ e0 \in Events
      /\ UNCHANGED <<inbox, unmarked, copies, window>>
  BY CurrentType DEF Handle, storeVars
<1>2. CASE /\ applied' = [applied EXCEPT ![e0] = @ + 1]
           /\ Advance(c, "mark") /\ UNCHANGED <<mishaps, queueVars>>
  <2>1. /\ step' \in [Consumers -> Steps] /\ buffer' = buffer /\ step'[c] = "mark"
        /\ \A d \in Consumers \ {c} :
             step'[d] = step[d] /\ buffer'[d] = buffer[d]
    BY <1>2, AdvanceEffect DEF Steps
  <2>0. applied' \in [Events -> Nat] /\ mishaps' = mishaps
    BY <1>1, <1>2 DEF InboxTypeOK
  <2>1a. InboxTypeOK'
    BY <1>1, <2>0, <2>1 DEF InboxTypeOK
  <2>1b. JetStreamTypeOK'
    BY <1>1, <1>2 DEF JetStreamTypeOK, queueVars
  <2>2. JetStreamTypeOK' /\ InboxTypeOK'
    BY <2>1a, <2>1b
  <2>3. (\A e \in Events : applied[e] > 0 => applied'[e] > 0) /\ applied'[e0] > 0
    BY <1>1, <1>2 DEF InboxTypeOK
  <2>4. AckedIsApplied' /\ InboxIsApplied'
    BY <1>1, <1>2, <2>2, <2>3
    DEF AckedIsApplied, InboxIsApplied, InboxTypeOK, JetStreamTypeOK,
        queueVars, Copy
  <2>5. CallbackInv'
    <3> SUFFICES ASSUME NEW d \in Consumers
                 PROVE  /\ step'[d] # "check" => Busy(d)'
                        /\ step'[d] \in {"mark", "ack"} => applied'[Current(d)'[1]] > 0
      BY DEF CallbackInv
    <3>1. CASE d = c
      BY <1>1, <2>1, <2>3, <3>1 DEF Busy, Current
    <3>2. CASE d # c
      <4>1. step'[d] = step[d] /\ Busy(d)' = Busy(d) /\ Current(d)' = Current(d)
        BY <2>1, <3>2 DEF Busy, Current
      <4>2. step[d] \in {"mark", "ack"} => Current(d)[1] \in Events
        BY CurrentType DEF CallbackInv
      <4>3. step[d] \in {"mark", "ack"} => applied'[Current(d)[1]] > 0
        BY <2>3, <4>2 DEF CallbackInv
      <4>4. step[d] # "check" => Busy(d)
        BY DEF CallbackInv
      <4> QED
        BY <4>1, <4>3, <4>4
    <3> QED
      BY <3>1, <3>2
  <2>6. CountInv'
    <3> SUFFICES ASSUME NEW e \in Events
                 PROVE  /\ e \notin inbox' =>
                             applied'[e] = unmarked'[e] + Cardinality(At("mark", e)')
                        /\ e \in inbox' =>
                             /\ applied'[e] + Cardinality(At("handle", e)')
                                  <= unmarked'[e] + Cardinality(Consumers)
                             /\ unmarked'[e] + Cardinality(At("mark", e)') <= applied'[e]
      BY DEF CountInv
    <3>1. /\ applied[e] \in Nat /\ unmarked[e] \in Nat
          /\ Cardinality(Consumers) \in Nat
          /\ Cardinality(At("handle", e)) \in Nat
          /\ Cardinality(At("mark", e)) \in Nat
      BY CountType DEF InboxTypeOK
    <3>2. CASE e = e0
      <4>1. /\ c \in At("handle", e) /\ c \notin At("handle", e)'
            /\ c \notin At("mark", e) /\ c \in At("mark", e)'
        BY <1>1, <2>1, <3>2 DEF At, Busy, Current
      <4>2. /\ Cardinality(At("handle", e)') = Cardinality(At("handle", e)) - 1
            /\ Cardinality(At("mark", e)') = Cardinality(At("mark", e)) + 1
        BY <2>1, <4>1, AtMoves
      <4>3. applied'[e] = applied[e] + 1
        BY <1>1, <1>2, <3>2 DEF InboxTypeOK
      <4> QED
        BY <1>1, <3>1, <4>2, <4>3 DEF CountInv
    <3>3. CASE e # e0
      <4>1. /\ c \notin At("handle", e) /\ c \notin At("handle", e)'
            /\ c \notin At("mark", e) /\ c \notin At("mark", e)'
        BY <1>1, <2>1, <3>3 DEF At, Busy, Current
      <4>2. At("handle", e)' = At("handle", e) /\ At("mark", e)' = At("mark", e)
        BY <2>1, <4>1, AtMoves
      <4>3. applied'[e] = applied[e]
        BY <1>1, <1>2, <3>3 DEF InboxTypeOK
      <4> QED
        BY <1>1, <4>2, <4>3 DEF CountInv
    <3> QED
      BY <3>2, <3>3
  <2> QED
    BY <1>1, <1>2, <2>2, <2>4, <2>5, <2>6
<1>3. CASE /\ Mishap("handler", MaxHandlerErrors)
           /\ Release(Current(c)) /\ Return(c) /\ UNCHANGED applied
  <2>1. /\ step' \in [Consumers -> Steps] /\ buffer' \in [Consumers -> Seq(Copy)]
        /\ step'[c] = "check"
        /\ \A d \in Consumers \ {c} :
             step'[d] = step[d] /\ buffer'[d] = buffer[d]
    BY <1>1, <1>3, ReturnEffect
  <2>2. JetStreamTypeOK' /\ UNCHANGED <<acked, attempts>>
    BY <1>3, ReleaseType
  <2>3. InboxTypeOK'
    BY <1>1, <1>3, <2>1 DEF InboxTypeOK, Mishap
  <2>4. CallbackInv'
    BY <1>1, <1>3, <2>1 DEF CallbackInv, Busy, Current
  <2>5. CountInv'
    <3> SUFFICES ASSUME NEW e \in Events
                 PROVE  /\ e \notin inbox =>
                             applied[e] = unmarked[e] + Cardinality(At("mark", e)')
                        /\ e \in inbox =>
                             /\ applied[e] + Cardinality(At("handle", e)')
                                  <= unmarked[e] + Cardinality(Consumers)
                             /\ unmarked[e] + Cardinality(At("mark", e)') <= applied[e]
      BY <1>1, <1>3 DEF CountInv
    <3>1. c \notin At("mark", e) /\ c \notin At("mark", e)' /\ c \notin At("handle", e)'
      BY <1>1, <2>1 DEF At
    <3>2. /\ At("mark", e)' = At("mark", e)
          /\ \/ At("handle", e)' = At("handle", e)
             \/ Cardinality(At("handle", e)') = Cardinality(At("handle", e)) - 1
      BY <2>1, <3>1, AtMoves
    <3>3. /\ applied[e] \in Nat /\ unmarked[e] \in Nat
          /\ Cardinality(Consumers) \in Nat
          /\ Cardinality(At("handle", e)) \in Nat
      BY CountType DEF InboxTypeOK
    <3> QED
      BY <3>2, <3>3 DEF CountInv
  <2> QED
    BY <1>1, <1>3, <2>2, <2>3, <2>4, <2>5 DEF AckedIsApplied, InboxIsApplied
<1> QED
  BY <1>2, <1>3 DEF Handle

\* c leaves "mark" for e0 without writing the inbox, and the history says so.
LEMMA UnmarkedCounts ==
  ASSUME InboxInv, NEW c \in Consumers, step[c] = "mark", Busy(c),
         UNCHANGED <<inbox, applied>>, step'[c] \in {"check", "ack"},
         unmarked' = [unmarked EXCEPT ![Current(c)[1]] = @ + 1],
         \A d \in Consumers \ {c} : step'[d] = step[d] /\ buffer'[d] = buffer[d]
  PROVE  CountInv'
<1> USE DEF InboxInv
<1> DEFINE e0 == Current(c)[1]
<1> SUFFICES ASSUME NEW e \in Events
             PROVE  /\ e \notin inbox =>
                         applied[e] = unmarked'[e] + Cardinality(At("mark", e)')
                    /\ e \in inbox =>
                         /\ applied[e] + Cardinality(At("handle", e)')
                              <= unmarked'[e] + Cardinality(Consumers)
                         /\ unmarked'[e] + Cardinality(At("mark", e)') <= applied[e]
  BY DEF CountInv
<1>1. /\ applied[e] \in Nat /\ unmarked[e] \in Nat
      /\ Cardinality(Consumers) \in Nat
      /\ Cardinality(At("handle", e)) \in Nat
      /\ Cardinality(At("mark", e)) \in Nat
  BY CountType DEF InboxTypeOK
<1>2. c \notin At("handle", e) /\ c \notin At("handle", e)' /\ c \notin At("mark", e)'
  BY DEF At
<1>3. At("handle", e)' = At("handle", e)
  BY <1>2, AtMoves
<1>4. CASE e = e0
  <2>1. c \in At("mark", e)
    BY <1>4 DEF At
  <2>2. Cardinality(At("mark", e)') = Cardinality(At("mark", e)) - 1
    BY <1>2, <2>1, AtMoves
  <2>3. unmarked'[e] = unmarked[e] + 1
    BY <1>4 DEF InboxTypeOK
  <2> QED
    BY <1>1, <1>3, <2>2, <2>3 DEF CountInv
<1>5. CASE e # e0
  <2>1. c \notin At("mark", e)
    BY <1>5 DEF At
  <2>2. At("mark", e)' = At("mark", e)
    BY <1>2, <2>1, AtMoves
  <2>3. unmarked'[e] = unmarked[e]
    BY <1>5 DEF InboxTypeOK
  <2> QED
    BY <1>3, <2>2, <2>3 DEF CountInv
<1> QED
  BY <1>4, <1>5

LEMMA MarkConsumedKeeps ==
  ASSUME InboxInv, NEW c \in Consumers, MarkConsumed(c), UNCHANGED storeVars
  PROVE  InboxInv'
<1> USE DEF InboxInv
<1> DEFINE e0 == Current(c)[1]
<1>1. /\ Busy(c) /\ step[c] = "mark" /\ e0 \in Events /\ applied[e0] > 0
      /\ Advance(c, "ack")
      /\ UNCHANGED <<applied, queueVars, copies, window>>
  BY CurrentType DEF MarkConsumed, storeVars, CallbackInv
<1>2. /\ step' \in [Consumers -> Steps] /\ buffer' = buffer /\ step'[c] = "ack"
      /\ \A d \in Consumers \ {c} :
           step'[d] = step[d] /\ buffer'[d] = buffer[d]
  BY <1>1, AdvanceEffect DEF Steps
<1>3. JetStreamTypeOK' /\ AckedIsApplied'
  BY <1>1 DEF JetStreamTypeOK, AckedIsApplied, queueVars
<1>4. CallbackInv'
  BY <1>1, <1>2 DEF CallbackInv, Busy, Current
<1>5. CASE inbox' = inbox \cup {e0} /\ UNCHANGED <<unmarked, mishaps>>
  <2>1. InboxTypeOK' /\ InboxIsApplied'
    BY <1>1, <1>2, <1>5 DEF InboxTypeOK, InboxIsApplied
  <2>2. CountInv'
    <3> SUFFICES ASSUME NEW e \in Events
                 PROVE  /\ e \notin inbox' =>
                             applied[e] = unmarked[e] + Cardinality(At("mark", e)')
                        /\ e \in inbox' =>
                             /\ applied[e] + Cardinality(At("handle", e)')
                                  <= unmarked[e] + Cardinality(Consumers)
                             /\ unmarked[e] + Cardinality(At("mark", e)') <= applied[e]
      BY <1>1, <1>5 DEF CountInv
    <3>1. /\ applied[e] \in Nat /\ unmarked[e] \in Nat
          /\ Cardinality(Consumers) \in Nat
          /\ Cardinality(At("handle", e)) \in Nat
          /\ Cardinality(At("mark", e)) \in Nat
      BY CountType DEF InboxTypeOK
    <3>2. c \notin At("handle", e) /\ c \notin At("handle", e)'
      BY <1>1, <1>2 DEF At
    <3>3. At("handle", e)' = At("handle", e)
      BY <1>2, <3>2, AtMoves
    <3>4. CASE e = e0
      <4>1. c \in At("mark", e) /\ c \notin At("mark", e)'
        BY <1>1, <1>2, <3>4 DEF At
      <4>2. Cardinality(At("mark", e)') = Cardinality(At("mark", e)) - 1
        BY <1>2, <4>1, AtMoves
      <4> QED
        BY <1>5, <3>1, <3>3, <3>4, <4>2, AtDisjoint DEF CountInv
    <3>5. CASE e # e0
      <4>1. c \notin At("mark", e) /\ c \notin At("mark", e)'
        BY <1>1, <1>2, <3>5 DEF At
      <4>2. At("mark", e)' = At("mark", e)
        BY <1>2, <4>1, AtMoves
      <4> QED
        BY <1>5, <3>3, <3>5, <4>2 DEF CountInv
    <3> QED
      BY <3>4, <3>5
  <2> QED
    BY <1>1, <1>3, <1>4, <2>1, <2>2
<1>6. CASE /\ Mishap("write", MaxInboxErrors)
           /\ unmarked' = [unmarked EXCEPT ![e0] = @ + 1] /\ UNCHANGED inbox
  <2>0. /\ unmarked' \in [Events -> Nat] /\ inbox' = inbox
        /\ mishaps' \in [{"handler", "write", "ack", "stop", "wait"} -> Nat]
    BY <1>1, <1>6 DEF InboxTypeOK, Mishap
  <2>1. InboxTypeOK' /\ InboxIsApplied'
    BY <1>1, <1>2, <2>0 DEF InboxTypeOK, InboxIsApplied
  <2>2. CountInv'
    BY <1>1, <1>2, <1>6, UnmarkedCounts
  <2> QED
    BY <1>1, <1>3, <1>4, <2>1, <2>2
<1> QED
  BY <1>5, <1>6 DEF MarkConsumed

LEMMA AcknowledgeKeeps ==
  ASSUME InboxInv, NEW c \in Consumers, Acknowledge(c), UNCHANGED storeVars
  PROVE  InboxInv'
<1> USE DEF InboxInv
<1>1. /\ Busy(c) /\ step[c] = "ack" /\ Return(c)
      /\ Current(c) \in Copy /\ applied[Current(c)[1]] > 0
      /\ UNCHANGED <<inbox, applied, unmarked, copies, window>>
  BY CurrentType DEF Acknowledge, storeVars, CallbackInv
<1>2. /\ step' \in [Consumers -> Steps] /\ buffer' \in [Consumers -> Seq(Copy)]
      /\ step'[c] = "check"
      /\ \A d \in Consumers \ {c} :
           step'[d] = step[d] /\ buffer'[d] = buffer[d]
  BY <1>1, ReturnEffect
<1>3. InboxTypeOK' /\ InboxIsApplied'
  BY <1>1, <1>2 DEF Acknowledge, Mishap, InboxTypeOK, InboxIsApplied
<1>4. JetStreamTypeOK' /\ AckedIsApplied'
  <2>1. acked' \in {acked, acked \cup {Current(c)}}
    BY DEF Acknowledge, Ack, queueVars
  <2>2. outstanding' \subseteq outstanding /\ UNCHANGED attempts
    BY DEF Acknowledge, Ack, queueVars
  <2> QED
    BY <1>1, <2>1, <2>2 DEF JetStreamTypeOK, AckedIsApplied
<1>5. CallbackInv'
  BY <1>1, <1>2 DEF CallbackInv, Busy, Current
<1>6. \A e : /\ c \notin At("mark", e) /\ c \notin At("mark", e)'
             /\ c \notin At("handle", e) /\ c \notin At("handle", e)'
  BY <1>1, <1>2 DEF At
<1>7. CountInv'
  BY <1>1, <1>2, <1>6, AtMoves, CountsKept DEF InboxTypeOK
<1> QED
  BY <1>1, <1>3, <1>4, <1>5, <1>7

LEMMA ConsumerStopsKeeps ==
  ASSUME InboxInv, NEW c \in Consumers, ConsumerStops(c), UNCHANGED storeVars
  PROVE  InboxInv'
<1> USE DEF InboxInv
<1>1. /\ Busy(c) /\ Current(c)[1] \in Events
      /\ UNCHANGED <<inbox, applied, acked, attempts, outstanding, copies, window>>
  BY CurrentType DEF ConsumerStops, storeVars, queueVars
<1>2. /\ step' \in [Consumers -> Steps] /\ buffer' \in [Consumers -> Seq(Copy)]
      /\ step'[c] = "check"
      /\ \A d \in Consumers \ {c} :
           step'[d] = step[d] /\ buffer'[d] = buffer[d]
  BY DEF ConsumerStops, InboxTypeOK, Steps
<1>3. unmarked' = IF step[c] = "mark"
                  THEN [unmarked EXCEPT ![Current(c)[1]] = @ + 1]
                  ELSE unmarked
  BY DEF ConsumerStops
<1>4. JetStreamTypeOK' /\ AckedIsApplied' /\ InboxIsApplied'
  BY <1>1 DEF JetStreamTypeOK, AckedIsApplied, InboxIsApplied
<1>5. InboxTypeOK'
  <2>1. mishaps' \in [{"handler", "write", "ack", "stop", "wait"} -> Nat]
    BY DEF ConsumerStops, Mishap, InboxTypeOK
  <2>2. unmarked' \in [Events -> Nat]
    BY <1>1, <1>3 DEF InboxTypeOK
  <2> QED
    BY <1>1, <1>2, <2>1, <2>2 DEF InboxTypeOK
<1>6. CallbackInv'
  BY <1>1, <1>2 DEF CallbackInv, Busy, Current
<1>7. CountInv'
  <2>1. CASE step[c] = "mark"
    BY <1>1, <1>2, <1>3, <2>1, UnmarkedCounts
  <2>2. CASE step[c] # "mark"
    <3> SUFFICES ASSUME NEW e \in Events
                 PROVE  /\ e \notin inbox =>
                             applied[e] = unmarked[e] + Cardinality(At("mark", e)')
                        /\ e \in inbox =>
                             /\ applied[e] + Cardinality(At("handle", e)')
                                  <= unmarked[e] + Cardinality(Consumers)
                             /\ unmarked[e] + Cardinality(At("mark", e)') <= applied[e]
      BY <1>1, <1>3, <2>2 DEF CountInv
    <3>1. c \notin At("mark", e) /\ c \notin At("mark", e)' /\ c \notin At("handle", e)'
      BY <1>2, <2>2 DEF At
    <3>2. /\ At("mark", e)' = At("mark", e)
          /\ \/ At("handle", e)' = At("handle", e)
             \/ Cardinality(At("handle", e)') = Cardinality(At("handle", e)) - 1
      BY <1>2, <3>1, AtMoves
    <3>3. /\ applied[e] \in Nat /\ unmarked[e] \in Nat
          /\ Cardinality(Consumers) \in Nat
          /\ Cardinality(At("handle", e)) \in Nat
      BY CountType DEF InboxTypeOK
    <3> QED
      BY <3>2, <3>3 DEF CountInv
  <2> QED
    BY <2>1, <2>2
<1> QED
  BY <1>1, <1>4, <1>5, <1>6, <1>7

LEMMA AckWaitKeeps ==
  ASSUME InboxInv, NEW m \in Copy, AckWait(m), UNCHANGED storeVars
  PROVE  InboxInv'
<1> USE DEF InboxInv
<1>1. JetStreamTypeOK' /\ UNCHANGED <<acked, attempts, copies, window>>
  BY ReleaseType DEF AckWait, AckWaitElapses, storeVars
<1>2. UNCHANGED <<inbox, applied, buffer, step, unmarked>>
  BY DEF AckWait
<1>3. InboxTypeOK'
  BY <1>2 DEF InboxTypeOK, AckWait, Mishap
<1>4. \A s, e : At(s, e)' = At(s, e)
  BY <1>2 DEF At, Busy, Current
<1>5. CountInv'
  BY <1>2, <1>4, CountsKept
<1> QED
  BY <1>1, <1>2, <1>3, <1>5
  DEF AckedIsApplied, InboxIsApplied, CallbackInv, Busy, Current

LEMMA StutterKeeps == InboxInv /\ UNCHANGED inVars => InboxInv'
<1> SUFFICES ASSUME InboxInv, UNCHANGED inVars
             PROVE  InboxInv'
  OBVIOUS
<1> USE DEF InboxInv, inVars, storeVars, queueVars, inboxVars
<1>1. \A s, e : At(s, e)' = At(s, e)
  BY DEF At, Busy, Current
<1>2. CountInv'
  BY <1>1, CountsKept
<1> QED
  BY <1>2 DEF JetStreamTypeOK, InboxTypeOK, AckedIsApplied, InboxIsApplied,
              CallbackInv, Busy, Current

-----------------------------------------------------------------------------
(* The inductive invariant and its consequences.                           *)

LEMMA InboxInitInv == JetStreamInit /\ InboxInit => InboxInv
<1> SUFFICES ASSUME JetStreamInit, InboxInit
             PROVE  InboxInv
  OBVIOUS
<1>1. JetStreamTypeOK /\ \A e \in Events \ window : copies[e] < MaxCopies
  BY JetStreamAssumption DEF JetStreamAssumption, JetStreamInit, JetStreamTypeOK
<1>2. InboxTypeOK
  BY DEF InboxInit, InboxTypeOK, NoMishap, Steps
<1>3. \A s, e : At(s, e) = {}
  BY DEF InboxInit, At, Busy
<1>4. \A e : Cardinality(At("mark", e)) = 0
  BY <1>3, FS_EmptySet
<1>5. CountInv
  BY <1>4 DEF InboxInit, CountInv
<1> QED
  BY <1>1, <1>2, <1>5
  DEF InboxInv, InboxInit, JetStreamInit, AckedIsApplied, InboxIsApplied,
      CallbackInv

LEMMA InboxStepInv == InboxInv /\ [InboxStep]_inVars => InboxInv'
<1> SUFFICES ASSUME InboxInv, [InboxStep]_inVars
             PROVE  InboxInv'
  OBVIOUS
<1>1. CASE Arrive
  BY <1>1, ArriveKeeps
<1>2. CASE InboxNext /\ UNCHANGED storeVars
  <2>1. ASSUME NEW c \in Consumers, Receive(c)
        PROVE  InboxInv'
    BY <1>2, <2>1, ReceiveKeeps
  <2>2. ASSUME NEW c \in Consumers, CallbackStep(c)
        PROVE  InboxInv'
    BY <1>2, <2>2, CheckKeeps, HandleKeeps, MarkConsumedKeeps, AcknowledgeKeeps
    DEF CallbackStep
  <2>3. ASSUME NEW c \in Consumers, ConsumerStops(c)
        PROVE  InboxInv'
    BY <1>2, <2>3, ConsumerStopsKeeps
  <2>4. ASSUME NEW m \in Copy, AckWait(m)
        PROVE  InboxInv'
    BY <1>2, <2>4, AckWaitKeeps
  <2> QED
    BY <1>2, <2>1, <2>2, <2>3, <2>4 DEF InboxNext
<1>3. CASE UNCHANGED inVars
  BY <1>3, StutterKeeps
<1> QED
  BY <1>1, <1>2, <1>3 DEF InboxStep

\* The inductive invariant of the consumer side holds in every reachable
\* state, for any number of events, copies, instances and faults.
THEOREM InboxInvariant == InboxSpec => []InboxInv
<1>1. JetStreamInit /\ InboxInit => InboxInv
  BY InboxInitInv
<1>2. InboxInv /\ [InboxStep]_inVars => InboxInv'
  BY InboxStepInv
<1> QED
  BY <1>1, <1>2, PTL DEF InboxSpec

\* No acknowledged copy and no inbox row stands for an event that was never
\* applied: at-least-once, whatever fails.
THEOREM NothingLost == InboxSpec => [](AckedIsApplied /\ InboxIsApplied)
<1>1. InboxInv => AckedIsApplied /\ InboxIsApplied
  BY DEF InboxInv
<1> QED
  BY <1>1, InboxInvariant, PTL

LEMMA BoundOfCounts == InboxInv => DuplicatesBounded
<1> SUFFICES ASSUME InboxInv, NEW e \in Events
             PROVE  applied[e] <= Cardinality(Consumers) + unmarked[e]
  BY DEF DuplicatesBounded
<1>1. /\ applied[e] \in Nat /\ unmarked[e] \in Nat
      /\ Cardinality(Consumers) \in Nat
      /\ Cardinality(At("handle", e)) \in Nat
      /\ Cardinality(At("mark", e)) \in Nat
      /\ Cardinality(At("mark", e)) <= Cardinality(Consumers)
  BY CountType DEF InboxInv, InboxTypeOK
<1> QED
  BY <1>1 DEF InboxInv, CountInv

\* The handler's commits for an event are bounded by the instances and the
\* commits whose inbox row was lost.
THEOREM DuplicatesAreBounded == InboxSpec => []DuplicatesBounded
BY BoundOfCounts, InboxInvariant, PTL

outVars == <<outboxVars, storeVars>>

-----------------------------------------------------------------------------
(* What the two SELECTs return.                                            *)

\* An event older than one of the n oldest is one of them.
LEMMA OlderIsOldest ==
  ASSUME NEW n \in Nat, NEW es \in SUBSET Events,
         \A e \in Events : outbox[e].at \in Nat,
         NEW e \in es, NEW f \in Oldest(es, n), outbox[e].at <= outbox[f].at
  PROVE  e \in Oldest(es, n)
<1> DEFINE Older(g) == {h \in es : outbox[h].at < outbox[g].at}
<1>1. IsFiniteSet(Older(f))
  BY FS_Subset, JetStreamAssumption DEF JetStreamAssumption
<1>2. Older(e) \subseteq Older(f)
  BY DEF Oldest
<1>3. IsFiniteSet(Older(e)) /\ Cardinality(Older(e)) <= Cardinality(Older(f))
  BY <1>1, <1>2, FS_Subset
<1>4. Cardinality(Older(e)) \in Nat /\ Cardinality(Older(f)) \in Nat
  BY <1>1, <1>3, FS_CardinalityType
<1>5. Cardinality(Older(f)) < n
  BY DEF Oldest
<1>6. Cardinality(Older(e)) < n
  BY <1>3, <1>4, <1>5
<1> QED
  BY <1>6 DEF Oldest

\* The rows read are rows of events in es, as they stand.
LEMMA ReadRows ==
  ASSUME NEW n, NEW es \in SUBSET Events, outbox \in [Events -> OutboxRow]
  PROVE  /\ AsRead(Oldest(es, n)) \in SUBSET ReadRow
         /\ \A r \in AsRead(Oldest(es, n)) :
              /\ r.event \in Oldest(es, n) /\ r.event \in es
              /\ r.at = outbox[r.event].at
         /\ \A e \in Oldest(es, n) :
              \E r \in AsRead(Oldest(es, n)) : r.event = e
<1> DEFINE Old == Oldest(es, n)
<1>1. Old \in SUBSET es
  BY DEF Oldest
<1>2. \A e \in es : outbox[e].retries \in Nat /\ outbox[e].at \in Nat
  BY DEF OutboxRow
<1> HIDE DEF Old
<1> DEFINE rowOf(e) == [event |-> e, retries |-> outbox[e].retries, at |-> outbox[e].at]
<1>3. \A e \in Old : /\ rowOf(e) \in ReadRow /\ rowOf(e).event = e
                     /\ rowOf(e).at = outbox[e].at
  BY <1>1, <1>2 DEF ReadRow
<1>4. AsRead(Old) = {rowOf(e) : e \in Old}
  BY DEF AsRead
<1> HIDE DEF rowOf
<1>5. /\ AsRead(Old) \in SUBSET ReadRow
      /\ \A r \in AsRead(Old) : r.event \in Old /\ r.at = outbox[r.event].at
      /\ \A e \in Old : \E r \in AsRead(Old) : r.event = e
  BY <1>3, <1>4
<1> QED
  BY <1>1, <1>5 DEF Old

-----------------------------------------------------------------------------
(* Steps that change no row and no copy.                                   *)

\* A publisher moves, and keeps or drops the rows it holds.
LEMMA QuietKeeps ==
  ASSUME OutboxInv, UNCHANGED <<outbox, clock, copies>>,
         StoreTypeOK', OutboxTypeOK', faults'.publish = faults.publish,
         \A p \in Publishers :
           /\ batch'[p] = batch[p] \/ batch'[p] = {}
           /\ pub'[p].at = "mark" =>
                /\ pub[p].at = "mark"
                /\ pub'[p].outcome = pub[p].outcome /\ row'[p] = row[p]
           /\ pub'[p].phase = "retry" => pub[p].phase = "retry" \/ batch'[p] = {}
  PROVE  OutboxInv'
<1> USE DEF OutboxInv
<1>1. Committed' = Committed
  BY DEF Committed
<1>2. PublishedIsStored' /\ StoredIsCommitted' /\ ClockInv' /\ PublishedInOrder'
  BY <1>1 DEF PublishedIsStored, StoredIsCommitted, ClockInv, PublishedInOrder
<1>3. HeldInv'
  BY <1>1 DEF HeldInv
<1>4. faults'.publish = 0 => NothingRetried' /\ BatchInOrder'
  <2> SUFFICES ASSUME faults'.publish = 0
               PROVE  NothingRetried' /\ BatchInOrder'
    OBVIOUS
  <2>1. NothingRetried'
    BY <1>1 DEF NothingRetried
  <2>2. BatchInOrder'
    BY <1>1 DEF BatchInOrder
  <2> QED
    BY <2>1, <2>2
<1> QED
  BY <1>2, <1>3, <1>4

\* A publisher begins a batch: it reads what a SELECT returns, or fails to.
LEMMA ReadKeeps ==
  ASSUME OutboxInv, NEW p \in Publishers, NEW phase \in Phases, NEW rows,
         Read(p, phase, rows), StoreTypeOK', UNCHANGED <<outbox, clock, copies, row>>,
         notes' \in [Publishers -> Nat], conn' \in [Publishers -> BOOLEAN],
         tick' \in [Publishers -> BOOLEAN],
         rows = IF phase = "retry" THEN RetryableRows ELSE PendingRows
  PROVE  OutboxInv'
<1> USE DEF OutboxInv
<1>1. Committed' = Committed
  BY DEF Committed
<1>2. /\ outbox \in [Events -> OutboxRow]
      /\ \A e \in Events : outbox[e].at \in Nat
      /\ BatchSize \in Nat
  BY OutboxAssumption DEF OutboxAssumption, OutboxTypeOK, OutboxRow
<1>3. PICK es \in SUBSET Events :
        /\ rows = AsRead(Oldest(es, BatchSize))
        /\ \A e \in es : e \in Committed
        /\ phase # "retry" => es = {e \in Events : outbox[e].status = "pending"}
        /\ phase = "retry" => \A e \in es : outbox[e].status = "failed"
  <2>1. CASE phase = "retry"
    <3> DEFINE es == {e \in Events : Retryable(e)}
    <3>1. rows = AsRead(Oldest(es, BatchSize)) /\ es \in SUBSET Events
      BY <2>1 DEF RetryableRows
    <3> QED
      BY <2>1, <3>1 DEF Retryable, Committed
  <2>2. CASE phase # "retry"
    <3> DEFINE es == {e \in Events : outbox[e].status = "pending"}
    <3>1. rows = AsRead(Oldest(es, BatchSize)) /\ es \in SUBSET Events
      BY <2>2 DEF PendingRows
    <3> QED
      BY <2>2, <3>1 DEF Committed
  <2> QED
    BY <2>1, <2>2
<1>4. /\ rows \in SUBSET ReadRow
      /\ \A r \in rows : /\ r.event \in Oldest(es, BatchSize) /\ r.event \in es
                         /\ r.at = outbox[r.event].at
      /\ \A e \in Oldest(es, BatchSize) : \E r \in rows : r.event = e
  BY <1>2, <1>3, ReadRows
<1>5. /\ pub' = [pub EXCEPT ![p] = [at |-> "rows", phase |-> phase, outcome |-> "none"]]
      /\ \/ batch' = [batch EXCEPT ![p] = rows]
         \/ batch' = [batch EXCEPT ![p] = {}]
      /\ faults'.publish = faults.publish
      /\ faults' \in [{"publish", "write", "stop"} -> Nat]
  BY DEF Read, OutboxTypeOK
<1>6. OutboxTypeOK'
  BY <1>4, <1>5 DEF OutboxTypeOK, Places, Outcomes
<1>7. PublishedIsStored' /\ StoredIsCommitted' /\ ClockInv' /\ PublishedInOrder'
  BY <1>1, <1>5 DEF PublishedIsStored, StoredIsCommitted, ClockInv, PublishedInOrder
<1>8. HeldInv'
  BY <1>1, <1>3, <1>4, <1>5 DEF HeldInv, OutboxTypeOK
<1>9. faults'.publish = 0 => NothingRetried' /\ BatchInOrder'
  <2> SUFFICES ASSUME faults'.publish = 0
               PROVE  NothingRetried' /\ BatchInOrder'
    OBVIOUS
  <2>1. phase = "retry" => rows = {}
    BY <1>3, <1>4, <1>5 DEF NothingRetried, Committed
  <2>2. NothingRetried'
    BY <1>1, <1>5, <2>1 DEF NothingRetried, OutboxTypeOK
  <2>3. BatchInOrder'
    <3> SUFFICES ASSUME NEW q \in Publishers, NEW r \in batch'[q],
                        NEW e \in Committed, outbox[e].done < r.at
                 PROVE  copies[e] > 0 \/ \E s \in batch'[q] : s.event = e
      BY <1>1 DEF BatchInOrder
    <3>1. CASE batch'[q] = batch[q]
      BY <1>5, <3>1 DEF BatchInOrder
    <3>2. CASE batch'[q] # batch[q]
      <4>1. q = p /\ batch'[q] = rows /\ phase # "retry"
        BY <1>5, <2>1, <3>2 DEF OutboxTypeOK
      <4>2. e \in Events /\ outbox[e].status \in {"pending", "published"}
        BY <1>5 DEF NothingRetried, Committed
      <4>3. CASE outbox[e].status = "published"
        BY <4>2, <4>3 DEF PublishedIsStored
      <4>4. CASE outbox[e].status = "pending"
        <5>1. e \in es /\ outbox[e].at <= outbox[r.event].at
          <6>1. /\ outbox[e].at <= outbox[e].done
                /\ outbox[e].at \in Nat /\ outbox[e].done \in Nat
                /\ r.at = outbox[r.event].at /\ outbox[r.event].at \in Nat
            BY <1>2, <1>4, <4>1, <4>2 DEF ClockInv, OutboxRow
          <6> QED
            BY <1>3, <4>1, <4>2, <4>4, <6>1
        <5>2. e \in Oldest(es, BatchSize)
          BY <1>2, <1>4, <4>1, <5>1, OlderIsOldest
        <5> QED
          BY <1>4, <4>1, <5>2
      <4> QED
        BY <4>2, <4>3, <4>4
    <3> QED
      BY <3>1, <3>2
  <2> QED
    BY <2>2, <2>3
<1> QED
  BY <1>6, <1>7, <1>8, <1>9

-----------------------------------------------------------------------------
(* The transactions that emit.                                             *)

\* Only the row of e changes, and e is not committed before the step.
LEMMA OthersKept ==
  ASSUME outbox \in [Events -> OutboxRow], NEW e \in Events, NEW r \in OutboxRow,
         outbox' = [outbox EXCEPT ![e] = r]
  PROVE  /\ outbox' \in [Events -> OutboxRow] /\ outbox'[e] = r
         /\ \A f \in Events \ {e} : outbox'[f] = outbox[f]
         /\ \A f \in Events \ {e} : f \in Committed' <=> f \in Committed
         /\ e \in Committed' <=> r.status \notin {"absent", "open"}
BY DEF Committed

LEMMA EmitKeeps ==
  ASSUME OutboxInv, NEW e \in Events, Emit(e)
  PROVE  OutboxInv'
<1> USE DEF OutboxInv
<1> DEFINE r == [outbox[e] EXCEPT !.status = "open", !.at = clock + 1]
<1>1. /\ outbox[e].status = "absent" /\ clock' = clock + 1 /\ clock \in Nat
      /\ outbox \in [Events -> OutboxRow]
      /\ UNCHANGED <<pub, batch, row, notes, conn, tick, faults, copies, window>>
  BY DEF Emit, storeVars, OutboxTypeOK
<1>2. /\ r \in OutboxRow /\ r.status = "open" /\ r.at = clock + 1
      /\ outbox' = [outbox EXCEPT ![e] = r]
  <2>1. outbox' = [outbox EXCEPT ![e] = r]
    BY <1>1 DEF Emit
  <2>2. outbox[e] \in OutboxRow /\ clock + 1 \in Nat
    BY <1>1
  <2>3. r \in OutboxRow /\ r.status = "open" /\ r.at = clock + 1
    BY <2>2 DEF OutboxRow, Statuses
  <2> QED
    BY <2>1, <2>3
<1> HIDE DEF r
<1>3. /\ outbox' \in [Events -> OutboxRow] /\ outbox'[e] = r
      /\ \A f \in Events \ {e} : outbox'[f] = outbox[f]
      /\ e \notin Committed /\ Committed' = Committed
  BY <1>1, <1>2, OthersKept DEF Committed
<1>4. StoreTypeOK' /\ OutboxTypeOK'
  BY <1>1, <1>3 DEF StoreTypeOK, OutboxTypeOK
<1>5. ClockInv'
  <2>1. \A f \in Events : outbox[f].at \in Nat /\ outbox[f].done \in Nat
    BY <1>1 DEF OutboxRow
  <2> QED
    BY <1>1, <1>2, <1>3, <2>1 DEF ClockInv, Committed
<1>6. PublishedIsStored' /\ StoredIsCommitted' /\ HeldInv' /\ PublishedInOrder'
  BY <1>1, <1>2, <1>3
  DEF PublishedIsStored, StoredIsCommitted, HeldInv, PublishedInOrder, Committed
<1>7. faults'.publish = 0 => NothingRetried' /\ BatchInOrder'
  BY <1>1, <1>3 DEF NothingRetried, BatchInOrder, Committed
<1> QED
  BY <1>4, <1>5, <1>6, <1>7

\* The event commits after every created_at given out so far.
LEMMA CommitEmitKeeps ==
  ASSUME OutboxInv, NEW e \in Events, CommitEmit(e)
  PROVE  OutboxInv'
<1> USE DEF OutboxInv
<1> DEFINE r == [outbox[e] EXCEPT !.status = "pending", !.done = clock]
<1>1. /\ outbox[e].status = "open" /\ clock \in Nat
      /\ outbox \in [Events -> OutboxRow]
      /\ UNCHANGED <<clock, pub, batch, row, conn, tick, faults, copies, window>>
      /\ notes' \in [Publishers -> Nat]
  BY DEF CommitEmit, storeVars, OutboxTypeOK, Notify
<1>2. /\ r \in OutboxRow /\ r.status = "pending" /\ r.done = clock
      /\ r.at = outbox[e].at /\ outbox' = [outbox EXCEPT ![e] = r]
  BY <1>1 DEF CommitEmit, OutboxRow, Statuses
<1> HIDE DEF r
<1>3. /\ outbox' \in [Events -> OutboxRow] /\ outbox'[e] = r
      /\ \A f \in Events \ {e} : outbox'[f] = outbox[f]
      /\ e \notin Committed /\ Committed' = Committed \cup {e}
  BY <1>1, <1>2, OthersKept DEF Committed
<1>4. StoreTypeOK' /\ OutboxTypeOK'
  BY <1>1, <1>3 DEF StoreTypeOK, OutboxTypeOK
<1>5. \A f \in Events : /\ outbox[f].at \in Nat /\ outbox[f].done \in Nat
                        /\ outbox[f].at <= clock /\ outbox'[f].at = outbox[f].at
  BY <1>1, <1>2, <1>3 DEF OutboxRow, ClockInv
<1>6. ClockInv'
  BY <1>1, <1>2, <1>3, <1>5 DEF ClockInv
<1>7. PublishedIsStored' /\ StoredIsCommitted'
  BY <1>1, <1>2, <1>3 DEF PublishedIsStored, StoredIsCommitted
<1>8. HeldInv'
  BY <1>1, <1>3, <1>5 DEF HeldInv, Committed
<1>9. PublishedInOrder'
  <2> SUFFICES ASSUME faults'.publish = 0, NEW f \in Committed', NEW g \in Committed',
                      outbox'[f].done < outbox'[g].at, copies'[g] > 0
               PROVE  copies'[f] > 0
    BY DEF PublishedInOrder
  <2>1. f # e
    BY <1>1, <1>2, <1>3, <1>5 DEF Committed
  <2>2. g \in Committed
    BY <1>1 DEF StoredIsCommitted, Committed
  <2> QED
    BY <1>1, <1>3, <2>1, <2>2 DEF PublishedInOrder, Committed
<1>10. faults'.publish = 0 => NothingRetried' /\ BatchInOrder'
  <2> SUFFICES ASSUME faults'.publish = 0
               PROVE  NothingRetried' /\ BatchInOrder'
    OBVIOUS
  <2>1. NothingRetried'
    BY <1>1, <1>2, <1>3 DEF NothingRetried, Committed
  <2>2. BatchInOrder'
    <3> SUFFICES ASSUME NEW p \in Publishers, NEW q \in batch[p],
                        NEW f \in Committed', outbox'[f].done < q.at
                 PROVE  copies[f] > 0 \/ \E s \in batch[p] : s.event = f
      BY <1>1 DEF BatchInOrder
    <3>1. q.event \in Events /\ q.at = outbox[q.event].at
      BY DEF HeldInv, Committed
    <3>2. f # e
      BY <1>1, <1>2, <1>3, <1>5, <3>1
    <3> QED
      BY <1>1, <1>3, <3>2 DEF BatchInOrder, Committed
  <2> QED
    BY <2>1, <2>2
<1> QED
  BY <1>4, <1>6, <1>7, <1>8, <1>9, <1>10

LEMMA AbortEmitKeeps ==
  ASSUME OutboxInv, NEW e \in Events, AbortEmit(e)
  PROVE  OutboxInv'
<1> USE DEF OutboxInv
<1>1. /\ outbox[e].status = "open" /\ clock \in Nat
      /\ outbox \in [Events -> OutboxRow]
      /\ UNCHANGED <<clock, pub, batch, row, notes, conn, tick, copies, window>>
      /\ faults' \in [{"publish", "write", "stop"} -> Nat]
      /\ faults'.publish = faults.publish
  BY DEF AbortEmit, storeVars, OutboxTypeOK
<1>2. Absent \in OutboxRow /\ outbox' = [outbox EXCEPT ![e] = Absent]
  BY DEF AbortEmit, Absent, OutboxRow, Statuses
<1>3. /\ outbox' \in [Events -> OutboxRow] /\ outbox'[e] = Absent
      /\ \A f \in Events \ {e} : outbox'[f] = outbox[f]
      /\ e \notin Committed /\ Committed' = Committed
  BY <1>1, <1>2, OthersKept DEF Committed, Absent
<1>4. StoreTypeOK' /\ OutboxTypeOK'
  BY <1>1, <1>3 DEF StoreTypeOK, OutboxTypeOK
<1>5. ClockInv'
  BY <1>1, <1>3 DEF ClockInv, Committed, Absent
<1>6. PublishedIsStored' /\ StoredIsCommitted' /\ HeldInv' /\ PublishedInOrder'
  BY <1>1, <1>3
  DEF PublishedIsStored, StoredIsCommitted, HeldInv, PublishedInOrder, Committed, Absent
<1>7. faults'.publish = 0 => NothingRetried' /\ BatchInOrder'
  BY <1>1, <1>3 DEF NothingRetried, BatchInOrder, Committed
<1> QED
  BY <1>4, <1>5, <1>6, <1>7

\* A row is marked, or falls due: its times stay, and it stays committed.
LEMMA RowChanges ==
  ASSUME OutboxInv, NEW e \in Committed, NEW r \in OutboxRow,
         outbox' = [outbox EXCEPT ![e] = r],
         r.status \notin {"absent", "open"},
         r.at = outbox[e].at, r.done = outbox[e].done,
         r.status = "published" => copies[e] > 0,
         faults.publish = 0 => r.status \in {"pending", "published"},
         UNCHANGED <<clock, batch, copies, window>>,
         OutboxTypeOK', faults'.publish = faults.publish,
         \A p \in Publishers :
           /\ pub'[p].phase = pub[p].phase
           /\ pub'[p].at = "mark" => pub'[p] = pub[p] /\ row'[p] = row[p]
  PROVE  OutboxInv'
<1> USE DEF OutboxInv
<1>1. /\ outbox \in [Events -> OutboxRow] /\ e \in Events
  BY DEF OutboxTypeOK, Committed
<1>2. /\ outbox'[e] = r
      /\ \A f \in Events \ {e} : outbox'[f] = outbox[f]
      /\ Committed' = Committed
  BY <1>1, OthersKept DEF Committed
<1>3. \A f \in Events : outbox'[f].at = outbox[f].at /\ outbox'[f].done = outbox[f].done
  BY <1>2
<1> HIDE DEF Committed
<1>4. StoreTypeOK' /\ PublishedIsStored' /\ StoredIsCommitted' /\ ClockInv'
  BY <1>2, <1>3 DEF StoreTypeOK, PublishedIsStored, StoredIsCommitted, ClockInv
<1>5. \A f \in Committed : f \in Events
  BY DEF Committed
<1>6. HeldInv' /\ PublishedInOrder'
  BY <1>2, <1>3, <1>5 DEF HeldInv, PublishedInOrder
<1>7. faults'.publish = 0 => NothingRetried' /\ BatchInOrder'
  BY <1>2, <1>3, <1>5 DEF NothingRetried, BatchInOrder
<1> QED
  BY <1>4, <1>6, <1>7

LEMMA RetryFallsDueKeeps ==
  ASSUME OutboxInv, NEW e \in Events, RetryFallsDue(e)
  PROVE  OutboxInv'
<1> USE DEF OutboxInv
<1> DEFINE r == [outbox[e] EXCEPT !.due = TRUE]
<1>1. /\ outbox[e] \in OutboxRow /\ outbox[e].status = "failed" /\ e \in Committed
      /\ UNCHANGED <<clock, pub, batch, row, notes, conn, tick, faults, copies, window>>
  BY DEF RetryFallsDue, storeVars, OutboxTypeOK, Committed
<1>2. /\ r \in OutboxRow /\ r.status = "failed"
      /\ r.at = outbox[e].at /\ r.done = outbox[e].done
      /\ outbox' = [outbox EXCEPT ![e] = r]
  BY <1>1 DEF RetryFallsDue, OutboxRow
<1> HIDE DEF r
<1>3. OutboxTypeOK'
  BY <1>1, <1>2 DEF OutboxTypeOK
<1>4. faults.publish # 0
  BY <1>1 DEF NothingRetried
<1> QED
  BY <1>1, <1>2, <1>3, <1>4, RowChanges

LEMMA MarkKeeps ==
  ASSUME OutboxInv, NEW p \in Publishers, Mark(p)
  PROVE  OutboxInv'
<1> USE DEF OutboxInv
<1> DEFINE e == row[p].event
           o == pub[p].outcome
           r == Marked(outbox[e], o)
<1>1. /\ pub[p].at = "mark" /\ row[p] \in ReadRow /\ e \in Committed /\ e \in Events
      /\ o \in {"ok", "fail", "dlq"} /\ (o = "ok" => copies[e] > 0)
  BY DEF Mark, HeldInv, OutboxTypeOK, Outcomes, Committed
<1>2. /\ UNCHANGED <<clock, batch, notes, conn, tick, copies, window>>
      /\ pub' = [pub EXCEPT ![p].at = "rows", ![p].outcome = "none"]
      /\ row' = [row EXCEPT ![p] = NoRow]
      /\ faults' \in [{"publish", "write", "stop"} -> Nat]
      /\ faults'.publish = faults.publish
  <2>1. faults' = faults \/ faults' = [faults EXCEPT !.write = @ + 1]
    BY DEF Mark
  <2>2. faults \in [{"publish", "write", "stop"} -> Nat]
    BY DEF OutboxTypeOK
  <2>3. /\ faults' \in [{"publish", "write", "stop"} -> Nat]
        /\ faults'.publish = faults.publish
    BY <2>1, <2>2
  <2> QED
    BY <2>3 DEF Mark, storeVars
<1>3. /\ pub' \in [Publishers -> [at : Places, phase : Phases, outcome : Outcomes]]
      /\ row' \in [Publishers -> ReadRow \cup {NoRow}]
      /\ \A q \in Publishers :
           /\ pub'[q].phase = pub[q].phase
           /\ pub'[q].at = "mark" => pub'[q] = pub[q] /\ row'[q] = row[q]
  <2> PICK k : k = [pub[p] EXCEPT !.at = "rows", !.outcome = "none"]
    OBVIOUS
  <2>1. pub[p] \in [at : Places, phase : Phases, outcome : Outcomes]
    BY DEF OutboxTypeOK
  <2>2. /\ k \in [at : Places, phase : Phases, outcome : Outcomes]
        /\ k.at = "rows" /\ k.phase = pub[p].phase
    BY <2>1 DEF Places, Outcomes
  <2>3. pub' = [pub EXCEPT ![p] = k]
    BY <1>2
  <2>4. /\ pub' \in [Publishers -> [at : Places, phase : Phases, outcome : Outcomes]]
        /\ pub'[p] = k /\ \A q \in Publishers \ {p} : pub'[q] = pub[q]
    BY <2>2, <2>3 DEF OutboxTypeOK
  <2>5. /\ row' \in [Publishers -> ReadRow \cup {NoRow}]
        /\ \A q \in Publishers \ {p} : row'[q] = row[q]
    BY <1>2 DEF OutboxTypeOK
  <2> QED
    BY <2>2, <2>4, <2>5
<1>4. CASE outbox' = [outbox EXCEPT ![e] = r]
  <2>1. outbox[e] \in OutboxRow
    BY <1>1 DEF OutboxTypeOK
  <2>2. /\ r \in OutboxRow /\ r.at = outbox[e].at /\ r.done = outbox[e].done
        /\ r.status = IF o = "ok" THEN "published"
                      ELSE IF o = "fail" THEN "failed" ELSE "dlq"
    <3>1. CASE o = "ok"
      BY <2>1, <3>1 DEF Marked, OutboxRow, Statuses
    <3>2. CASE o = "fail"
      <4>1. outbox[e].retries + 1 \in Nat
        BY <2>1 DEF OutboxRow
      <4>2. r = [outbox[e] EXCEPT !.status = "failed",
                                  !.retries = outbox[e].retries + 1, !.due = FALSE]
        BY <3>2 DEF Marked
      <4> QED
        BY <2>1, <3>2, <4>1, <4>2 DEF OutboxRow, Statuses
    <3>3. CASE o = "dlq"
      BY <2>1, <3>3 DEF Marked, OutboxRow, Statuses
    <3> QED
      BY <1>1, <3>1, <3>2, <3>3
  <2>3. faults.publish = 0 => o = "ok"
    BY <1>1 DEF NothingRetried
  <2>4. OutboxTypeOK'
    BY <1>2, <1>3, <1>4, <2>2 DEF OutboxTypeOK
  <2> HIDE DEF r
  <2> QED
    BY <1>1, <1>2, <1>3, <1>4, <2>2, <2>3, <2>4, RowChanges
<1>5. CASE UNCHANGED outbox
  <2>1. StoreTypeOK' /\ OutboxTypeOK'
    BY <1>2, <1>3, <1>5 DEF StoreTypeOK, OutboxTypeOK
  <2> QED
    BY <1>2, <1>3, <1>5, <2>1, QuietKeeps
<1> QED
  BY <1>4, <1>5 DEF Mark

-----------------------------------------------------------------------------
(* The publishers' loop.                                                   *)

LEMMA StoreEffect ==
  ASSUME StoreTypeOK, NEW e \in Events, Store(e)
  PROVE  /\ StoreTypeOK' /\ copies'[e] > 0
         /\ \A f \in Events \ {e} : copies'[f] = copies[f]
         /\ \A f \in Events : copies[f] > 0 => copies'[f] > 0
<1>1. /\ \A f \in Events : copies[f] \in 0..MaxCopies
      /\ MaxCopies \in Nat
      /\ copies' = [copies EXCEPT ![e] = IF e \in window THEN @ ELSE @ + 1]
      /\ window' = window \cup {e}
  BY JetStreamAssumption DEF JetStreamAssumption, StoreTypeOK, Store
<1>2. copies'[e] \in 1..MaxCopies
  BY <1>1 DEF StoreTypeOK
<1>3. \A f \in Events \ {e} : copies'[f] = copies[f]
  BY <1>1 DEF StoreTypeOK
<1>4. \A f \in window' : copies'[f] > 0
  BY <1>1, <1>2, <1>3 DEF StoreTypeOK
<1>5. \A f \in Events \ window' : copies'[f] < MaxCopies
  BY <1>1, <1>3 DEF StoreTypeOK
<1>6. copies' \in [Events -> 0..MaxCopies] /\ window' \subseteq Events
  BY <1>1, <1>2, <1>3 DEF StoreTypeOK
<1> QED
  BY <1>1, <1>2, <1>3, <1>4, <1>5, <1>6 DEF StoreTypeOK

\* What Send does, whichever way it goes.
LEMMA SendEffect ==
  ASSUME OutboxInv, NEW p \in Publishers, Send(p)
  PROVE  \E r \in batch[p], o \in {"ok", "fail", "dlq"} :
           /\ \A q \in batch[p] : r.at <= q.at
           /\ batch' = [batch EXCEPT ![p] = batch[p] \ {r}]
           /\ row' = [row EXCEPT ![p] = r]
           /\ pub' = [pub EXCEPT ![p].at = "mark", ![p].outcome = o]
           /\ \/ Store(r.event) /\ o # "dlq"
              \/ UNCHANGED storeVars /\ o # "ok"
           /\ o = "dlq" => pub[p].phase = "retry" /\ UNCHANGED faults
           /\ o = "ok" => UNCHANGED faults
           /\ o = "fail" => faults' = [faults EXCEPT !.publish = @ + 1]
<1>1. PICK r \in batch[p] :
       /\ \A q \in batch[p] : r.at <= q.at
       /\ batch' = [batch EXCEPT ![p] = @ \ {r}]
       /\ row' = [row EXCEPT ![p] = r]
       /\ IF pub[p].phase = "retry" /\ r.retries >= MaxRetries
          THEN /\ pub' = [pub EXCEPT ![p].at = "mark", ![p].outcome = "dlq"]
               /\ UNCHANGED <<faults, storeVars>>
          ELSE \/ /\ Store(r.event)
                  /\ pub' = [pub EXCEPT ![p].at = "mark", ![p].outcome = "ok"]
                  /\ UNCHANGED faults
               \/ /\ faults.publish < MaxPublishErrors
                  /\ faults' = [faults EXCEPT !.publish = @ + 1]
                  /\ Store(r.event) \/ UNCHANGED storeVars
                  /\ pub' = [pub EXCEPT ![p].at = "mark", ![p].outcome = "fail"]
  BY DEF Send
<1>2. batch' = [batch EXCEPT ![p] = batch[p] \ {r}]
  BY <1>1 DEF OutboxInv, OutboxTypeOK
<1>3. CASE /\ pub[p].phase = "retry"
           /\ pub' = [pub EXCEPT ![p].at = "mark", ![p].outcome = "dlq"]
           /\ UNCHANGED <<faults, storeVars>>
  <2> WITNESS r \in batch[p], "dlq" \in {"ok", "fail", "dlq"}
  <2> QED
    BY <1>1, <1>2, <1>3
<1>4. CASE /\ Store(r.event) /\ UNCHANGED faults
           /\ pub' = [pub EXCEPT ![p].at = "mark", ![p].outcome = "ok"]
  <2> WITNESS r \in batch[p], "ok" \in {"ok", "fail", "dlq"}
  <2> QED
    BY <1>1, <1>2, <1>4
<1>5. CASE /\ faults' = [faults EXCEPT !.publish = @ + 1]
           /\ Store(r.event) \/ UNCHANGED storeVars
           /\ pub' = [pub EXCEPT ![p].at = "mark", ![p].outcome = "fail"]
  <2> WITNESS r \in batch[p], "fail" \in {"ok", "fail", "dlq"}
  <2> QED
    BY <1>1, <1>2, <1>5
<1> QED
  BY <1>1, <1>3, <1>4, <1>5

LEMMA SendKeeps ==
  ASSUME OutboxInv, NEW p \in Publishers, Send(p)
  PROVE  OutboxInv'
<1> USE DEF OutboxInv
<1>1. PICK r \in batch[p], o \in {"ok", "fail", "dlq"} :
           /\ \A q \in batch[p] : r.at <= q.at
           /\ batch' = [batch EXCEPT ![p] = batch[p] \ {r}]
           /\ row' = [row EXCEPT ![p] = r]
           /\ pub' = [pub EXCEPT ![p].at = "mark", ![p].outcome = o]
           /\ \/ Store(r.event) /\ o # "dlq"
              \/ UNCHANGED storeVars /\ o # "ok"
           /\ o = "dlq" => pub[p].phase = "retry" /\ UNCHANGED faults
           /\ o = "ok" => UNCHANGED faults
           /\ o = "fail" => faults' = [faults EXCEPT !.publish = @ + 1]
  BY SendEffect
<1>2. /\ UNCHANGED <<outbox, clock, notes, conn, tick>>
      /\ Committed' = Committed
  BY DEF Send, Committed
<1>3. /\ r \in ReadRow /\ r.event \in Committed /\ r.event \in Events
      /\ r.at = outbox[r.event].at
  BY DEF HeldInv, OutboxTypeOK, Committed
<1>4. /\ StoreTypeOK'
      /\ \A f \in Events : copies[f] > 0 => copies'[f] > 0
      /\ \A f \in Events \ {r.event} : copies'[f] = copies[f]
      /\ o = "ok" => copies'[r.event] > 0
      /\ o = "dlq" => copies' = copies
  <2>1. CASE Store(r.event) /\ o # "dlq"
    BY <1>3, <2>1, StoreEffect
  <2>2. CASE UNCHANGED storeVars /\ o # "ok"
    BY <2>2 DEF storeVars, StoreTypeOK
  <2> QED
    BY <1>1, <2>1, <2>2
<1>5. /\ \A q \in Publishers \ {p} :
           batch'[q] = batch[q] /\ pub'[q] = pub[q] /\ row'[q] = row[q]
      /\ batch'[p] = batch[p] \ {r} /\ row'[p] = r
      /\ pub'[p].at = "mark" /\ pub'[p].outcome = o /\ pub'[p].phase = pub[p].phase
  BY <1>1 DEF OutboxTypeOK
<1>6. OutboxTypeOK'
  <2>1. faults' \in [{"publish", "write", "stop"} -> Nat]
    BY <1>1 DEF OutboxTypeOK
  <2>2. pub' \in [Publishers -> [at : Places, phase : Phases, outcome : Outcomes]]
    <3> DEFINE there == [at : Places, phase : Phases, outcome : Outcomes]
    <3>1. pub \in [Publishers -> there] /\ o \in Outcomes /\ "mark" \in Places
      BY DEF OutboxTypeOK, Places, Outcomes
    <3>2. [pub[p] EXCEPT !.at = "mark", !.outcome = o] \in there
      BY <3>1
    <3>3. pub' = [pub EXCEPT ![p] = [pub[p] EXCEPT !.at = "mark", !.outcome = o]]
      BY <1>1, <3>1
    <3> QED
      BY <3>1, <3>2, <3>3
  <2> QED
    BY <1>1, <1>2, <1>3, <2>1, <2>2 DEF OutboxTypeOK
<1>7. PublishedIsStored' /\ StoredIsCommitted' /\ ClockInv'
  BY <1>2, <1>3, <1>4 DEF PublishedIsStored, StoredIsCommitted, ClockInv
<1>8. HeldInv'
  <2> SUFFICES ASSUME NEW q \in Publishers
               PROVE  /\ \A s \in batch'[q] :
                           s.event \in Committed /\ s.at = outbox[s.event].at
                      /\ pub'[q].at = "mark" =>
                           /\ row'[q] \in ReadRow /\ row'[q].event \in Committed
                           /\ pub'[q].outcome = "ok" => copies'[row'[q].event] > 0
                           /\ pub'[q].outcome # "none"
    BY <1>2 DEF HeldInv
  <2>1. CASE q = p
    BY <1>3, <1>4, <1>5, <2>1 DEF HeldInv
  <2>2. CASE q # p
    BY <1>4, <1>5, <2>2 DEF HeldInv, Committed
  <2> QED
    BY <2>1, <2>2
<1>9. faults'.publish = 0 => faults.publish = 0 /\ o # "fail"
  BY <1>1 DEF OutboxTypeOK
<1>10. faults'.publish = 0 => o = "ok"
  BY <1>1, <1>9 DEF NothingRetried
<1>11. ASSUME faults'.publish = 0, NEW e \in Committed, outbox[e].done < r.at
       PROVE  copies'[e] > 0
  <2>1. e \in Events /\ outbox[e] \in OutboxRow
    BY DEF Committed, OutboxTypeOK
  <2>2. CASE copies[e] > 0
    BY <1>4, <2>1, <2>2
  <2>3. CASE \E q \in batch[p] : q.event = e
    <3>1. PICK q \in batch[p] : q.event = e
      BY <2>3
    <3>2. r.at <= q.at /\ q.at = outbox[e].at
      BY <1>1, <3>1 DEF HeldInv
    <3>3. r.at \in Nat /\ outbox[e].at \in Nat /\ outbox[e].done \in Nat
      BY <1>3, <2>1 DEF ReadRow, OutboxRow
    <3>4. outbox[e].at <= outbox[e].done
      BY <2>1 DEF ClockInv
    <3> QED
      BY <1>11, <3>2, <3>3, <3>4
  <2> QED
    BY <1>9, <1>11, <2>2, <2>3 DEF BatchInOrder
<1>12. faults'.publish = 0 => NothingRetried' /\ BatchInOrder'
  <2> SUFFICES ASSUME faults'.publish = 0
               PROVE  NothingRetried' /\ BatchInOrder'
    OBVIOUS
  <2>1. NothingRetried'
    BY <1>2, <1>5, <1>9, <1>10 DEF NothingRetried
  <2>2. BatchInOrder'
    <3> SUFFICES ASSUME NEW q \in Publishers, NEW s \in batch'[q],
                        NEW e \in Committed, outbox[e].done < s.at
                 PROVE  copies'[e] > 0 \/ \E t \in batch'[q] : t.event = e
      BY <1>2 DEF BatchInOrder
    <3>1. s \in batch[q] /\ e \in Events
      BY <1>5 DEF Committed
    <3>2. copies[e] > 0 \/ \E t \in batch[q] : t.event = e
      BY <1>9, <3>1 DEF BatchInOrder
    <3> QED
      BY <1>4, <1>5, <1>10, <3>1, <3>2
  <2> QED
    BY <2>1, <2>2
<1>13. PublishedInOrder'
  <2> SUFFICES ASSUME faults'.publish = 0, NEW e \in Committed, NEW f \in Committed,
                      outbox[e].done < outbox[f].at, copies'[f] > 0
               PROVE  copies'[e] > 0
    BY <1>2 DEF PublishedInOrder
  <2>1. CASE f = r.event
    BY <1>3, <1>11, <2>1
  <2>2. CASE f # r.event
    BY <1>4, <1>9, <2>2 DEF PublishedInOrder, Committed
  <2> QED
    BY <2>1, <2>2
<1> QED
  BY <1>4, <1>6, <1>7, <1>8, <1>12, <1>13

\* Going elsewhere with the rows in hand.
LEMMA GotoKeeps ==
  ASSUME OutboxInv, NEW p \in Publishers, NEW place \in Places \ {"mark"},
         Goto(p, place), UNCHANGED <<outbox, clock, batch, row, faults, storeVars>>,
         notes' \in [Publishers -> Nat], conn' \in [Publishers -> BOOLEAN],
         tick' \in [Publishers -> BOOLEAN]
  PROVE  OutboxInv'
<1> USE DEF OutboxInv
<1>1. /\ pub' \in [Publishers -> [at : Places, phase : Phases, outcome : Outcomes]]
      /\ \A q \in Publishers :
           /\ pub'[q].phase = pub[q].phase
           /\ pub'[q].at = "mark" => pub'[q] = pub[q]
  <2> PICK k : k = [pub[p] EXCEPT !.at = place]
    OBVIOUS
  <2>1. pub[p] \in [at : Places, phase : Phases, outcome : Outcomes]
    BY DEF OutboxTypeOK
  <2>2. /\ k \in [at : Places, phase : Phases, outcome : Outcomes]
        /\ k.at = place /\ k.phase = pub[p].phase
    BY <2>1
  <2>3. pub' = [pub EXCEPT ![p] = k]
    BY DEF Goto
  <2>4. /\ pub' \in [Publishers -> [at : Places, phase : Phases, outcome : Outcomes]]
        /\ pub'[p] = k /\ \A q \in Publishers \ {p} : pub'[q] = pub[q]
    BY <2>2, <2>3 DEF OutboxTypeOK
  <2> QED
    BY <2>2, <2>4
<1>2. OutboxTypeOK' /\ StoreTypeOK'
  BY <1>1 DEF OutboxTypeOK, StoreTypeOK, storeVars
<1> QED
  BY <1>1, <1>2, QuietKeeps DEF storeVars

LEMMA EndBatchKeeps ==
  ASSUME OutboxInv, NEW p \in Publishers, EndBatch(p)
  PROVE  OutboxInv'
<1>1. /\ UNCHANGED <<outbox, clock, row, storeVars>>
      /\ notes' \in [Publishers -> Nat] /\ conn' \in [Publishers -> BOOLEAN]
      /\ tick' \in [Publishers -> BOOLEAN]
      /\ StoreTypeOK'
  BY DEF EndBatch, OutboxInv, OutboxTypeOK, StoreTypeOK, storeVars
<1>2. CASE Read(p, "retry", RetryableRows)
  BY <1>1, <1>2, ReadKeeps DEF Phases, storeVars
<1>3. CASE (Goto(p, "listen") \/ Goto(p, "loop")) /\ UNCHANGED <<batch, faults>>
  BY <1>1, <1>3, GotoKeeps DEF Places
<1> QED
  BY <1>2, <1>3 DEF EndBatch

LEMMA PublisherStepKeeps ==
  ASSUME OutboxInv, NEW p \in Publishers, PublisherStep(p)
  PROVE  OutboxInv'
<1> DEFINE Others == /\ notes' \in [Publishers -> Nat]
                     /\ conn' \in [Publishers -> BOOLEAN]
                     /\ tick' \in [Publishers -> BOOLEAN]
<1> USE DEF OutboxInv, OutboxTypeOK
<1>1. CASE Start(p)
  <2>1. Others /\ UNCHANGED <<outbox, clock, copies, row>> /\ StoreTypeOK'
    BY <1>1 DEF Start, storeVars, StoreTypeOK
  <2> QED
    BY <1>1, <2>1, ReadKeeps DEF Start, Phases
<1>2. CASE Poll(p)
  <2>1. Others /\ UNCHANGED <<outbox, clock, copies, row>> /\ StoreTypeOK'
    BY <1>2 DEF Poll, storeVars, StoreTypeOK
  <2> QED
    BY <1>2, <2>1, ReadKeeps DEF Poll, Phases
<1>3. CASE Notified(p)
  <2>1. Others /\ UNCHANGED <<outbox, clock, copies, row>> /\ StoreTypeOK'
    BY <1>3 DEF Notified, storeVars, StoreTypeOK
  <2> QED
    BY <1>3, <2>1, ReadKeeps DEF Notified, Phases
<1>4. CASE Listen(p)
  BY <1>4, GotoKeeps DEF Listen, Places
<1>5. CASE EnterWait(p)
  BY <1>5, GotoKeeps DEF EnterWait, Places
<1>6. CASE WaitFails(p)
  BY <1>6, GotoKeeps DEF WaitFails, Places
<1>7. CASE Send(p)
  BY <1>7, SendKeeps
<1>8. CASE Mark(p)
  BY <1>8, MarkKeeps
<1>9. CASE EndBatch(p)
  BY <1>9, EndBatchKeeps
<1> QED
  BY <1>1, <1>2, <1>3, <1>4, <1>5, <1>6, <1>7, <1>8, <1>9 DEF PublisherStep

\* The faults, the ticker, and the notifications of other streams.
LEMMA SurroundingsKeep ==
  ASSUME OutboxInv,
         \/ OtherCommit
         \/ \E p \in Publishers : TickerFires(p) \/ Stop(p) \/ ConnectionLost(p)
         \/ UNCHANGED outVars
  PROVE  OutboxInv'
<1> USE DEF OutboxInv
<1>1. UNCHANGED <<outbox, clock, copies, window>>
  BY DEF OtherCommit, TickerFires, Stop, ConnectionLost, storeVars, outVars, outboxVars
<1>2. StoreTypeOK'
  BY <1>1 DEF StoreTypeOK
<1>3. CASE OtherCommit
  <2>1. OutboxTypeOK' /\ UNCHANGED <<pub, batch, row, faults>>
    BY <1>1, <1>3 DEF OtherCommit, Notify, OutboxTypeOK
  <2> QED
    BY <1>1, <1>2, <2>1, QuietKeeps
<1>4. ASSUME NEW p \in Publishers, TickerFires(p)
      PROVE  OutboxInv'
  <2>1. OutboxTypeOK' /\ UNCHANGED <<pub, batch, row, faults>>
    BY <1>1, <1>4 DEF TickerFires, OutboxTypeOK
  <2> QED
    BY <1>1, <1>2, <2>1, QuietKeeps
<1>5. ASSUME NEW p \in Publishers, Stop(p)
      PROVE  OutboxInv'
  <2>1. OutboxTypeOK' /\ faults'.publish = faults.publish
    <3>1. /\ faults' \in [{"publish", "write", "stop"} -> Nat]
          /\ faults'.publish = faults.publish
      <4>1. faults' = [faults EXCEPT !.stop = @ + 1]
        BY <1>5 DEF Stop
      <4> QED
        BY <4>1 DEF OutboxTypeOK
    <3>2. pub' \in [Publishers -> [at : Places, phase : Phases, outcome : Outcomes]]
      BY <1>5 DEF Stop, OutboxTypeOK, Places, Phases, Outcomes
    <3>3. /\ batch' \in [Publishers -> SUBSET ReadRow]
          /\ row' \in [Publishers -> ReadRow \cup {NoRow}]
      BY <1>5 DEF Stop, OutboxTypeOK
    <3>4. /\ notes' \in [Publishers -> Nat]
          /\ conn' \in [Publishers -> BOOLEAN] /\ tick' \in [Publishers -> BOOLEAN]
      BY <1>5 DEF Stop, OutboxTypeOK
    <3> QED
      BY <1>1, <3>1, <3>2, <3>3, <3>4 DEF OutboxTypeOK
  <2>2. \A q \in Publishers :
          /\ batch'[q] = batch[q] \/ batch'[q] = {}
          /\ pub'[q].at = "mark" => pub'[q] = pub[q] /\ row'[q] = row[q]
          /\ pub'[q].phase = "retry" => pub[q].phase = "retry"
    BY <1>5 DEF Stop, OutboxTypeOK
  <2> QED
    BY <1>1, <1>2, <2>1, <2>2, QuietKeeps
<1>6. ASSUME NEW p \in Publishers, ConnectionLost(p)
      PROVE  OutboxInv'
  <2>1. /\ OutboxTypeOK' /\ faults'.publish = faults.publish
        /\ UNCHANGED <<pub, batch, row>>
    BY <1>1, <1>6 DEF ConnectionLost, OutboxTypeOK
  <2> QED
    BY <1>1, <1>2, <2>1, QuietKeeps
<1>7. CASE UNCHANGED outVars
  <2>1. OutboxTypeOK' /\ UNCHANGED <<pub, batch, row, faults>>
    BY <1>7 DEF outVars, outboxVars, OutboxTypeOK
  <2> QED
    BY <1>1, <1>2, <2>1, QuietKeeps
<1> QED
  BY <1>3, <1>4, <1>5, <1>6, <1>7

LEMMA WindowElapsesKeeps ==
  ASSUME OutboxInv, NEW e \in Events, WindowElapses(e), UNCHANGED outboxVars
  PROVE  OutboxInv'
<1> USE DEF OutboxInv
<1>1. /\ StoreTypeOK' /\ OutboxTypeOK'
      /\ UNCHANGED <<outbox, clock, pub, batch, row, faults, copies>>
  BY DEF WindowElapses, StoreTypeOK, outboxVars, OutboxTypeOK
<1> QED
  BY <1>1, QuietKeeps

-----------------------------------------------------------------------------
(* The inductive invariant of the outbox.                                  *)

LEMMA OutboxInitInv == JetStreamInit /\ OutboxInit => OutboxInv
<1> SUFFICES ASSUME JetStreamInit, OutboxInit
             PROVE  OutboxInv
  OBVIOUS
<1>1. StoreTypeOK
  BY JetStreamAssumption DEF JetStreamAssumption, JetStreamInit, StoreTypeOK
<1>2. OutboxTypeOK
  BY DEF OutboxInit, OutboxTypeOK, OutboxRow, Absent, Statuses, Places, Phases, Outcomes
<1>3. Committed = {} /\ \A e \in Events : outbox[e].at = 0 /\ copies[e] = 0
  BY DEF Committed, OutboxInit, Absent, JetStreamInit
<1>4. /\ \A p \in Publishers : batch[p] = {} /\ pub[p].at = "down"
      /\ clock = 0
  BY DEF OutboxInit
<1>5. PublishedIsStored /\ StoredIsCommitted /\ ClockInv /\ HeldInv
  BY <1>3, <1>4, <1>2
  DEF PublishedIsStored, StoredIsCommitted, ClockInv, HeldInv, OutboxInit, Absent
<1>6. NothingRetried /\ BatchInOrder /\ PublishedInOrder
  BY <1>3, <1>4 DEF NothingRetried, BatchInOrder, PublishedInOrder
<1> QED
  BY <1>1, <1>2, <1>5, <1>6 DEF OutboxInv

LEMMA OutboxStepInv == OutboxInv /\ [OutboxNext]_outVars => OutboxInv'
<1> SUFFICES ASSUME OutboxInv, [OutboxNext]_outVars
             PROVE  OutboxInv'
  OBVIOUS
<1>1. ASSUME NEW e \in Events, Emit(e) \/ CommitEmit(e) \/ AbortEmit(e) \/ RetryFallsDue(e)
      PROVE  OutboxInv'
  BY <1>1, EmitKeeps, CommitEmitKeeps, AbortEmitKeeps, RetryFallsDueKeeps
<1>2. ASSUME NEW p \in Publishers, PublisherStep(p)
      PROVE  OutboxInv'
  BY <1>2, PublisherStepKeeps
<1>3. CASE \/ OtherCommit
           \/ \E p \in Publishers : TickerFires(p) \/ Stop(p) \/ ConnectionLost(p)
           \/ UNCHANGED outVars
  BY <1>3, SurroundingsKeep
<1>4. ASSUME NEW e \in Events, WindowElapses(e), UNCHANGED outboxVars
      PROVE  OutboxInv'
  BY <1>4, WindowElapsesKeeps
<1> QED
  BY <1>1, <1>2, <1>3, <1>4 DEF OutboxNext

\* The inductive invariant of the outbox and its publishers holds in every
\* reachable state, whoever reads the stream.
THEOREM OutboxInvariant == OutboxSpec => []OutboxInv
<1>1. JetStreamInit /\ OutboxInit => OutboxInv
  BY OutboxInitInv
<1>2. OutboxInv /\ [OutboxNext /\ UNCHANGED queueVars]_<<outboxVars, storeVars, queueVars>>
        => OutboxInv'
  BY OutboxStepInv DEF outVars
<1> QED
  BY <1>1, <1>2, PTL DEF OutboxSpec

-----------------------------------------------------------------------------
(* A single publisher.                                                     *)

\* The rows a publisher holds are still to be published, each event once.
StillToSend ==
  \A p \in Publishers :
    /\ \A r \in batch[p] :
         /\ outbox[r.event].status \in {"pending", "failed"}
         /\ \A q \in batch[p] : q.event = r.event => q = r
    /\ pub[p].at = "mark" =>
         /\ outbox[row[p].event].status \in {"pending", "failed"}
         /\ \A r \in batch[p] : r.event # row[p].event

\* What the SELECTs return is still to be published, each event once.
LEMMA ReadsStillToSend ==
  ASSUME outbox \in [Events -> OutboxRow],
         NEW rows, rows = PendingRows \/ rows = RetryableRows
  PROVE  \A r \in rows : /\ outbox[r.event].status \in {"pending", "failed"}
                         /\ \A q \in rows : q.event = r.event => q = r
<1>1. ASSUME NEW es \in SUBSET Events,
             \A e \in es : outbox[e].status \in {"pending", "failed"},
             rows = AsRead(Oldest(es, BatchSize))
      PROVE  \A r \in rows : /\ outbox[r.event].status \in {"pending", "failed"}
                             /\ \A q \in rows : q.event = r.event => q = r
  <2> DEFINE Old == Oldest(es, BatchSize)
             rowOf(e) == [event |-> e, retries |-> outbox[e].retries, at |-> outbox[e].at]
  <2>1. Old \in SUBSET es
    BY DEF Oldest
  <2>2. \A e \in Old : rowOf(e).event = e
    OBVIOUS
  <2>3. rows = {rowOf(e) : e \in Old}
    BY <1>1 DEF AsRead
  <2> HIDE DEF Old, rowOf
  <2>4. \A r \in rows : r.event \in Old /\ r = rowOf(r.event)
    BY <2>2, <2>3
  <2> QED
    BY <1>1, <2>1, <2>4
<1>2. CASE rows = PendingRows
  BY <1>1, <1>2 DEF PendingRows
<1>3. CASE rows = RetryableRows
  BY <1>1, <1>3 DEF RetryableRows, Retryable
<1> QED
  BY <1>2, <1>3

LEMMA SingleStep ==
  ASSUME OutboxInv, StillToSend, NEW p, Publishers = {p}, [OutboxNext]_outVars
  PROVE  /\ StillToSend'
         /\ \A e \in Events :
              outbox[e].status = "published" => outbox'[e].status = "published"
<1> USE DEF OutboxInv
<1>1. /\ outbox \in [Events -> OutboxRow] /\ p \in Publishers
      /\ \A r \in batch[p] : r.event \in Events
      /\ pub[p].at = "mark" => row[p].event \in Events
  BY DEF OutboxTypeOK, HeldInv, Committed
<1>2. ASSUME UNCHANGED outbox, batch'[p] \subseteq batch[p],
             pub'[p].at = "mark" => pub[p].at = "mark" /\ row'[p] = row[p]
      PROVE  StillToSend'
  BY <1>1, <1>2 DEF StillToSend
<1>3. ASSUME NEW e \in Events, Emit(e) \/ CommitEmit(e) \/ AbortEmit(e) \/ RetryFallsDue(e)
      PROVE  /\ StillToSend'
             /\ \A f \in Events :
                  outbox[f].status = "published" => outbox'[f].status = "published"
  <2>1. /\ \A f \in Events \ {e} : outbox'[f] = outbox[f]
        /\ outbox[e].status \in {"absent", "open", "failed"}
        /\ outbox[e].status = "failed" => outbox'[e].status = "failed"
        /\ UNCHANGED <<pub, batch, row>>
    BY <1>1, <1>3 DEF Emit, CommitEmit, AbortEmit, RetryFallsDue, OutboxRow
  <2> QED
    BY <1>1, <2>1 DEF StillToSend
<1>4. ASSUME Read(p, "retry", RetryableRows) \/ \E phase \in Phases : Read(p, phase, PendingRows),
             UNCHANGED outbox
      PROVE  StillToSend'
  <2>1. PICK rows : /\ rows = PendingRows \/ rows = RetryableRows
                    /\ \E phase \in Phases : Read(p, phase, rows)
    BY <1>4 DEF Phases
  <2>2. pub'[p].at = "rows" /\ (batch'[p] = rows \/ batch'[p] = {})
    BY <1>1, <2>1 DEF Read, OutboxTypeOK
  <2> HIDE DEF OutboxInv
  <2> QED
    BY <1>1, <1>4, <2>1, <2>2, ReadsStillToSend DEF StillToSend
<1>5. CASE Send(p)
  <2>1. PICK r \in batch[p] :
          /\ batch' = [batch EXCEPT ![p] = batch[p] \ {r}]
          /\ row' = [row EXCEPT ![p] = r]
    BY <1>5, SendEffect
  <2>2. batch'[p] = batch[p] \ {r} /\ row'[p] = r /\ UNCHANGED outbox
    BY <1>1, <1>5, <2>1 DEF Send, OutboxTypeOK
  <2> QED
    BY <1>1, <2>2 DEF StillToSend
<1>6. CASE Mark(p)
  <2>1. /\ pub[p].at = "mark" /\ pub'[p].at = "rows" /\ UNCHANGED batch
        /\ outbox[row[p].event].status \in {"pending", "failed"}
        /\ \A f \in Events \ {row[p].event} : outbox'[f] = outbox[f]
    BY <1>1, <1>6 DEF Mark, StillToSend, OutboxTypeOK
  <2> QED
    BY <1>1, <2>1 DEF StillToSend
<1>7. CASE EndBatch(p)
  <2>1. /\ UNCHANGED outbox
        /\ \/ Read(p, "retry", RetryableRows)
           \/ (Goto(p, "listen") \/ Goto(p, "loop")) /\ UNCHANGED batch
    BY <1>7 DEF EndBatch
  <2>2. Goto(p, "listen") \/ Goto(p, "loop") => pub'[p].at # "mark"
    BY <1>1 DEF Goto, OutboxTypeOK
  <2> QED
    BY <1>2, <1>4, <2>1, <2>2
<1>8. CASE Start(p) \/ Poll(p) \/ Notified(p)
  BY <1>4, <1>8 DEF Start, Poll, Notified, Phases
<1>9. CASE Listen(p) \/ EnterWait(p) \/ WaitFails(p)
  <2>1. UNCHANGED <<outbox, batch>> /\ pub'[p].at # "mark"
    BY <1>1, <1>9 DEF Listen, EnterWait, WaitFails, Goto, OutboxTypeOK
  <2> QED
    BY <1>2, <2>1
<1>10. CASE TickerFires(p) \/ Stop(p) \/ ConnectionLost(p)
  <2>1. /\ UNCHANGED outbox /\ batch'[p] \subseteq batch[p]
        /\ pub'[p].at = "mark" => pub[p].at = "mark" /\ row'[p] = row[p]
    BY <1>1, <1>10 DEF TickerFires, Stop, ConnectionLost, OutboxTypeOK
  <2> QED
    BY <1>2, <2>1
<1>11. CASE OtherCommit \/ (\E e \in Events : WindowElapses(e) /\ UNCHANGED outboxVars)
            \/ UNCHANGED outVars
  <2>1. UNCHANGED <<outbox, pub, batch, row>>
    BY <1>11 DEF OtherCommit, outVars, outboxVars
  <2> QED
    BY <1>2, <2>1
<1>12. \A q \in Publishers : q = p
  OBVIOUS
<1> QED
  BY <1>3, <1>5, <1>6, <1>7, <1>8, <1>9, <1>10, <1>11, <1>12 DEF OutboxNext, PublisherStep

\* A single publisher never takes a published row back, whatever fails or
\* restarts: no later poll or retry sends the event again.
THEOREM SinglePublisherIsFinal ==
  ASSUME NEW p, Publishers = {p}
  PROVE  OutboxSpec => PublishedIsFinal
<1>1. JetStreamInit /\ OutboxInit => StillToSend
  BY DEF OutboxInit, StillToSend
<1>2. OutboxInv /\ StillToSend
        /\ [OutboxNext /\ UNCHANGED queueVars]_<<outboxVars, storeVars, queueVars>>
      => /\ StillToSend'
         /\ [\A e \in Events :
               outbox[e].status = "published" => outbox'[e].status = "published"]_outbox
  BY SingleStep DEF outVars
<1> QED
  BY <1>1, <1>2, OutboxInvariant, PTL DEF OutboxSpec, PublishedIsFinal

-----------------------------------------------------------------------------
(* The pipeline.                                                           *)

\* What an instance holds was stored, and is hence committed.
BufferStored ==
  \A c \in Consumers : \A i \in 1..Len(buffer[c]) : copies[buffer[c][i][1]] > 0

PipelineInv == OutboxInv /\ InboxInv /\ BufferStored

\* To the consumers a publisher's step is the arrival of a copy, or nothing.
LEMMA PublishersArrive ==
  ASSUME OutboxInv, OutboxNext, UNCHANGED <<queueVars, inboxVars>>
  PROVE  [InboxStep]_inVars /\ \A e \in Events : copies[e] > 0 => copies'[e] > 0
<1> USE DEF OutboxInv
<1>1. ASSUME NEW e \in Events, Store(e)
      PROVE  Arrive /\ \A f \in Events : copies[f] > 0 => copies'[f] > 0
  BY <1>1, StoreEffect DEF Arrive
<1>2. ASSUME NEW e \in Events, WindowElapses(e)
      PROVE  Arrive /\ copies' = copies
  BY <1>2 DEF Arrive, WindowElapses
<1>3. CASE UNCHANGED storeVars
  BY <1>3 DEF inVars, storeVars
<1>4. ASSUME NEW p \in Publishers, Send(p)
      PROVE  UNCHANGED storeVars \/ \E e \in Events : Store(e)
  BY <1>4, SendEffect DEF HeldInv, Committed
<1>5. ASSUME NEW p \in Publishers, PublisherStep(p), ~Send(p)
      PROVE  UNCHANGED storeVars
  BY <1>5 DEF PublisherStep, Start, Listen, Poll, EnterWait, Notified, WaitFails, Mark,
              EndBatch
<1>6. CASE OtherCommit \/ \E e \in Events : \/ Emit(e) \/ CommitEmit(e)
                                          \/ AbortEmit(e) \/ RetryFallsDue(e)
  BY <1>3, <1>6 DEF OtherCommit, Emit, CommitEmit, AbortEmit, RetryFallsDue
<1>7. CASE \E p \in Publishers : TickerFires(p) \/ Stop(p) \/ ConnectionLost(p)
  BY <1>3, <1>7 DEF TickerFires, Stop, ConnectionLost
<1> QED
  BY <1>1, <1>2, <1>3, <1>4, <1>5, <1>6, <1>7 DEF OutboxNext, InboxStep

\* A buffer gains stored copies only.
LEMMA BufferKeeps ==
  ASSUME InboxInv, BufferStored, InboxNext, UNCHANGED storeVars
  PROVE  BufferStored'
<1> USE DEF InboxInv
<1>1. buffer \in [Consumers -> Seq(Copy)] /\ UNCHANGED copies
  BY DEF InboxTypeOK, storeVars
<1>2. ASSUME NEW c \in Consumers, Receive(c)
      PROVE  BufferStored'
  <2>1. PICK m \in Copy : /\ Stored(m)
                          /\ buffer' = [buffer EXCEPT ![c] = Append(buffer[c], m)]
    BY <1>1, <1>2 DEF Receive, Deliver, Deliverable, InStream
  <2>2. copies[m[1]] > 0
    BY <2>1, JetStreamAssumption DEF Copy, Stored, JetStreamTypeOK, JetStreamAssumption
  <2>3. ASSUME NEW d \in Consumers, NEW i \in 1..Len(buffer'[d])
        PROVE  copies[buffer'[d][i][1]] > 0
    <3>1. CASE d = c
      <4>1. buffer'[d] = Append(buffer[c], m) /\ buffer[c] \in Seq(Copy)
        BY <1>1, <2>1, <3>1
      <4>2. CASE i \in 1..Len(buffer[c])
        <5>1. buffer'[d][i] = buffer[c][i]
          BY <4>1, <4>2
        <5> QED
          BY <4>2, <5>1 DEF BufferStored
      <4>3. CASE i = Len(buffer[c]) + 1
        <5>1. buffer'[d][i] = m
          BY <4>1, <4>3
        <5> QED
          BY <2>2, <5>1
      <4>4. i \in 1..(Len(buffer[c]) + 1)
        BY <2>3, <4>1
      <4> QED
        BY <4>1, <4>2, <4>3, <4>4
    <3>2. CASE d # c
      BY <1>1, <2>1, <2>3, <3>2 DEF BufferStored
    <3> QED
      BY <3>1, <3>2
  <2> QED
    BY <1>1, <2>3 DEF BufferStored
<1>3. ASSUME NEW c \in Consumers, Return(c), Busy(c)
      PROVE  BufferStored'
  <2>1. ASSUME NEW d \in Consumers, NEW i \in 1..Len(buffer'[d])
        PROVE  copies[buffer'[d][i][1]] > 0
    <3>1. CASE d = c
      <4>1. /\ buffer'[d] = Tail(buffer[c])
            /\ buffer[c] \in Seq(Copy) /\ buffer[c] # <<>>
        BY <1>1, <1>3, <3>1 DEF Return, Busy
      <4>2. i + 1 \in 1..Len(buffer[c]) /\ buffer'[d][i] = buffer[c][i + 1]
        BY <2>1, <4>1
      <4> QED
        BY <4>2 DEF BufferStored
    <3>2. CASE d # c
      BY <1>1, <1>3, <2>1, <3>2 DEF Return, BufferStored
    <3> QED
      BY <3>1, <3>2
  <2> QED
    BY <1>1, <2>1 DEF BufferStored
<1>4. CASE UNCHANGED buffer
  BY <1>1, <1>4 DEF BufferStored
<1>5. ASSUME NEW c \in Consumers, CallbackStep(c)
      PROVE  BufferStored'
  <2>1. Busy(c) /\ (Return(c) \/ UNCHANGED buffer)
    BY <1>5 DEF CallbackStep, Check, Handle, MarkConsumed, Acknowledge, Advance
  <2> QED
    BY <1>3, <1>4, <2>1
<1>6. ASSUME NEW c \in Consumers, ConsumerStops(c)
      PROVE  BufferStored'
  <2>1. buffer' = [buffer EXCEPT ![c] = <<>>]
    BY <1>6 DEF ConsumerStops
  <2>2. \A d \in Consumers : buffer'[d] = buffer[d] \/ buffer'[d] = <<>>
    BY <1>1, <2>1
  <2>3. \A d \in Consumers : buffer'[d] = <<>> => 1..Len(buffer'[d]) = {}
    OBVIOUS
  <2> QED
    BY <1>1, <2>2, <2>3 DEF BufferStored
<1>7. ASSUME NEW m \in Copy, AckWait(m)
      PROVE  BufferStored'
  BY <1>4, <1>7 DEF AckWait
<1> QED
  BY <1>2, <1>5, <1>6, <1>7 DEF InboxNext

LEMMA PipelineStepInv == PipelineInv /\ [Next]_vars => PipelineInv'
<1> SUFFICES ASSUME PipelineInv, [Next]_vars
             PROVE  PipelineInv'
  OBVIOUS
<1> USE DEF PipelineInv
<1>1. CASE OutboxNext /\ UNCHANGED <<queueVars, inboxVars>>
  <2>1. OutboxInv' /\ InboxInv'
    BY <1>1, OutboxStepInv, PublishersArrive, InboxStepInv
  <2>2. /\ UNCHANGED buffer /\ buffer \in [Consumers -> Seq(Copy)]
        /\ \A e \in Events : copies[e] > 0 => copies'[e] > 0
    BY <1>1, PublishersArrive DEF inboxVars, InboxInv, InboxTypeOK
  <2>3. \A c \in Consumers : \A i \in 1..Len(buffer[c]) : buffer[c][i][1] \in Events
    BY <2>2 DEF Copy
  <2>4. BufferStored'
    BY <2>2, <2>3 DEF BufferStored
  <2> QED
    BY <2>1, <2>4
<1>2. CASE InboxNext /\ UNCHANGED <<outboxVars, storeVars>>
  <2>1. OutboxInv'
    BY <1>2, OutboxStepInv DEF outVars
  <2>2. InboxInv'
    BY <1>2, InboxStepInv DEF InboxStep
  <2> QED
    BY <1>2, <2>1, <2>2, BufferKeeps
<1>3. CASE UNCHANGED vars
  <2>1. OutboxInv' /\ InboxInv'
    BY <1>3, OutboxStepInv, InboxStepInv DEF vars, outVars, inVars
  <2>2. BufferStored'
    BY <1>3 DEF vars, storeVars, inboxVars, BufferStored
  <2> QED
    BY <2>1, <2>2
<1> QED
  BY <1>1, <1>2, <1>3 DEF Next

\* The inductive invariant of the whole pipeline.
THEOREM PipelineInvariant == Spec => []PipelineInv
<1>1. Init => PipelineInv
  <2> SUFFICES ASSUME Init
               PROVE  PipelineInv
    OBVIOUS
  <2>1. \A c \in Consumers : 1..Len(buffer[c]) = {}
    BY DEF Init, InboxInit
  <2> QED
    BY <2>1, OutboxInitInv, InboxInitInv DEF Init, PipelineInv, BufferStored
<1> QED
  BY <1>1, PipelineStepInv, PTL DEF Spec

\* While no publish fails, events reach the broker in the order of their
\* transactions, a row says published only of an event in the stream, and
\* the stream holds committed events only: with any number of publishers,
\* batch sizes, crashes and failed statements, in the whole pipeline.
THEOREM OrderKept == Spec => [](PublishedInOrder /\ PublishedIsStored /\ StoredIsCommitted)
<1>1. PipelineInv => PublishedInOrder /\ PublishedIsStored /\ StoredIsCommitted
  BY DEF PipelineInv, OutboxInv
<1> QED
  BY <1>1, PipelineInvariant, PTL

\* The broker's and the consumers' bookkeeping holds in the whole pipeline.
THEOREM PipelineKeepsCounts == Spec => [](AckedIsApplied /\ InboxIsApplied /\ DuplicatesBounded)
<1>1. PipelineInv => AckedIsApplied /\ InboxIsApplied /\ DuplicatesBounded
  BY BoundOfCounts DEF PipelineInv, InboxInv
<1> QED
  BY <1>1, PipelineInvariant, PTL

-----------------------------------------------------------------------------
(* The refinement of AtLeastOnce, step by step.                            *)

Settled == {m[1] : m \in acked}

promiseVars == <<Committed, applied, unmarked, Settled>>

\* A commit of the emitting transaction records the event; every other step
\* of the outbox is invisible to the promise.
LEMMA OutboxMaps ==
  ASSUME PipelineInv, OutboxNext, UNCHANGED <<queueVars, inboxVars>>
  PROVE  Promise!Next \/ UNCHANGED promiseVars
<1> USE DEF PipelineInv, OutboxInv
<1>1. UNCHANGED <<applied, unmarked, Settled>> /\ outbox \in [Events -> OutboxRow]
  BY DEF queueVars, inboxVars, Settled, OutboxTypeOK
<1>2. ASSUME NEW e \in Events, CommitEmit(e)
      PROVE  Promise!Record(e)
  <2>1. /\ outbox[e].status = "open" /\ outbox'[e].status = "pending"
        /\ \A f \in Events \ {e} : outbox'[f] = outbox[f]
    BY <1>1, <1>2 DEF CommitEmit, OutboxRow
  <2>2. e \notin Committed /\ Committed' = Committed \cup {e}
    BY <2>1 DEF Committed
  <2> QED
    BY <1>1, <2>2 DEF Promise!Record, Settled
<1>3. ASSUME NEW e \in Events, Emit(e) \/ AbortEmit(e) \/ RetryFallsDue(e)
      PROVE  Committed' = Committed
  <2>1. \A f \in Events \ {e} : outbox'[f] = outbox[f]
    BY <1>1, <1>3 DEF Emit, AbortEmit, RetryFallsDue
  <2>2. e \in Committed' <=> e \in Committed
    BY <1>1, <1>3 DEF Emit, AbortEmit, RetryFallsDue, Committed, Absent, OutboxRow
  <2> QED
    BY <2>1, <2>2 DEF Committed
<1>4. ASSUME NEW p \in Publishers, Mark(p)
      PROVE  Committed' = Committed
  <2>1. /\ row[p].event \in Committed /\ row[p].event \in Events
        /\ pub[p].outcome \in {"ok", "fail", "dlq"}
    BY <1>4 DEF Mark, HeldInv, OutboxTypeOK, Outcomes, Committed
  <2>2. CASE outbox' = [outbox EXCEPT ![row[p].event] = Marked(@, pub[p].outcome)]
    <3>1. Marked(outbox[row[p].event], pub[p].outcome).status \notin {"absent", "open"}
      <4>1. outbox[row[p].event] \in OutboxRow
        BY <1>1, <2>1
      <4> QED
        BY <2>1, <4>1 DEF Marked, OutboxRow
    <3> QED
      BY <1>1, <2>1, <2>2, <3>1 DEF Committed
  <2>3. CASE UNCHANGED outbox
    BY <2>3 DEF Committed
  <2> QED
    BY <1>4, <2>2, <2>3 DEF Mark
<1>5. ASSUME NEW p \in Publishers, PublisherStep(p), ~Mark(p)
      PROVE  Committed' = Committed
  BY <1>5 DEF PublisherStep, Start, Listen, Poll, EnterWait, Notified, WaitFails, Send,
              EndBatch, Committed
<1>6. CASE \/ OtherCommit
           \/ \E p \in Publishers : TickerFires(p) \/ Stop(p) \/ ConnectionLost(p)
           \/ \E e \in Events : WindowElapses(e) /\ UNCHANGED outboxVars
  <2>1. UNCHANGED outbox
    BY <1>6 DEF OtherCommit, TickerFires, Stop, ConnectionLost, outboxVars
  <2> QED
    BY <1>1, <2>1 DEF Committed, promiseVars
<1> QED
  BY <1>1, <1>2, <1>3, <1>4, <1>5, <1>6
  DEF OutboxNext, Promise!Next, promiseVars

\* What CountInv says of an instance about to commit, and about to mark.
LEMMA RoomToApply ==
  ASSUME InboxInv, NEW c \in Consumers, Busy(c), NEW e \in Events, Current(c)[1] = e
  PROVE  /\ step[c] = "handle" => applied[e] < Cardinality(Consumers) + unmarked[e]
         /\ step[c] = "mark" => unmarked[e] < applied[e]
<1> USE DEF InboxInv
<1>1. /\ applied[e] \in Nat /\ unmarked[e] \in Nat
      /\ Cardinality(Consumers) \in Nat
      /\ Cardinality(At("handle", e)) \in Nat
      /\ Cardinality(At("mark", e)) \in Nat
  BY CountType DEF InboxTypeOK
<1>2. ASSUME NEW s, step[c] = s
      PROVE  Cardinality(At(s, e)) # 0
  <2>1. c \in At(s, e) /\ IsFiniteSet(At(s, e))
    BY <1>2, AtFinite DEF At
  <2> QED
    BY <2>1, FS_EmptySet
<1>3. CASE step[c] = "handle"
  <2>1. Cardinality(At("handle", e)) > 0
    BY <1>1, <1>2, <1>3
  <2>2. Cardinality(At("handle", e)) + Cardinality(At("mark", e)) <= Cardinality(Consumers)
    BY AtDisjoint
  <2> QED
    BY <1>1, <1>3, <2>1, <2>2 DEF CountInv
<1>4. CASE step[c] = "mark"
  <2>1. Cardinality(At("mark", e)) > 0
    BY <1>1, <1>2, <1>4
  <2> QED
    BY <1>1, <1>4, <2>1 DEF CountInv
<1> QED
  BY <1>3, <1>4

\* A handler's commit applies, a lost inbox row forgets, an ack settles; every
\* other step of the consumers is invisible to the promise.
LEMMA InboxMaps ==
  ASSUME PipelineInv, InboxNext, UNCHANGED <<outboxVars, storeVars>>
  PROVE  Promise!Next \/ UNCHANGED promiseVars
<1> USE DEF PipelineInv
<1>1. Committed' = Committed
  BY DEF outboxVars, Committed
<1>2. ASSUME NEW c \in Consumers, Busy(c)
      PROVE  Current(c) \in Copy /\ Current(c)[1] \in Committed /\ Current(c)[1] \in Events
  <2>1. Current(c) \in Copy /\ Current(c)[1] \in Events
    BY <1>2, CurrentType DEF InboxInv
  <2>2. buffer[c] \in Seq(Copy) /\ buffer[c] # <<>>
    BY <1>2 DEF InboxInv, InboxTypeOK, Busy
  <2>3. 1 \in 1..Len(buffer[c]) /\ Current(c) = buffer[c][1]
    BY <2>2 DEF Current
  <2>4. copies[Current(c)[1]] > 0
    BY <2>3 DEF BufferStored
  <2> QED
    BY <2>1, <2>4 DEF OutboxInv, StoredIsCommitted
<1>3. ASSUME NEW c \in Consumers, Handle(c)
      PROVE  Promise!Next \/ UNCHANGED promiseVars
  <2>1. CASE /\ applied' = [applied EXCEPT ![Current(c)[1]] = @ + 1]
             /\ UNCHANGED <<unmarked, queueVars>>
    <3> DEFINE e == Current(c)[1]
    <3>1. e \in Committed /\ e \in Events
      BY <1>2, <1>3 DEF Handle
    <3>2. applied[e] < Cardinality(Consumers) + unmarked[e]
      BY <1>3, <3>1, RoomToApply DEF Handle
    <3>3. Promise!Apply(e)
      BY <1>1, <2>1, <3>1, <3>2 DEF Promise!Apply, queueVars
    <3> QED
      BY <3>1, <3>3 DEF Promise!Next
  <2>2. CASE UNCHANGED <<applied, unmarked, acked>>
    BY <1>1, <2>2 DEF promiseVars, Settled
  <2> QED
    BY <1>3, <2>1, <2>2 DEF Handle, Release
<1>4. ASSUME NEW c \in Consumers, Busy(c), step[c] = "mark",
             unmarked' = [unmarked EXCEPT ![Current(c)[1]] = @ + 1],
             UNCHANGED <<applied, queueVars>>
      PROVE  Promise!Next
  <2> DEFINE e == Current(c)[1]
  <2>1. e \in Events /\ unmarked[e] < applied[e]
    BY <1>2, <1>4, RoomToApply
  <2>2. Promise!Forget(e)
    BY <1>1, <1>4, <2>1 DEF Promise!Forget, queueVars
  <2> QED
    BY <2>1, <2>2 DEF Promise!Next
<1>5. ASSUME NEW c \in Consumers, Acknowledge(c)
      PROVE  Promise!Next \/ UNCHANGED promiseVars
  <2>1. UNCHANGED <<applied, unmarked>> /\ Busy(c) /\ step[c] = "ack"
    BY <1>5 DEF Acknowledge
  <2>2. CASE Ack(Current(c))
    <3> DEFINE e == Current(c)[1]
    <3>1. e \in Events /\ applied[e] > 0
      BY <1>2, <2>1 DEF InboxInv, CallbackInv
    <3>2. Settled' = Settled \cup {e}
      BY <2>2 DEF Ack, Settled
    <3>3. Promise!Settle(e)
      BY <1>1, <2>1, <3>1, <3>2 DEF Promise!Settle, Settled
    <3> QED
      BY <3>1, <3>3 DEF Promise!Next, Promise!Settle
  <2>3. CASE UNCHANGED queueVars
    BY <1>1, <2>1, <2>3 DEF promiseVars, Settled, queueVars
  <2> QED
    BY <1>5, <2>2, <2>3 DEF Acknowledge
<1>6. CASE UNCHANGED <<applied, unmarked, acked>>
  BY <1>1, <1>6 DEF promiseVars, Settled
<1>7. ASSUME NEW c \in Consumers, MarkConsumed(c) \/ ConsumerStops(c)
      PROVE  Promise!Next \/ UNCHANGED promiseVars
  <2>1. Busy(c) /\ UNCHANGED <<applied, queueVars>>
    BY <1>7 DEF MarkConsumed, ConsumerStops
  <2>2. \/ UNCHANGED unmarked
        \/ step[c] = "mark" /\ unmarked' = [unmarked EXCEPT ![Current(c)[1]] = @ + 1]
    BY <1>7 DEF MarkConsumed, ConsumerStops
  <2> QED
    BY <1>4, <1>6, <2>1, <2>2 DEF queueVars
<1>8. ASSUME NEW c \in Consumers, Receive(c) \/ Check(c)
      PROVE  UNCHANGED <<applied, unmarked, acked>>
  BY <1>8 DEF Receive, Deliver, Check, Release, queueVars
<1>9. ASSUME NEW m \in Copy, AckWait(m)
      PROVE  UNCHANGED <<applied, unmarked, acked>>
  BY <1>9 DEF AckWait, AckWaitElapses, Release
<1> QED
  BY <1>3, <1>5, <1>6, <1>7, <1>8, <1>9 DEF InboxNext, CallbackStep

\* The pipeline implements AtLeastOnce for any number of events, copies,
\* publishers, consumer instances and faults: an event is handled only after
\* its row committed, settled only when handled, and repeated no more often
\* than the instances and the lost inbox rows account for.
THEOREM PipelineKeepsPromise == Spec => ImplementsPromise
<1>1. Init => Promise!Init
  BY DEF Init, JetStreamInit, OutboxInit, InboxInit, Promise!Init, Committed, Absent
<1>2. PipelineInv /\ [Next]_vars => [Promise!Next]_promiseVars
  <2> SUFFICES ASSUME PipelineInv, [Next]_vars
               PROVE  Promise!Next \/ UNCHANGED promiseVars
    OBVIOUS
  <2>1. CASE UNCHANGED vars
    BY <2>1 DEF vars, outboxVars, queueVars, inboxVars, promiseVars, Committed, Settled
  <2> QED
    BY <2>1, OutboxMaps, InboxMaps DEF Next
<1>3. Spec => [][Promise!Next]_promiseVars
  BY <1>2, PipelineInvariant, PTL DEF Spec
<1> QED
  BY <1>1, <1>3, PTL DEF Spec, ImplementsPromise, Promise!Spec, promiseVars, Settled
=============================================================================
