--------------------------- MODULE BillingProofs ---------------------------
(***************************************************************************)
(* Subscriptions and payments, proved for any number of concurrent         *)
(* requests, callbacks, subscriptions, payments and faults: BillingInv is  *)
(* inductive, and it gives what the runs check of invoices and of the      *)
(* money behind a subscription.                                            *)
(***************************************************************************)
EXTENDS Billing, WellFoundedInduction, TLAPS

CallType ==
  [at : {"idle", "cancel", "check", "insert", "invoice", "pay", "xendit", "store", "expire"},
   sub : 0..MaxSubs, plan : Plans \cup {"none"}, bill : 0..MaxBills]

HookType ==
  [at : {"idle", "payment", "invoice", "subscription", "answer"},
   bill : 0..MaxBills, status : XenditStates]

LEMMA BoundType == MaxSubs \in Nat /\ MaxBills \in Nat /\ MaxFaults \in Nat
BY BillingAssumption DEF BillingAssumption

\* The newest of some subscriptions is one of them.
LEMMA MaxIsMember ==
  ASSUME NEW S \in SUBSET Subs, S # {}
  PROVE  Max(S) \in S
<1> DEFINE T == {MaxSubs - s : s \in S}
<1>1. T \subseteq Nat /\ T # {}
  <2>1. \A s \in S : MaxSubs - s \in Nat
    BY BoundType DEF Subs
  <2> QED
    BY <2>1
<1>2. PICK t \in T : \A u \in T : ~ (<<u, t>> \in OpToRel(<, Nat))
  BY <1>1, WFMin, NatLessThanWellFounded
<1>3. \A u \in T : ~ (u < t)
  BY <1>1, <1>2 DEF OpToRel
<1>4. PICK s \in S : t = MaxSubs - s
  BY <1>2
<1>5. \A u \in S : s >= u
  <2> SUFFICES ASSUME NEW u \in S
               PROVE  s >= u
    OBVIOUS
  <2>1. ~ (MaxSubs - u < MaxSubs - s)
    BY <1>3, <1>4
  <2> QED
    BY <2>1, BoundType DEF Subs
<1> QED
  BY <1>5 DEF Max

-----------------------------------------------------------------------------
(* Steps of a client that change no row.                                   *)

\* The rows part of BillingInv reads no client.
RowInv == CallbackInv /\ ActiveIsPaid /\ AnsweredIsApplied

LEMMA RowsKept ==
  ASSUME RowInv, UNCHANGED <<sub, invoice, payment, xendit, owed, hook>>
  PROVE  RowInv'
BY DEF RowInv, CallbackInv, ActiveIsPaid, AnsweredIsApplied, Told, Collected, EndedUnpaid

\* A client goes to a call that is new, or keeps what was its own.
LEMMA MoveKeeps ==
  ASSUME BillingInv, NEW c \in Clients, NEW call \in CallType, Goes(c, call),
         UNCHANGED <<sub, invoice, payment, xendit, owed, hook>>,
         made' \in made..MaxSubs, bills' \in bills..MaxBills, faults' \in 0..MaxFaults,
         call.sub <= made', call.bill <= bills',
         call.at \in {"check", "insert"} => call.plan \in Plans,
         call.at \in {"insert", "invoice"} =>
           call.sub \in Subs /\ call.sub > made,
         call.at \in {"pay", "xendit"} =>
           /\ call.sub \in Subs
           /\ invoice[call.sub] # "absent" \/ (Paying(c) /\ client[c].sub = call.sub),
         call.at \in {"xendit", "store"} =>
           call.at = "xendit" /\ call.bill \in Bills /\ call.bill > bills
  PROVE  BillingInv'
<1> USE DEF BillingInv
<1>1. /\ client \in [Clients -> CallType] /\ made \in Nat /\ bills \in Nat
      /\ made \in 0..MaxSubs /\ bills \in 0..MaxBills
      /\ client' = [client EXCEPT ![c] = call]
      /\ client' \in [Clients -> CallType] /\ client'[c] = call
      /\ \A d \in Clients \ {c} : client'[d] = client[d]
  BY BoundType DEF BillingTypeOK, CallType, Goes
<1>2. BillingTypeOK'
  BY <1>1, BoundType DEF BillingTypeOK, CallType
<1>3. \A d \in Clients : client[d].sub \in 0..MaxSubs /\ client[d].bill \in 0..MaxBills
  BY <1>1 DEF CallType
<1>4. NumberInv'
  <2>1. \A d \in Clients : client'[d].sub <= made' /\ client'[d].bill <= bills'
    BY <1>1, <1>3, BoundType DEF NumberInv
  <2>2. \A b \in Bills : xendit[b].sub \in 0..MaxSubs /\ b \in Nat
    BY BoundType DEF BillingTypeOK, Bills
  <2>3. \A s \in Subs : s \in Nat
    BY DEF Subs
  <2> QED
    BY <1>1, <2>1, <2>2, <2>3, BoundType DEF NumberInv
<1>5. FreshInv'
  <2> SUFFICES ASSUME NEW d \in Clients
               PROVE  /\ client'[d].at \in {"check", "insert"} => client'[d].plan \in Plans
                      /\ Creating(d)' \/ Paying(d)' => client'[d].sub \in Subs
                      /\ Creating(d)' =>
                           /\ invoice[client'[d].sub] = "absent"
                           /\ \A b \in Bills : xendit[b].sub # client'[d].sub
                           /\ \A f \in Clients \ {d} :
                                Creating(f)' \/ Paying(f)' => client'[f].sub # client'[d].sub
    BY DEF FreshInv
  <2>1. \A b \in Bills : xendit[b].sub <= made /\ xendit[b].sub \in Nat
    BY BoundType DEF NumberInv, BillingTypeOK
  <2>2. CASE d = c
    BY <1>1, <1>3, <2>1, <2>2 DEF Creating, Paying, NumberInv, BillingTypeOK, Subs
  <2>3. CASE d # c
    <3>1. ASSUME Creating(d)', NEW f \in Clients \ {d}, Creating(f)' \/ Paying(f)'
          PROVE  client'[f].sub # client'[d].sub
      <4>1. Creating(d) /\ client'[d] = client[d] /\ client[d].sub \in 0..made
        BY <1>1, <1>3, <2>3, <3>1 DEF Creating, NumberInv
      <4>2. CASE f = c
        BY <1>1, <3>1, <4>1, <4>2 DEF FreshInv, Creating, Paying
      <4>3. CASE f # c
        BY <1>1, <3>1, <4>1, <4>3 DEF FreshInv, Creating, Paying
      <4> QED
        BY <4>2, <4>3
    <3> QED
      BY <1>1, <2>3, <3>1 DEF FreshInv, Creating, Paying
  <2> QED
    BY <2>2, <2>3
<1>6. BillInv'
  <2> SUFFICES ASSUME NEW d \in Clients, Billing(d)'
               PROVE  /\ client'[d].bill \in Bills
                      /\ payment[client'[d].bill] = "absent"
                      /\ client'[d].at = "xendit" <=> xendit[client'[d].bill].state = "absent"
                      /\ \A f \in Clients \ {d} :
                           Billing(f)' => client'[f].bill # client'[d].bill
    BY DEF BillInv
  <2>1. CASE d = c
    <3>1. call.at = "xendit" /\ call.bill \in Bills /\ call.bill > bills
      BY <1>1, <2>1 DEF Billing
    <3>2. payment[call.bill] = "absent" /\ xendit[call.bill].state = "absent"
      BY <1>1, <3>1 DEF NumberInv, Bills
    <3>3. \A f \in Clients \ {c} : client'[f].bill # call.bill
      BY <1>1, <1>3, <3>1 DEF NumberInv, Bills
    <3> QED
      BY <1>1, <2>1, <3>1, <3>2, <3>3
  <2>2. CASE d # c
    <3>1. Billing(d) /\ client'[d] = client[d] /\ client[d].bill \in 0..bills
      BY <1>1, <1>3, <2>2 DEF Billing, NumberInv
    <3>2. ASSUME NEW f \in Clients \ {d}, Billing(f)'
          PROVE  client'[f].bill # client[d].bill
      <4>1. CASE f = c
        BY <1>1, <3>1, <3>2, <4>1 DEF Billing
      <4>2. CASE f # c
        BY <1>1, <3>1, <3>2, <4>2 DEF Billing, BillInv
      <4> QED
        BY <4>1, <4>2
    <3> QED
      BY <3>1, <3>2 DEF BillInv
  <2> QED
    BY <2>1, <2>2
<1> QED
  BY <1>2, <1>4, <1>5, <1>6, RowsKept DEF RowInv

-----------------------------------------------------------------------------
(* The calls of clients, one lemma per step.                               *)

LEMMA FailsKeeps ==
  ASSUME BillingInv, NEW c \in Clients, Fails(c)
  PROVE  BillingInv'
<1>1. Rest \in CallType /\ Rest.at = "idle" /\ Rest.sub = 0 /\ Rest.bill = 0
  BY BoundType DEF Rest, CallType
<1>2. /\ made' \in made..MaxSubs /\ bills' \in bills..MaxBills /\ faults' \in 0..MaxFaults
      /\ 0 <= made' /\ 0 <= bills'
  BY BoundType DEF Fails, Fault, BillingInv, BillingTypeOK
<1> QED
  BY <1>1, <1>2, MoveKeeps DEF Fails

LEMMA AdmitKeeps ==
  ASSUME BillingInv, NEW c \in Clients, NEW plan \in Plans, Admit(c, plan)
  PROVE  BillingInv'
<1> DEFINE call == [at |-> "insert", sub |-> made + 1, plan |-> plan, bill |-> 0]
<1>1. made \in 0..MaxSubs /\ made < MaxSubs /\ made' = made + 1
  BY DEF Admit, BillingInv, BillingTypeOK
<1>2. call \in CallType /\ call.sub \in Subs /\ call.sub > made /\ call.plan \in Plans
  BY <1>1, BoundType DEF CallType, Subs
<1>3. /\ made' \in made..MaxSubs /\ bills' \in bills..MaxBills /\ faults' \in 0..MaxFaults
      /\ call.sub <= made' /\ call.bill <= bills'
  BY <1>1, BoundType DEF Admit, BillingInv, BillingTypeOK
<1>4. /\ Goes(c, call) /\ call.at = "insert"
      /\ UNCHANGED <<sub, invoice, payment, xendit, owed, hook>>
  BY DEF Admit
<1> HIDE DEF call
<1> QED
  BY <1>2, <1>3, <1>4, MoveKeeps

\* c turns to a subscription that is there, without touching its rows.
LEMMA TurnKeeps ==
  ASSUME BillingInv, NEW c \in Clients,
         NEW place \in {"idle", "cancel", "check", "expire"},
         NEW s \in Subs \cup {0}, s <= made,
         NEW plan \in Plans \cup {"none"}, place = "check" => plan \in Plans,
         NEW call, call = [at |-> place, sub |-> s, plan |-> plan, bill |-> 0], Goes(c, call),
         UNCHANGED <<made, sub, invoice, bills, payment, xendit, owed, hook>>,
         faults' \in 0..MaxFaults
  PROVE  BillingInv'
<1>1. /\ call \in CallType /\ call.sub <= made' /\ call.bill <= bills' /\ call.at = place
      /\ call.plan = plan
  BY BoundType DEF CallType, Subs, BillingInv, BillingTypeOK
<1>2. made' \in made..MaxSubs /\ bills' \in bills..MaxBills
  BY BoundType DEF BillingInv, BillingTypeOK
<1> HIDE DEF CallType
<1> QED
  BY <1>1, <1>2, MoveKeeps

LEMMA PresentNumbers ==
  ASSUME BillingInv, NEW S \in SUBSET {s \in Subs : sub[s].status # "absent"}, S # {}
  PROVE  Max(S) \in Subs /\ Max(S) <= made
BY MaxIsMember DEF BillingInv, NumberInv

LEMMA StartCancelKeeps ==
  ASSUME BillingInv, NEW c \in Clients, StartCancel(c)
  PROVE  BillingInv'
<1>1. Max(Blocking) \in Subs /\ Max(Blocking) <= made
  BY PresentNumbers DEF StartCancel, Blocking, WithStatus
<1>2. faults' \in 0..MaxFaults
  BY DEF StartCancel, BillingInv, BillingTypeOK
<1> QED
  BY <1>1, <1>2, TurnKeeps DEF StartCancel

LEMMA FindLapsedKeeps ==
  ASSUME BillingInv, NEW c \in Clients, FindLapsed(c)
  PROVE  BillingInv'
<1>1. Max(Active) \in Subs /\ Max(Active) <= made
  BY PresentNumbers DEF FindLapsed, Active, WithStatus
<1>2. faults' \in 0..MaxFaults
  BY DEF FindLapsed, BillingInv, BillingTypeOK
<1> QED
  BY <1>1, <1>2, TurnKeeps DEF FindLapsed

LEMMA CheckKeeps ==
  ASSUME BillingInv, NEW c \in Clients, Check(c)
  PROVE  BillingInv'
<1>1. CASE Admit(c, client[c].plan)
  <2>1. client[c].plan \in Plans
    BY DEF Check, BillingInv, FreshInv
  <2> QED
    BY <1>1, <2>1, AdmitKeeps
<1>2. CASE /\ Goes(c, Rest)
           /\ UNCHANGED <<made, sub, invoice, bills, payment, xendit, owed, hook, faults>>
  <2>1. 0 <= made /\ faults' \in 0..MaxFaults
    BY <1>2 DEF BillingInv, BillingTypeOK
  <2> QED
    BY <1>2, <2>1, TurnKeeps DEF Rest
<1> QED
  BY <1>1, <1>2 DEF Check

LEMMA BillKeeps ==
  ASSUME BillingInv, NEW c \in Clients, NEW s \in Subs, Bill(c, s), s <= made,
         invoice[s] # "absent" \/ (Paying(c) /\ client[c].sub = s)
  PROVE  BillingInv'
<1> DEFINE call == [at |-> "xendit", sub |-> s, plan |-> "none", bill |-> bills + 1]
<1>1. bills \in 0..MaxBills /\ bills < MaxBills /\ bills' = bills + 1
  BY DEF Bill, BillingInv, BillingTypeOK
<1>2. call \in CallType /\ call.bill \in Bills /\ call.bill > bills
  BY <1>1, BoundType DEF CallType, Bills, Subs
<1>3. /\ made' \in made..MaxSubs /\ bills' \in bills..MaxBills /\ faults' \in 0..MaxFaults
      /\ call.sub <= made' /\ call.bill <= bills'
  BY <1>1, BoundType DEF Bill, BillingInv, BillingTypeOK
<1>4. /\ Goes(c, call) /\ call.at = "xendit" /\ call.sub = s
      /\ UNCHANGED <<sub, invoice, payment, xendit, owed, hook>>
  BY DEF Bill
<1> HIDE DEF call
<1> QED
  BY <1>2, <1>3, <1>4, MoveKeeps

LEMMA PayInvoiceKeeps ==
  ASSUME BillingInv, NEW c \in Clients, PayInvoice(c)
  PROVE  BillingInv'
<1>1. ASSUME NEW s \in Subs, invoice[s] # "absent", Bill(c, s)
      PROVE  BillingInv'
  <2>1. s <= made /\ (invoice[s] # "absent" \/ (Paying(c) /\ client[c].sub = s))
    BY <1>1 DEF BillingInv, NumberInv
  <2>2. Bill(c, s)
    BY <1>1
  <2> QED
    BY <2>1, <2>2, BillKeeps
<1>2. CASE client[c].at = "pay" /\ Bill(c, client[c].sub)
  BY <1>2, BillKeeps DEF BillingInv, FreshInv, NumberInv, Paying
<1>3. CASE /\ Goes(c, Rest)
           /\ UNCHANGED <<made, sub, invoice, bills, payment, xendit, owed, hook, faults>>
  <2>1. 0 <= made /\ faults' \in 0..MaxFaults
    BY <1>3 DEF BillingInv, BillingTypeOK
  <2> QED
    BY <1>3, <2>1, TurnKeeps DEF Rest
<1> QED
  BY <1>1, <1>2, <1>3 DEF PayInvoice

-----------------------------------------------------------------------------
(* Steps of a client that change a row.                                    *)

\* c changes a subscription row and ends its call, or goes on to the invoice.
LEMMA CallsKept ==
  ASSUME BillingInv, NEW c \in Clients, NEW call \in CallType, Goes(c, call),
         UNCHANGED <<made, bills, invoice, payment, xendit>>,
         call.sub <= made, call.bill <= bills,
         \/ call.at = "idle" \/ (call.at = "check" /\ call.plan \in Plans)
         \/ call.at = "invoice" /\ Creating(c) /\ call.sub = client[c].sub,
         \A s \in Subs : sub'[s].status # "absent" => s <= made
  PROVE  NumberInv' /\ FreshInv' /\ BillInv'
<1> USE DEF BillingInv
<1>1. /\ client \in [Clients -> CallType] /\ client'[c] = call
      /\ \A d \in Clients \ {c} : client'[d] = client[d]
  BY DEF BillingTypeOK, CallType, Goes
<1>2. NumberInv'
  BY <1>1 DEF NumberInv
<1>3. \A d \in Clients : /\ client'[d].at \in {"check", "insert"} => client'[d].plan \in Plans
                         /\ Billing(d)' => Billing(d) /\ client'[d] = client[d]
                         /\ Creating(d)' => Creating(d) /\ client'[d].sub = client[d].sub
                         /\ Paying(d)' => Paying(d) /\ client'[d] = client[d]
  BY <1>1 DEF Billing, Creating, Paying, FreshInv
<1>4. FreshInv'
  BY <1>3 DEF FreshInv
<1>5. BillInv'
  BY <1>3 DEF BillInv
<1> QED
  BY <1>2, <1>4, <1>5

\* A row of a subscription changes, and neither waits for a payment that is
\* in nor is active without one.
LEMMA SubKeepsRows ==
  ASSUME BillingInv, UNCHANGED <<invoice, payment, xendit, owed, hook>>,
         \A s \in Subs :
           /\ sub'[s].status = "pending_payment" =>
                sub[s].status = "pending_payment" \/ \A b \in Bills : xendit[b].sub # s
           /\ sub'[s].status = "active" /\ sub'[s].plan = "paid" =>
                \/ sub[s].status = "active" /\ sub[s].plan = "paid"
                \/ \E b \in Bills : xendit[b].sub = s /\ Collected(b)
  PROVE  RowInv'
<1> USE DEF BillingInv
<1>1. /\ \A o : Told(o)' <=> Told(o)
      /\ \A b : Collected(b)' <=> Collected(b)
  BY DEF Told, Collected, EndedUnpaid
<1>2. \A b \in Bills : Collected(b) => xendit[b].sub \in Subs
  BY DEF NumberInv, Collected
<1>3. CallbackInv'
  <2>1. ASSUME NEW h \in Callbacks, hook[h].at = "answer", Collected(hook[h].bill)
        PROVE  sub'[xendit[hook[h].bill].sub].status # "pending_payment"
    <3>1. hook[h].bill \in Bills
      BY <2>1 DEF CallbackInv, Told
    <3> QED
      BY <1>2, <2>1, <3>1 DEF CallbackInv
  <2> QED
    BY <1>1, <2>1 DEF CallbackInv
<1>4. ActiveIsPaid'
  BY <1>1 DEF ActiveIsPaid
<1>5. AnsweredIsApplied'
  <2> SUFFICES ASSUME NEW b \in Bills, Collected(b), payment[b] # "absent",
                      \A o \in owed : o.bill # b
               PROVE  payment[b] = "paid" /\ sub'[xendit[b].sub].status # "pending_payment"
    BY <1>1 DEF AnsweredIsApplied
  <2> QED
    BY <1>2 DEF AnsweredIsApplied
<1> QED
  BY <1>3, <1>4, <1>5 DEF RowInv

\* Cancel and Expire: the row of the call is given up, or stays.
LEMMA GiveUpKeeps ==
  ASSUME BillingInv, NEW c \in Clients, NEW call \in CallType, Goes(c, call),
         call.at = "idle" \/ (call.at = "check" /\ call.plan \in Plans), call.sub <= made, call.bill <= bills,
         NEW status \in {"cancelled", "expired"},
         \/ Set(client[c].sub, status) /\ UNCHANGED faults
         \/ Fault /\ UNCHANGED sub,
         UNCHANGED <<made, invoice, bills, payment, xendit, owed, hook>>
  PROVE  BillingInv'
<1> USE DEF BillingInv
<1>1. /\ client[c].sub <= made
      /\ \A s \in Subs : \/ sub'[s] = sub[s]
                         \/ s = client[c].sub /\ sub'[s].status = status
  <2>1. client[c].sub <= made
    BY DEF NumberInv
  <2>2. CASE sub' = [sub EXCEPT ![client[c].sub].status = status]
    <3>1. \A s \in Subs : s = client[c].sub \/ sub'[s] = sub[s]
      BY <2>2 DEF BillingTypeOK
    <3>2. client[c].sub \in Subs =>
            sub'[client[c].sub] = [sub[client[c].sub] EXCEPT !.status = status]
      BY <2>2 DEF BillingTypeOK
    <3>3. client[c].sub \in Subs => sub'[client[c].sub].status = status
      BY <3>2 DEF BillingTypeOK
    <3> QED
      BY <2>1, <3>1, <3>3
  <2>3. CASE UNCHANGED sub
    BY <2>1, <2>3
  <2> QED
    BY <2>2, <2>3 DEF Set
<1>2. BillingTypeOK'
  <2>1. sub' \in [Subs -> [status : SubStatuses, plan : Plans \cup {"none"}, lapsed : BOOLEAN]]
    <3>1. sub \in [Subs -> [status : SubStatuses, plan : Plans \cup {"none"}, lapsed : BOOLEAN]]
      BY DEF BillingTypeOK
    <3>2. status \in SubStatuses
      BY DEF SubStatuses
    <3>3. UNCHANGED sub \/ sub' = [sub EXCEPT ![client[c].sub].status = status]
      BY DEF Set
    <3> QED
      BY <3>1, <3>2, <3>3 DEF SubStatuses
  <2>2. faults' \in 0..MaxFaults
    BY BoundType DEF Fault, BillingTypeOK
  <2>3. client' \in [Clients -> CallType]
    BY DEF Goes, BillingTypeOK, CallType
  <2> QED
    BY <2>1, <2>2, <2>3 DEF BillingTypeOK, CallType
<1>3. NumberInv' /\ FreshInv' /\ BillInv'
  <2>1. \A s \in Subs : sub'[s].status # "absent" => s <= made
    BY <1>1 DEF NumberInv
  <2> QED
    BY <2>1, CallsKept
<1>4. RowInv'
  <2>1. \A s \in Subs : /\ sub'[s].status = "pending_payment" => sub'[s] = sub[s]
                        /\ sub'[s].status = "active" => sub'[s] = sub[s]
    BY <1>1
  <2> QED
    BY <2>1, SubKeepsRows
<1> QED
  BY <1>2, <1>3, <1>4 DEF RowInv

LEMMA CancelKeeps ==
  ASSUME BillingInv, NEW c \in Clients, Cancel(c) \/ Expire(c)
  PROVE  BillingInv'
<1>1. /\ Rest \in CallType /\ Rest.at = "idle" /\ Rest.sub <= made /\ Rest.bill <= bills
      /\ client[c] \in CallType /\ client[c].sub <= made /\ client[c].bill <= bills
  BY BoundType DEF Rest, CallType, BillingInv, BillingTypeOK, NumberInv
<1>2. /\ On(c, "check") \in CallType /\ On(c, "check").at = "check"
      /\ On(c, "check").sub <= made /\ On(c, "check").bill <= bills
      /\ On(c, "check").plan = client[c].plan
  BY <1>1 DEF On, CallType
<1>3. CASE Cancel(c)
  <2> DEFINE call == IF client[c].plan = "none" THEN Rest ELSE On(c, "check")
  <2>1. /\ call \in CallType /\ call.sub <= made /\ call.bill <= bills
        /\ call.at = "idle" \/ (call.at = "check" /\ call.plan \in Plans)
    BY <1>1, <1>2 DEF CallType
  <2>2. /\ Goes(c, call) /\ UNCHANGED <<made, invoice, bills, payment, xendit, owed, hook>>
        /\ \/ Set(client[c].sub, "cancelled") /\ UNCHANGED faults
           \/ Fault /\ UNCHANGED sub
    BY <1>3 DEF Cancel
  <2> HIDE DEF call
  <2> QED
    BY <2>1, <2>2, GiveUpKeeps
<1>4. CASE Expire(c)
  BY <1>1, <1>4, GiveUpKeeps DEF Expire
<1> QED
  BY <1>3, <1>4

\* Nothing is paid for the new subscription yet, so it may wait for payment.
LEMMA InsertKeeps ==
  ASSUME BillingInv, NEW c \in Clients, Insert(c)
  PROVE  BillingInv'
<1> USE DEF BillingInv
<1> DEFINE s == client[c].sub
           plan == client[c].plan
           new == [sub[s] EXCEPT !.status = FirstStatus(plan), !.plan = plan]
           call == IF plan = "paid" THEN On(c, "invoice") ELSE Rest
<1>1. CASE Fails(c)
  BY <1>1, FailsKeeps
<1>2. CASE /\ sub' = [sub EXCEPT ![s] = new] /\ Goes(c, call)
           /\ UNCHANGED <<made, invoice, bills, payment, xendit, owed, hook, faults>>
  <2>1. /\ client[c] \in CallType /\ Creating(c) /\ s \in Subs /\ s <= made
        /\ client[c].bill <= bills /\ client[c].at = "insert"
    BY DEF Insert, BillingTypeOK, CallType, FreshInv, Creating, NumberInv
  <2>2. /\ call \in CallType /\ call.sub <= made /\ call.bill <= bills
        /\ call.at = "idle" \/ (call.at = "invoice" /\ call.sub = s)
    <3>1. CASE plan = "paid"
      BY <2>1, <3>1 DEF On, CallType
    <3>2. CASE plan # "paid"
      BY <2>1, <3>2, BoundType DEF Rest, CallType, BillingTypeOK
    <3> QED
      BY <3>1, <3>2
  <2>3. plan \in Plans /\ plan \in {"free", "trial", "paid"}
    BY <2>1, BillingAssumption DEF BillingAssumption, FreshInv
  <2>4. /\ FirstStatus(plan) \in SubStatuses
        /\ FirstStatus(plan) = "active" => plan = "free"
    BY <2>3 DEF FirstStatus, SubStatuses
  <2>5. /\ new \in [status : SubStatuses, plan : Plans \cup {"none"}, lapsed : BOOLEAN]
        /\ new.status = FirstStatus(plan) /\ new.plan = plan
        /\ sub'[s] = new /\ \A t \in Subs \ {s} : sub'[t] = sub[t]
    <3> DEFINE SubRow == [status : SubStatuses, plan : Plans \cup {"none"}, lapsed : BOOLEAN]
    <3>1. sub \in [Subs -> SubRow] /\ sub[s] \in SubRow
      BY <2>1 DEF BillingTypeOK
    <3>2. new \in SubRow /\ new.status = FirstStatus(plan) /\ new.plan = plan
      BY <2>3, <2>4, <3>1
    <3> QED
      BY <1>2, <2>1, <3>1, <3>2
  <2> HIDE DEF call, new
  <2>6. BillingTypeOK'
    BY <1>2, <2>2, <2>5 DEF BillingTypeOK, Goes, CallType
  <2>7. NumberInv' /\ FreshInv' /\ BillInv'
    <3>1. \A t \in Subs : sub'[t].status # "absent" => t <= made
      BY <2>1, <2>5 DEF NumberInv
    <3> QED
      BY <1>2, <2>1, <2>2, <3>1, CallsKept
  <2>8. RowInv'
    <3>1. \A b \in Bills : xendit[b].sub # s
      BY <2>1 DEF FreshInv
    <3>2. \A t \in Subs : sub'[t] = sub[t] \/ (t = s /\ ~(sub'[t].status = "active" /\ sub'[t].plan = "paid"))
      BY <2>3, <2>4, <2>5
    <3> QED
      BY <1>2, <3>1, <3>2, SubKeepsRows
  <2> QED
    BY <2>6, <2>7, <2>8 DEF RowInv
<1> QED
  BY <1>1, <1>2 DEF Insert

LEMMA CreateInvoiceKeeps ==
  ASSUME BillingInv, NEW c \in Clients, CreateInvoice(c)
  PROVE  BillingInv'
<1> USE DEF BillingInv
<1> DEFINE s == client[c].sub
           call == On(c, "pay")
<1>1. CASE Fails(c)
  BY <1>1, FailsKeeps
<1>2. CASE /\ invoice' = [invoice EXCEPT ![s] = "pending"] /\ Goes(c, call)
           /\ UNCHANGED <<made, sub, bills, payment, xendit, owed, hook, faults>>
  <2>1. /\ client \in [Clients -> CallType] /\ Creating(c) /\ s \in Subs /\ s <= made
        /\ invoice[s] = "absent"
    BY DEF CreateInvoice, BillingTypeOK, CallType, FreshInv, Creating, NumberInv
  <2>2. call \in CallType /\ call.sub = s /\ call.bill = client[c].bill /\ call.at = "pay"
    BY <2>1 DEF On, CallType
  <2> HIDE DEF call
  <2>3. /\ client'[c] = call /\ client' \in [Clients -> CallType]
        /\ \A d \in Clients \ {c} : client'[d] = client[d]
    BY <1>2, <2>1, <2>2 DEF Goes
  <2>4. /\ invoice'[s] = "pending" /\ \A t \in Subs \ {s} : invoice'[t] = invoice[t]
        /\ invoice' \in [Subs -> InvoiceStatuses]
    BY <1>2, <2>1 DEF BillingTypeOK, InvoiceStatuses
  <2>5. BillingTypeOK'
    BY <1>2, <2>3, <2>4 DEF BillingTypeOK, CallType
  <2>6. NumberInv'
    BY <1>2, <2>1, <2>2, <2>3, <2>4 DEF NumberInv
  <2>7. FreshInv'
    <3>1. \A d \in Clients : /\ Creating(d)' => d # c /\ Creating(d) /\ client'[d] = client[d]
                             /\ Paying(d)' =>
                                  client'[d].sub = client[d].sub /\ (Creating(d) \/ Paying(d))
                             /\ client'[d].at \in {"check", "insert"} => client'[d] = client[d]
      BY <2>1, <2>2, <2>3 DEF Creating, Paying
    <3>2. \A d \in Clients \ {c} : Creating(d) => client[d].sub # s /\ client[d].sub \in Subs
      BY <2>1 DEF FreshInv
    <3> QED
      BY <1>2, <2>1, <2>4, <3>1, <3>2 DEF FreshInv
  <2>8. BillInv'
    BY <1>2, <2>1, <2>2, <2>3 DEF BillInv, Billing
  <2>9. RowInv'
    <3>1. CallbackInv' /\ AnsweredIsApplied'
      BY <1>2 DEF CallbackInv, AnsweredIsApplied, Told, Collected, EndedUnpaid
    <3>2. ActiveIsPaid'
      BY <1>2, <2>4 DEF ActiveIsPaid, Collected
    <3> QED
      BY <3>1, <3>2 DEF RowInv
  <2> QED
    BY <2>5, <2>6, <2>7, <2>8, <2>9 DEF RowInv
<1> QED
  BY <1>1, <1>2 DEF CreateInvoice

\* A new Xendit invoice takes the place of none.
LEMMA CallXenditKeeps ==
  ASSUME BillingInv, NEW c \in Clients, CallXendit(c)
  PROVE  BillingInv'
<1> USE DEF BillingInv
<1> DEFINE s == client[c].sub
           b == client[c].bill
           new == [state |-> "open", sub |-> s, overdue |-> FALSE]
<1>1. CASE Fails(c)
  BY <1>1, FailsKeeps
<1>2. ASSUME xendit' = [xendit EXCEPT ![b] = new],
             NEW call, call = On(c, "store") \/ call = Rest, Goes(c, call),
             faults' \in 0..MaxFaults,
             UNCHANGED <<made, sub, invoice, bills, payment, owed, hook>>
      PROVE  BillingInv'
  <2>1. /\ client \in [Clients -> CallType] /\ client[c].at = "xendit"
        /\ s \in Subs /\ s <= made /\ b \in Bills /\ b <= bills
        /\ xendit[b].state = "absent" /\ payment[b] = "absent"
        /\ \A d \in Clients \ {c} : /\ Billing(d) => client[d].bill # b
                                    /\ Creating(d) => client[d].sub # s
    BY DEF CallXendit, BillingTypeOK, CallType, FreshInv, Paying, Creating, NumberInv,
           BillInv, Billing
  <2>2. /\ call \in CallType /\ call.sub \in {s, 0} /\ call.bill \in {b, 0}
        /\ call.at = "idle" \/ (call.at = "store" /\ call.bill = b)
    <3>1. CASE call = On(c, "store")
      BY <2>1, <3>1 DEF On, CallType
    <3>2. CASE call = Rest
      BY <3>2, BoundType DEF Rest, CallType
    <3> QED
      BY <1>2, <3>1, <3>2
  <2>3. /\ client'[c] = call /\ client' \in [Clients -> CallType]
        /\ \A d \in Clients \ {c} : client'[d] = client[d]
    BY <1>2, <2>1, <2>2 DEF Goes
  <2>4. /\ new.state = "open" /\ new.sub = s
        /\ new \in [state : XenditStates, sub : 0..MaxSubs, overdue : BOOLEAN]
    BY <2>1 DEF XenditStates, Subs
  <2> HIDE DEF new
  <2>5. /\ xendit'[b] = new /\ \A x \in Bills \ {b} : xendit'[x] = xendit[x]
        /\ xendit' \in [Bills -> [state : XenditStates, sub : 0..MaxSubs, overdue : BOOLEAN]]
    BY <1>2, <2>1, <2>4 DEF BillingTypeOK
  <2>6. BillingTypeOK'
    BY <1>2, <2>3, <2>5 DEF BillingTypeOK, CallType
  <2>7. NumberInv'
    <3>1. \A d \in Clients : client'[d].sub <= made /\ client'[d].bill <= bills
      BY <2>1, <2>2, <2>3, BoundType DEF NumberInv, BillingTypeOK
    <3> QED
      BY <1>2, <2>1, <2>4, <2>5, <3>1 DEF NumberInv
  <2>8. FreshInv'
    <3>1. \A d \in Clients : /\ Creating(d)' => d # c /\ Creating(d) /\ client'[d] = client[d]
                             /\ Paying(d)' => Paying(d) /\ client'[d] = client[d]
                             /\ client'[d].at \in {"check", "insert"} => client'[d] = client[d]
      BY <2>1, <2>2, <2>3 DEF Creating, Paying
    <3>2. \A d \in Clients : Creating(d)' => \A x \in Bills : xendit'[x].sub # client'[d].sub
      BY <2>1, <2>4, <2>5, <3>1 DEF FreshInv
    <3> QED
      BY <1>2, <3>1, <3>2 DEF FreshInv
  <2>9. BillInv'
    <3>1. \A d \in Clients \ {c} : Billing(d)' => Billing(d) /\ client'[d] = client[d]
      BY <2>3 DEF Billing
    <3>2. Billing(c)' => client'[c].bill = b /\ client'[c].at = "store"
      BY <2>2, <2>3 DEF Billing
    <3>3. \A d \in Clients \ {c} : Billing(d)' => xendit'[client'[d].bill] = xendit[client[d].bill]
      BY <2>1, <2>5, <3>1 DEF BillInv
    <3> QED
      BY <1>2, <2>1, <2>4, <2>5, <3>1, <3>2, <3>3 DEF BillInv, Billing
  <2>10. \A x \in Bills : /\ Collected(x)' <=> Collected(x)
                          /\ EndedUnpaid(x)' <=> EndedUnpaid(x)
                          /\ Collected(x) => xendit'[x] = xendit[x]
    BY <2>1, <2>4, <2>5 DEF Collected, EndedUnpaid
  <2>11. RowInv'
    <3>1. \A o : Told(o)' <=> Told(o)
      BY <2>10 DEF Told
    <3>2. CallbackInv' /\ AnsweredIsApplied'
      BY <1>2, <2>10, <3>1 DEF CallbackInv, AnsweredIsApplied, Told
    <3>3. ActiveIsPaid'
      BY <1>2, <2>10 DEF ActiveIsPaid
    <3> QED
      BY <3>2, <3>3 DEF RowInv
  <2> QED
    BY <2>6, <2>7, <2>8, <2>9, <2>11 DEF RowInv
<1>3. faults' = faults \/ Fault => faults' \in 0..MaxFaults
  BY BoundType DEF Fault, BillingTypeOK
<1> QED
  BY <1>1, <1>2, <1>3 DEF CallXendit

\* The row appears; a callback that came before it is still owed.
LEMMA CreatePaymentKeeps ==
  ASSUME BillingInv, NEW c \in Clients, CreatePayment(c)
  PROVE  BillingInv'
<1> USE DEF BillingInv
<1> DEFINE b == client[c].bill
<1>1. CASE Fails(c)
  BY <1>1, FailsKeeps
<1>2. CASE /\ payment' = [payment EXCEPT ![b] = "pending"] /\ Goes(c, Rest)
           /\ UNCHANGED <<made, sub, invoice, bills, xendit, owed, hook, faults>>
  <2>1. /\ client \in [Clients -> CallType] /\ client[c].at = "store"
        /\ b \in Bills /\ payment[b] = "absent" /\ xendit[b].state # "absent"
        /\ \A d \in Clients \ {c} : Billing(d) => client[d].bill # b
    BY DEF CreatePayment, BillingTypeOK, CallType, BillInv, Billing
  <2>2. Rest \in CallType /\ Rest.at = "idle" /\ Rest.sub = 0 /\ Rest.bill = 0
    BY BoundType DEF Rest, CallType
  <2>3. /\ client'[c] = Rest /\ client' \in [Clients -> CallType]
        /\ \A d \in Clients \ {c} : client'[d] = client[d]
    BY <1>2, <2>1, <2>2 DEF Goes
  <2>4. /\ payment'[b] = "pending" /\ \A x \in Bills \ {b} : payment'[x] = payment[x]
        /\ payment' \in [Bills -> PaymentStatuses]
    BY <1>2, <2>1 DEF BillingTypeOK, PaymentStatuses, InvoiceStatuses
  <2>5. BillingTypeOK'
    BY <1>2, <2>3, <2>4 DEF BillingTypeOK, CallType
  <2>6. NumberInv'
    <3>1. 0 <= made /\ 0 <= bills
      BY DEF BillingTypeOK
    <3> QED
      BY <1>2, <2>1, <2>2, <2>3, <2>4, <3>1 DEF NumberInv
  <2>7. \A d \in Clients : /\ Creating(d)' => Creating(d) /\ client'[d] = client[d]
                           /\ Paying(d)' => Paying(d) /\ client'[d] = client[d]
                           /\ Billing(d)' => Billing(d) /\ client'[d] = client[d] /\ d # c
                           /\ client'[d].at \in {"check", "insert"} => client'[d] = client[d]
    BY <2>2, <2>3 DEF Creating, Paying, Billing
  <2>8. FreshInv' /\ BillInv'
    BY <1>2, <2>1, <2>4, <2>7 DEF FreshInv, BillInv
  <2>9. \A x : /\ Collected(x)' <=> Collected(x)
               /\ EndedUnpaid(x)' <=> EndedUnpaid(x)
               /\ Told(x)' <=> Told(x)
    BY <1>2 DEF Collected, EndedUnpaid, Told
  <2>10. CallbackInv'
    <3>1. \A h \in Callbacks : hook[h].at # "idle" => hook[h].bill \in Bills \ {b}
      BY <2>1 DEF CallbackInv, Told
    <3>2. \A x \in Bills : payment'[x] = "absent" => payment[x] = "absent"
      BY <2>4
    <3>3. \A h \in Callbacks : hook[h].at # "idle" =>
             payment'[hook[h].bill] = payment[hook[h].bill]
      BY <2>4, <3>1
    <3> QED
      BY <1>2, <2>9, <3>2, <3>3 DEF CallbackInv
  <2>11. ActiveIsPaid'
    BY <1>2, <2>4, <2>9 DEF ActiveIsPaid
  <2>12. AnsweredIsApplied'
    <3> SUFFICES ASSUME NEW x \in Bills, Collected(x), payment'[x] # "absent",
                        \A o \in owed : o.bill # x
                 PROVE  payment'[x] = "paid" /\ sub[xendit[x].sub].status # "pending_payment"
      BY <1>2, <2>9 DEF AnsweredIsApplied
    <3>1. payment[x] # "absent"
      BY DEF CallbackInv
    <3> QED
      BY <2>1, <2>4, <3>1 DEF AnsweredIsApplied
  <2> QED
    BY <2>5, <2>6, <2>8, <2>10, <2>11, <2>12 DEF RowInv
<1> QED
  BY <1>1, <1>2 DEF CreatePayment

LEMMA ClientStepKeeps ==
  ASSUME BillingInv, NEW c \in Clients, ClientStep(c)
  PROVE  BillingInv'
<1>1. CASE Subscribe(c)
  BY <1>1, AdmitKeeps DEF Subscribe
<1> QED
  BY <1>1, StartCancelKeeps, FindLapsedKeeps, CancelKeeps, CheckKeeps, InsertKeeps,
     CreateInvoiceKeeps, PayInvoiceKeeps, CallXenditKeeps, CreatePaymentKeeps
  DEF ClientStep

-----------------------------------------------------------------------------
(* Time and Xendit.                                                        *)

LEMMA LapseKeeps ==
  ASSUME BillingInv, NEW s \in Subs, Lapse(s)
  PROVE  BillingInv'
<1> USE DEF BillingInv
<1>1. UNCHANGED <<made, invoice, bills, payment, xendit, owed, client, hook, faults>>
  BY DEF Lapse
<1>2. /\ sub' \in [Subs -> [status : SubStatuses, plan : Plans \cup {"none"}, lapsed : BOOLEAN]]
      /\ \A t \in Subs : sub'[t].status = sub[t].status /\ sub'[t].plan = sub[t].plan
  <2> DEFINE Row == [status : SubStatuses, plan : Plans \cup {"none"}, lapsed : BOOLEAN]
             new == [sub[s] EXCEPT !.lapsed = TRUE]
  <2>1. sub \in [Subs -> Row] /\ sub[s] \in Row
    BY DEF BillingTypeOK
  <2>2. new \in Row /\ new.status = sub[s].status /\ new.plan = sub[s].plan
    BY <2>1
  <2>3. sub' = [sub EXCEPT ![s] = new]
    BY DEF Lapse
  <2> HIDE DEF Row, new
  <2>4. sub' \in [Subs -> Row] /\ sub'[s] = new /\ \A t \in Subs \ {s} : sub'[t] = sub[t]
    BY <2>1, <2>2, <2>3
  <2>5. \A t \in Subs : sub'[t].status = sub[t].status /\ sub'[t].plan = sub[t].plan
    BY <2>2, <2>4
  <2> QED
    BY <2>4, <2>5 DEF Row
<1>3. BillingTypeOK'
  BY <1>1, <1>2 DEF BillingTypeOK
<1>4. NumberInv' /\ FreshInv' /\ BillInv'
  BY <1>1, <1>2 DEF NumberInv, FreshInv, BillInv, Creating, Paying, Billing
<1>5. RowInv'
  BY <1>1, <1>2, SubKeepsRows
<1> QED
  BY <1>3, <1>4, <1>5 DEF RowInv

\* Xendit's own steps: what was collected stays so, what ended unpaid too,
\* and a callback announces what happens.
LEMMA EnvironmentKeeps ==
  ASSUME BillingInv, NEW b \in Bills, FallDue(b) \/ XenditMoves(b)
  PROVE  BillingInv'
<1> USE DEF BillingInv
<1>1. /\ UNCHANGED <<made, sub, invoice, bills, payment, client, hook, faults>>
      /\ xendit[b] \in [state : XenditStates, sub : 0..MaxSubs, overdue : BOOLEAN]
      /\ xendit[b].state # "absent"
  BY DEF FallDue, XenditMoves, BillingTypeOK
<1>2. \/ /\ xendit' = [xendit EXCEPT ![b].overdue = TRUE]
         /\ xendit[b].state = "open" /\ UNCHANGED owed
      \/ \E status \in Fates :
           /\ xendit' = [xendit EXCEPT ![b].state = status]
           /\ IF status = "SETTLED" THEN xendit[b].state = "PAID" ELSE xendit[b].state = "open"
           /\ owed' = owed \cup {[bill |-> b, status |-> status]}
  BY DEF FallDue, XenditMoves
<1>3. \A status \in Fates : status \in {"PAID", "SETTLED", "EXPIRED", "FAILED"}
  BY BillingAssumption DEF BillingAssumption
<1>4. PICK new \in [state : XenditStates, sub : 0..MaxSubs, overdue : BOOLEAN] :
        /\ xendit' = [xendit EXCEPT ![b] = new]
        /\ new.sub = xendit[b].sub /\ new.state # "absent"
        /\ xendit[b].state \in {"open", "PAID"}
        /\ xendit[b].state = "PAID" => new.state \in {"PAID", "SETTLED"}
        /\ \/ new.state = "open" /\ UNCHANGED owed
           \/ /\ new.state \in {"PAID", "SETTLED", "EXPIRED", "FAILED"}
              /\ owed' = owed \cup {[bill |-> b, status |-> new.state]}
  <2>1. CASE xendit' = [xendit EXCEPT ![b].overdue = TRUE] /\ xendit[b].state = "open"
             /\ UNCHANGED owed
    <3> DEFINE new == [xendit[b] EXCEPT !.overdue = TRUE]
    <3>1. /\ new \in [state : XenditStates, sub : 0..MaxSubs, overdue : BOOLEAN]
          /\ new.sub = xendit[b].sub /\ new.state = "open"
      BY <1>1, <2>1
    <3> QED
      BY <2>1, <3>1
  <2>2. ASSUME NEW status \in Fates, xendit' = [xendit EXCEPT ![b].state = status],
               IF status = "SETTLED" THEN xendit[b].state = "PAID" ELSE xendit[b].state = "open",
               owed' = owed \cup {[bill |-> b, status |-> status]}
        PROVE  \E new \in [state : XenditStates, sub : 0..MaxSubs, overdue : BOOLEAN] :
                 /\ xendit' = [xendit EXCEPT ![b] = new]
                 /\ new.sub = xendit[b].sub /\ new.state = status
                 /\ xendit[b].state \in {"open", "PAID"}
                 /\ xendit[b].state = "PAID" => status \in {"PAID", "SETTLED"}
    <3> DEFINE new == [xendit[b] EXCEPT !.state = status]
    <3>1. /\ new \in [state : XenditStates, sub : 0..MaxSubs, overdue : BOOLEAN]
          /\ new.sub = xendit[b].sub /\ new.state = status
      BY <1>1, <1>3 DEF XenditStates
    <3> QED
      BY <2>2, <3>1
  <2> QED
    BY <1>2, <1>3, <2>1, <2>2
<1> DEFINE told == [bill |-> b, status |-> new.state]
<1>5. /\ xendit'[b] = new /\ \A x \in Bills \ {b} : xendit'[x] = xendit[x]
      /\ xendit' \in [Bills -> [state : XenditStates, sub : 0..MaxSubs, overdue : BOOLEAN]]
      /\ \A x \in Bills : xendit'[x].sub = xendit[x].sub
  BY <1>4 DEF BillingTypeOK
<1>6. /\ \A x \in Bills : Collected(x) => Collected(x)'
      /\ \A x \in Bills : EndedUnpaid(x) => EndedUnpaid(x)'
      /\ \A x \in Bills \ {b} : Collected(x)' => Collected(x)
      /\ \A x \in Bills \ {b} : EndedUnpaid(x)' => EndedUnpaid(x)
  BY <1>4, <1>5 DEF Collected, EndedUnpaid
<1>7. /\ \A o \in owed' \ owed : o.bill = b /\ Told(o)'
      /\ owed' \subseteq CallbackOf /\ owed \subseteq owed'
      /\ Collected(b)' /\ ~Collected(b) => \E o \in owed' : o.bill = b
  <2>1. CASE new.state = "open" /\ UNCHANGED owed
    BY <1>5, <2>1 DEF BillingTypeOK, Collected
  <2>2. CASE /\ new.state \in {"PAID", "SETTLED", "EXPIRED", "FAILED"}
             /\ owed' = owed \cup {told}
    <3>1. told.bill = b /\ told.status = new.state /\ told \in CallbackOf
      BY <2>2 DEF CallbackOf, XenditStates
    <3>2. Told(told)'
      BY <1>5, <2>2, <3>1 DEF Told, Collected, EndedUnpaid
    <3> QED
      BY <2>2, <3>1, <3>2 DEF BillingTypeOK
  <2> QED
    BY <1>4, <2>1, <2>2
<1>8. BillingTypeOK' /\ NumberInv' /\ FreshInv' /\ BillInv'
  <2>1. BillingTypeOK'
    BY <1>1, <1>7, <1>5 DEF BillingTypeOK
  <2>2. NumberInv'
    BY <1>1, <1>4, <1>5 DEF NumberInv
  <2>3. FreshInv'
    BY <1>1, <1>5 DEF FreshInv, Creating, Paying
  <2>4. \A x \in Bills : xendit'[x].state = "absent" <=> xendit[x].state = "absent"
    BY <1>1, <1>4, <1>5
  <2>5. BillInv'
    BY <1>1, <2>4 DEF BillInv, Billing
  <2> QED
    BY <2>1, <2>2, <2>3, <2>5
<1>9. CallbackInv'
  <2>1. \A o : Told(o) => Told(o)' /\ (Collected(o.bill)' <=> Collected(o.bill))
    BY <1>4, <1>6, <1>5 DEF Told, Collected, EndedUnpaid
  <2>2. \A o \in owed' : Told(o)'
    BY <1>7, <2>1 DEF CallbackInv
  <2>3. \A x \in Bills : Collected(x)' /\ payment[x] = "absent" => \E o \in owed' : o.bill = x
    BY <1>6, <1>7 DEF CallbackInv
  <2>4. \A h \in Callbacks : hook[h].at # "idle" => hook[h].bill \in Bills
    BY DEF CallbackInv, Told
  <2> QED
    BY <1>1, <1>5, <2>1, <2>2, <2>3, <2>4 DEF CallbackInv
<1>10. ActiveIsPaid'
  BY <1>1, <1>6, <1>5 DEF ActiveIsPaid
<1>11. AnsweredIsApplied'
  <2> SUFFICES ASSUME NEW x \in Bills, Collected(x)', payment[x] # "absent",
                      \A o \in owed' : o.bill # x
               PROVE  payment[x] = "paid" /\ sub[xendit[x].sub].status # "pending_payment"
    BY <1>1, <1>5 DEF AnsweredIsApplied
  <2>1. Collected(x) /\ \A o \in owed : o.bill # x
    BY <1>6, <1>7
  <2> QED
    BY <2>1 DEF AnsweredIsApplied
<1> QED
  BY <1>8, <1>9, <1>10, <1>11

-----------------------------------------------------------------------------
(* HandleWebhook.                                                          *)

SubRows == [Subs -> [status : SubStatuses, plan : Plans \cup {"none"}, lapsed : BOOLEAN]]

\* What a callback in progress has applied, as CallbackInv has it.
Applied(k) ==
  /\ Told(k) /\ payment[k.bill] # "absent"
  /\ k.at = "subscription" => Collected(k.bill)
  /\ k.at \in {"invoice", "subscription", "answer"} /\ Collected(k.bill)
       => payment[k.bill] = "paid"
  /\ k.at = "answer" /\ Collected(k.bill)
       => sub[xendit[k.bill].sub].status # "pending_payment"

\* A step of a callback writes rows that have a bill, takes nothing back from
\* a collected one, and ends what is owed for such a bill once all is applied.
LEMMA HookKeeps ==
  ASSUME BillingInv, NEW h \in Callbacks, NEW to \in HookType, HookGoes(h, to),
         UNCHANGED <<made, bills, xendit, client>>, faults' \in 0..MaxFaults,
         sub' \in SubRows, invoice' \in [Subs -> InvoiceStatuses],
         payment' \in [Bills -> PaymentStatuses], owed' \subseteq owed,
         \A s \in Subs : sub'[s] # sub[s] =>
           /\ sub'[s].status = "active"
           /\ \E b \in Bills : xendit[b].sub = s /\ Collected(b),
         \A s \in Subs : invoice'[s] # invoice[s] =>
           \E b \in Bills : xendit[b].sub = s /\ (invoice'[s] = "paid" => Collected(b)),
         \A b \in Bills : payment'[b] # payment[b] =>
           /\ payment[b] # "absent" /\ payment'[b] # "absent"
           /\ payment'[b] = "paid" <=> Collected(b),
         \A o \in owed \ owed' : payment[o.bill] # "absent" /\
           (Collected(o.bill) =>
              payment[o.bill] = "paid" /\ sub[xendit[o.bill].sub].status # "pending_payment"),
         to.at # "idle" => Applied(to)'
  PROVE  BillingInv'
<1> USE DEF BillingInv
<1>1. /\ \A o : Told(o)' <=> Told(o)
      /\ \A b : Collected(b)' <=> Collected(b)
  BY DEF Told, Collected, EndedUnpaid
<1>2. /\ hook' \in [Callbacks -> HookType] /\ hook'[h] = to
      /\ \A g \in Callbacks \ {h} : hook'[g] = hook[g]
  BY DEF HookGoes, BillingTypeOK, HookType
<1>3. BillingTypeOK'
  BY <1>2 DEF BillingTypeOK, HookType, SubRows
<1>4. NumberInv'
  BY DEF NumberInv
<1>5. FreshInv'
  <2>1. \A c \in Clients : Creating(c) =>
          client[c].sub \in Subs /\ invoice'[client[c].sub] = "absent"
    BY DEF FreshInv
  <2> QED
    BY <2>1 DEF FreshInv, Creating, Paying
<1>6. BillInv'
  <2>1. \A b \in Bills : payment[b] = "absent" => payment'[b] = "absent"
    OBVIOUS
  <2> QED
    BY <2>1 DEF BillInv, Billing
<1>7. \A b \in Bills : Collected(b) =>
        /\ payment[b] = "paid" => payment'[b] = "paid"
        /\ sub[xendit[b].sub].status # "pending_payment" =>
             sub'[xendit[b].sub].status # "pending_payment"
  <2>1. \A b \in Bills : Collected(b) => xendit[b].sub \in Subs
    BY DEF NumberInv, Collected
  <2> QED
    BY <2>1
<1>8. CallbackInv'
  <2>1. \A o \in owed' : Told(o)'
    BY <1>1 DEF CallbackInv
  <2>2. ASSUME NEW b \in Bills, Collected(b), payment'[b] = "absent"
        PROVE  \E o \in owed' : o.bill = b
    <3>1. payment[b] = "absent"
      BY <2>2
    <3>2. PICK o \in owed : o.bill = b
      BY <2>2, <3>1 DEF CallbackInv
    <3> QED
      BY <3>1, <3>2
  <2>3. ASSUME NEW g \in Callbacks, hook'[g].at # "idle"
        PROVE  Applied(hook[g])'
    <3>1. CASE g = h
      BY <1>2, <2>3, <3>1
    <3>2. CASE g # h
      <4>1. Applied(hook[g]) /\ hook'[g] = hook[g] /\ hook[g].bill \in Bills
        BY <1>2, <2>3, <3>2 DEF CallbackInv, Applied, Told
      <4>2. payment'[hook[g].bill] # "absent"
        BY <4>1 DEF Applied
      <4> QED
        BY <1>1, <1>7, <4>1, <4>2 DEF Applied
    <3> QED
      BY <3>1, <3>2
  <2> QED
    BY <1>1, <2>1, <2>2, <2>3 DEF CallbackInv, Applied
<1>9. ActiveIsPaid'
  BY <1>1 DEF ActiveIsPaid
<1>10. AnsweredIsApplied'
  <2> SUFFICES ASSUME NEW b \in Bills, Collected(b), payment'[b] # "absent",
                      \A o \in owed' : o.bill # b
               PROVE  payment'[b] = "paid" /\ sub'[xendit[b].sub].status # "pending_payment"
    BY <1>1 DEF AnsweredIsApplied
  <2>1. payment[b] # "absent"
    OBVIOUS
  <2>2. payment[b] = "paid" /\ sub[xendit[b].sub].status # "pending_payment"
    BY <2>1 DEF AnsweredIsApplied
  <2> QED
    BY <1>7, <2>2
<1> QED
  BY <1>3, <1>4, <1>5, <1>6, <1>8, <1>9, <1>10

\* An error leaves the callback owed.
LEMMA RejectedKeeps ==
  ASSUME BillingInv, NEW h \in Callbacks, Rejected(h)
  PROVE  BillingInv'
<1>1. /\ BillingTypeOK /\ Calm \in HookType /\ Calm.at = "idle"
      /\ UNCHANGED <<made, sub, invoice, bills, payment, xendit, owed, client>>
      /\ HookGoes(h, Calm) /\ faults' \in 0..MaxFaults
  BY BoundType DEF BillingInv, Rejected, Fault, BillingTypeOK, Calm, HookType, XenditStates
<1>2. /\ sub' \in SubRows /\ invoice' \in [Subs -> InvoiceStatuses]
      /\ payment' \in [Bills -> PaymentStatuses]
  BY <1>1 DEF BillingTypeOK, SubRows
<1> QED
  BY <1>1, <1>2, HookKeeps

\* The callback in progress, and what is known of its bill.
LEMMA HookFacts ==
  ASSUME BillingInv, NEW h \in Callbacks, hook[h].at # "idle"
  PROVE  /\ hook[h] \in HookType /\ Applied(hook[h]) /\ hook[h].bill \in Bills
         /\ xendit[hook[h].bill].sub \in Subs
         /\ Recorded(hook[h].status) \in {"paid", "expired", "failed"}
         /\ Recorded(hook[h].status) = "paid" <=> Collected(hook[h].bill)
<1>1. hook[h] \in HookType
  BY DEF BillingInv, BillingTypeOK, HookType
<1>2. Applied(hook[h]) /\ hook[h].bill \in Bills
  BY DEF BillingInv, CallbackInv, Applied, Told
<1>3. xendit[hook[h].bill].sub \in Subs
  BY <1>2 DEF BillingInv, NumberInv, Applied
<1>4. /\ Recorded(hook[h].status) \in {"paid", "expired", "failed"}
      /\ Recorded(hook[h].status) = "paid" <=> Collected(hook[h].bill)
  BY <1>2 DEF Applied, Told, Recorded, Collected, EndedUnpaid
<1> QED
  BY <1>1, <1>2, <1>3, <1>4

LEMMA RowTypes ==
  ASSUME BillingTypeOK
  PROVE  /\ sub \in SubRows /\ invoice \in [Subs -> InvoiceStatuses]
         /\ payment \in [Bills -> PaymentStatuses] /\ owed \subseteq CallbackOf
         /\ faults \in 0..MaxFaults /\ hook \in [Callbacks -> HookType]
BY DEF BillingTypeOK, SubRows, HookType

LEMMA ReceiveKeeps ==
  ASSUME BillingInv, NEW h \in Callbacks, Receive(h)
  PROVE  BillingInv'
<1>1. PICK o \in owed :
        /\ payment[o.bill] # "absent"
        /\ HookGoes(h, [at |-> "payment", bill |-> o.bill, status |-> o.status])
  BY DEF Receive
<1> DEFINE to == [at |-> "payment", bill |-> o.bill, status |-> o.status]
<1>2. UNCHANGED <<made, sub, invoice, bills, payment, xendit, owed, client, faults>>
  BY DEF Receive
<1>3. Told(o) /\ o \in CallbackOf
  BY DEF BillingInv, BillingTypeOK, CallbackInv
<1>4. to \in HookType
  BY <1>3, BoundType DEF CallbackOf, HookType, Bills
<1>5. to.at = "payment" /\ to.bill = o.bill /\ to.status = o.status
  OBVIOUS
<1>6. Applied(to)'
  BY <1>1, <1>2, <1>3, <1>5 DEF Applied, Told, Collected, EndedUnpaid
<1>7. HookGoes(h, to)
  BY <1>1
<1> HIDE DEF to
<1> QED
  BY <1>2, <1>4, <1>6, <1>7, RowTypes, HookKeeps DEF BillingInv

\* The row takes what the callback says, which is what Xendit did.
LEMMA UpdatePaymentKeeps ==
  ASSUME BillingInv, NEW h \in Callbacks, UpdatePayment(h)
  PROVE  BillingInv'
<1>1. CASE Rejected(h)
  BY <1>1, RejectedKeeps
<1>2. CASE /\ payment' = [payment EXCEPT ![hook[h].bill] = Recorded(hook[h].status)]
           /\ HookGoes(h, [hook[h] EXCEPT !.at = "invoice"])
           /\ UNCHANGED <<made, sub, invoice, bills, xendit, owed, client, faults>>
  <2> PICK to, b : to = [hook[h] EXCEPT !.at = "invoice"] /\ b = hook[h].bill
    OBVIOUS
  <2>1. /\ hook[h] \in HookType /\ Applied(hook[h]) /\ b \in Bills
        /\ Recorded(hook[h].status) \in {"paid", "expired", "failed"}
        /\ Recorded(hook[h].status) = "paid" <=> Collected(b)
    BY HookFacts DEF UpdatePayment
  <2>2. /\ to \in HookType /\ to.at = "invoice"
        /\ to.bill = b /\ to.status = hook[h].status
    BY <2>1 DEF HookType
  <2>3. /\ payment' \in [Bills -> PaymentStatuses]
        /\ payment'[b] = Recorded(hook[h].status)
        /\ \A x \in Bills \ {b} : payment'[x] = payment[x]
    BY <1>2, <2>1, RowTypes DEF BillingInv, PaymentStatuses, InvoiceStatuses
  <2>4. Applied(to)'
    BY <1>2, <2>1, <2>2, <2>3 DEF Applied, Told, Collected, EndedUnpaid
  <2>5. \A x \in Bills : payment'[x] # payment[x] =>
          /\ payment[x] # "absent" /\ payment'[x] # "absent"
          /\ payment'[x] = "paid" <=> Collected(x)
    BY <2>1, <2>3 DEF Applied
  <2>6. HookGoes(h, to)
    BY <1>2
  <2> QED
    BY <1>2, <2>2, <2>3, <2>4, <2>5, <2>6, RowTypes, HookKeeps DEF BillingInv
<1> QED
  BY <1>1, <1>2 DEF UpdatePayment

\* A place further on, with the row of the payment as it was.
LEMMA OnwardApplied ==
  ASSUME BillingInv, NEW h \in Callbacks, hook[h].at \in {"invoice", "subscription"},
         NEW at \in {"subscription", "answer"}, UNCHANGED <<payment, xendit>>,
         Collected(hook[h].bill) =>
           \/ at = "subscription"
           \/ sub'[xendit[hook[h].bill].sub].status # "pending_payment",
         at = "subscription" => Collected(hook[h].bill)
  PROVE  \E to \in HookType : to = [hook[h] EXCEPT !.at = at] /\ Applied(to)'
<1> PICK to : to = [hook[h] EXCEPT !.at = at]
  OBVIOUS
<1>1. hook[h] \in HookType /\ Applied(hook[h])
  BY HookFacts
<1>2. to \in HookType /\ to.at = at /\ to.bill = hook[h].bill /\ to.status = hook[h].status
  BY <1>1 DEF HookType
<1>3. Applied(to)'
  BY <1>1, <1>2 DEF Applied, Told, Collected, EndedUnpaid
<1> QED
  BY <1>2, <1>3

LEMMA UpdateInvoiceKeeps ==
  ASSUME BillingInv, NEW h \in Callbacks, UpdateInvoice(h)
  PROVE  BillingInv'
<1> DEFINE b == hook[h].bill
<1>1. /\ hook[h].at = "invoice" /\ b \in Bills /\ xendit[b].sub \in Subs
      /\ Recorded(hook[h].status) \in {"paid", "expired", "failed"}
      /\ Recorded(hook[h].status) = "paid" <=> Collected(b)
  BY HookFacts DEF UpdateInvoice
<1>2. CASE /\ invoice' = [invoice EXCEPT ![xendit[b].sub] = Recorded(hook[h].status)]
           /\ HookGoes(h, [hook[h] EXCEPT !.at = AfterInvoice(h)])
           /\ UNCHANGED <<made, sub, bills, payment, xendit, owed, client, faults>>
  <2>1. /\ invoice' \in [Subs -> InvoiceStatuses]
        /\ invoice'[xendit[b].sub] = Recorded(hook[h].status)
        /\ \A s \in Subs \ {xendit[b].sub} : invoice'[s] = invoice[s]
    BY <1>1, <1>2, RowTypes DEF BillingInv, InvoiceStatuses
  <2>2. \A s \in Subs : invoice'[s] # invoice[s] =>
          \E x \in Bills : xendit[x].sub = s /\ (invoice'[s] = "paid" => Collected(x))
    BY <1>1, <2>1
  <2>3. /\ AfterInvoice(h) \in {"subscription", "answer"}
        /\ AfterInvoice(h) = "subscription" <=> Collected(b)
    BY <1>1 DEF AfterInvoice
  <2>4. PICK to \in HookType :
          to = [hook[h] EXCEPT !.at = AfterInvoice(h)] /\ Applied(to)'
    <3>1. PICK at \in {"subscription", "answer"} : at = AfterInvoice(h)
      BY <2>3
    <3> QED
      BY <1>1, <1>2, <2>3, <3>1, OnwardApplied
  <2> QED
    BY <1>2, <2>1, <2>2, <2>4, RowTypes, HookKeeps DEF BillingInv
<1>3. CASE Rejected(h)
  BY <1>3, RejectedKeeps
<1>4. CASE /\ Recorded(hook[h].status) # "paid" /\ Fault
           /\ HookGoes(h, [hook[h] EXCEPT !.at = "answer"])
           /\ UNCHANGED <<made, sub, invoice, bills, payment, xendit, owed, client>>
  <2>1. PICK to \in HookType : to = [hook[h] EXCEPT !.at = "answer"] /\ Applied(to)'
    BY <1>1, <1>4, OnwardApplied
  <2>2. faults' \in 0..MaxFaults
    BY <1>4, BoundType, RowTypes DEF BillingInv, Fault
  <2> QED
    BY <1>4, <2>1, <2>2, RowTypes, HookKeeps DEF BillingInv
<1> QED
  BY <1>2, <1>3, <1>4 DEF UpdateInvoice

LEMMA ActivateKeeps ==
  ASSUME BillingInv, NEW h \in Callbacks, Activate(h)
  PROVE  BillingInv'
<1>1. CASE Rejected(h)
  BY <1>1, RejectedKeeps
<1>2. CASE /\ Set(xendit[hook[h].bill].sub, "active")
           /\ HookGoes(h, [hook[h] EXCEPT !.at = "answer"])
           /\ UNCHANGED <<made, invoice, bills, payment, xendit, owed, client, faults>>
  <2> PICK b, s : b = hook[h].bill /\ s = xendit[b].sub
    OBVIOUS
  <2>1. /\ hook[h].at = "subscription" /\ Collected(b) /\ b \in Bills /\ s \in Subs
    BY HookFacts DEF Activate, Applied
  <2>2. /\ sub' \in SubRows /\ sub'[s].status = "active"
        /\ \A t \in Subs \ {s} : sub'[t] = sub[t]
    <3> DEFINE Row == [status : SubStatuses, plan : Plans \cup {"none"}, lapsed : BOOLEAN]
               new == [sub[s] EXCEPT !.status = "active"]
    <3>1. sub \in [Subs -> Row] /\ sub[s] \in Row
      BY <2>1 DEF BillingInv, BillingTypeOK
    <3>2. new \in Row /\ new.status = "active"
      BY <3>1 DEF SubStatuses
    <3>3. sub' = [sub EXCEPT ![s] = new]
      BY <1>2 DEF Set
    <3> HIDE DEF Row, new
    <3>4. sub' \in [Subs -> Row] /\ sub'[s] = new /\ \A t \in Subs \ {s} : sub'[t] = sub[t]
      BY <2>1, <3>1, <3>2, <3>3
    <3> QED
      BY <3>2, <3>4 DEF Row, SubRows
  <2>3. PICK to \in HookType : to = [hook[h] EXCEPT !.at = "answer"] /\ Applied(to)'
    BY <1>2, <2>1, <2>2, OnwardApplied
  <2> QED
    BY <1>2, <2>1, <2>2, <2>3, RowTypes, HookKeeps DEF BillingInv
<1> QED
  BY <1>1, <1>2 DEF Activate

LEMMA AnswerKeeps ==
  ASSUME BillingInv, NEW h \in Callbacks, Answer(h)
  PROVE  BillingInv'
<1> PICK o : o = [bill |-> hook[h].bill, status |-> hook[h].status]
  OBVIOUS
<1>1. /\ HookGoes(h, Calm) /\ Calm \in HookType /\ Calm.at = "idle"
      /\ UNCHANGED <<made, sub, invoice, bills, payment, xendit, client>>
  BY BoundType DEF Answer, Calm, HookType, XenditStates
<1>2. owed' \subseteq owed /\ owed \ owed' \subseteq {o} /\ faults' \in 0..MaxFaults
  BY BoundType, RowTypes DEF BillingInv, Answer, Fault
<1>3. /\ payment[o.bill] # "absent"
      /\ Collected(o.bill) =>
           payment[o.bill] = "paid" /\ sub[xendit[o.bill].sub].status # "pending_payment"
  BY HookFacts DEF Answer, Applied
<1> QED
  BY <1>1, <1>2, <1>3, RowTypes, HookKeeps DEF BillingInv

-----------------------------------------------------------------------------
(* What every state and every step has.                                    *)

LEMMA BillingInitInv == Init => BillingInv
<1> SUFFICES ASSUME Init
             PROVE  BillingInv
  OBVIOUS
<1>1. /\ made = 0 /\ bills = 0 /\ faults = 0 /\ owed = {}
      /\ sub = [s \in Subs |-> [status |-> "absent", plan |-> "none", lapsed |-> FALSE]]
      /\ invoice = [s \in Subs |-> "absent"] /\ payment = [b \in Bills |-> "absent"]
      /\ xendit = [b \in Bills |-> [state |-> "absent", sub |-> 0, overdue |-> FALSE]]
      /\ client = [c \in Clients |-> Rest] /\ hook = [h \in Callbacks |-> Calm]
  BY DEF Init
<1>2. BillingTypeOK
  BY <1>1, BoundType DEF BillingTypeOK, SubStatuses, InvoiceStatuses, PaymentStatuses,
     XenditStates, Rest, Calm
<1>3. /\ \A c \in Clients : client[c].at = "idle" /\ client[c].sub = 0 /\ client[c].bill = 0
      /\ \A s \in Subs : sub[s].status = "absent" /\ invoice[s] = "absent"
      /\ \A b \in Bills :
           payment[b] = "absent" /\ xendit[b].state = "absent" /\ xendit[b].sub = 0
      /\ \A h \in Callbacks : hook[h].at = "idle"
  BY <1>1 DEF Rest, Calm
<1>4. NumberInv
  BY <1>1, <1>3 DEF NumberInv
<1>5. FreshInv /\ BillInv
  BY <1>3 DEF FreshInv, BillInv, Creating, Paying, Billing
<1>6. CallbackInv /\ ActiveIsPaid /\ AnsweredIsApplied
  BY <1>1, <1>3 DEF CallbackInv, ActiveIsPaid, AnsweredIsApplied, Collected
<1> QED
  BY <1>2, <1>4, <1>5, <1>6 DEF BillingInv

LEMMA BillingStepInv == BillingInv /\ [Next]_vars => BillingInv'
<1> SUFFICES ASSUME BillingInv, [Next]_vars
             PROVE  BillingInv'
  OBVIOUS
<1>1. CASE \E c \in Clients : ClientStep(c)
  BY <1>1, ClientStepKeeps
<1>2. CASE Environment
  BY <1>2, LapseKeeps, EnvironmentKeeps DEF Environment
<1>3. CASE \E h \in Callbacks : HandleWebhook(h)
  BY <1>3, ReceiveKeeps, UpdatePaymentKeeps, UpdateInvoiceKeeps, ActivateKeeps, AnswerKeeps
  DEF HandleWebhook
<1>4. CASE UNCHANGED vars
  <2> USE <1>4 DEF vars, BillingInv
  <2>1. BillingTypeOK' /\ NumberInv'
    BY DEF BillingTypeOK, NumberInv
  <2>2. FreshInv' /\ BillInv'
    BY DEF FreshInv, BillInv, Creating, Paying, Billing, Told, Collected, EndedUnpaid
  <2>3. CallbackInv'
    BY DEF CallbackInv, Told, Collected, EndedUnpaid
  <2>4. ActiveIsPaid' /\ AnsweredIsApplied'
    BY DEF ActiveIsPaid, AnsweredIsApplied, Told, Collected, EndedUnpaid
  <2> QED
    BY <2>1, <2>2, <2>3, <2>4
<1> QED
  BY <1>1, <1>2, <1>3, <1>4 DEF Next

\* The invariant of every statement of internal/billing/service.go and
\* internal/subscription/service.go.
THEOREM BillingInvariant == Spec => []BillingInv
<1>1. Init => BillingInv
  BY BillingInitInv
<1>2. BillingInv /\ [Next]_vars => BillingInv'
  BY BillingStepInv
<1> QED
  BY <1>1, <1>2, PTL DEF Spec

\* A paid plan is active, an invoice and a payment paid, only for money that
\* Xendit collected, however many requests, callbacks and failures there are
\* (billing/service.go HandleWebhook).
THEOREM ActiveArePaid == Spec => []ActiveIsPaid
<1>1. BillingInv => ActiveIsPaid
  BY DEF BillingInv
<1> QED
  BY <1>1, BillingInvariant, PTL

\* An answered callback of collected money is applied in full (the same).
THEOREM AnswersApplied == Spec => []AnsweredIsApplied
<1>1. BillingInv => AnsweredIsApplied
  BY DEF BillingInv
<1> QED
  BY <1>1, BillingInvariant, PTL

\* Only a callback of an invoice that ended unpaid takes a paid invoice back.
LEMMA InvoiceStep ==
  ASSUME BillingInv, [Next]_vars, NEW s \in Subs, invoice[s] = "paid", invoice'[s] # "paid"
  PROVE  \E b \in Bills : xendit[b].sub = s /\ EndedUnpaid(b)
<1>1. ASSUME NEW c \in Clients, CreateInvoice(c)
      PROVE  FALSE
  <2>1. invoice' = [invoice EXCEPT ![client[c].sub] = "pending"] \/ UNCHANGED invoice
    BY <1>1 DEF CreateInvoice, Fails
  <2>2. invoice[client[c].sub] = "absent"
    BY <1>1 DEF CreateInvoice, Creating, BillingInv, FreshInv
  <2>3. invoice \in [Subs -> InvoiceStatuses]
    BY RowTypes DEF BillingInv
  <2> QED
    BY <2>1, <2>2, <2>3
<1>2. ASSUME NEW h \in Callbacks, UpdateInvoice(h)
      PROVE  \E b \in Bills : xendit[b].sub = s /\ EndedUnpaid(b)
  <2> DEFINE b == hook[h].bill
  <2>1. \/ invoice' = [invoice EXCEPT ![xendit[b].sub] = Recorded(hook[h].status)]
        \/ UNCHANGED invoice
    BY <1>2 DEF UpdateInvoice, Rejected
  <2>2. /\ Applied(hook[h]) /\ b \in Bills
        /\ Recorded(hook[h].status) = "paid" <=> Collected(b)
    BY <1>2, HookFacts DEF UpdateInvoice
  <2>3. invoice \in [Subs -> InvoiceStatuses]
    BY RowTypes DEF BillingInv
  <2>4. s = xendit[b].sub /\ Recorded(hook[h].status) # "paid"
    BY <2>1, <2>3
  <2> QED
    BY <2>2, <2>4 DEF Applied, Told
<1>3. ASSUME NEW c \in Clients, ClientStep(c), ~CreateInvoice(c)
      PROVE  UNCHANGED invoice
  BY <1>3 DEF ClientStep, Subscribe, Admit, StartCancel, FindLapsed, Cancel, Check, Insert,
     Fails, PayInvoice, Bill, CallXendit, CreatePayment, Expire
<1>4. Environment => UNCHANGED invoice
  BY DEF Environment, Lapse, FallDue, XenditMoves
<1>5. ASSUME NEW h \in Callbacks, HandleWebhook(h), ~UpdateInvoice(h)
      PROVE  UNCHANGED invoice
  BY <1>5 DEF HandleWebhook, Receive, UpdatePayment, Rejected, Activate, Answer
<1> QED
  BY <1>1, <1>2, <1>3, <1>4, <1>5 DEF Next, vars

\* A paid invoice stays paid unless another Xendit invoice of it ended
\* without payment (UpdateInvoiceStatus has no guard).
THEOREM PaidStays == Spec => PaidInvoiceStays
<1>1. BillingInv /\ [Next]_vars =>
        [\A s \in Subs :
           invoice[s] = "paid" /\ invoice'[s] # "paid"
           => \E b \in Bills : xendit[b].sub = s /\ EndedUnpaid(b)]_vars
  BY InvoiceStep
<1> QED
  BY <1>1, BillingInvariant, PTL DEF Spec, PaidInvoiceStays

-----------------------------------------------------------------------------
(* A single subscriber.                                                    *)

\* Money that came in is not forgotten, nor what it was for.
LEMMA CollectedStays ==
  ASSUME BillingInv, [Next]_vars, NEW b \in Bills, Collected(b)
  PROVE  Collected(b)' /\ xendit'[b].sub = xendit[b].sub
<1>1. xendit \in [Bills -> [state : XenditStates, sub : 0..MaxSubs, overdue : BOOLEAN]]
  BY DEF BillingInv, BillingTypeOK
<1>2. ASSUME NEW c \in Clients, CallXendit(c)
      PROVE  Collected(b)' /\ xendit'[b].sub = xendit[b].sub
  <2>1. xendit[client[c].bill].state = "absent"
    BY <1>2 DEF CallXendit, BillingInv, BillInv, Billing
  <2>2. client[c].bill # b
    BY <2>1 DEF Collected
  <2>3. \/ UNCHANGED xendit
        \/ xendit' = [xendit EXCEPT ![client[c].bill] =
                        [state |-> "open", sub |-> client[c].sub, overdue |-> FALSE]]
    BY <1>2 DEF CallXendit, Fails
  <2>4. xendit'[b] = xendit[b]
    BY <1>1, <2>2, <2>3
  <2> QED
    BY <2>4 DEF Collected
<1>3. ASSUME NEW x \in Bills, FallDue(x) \/ XenditMoves(x)
      PROVE  Collected(b)' /\ xendit'[b].sub = xendit[b].sub
  <2>1. PICK new : /\ xendit' = [xendit EXCEPT ![x] = new] /\ new.sub = xendit[x].sub
                   /\ Collected(x) => new.state \in {"PAID", "SETTLED"}
    <3>1. CASE FallDue(x)
      BY <1>1, <3>1 DEF FallDue, Collected
    <3>2. CASE XenditMoves(x)
      BY <1>1, <3>2 DEF XenditMoves, Collected
    <3> QED
      BY <1>3, <3>1, <3>2
  <2> QED
    BY <1>1, <2>1 DEF Collected
<1>4. CASE UNCHANGED xendit
  BY <1>4 DEF Collected
<1>5. ASSUME NEW c \in Clients, ClientStep(c), ~CallXendit(c)
      PROVE  UNCHANGED xendit
  BY <1>5 DEF ClientStep, Subscribe, Admit, StartCancel, FindLapsed, Cancel, Check, Insert,
     Fails, CreateInvoice, PayInvoice, Bill, CreatePayment, Expire
<1>6. ASSUME NEW h \in Callbacks, HandleWebhook(h)
      PROVE  UNCHANGED xendit
  BY <1>6 DEF HandleWebhook, Receive, UpdatePayment, UpdateInvoice, Rejected, Activate, Answer
<1>7. \A s \in Subs : Lapse(s) => UNCHANGED xendit
  BY DEF Lapse
<1> QED
  BY <1>2, <1>3, <1>4, <1>5, <1>6, <1>7 DEF Next, Environment, vars

\* The two halves of NewestBlocks.
OnlySubscribers ==
  \A c \in Clients :
    /\ client[c].at \in {"cancel", "check", "insert", "invoice", "expire"} => c \in Subscribers
    /\ client[c].at = "insert" => client[c].sub = made

OlderArePaid ==
  \A s \in Blocking :
    \/ s = made
    \/ sub[s].status = "active" /\ \E b \in Bills : xendit[b].sub = s /\ Collected(b)

LEMMA ReservedMove ==
  ASSUME BillingTypeOK, OnlySubscribers, \A c, d \in Subscribers : c = d,
         NEW c \in Clients, NEW call, Goes(c, call),
         call.at \in {"cancel", "check", "insert", "invoice", "expire"} => c \in Subscribers,
         call.at = "insert" => call.sub = made',
         UNCHANGED made \/ c \in Subscribers
  PROVE  OnlySubscribers'
<1>1. client' = [client EXCEPT ![c] = call] /\ client \in [Clients -> CallType]
  BY DEF Goes, BillingTypeOK, CallType
<1>2. client'[c] = call /\ \A d \in Clients \ {c} : client'[d] = client[d]
  BY <1>1
<1> SUFFICES ASSUME NEW d \in Clients
             PROVE  /\ client'[d].at \in {"cancel", "check", "insert", "invoice", "expire"}
                         => d \in Subscribers
                    /\ client'[d].at = "insert" => client'[d].sub = made'
  BY DEF OnlySubscribers
<1> QED
  BY <1>2 DEF OnlySubscribers

LEMMA SubscribersStep ==
  ASSUME BillingInv, OnlySubscribers, \A c, d \in Subscribers : c = d, [Next]_vars
  PROVE  OnlySubscribers'
<1> USE BoundType DEF BillingInv
<1>1. ASSUME NEW c \in Clients, ClientStep(c)
      PROVE  OnlySubscribers'
  <2>1. BillingTypeOK /\ client[c] \in CallType
    BY DEF BillingTypeOK, CallType
  <2>2. \A place : On(c, place).at = place /\ On(c, place).sub = client[c].sub
    BY <2>1 DEF On, CallType
  <2>3. Rest.at = "idle"
    BY DEF Rest
  <2>4. ASSUME NEW plan, Admit(c, plan), c \in Subscribers
        PROVE  OnlySubscribers'
    BY <2>1, <2>4, ReservedMove DEF Admit
  <2>5. CASE Fails(c)
    BY <2>1, <2>3, <2>5, ReservedMove DEF Fails
  <2>6. CASE c \in Subscribers /\ (Subscribe(c) \/ StartCancel(c) \/ FindLapsed(c))
    BY <2>1, <2>4, <2>6, ReservedMove DEF Subscribe, StartCancel, FindLapsed
  <2>7. CASE Cancel(c) \/ Expire(c)
    <3>1. c \in Subscribers
      BY <2>7 DEF Cancel, Expire, OnlySubscribers
    <3> QED
      BY <2>1, <2>2, <2>3, <2>7, <3>1, ReservedMove DEF Cancel, Expire
  <2>8. CASE Check(c)
    <3>1. c \in Subscribers
      BY <2>8 DEF Check, OnlySubscribers
    <3> QED
      BY <2>1, <2>3, <2>4, <2>8, <3>1, ReservedMove DEF Check
  <2>9. CASE Insert(c) \/ CreateInvoice(c)
    <3>1. c \in Subscribers
      BY <2>9 DEF Insert, CreateInvoice, OnlySubscribers
    <3> QED
      BY <2>1, <2>2, <2>3, <2>5, <2>9, <3>1, ReservedMove DEF Insert, CreateInvoice
  <2>10. CASE PayInvoice(c)
    BY <2>1, <2>3, <2>10, ReservedMove DEF PayInvoice, Bill
  <2>11. CASE CallXendit(c) \/ CreatePayment(c)
    BY <2>1, <2>2, <2>3, <2>5, <2>11, ReservedMove DEF CallXendit, CreatePayment
  <2> QED
    BY <1>1, <2>6, <2>7, <2>8, <2>9, <2>10, <2>11 DEF ClientStep
<1>2. CASE UNCHANGED <<client, made>>
  BY <1>2 DEF OnlySubscribers
<1>3. Environment => UNCHANGED <<client, made>>
  BY DEF Environment, Lapse, FallDue, XenditMoves
<1>4. \A h \in Callbacks : HandleWebhook(h) => UNCHANGED <<client, made>>
  BY DEF HandleWebhook, Receive, UpdatePayment, UpdateInvoice, Rejected, Activate, Answer
<1> QED
  BY <1>1, <1>2, <1>3, <1>4 DEF Next, vars

\* A row that blocks afterwards blocked before in the same way, is the newest,
\* or has just been paid.
LEMMA OlderKept ==
  ASSUME BillingInv, OlderArePaid, [Next]_vars, UNCHANGED made,
         \A s \in Subs : sub'[s].status \in {"active", "trial", "pending_payment"} =>
           \/ sub'[s].status = sub[s].status
           \/ s = made
           \/ sub'[s].status = "active" /\ \E b \in Bills : xendit[b].sub = s /\ Collected(b)
  PROVE  OlderArePaid'
<1> SUFFICES ASSUME NEW s \in Subs,
                    sub'[s].status \in {"active", "trial", "pending_payment"}, s # made
             PROVE  sub'[s].status = "active" /\ \E b \in Bills : (xendit[b].sub = s /\ Collected(b))'
  BY DEF OlderArePaid, Blocking, WithStatus
<1>1. sub'[s].status = "active" /\ \E b \in Bills : xendit[b].sub = s /\ Collected(b)
  BY DEF OlderArePaid, Blocking, WithStatus
<1> QED
  BY <1>1, CollectedStays

LEMMA OlderStep ==
  ASSUME BillingInv, OnlySubscribers, OlderArePaid, [Next]_vars
  PROVE  OlderArePaid'
<1>1. sub \in SubRows
  BY RowTypes DEF BillingInv
<1>2. ASSUME NEW c \in Clients, ClientStep(c)
      PROVE  OlderArePaid'
  <2>1. ASSUME NEW plan, Admit(c, plan)
        PROVE  OlderArePaid'
    BY <2>1 DEF Admit, OlderArePaid, Blocking, WithStatus
  <2>2. CASE UNCHANGED <<sub, made>>
    BY <2>2, OlderKept
  <2>3. ASSUME NEW s, NEW status \in {"cancelled", "expired"}, Set(s, status), UNCHANGED made
        PROVE  OlderArePaid'
    <3>1. \A t \in Subs : sub'[t].status \in {"active", "trial", "pending_payment"} =>
            sub'[t].status = sub[t].status
      BY <1>1, <2>3 DEF Set, SubRows
    <3> QED
      BY <2>3, <3>1, OlderKept
  <2>4. CASE Cancel(c) \/ Expire(c)
    BY <2>2, <2>3, <2>4 DEF Cancel, Expire
  <2>5. CASE Insert(c)
    <3>1. client[c].sub = made
      BY <2>5 DEF Insert, OnlySubscribers
    <3>2. \/ UNCHANGED <<sub, made>>
          \/ UNCHANGED made /\ \A t \in Subs \ {made} : sub'[t] = sub[t]
      BY <1>1, <2>5, <3>1 DEF Insert, Fails, SubRows
    <3> QED
      BY <2>2, <3>2, OlderKept
  <2> QED
    BY <1>2, <2>1, <2>2, <2>4, <2>5
    DEF ClientStep, Subscribe, StartCancel, FindLapsed, Check, CreateInvoice, PayInvoice, Bill,
        CallXendit, CreatePayment, Fails
<1>3. ASSUME NEW s \in Subs, Lapse(s)
      PROVE  OlderArePaid'
  <2>1. UNCHANGED made /\ \A t \in Subs : sub'[t].status = sub[t].status
    BY <1>1, <1>3 DEF Lapse, SubRows
  <2> QED
    BY <2>1, OlderKept
<1>4. ASSUME NEW h \in Callbacks, Activate(h)
      PROVE  OlderArePaid'
  <2> PICK b, s : b = hook[h].bill /\ s = xendit[b].sub
    OBVIOUS
  <2>1. b \in Bills /\ Collected(b) /\ s \in Subs
    BY <1>4, HookFacts DEF Activate, Applied
  <2>2. Set(s, "active") \/ UNCHANGED sub
    BY <1>4 DEF Activate, Rejected
  <2>3. \A t \in Subs \ {s} : sub'[t] = sub[t]
    BY <1>1, <2>2 DEF Set, SubRows
  <2>4. sub'[s].status \in {"active", sub[s].status}
    <3>1. CASE UNCHANGED sub
      BY <3>1
    <3>2. CASE Set(s, "active")
      <4> PICK k : k = [sub[s] EXCEPT !.status = "active"]
        OBVIOUS
      <4>1. k.status = "active"
        BY <1>1, <2>1 DEF SubRows
      <4>2. sub' = [sub EXCEPT ![s] = k]
        BY <3>2 DEF Set
      <4> QED
        BY <1>1, <2>1, <4>1, <4>2 DEF SubRows
    <3> QED
      BY <2>2, <3>1, <3>2
  <2>5. UNCHANGED made
    BY <1>4 DEF Activate, Rejected
  <2> QED
    BY <2>1, <2>3, <2>4, <2>5, OlderKept
<1>5. CASE UNCHANGED <<sub, made>>
  BY <1>5, OlderKept
<1>6. \A b \in Bills : FallDue(b) \/ XenditMoves(b) => UNCHANGED <<sub, made>>
  BY DEF FallDue, XenditMoves
<1>7. \A h \in Callbacks :
        Receive(h) \/ UpdatePayment(h) \/ UpdateInvoice(h) \/ Answer(h) => UNCHANGED <<sub, made>>
  BY DEF Receive, UpdatePayment, UpdateInvoice, Rejected, Answer
<1> QED
  BY <1>2, <1>3, <1>4, <1>5, <1>6, <1>7 DEF Next, Environment, HandleWebhook, vars

\* With one request at a time that changes subscriptions, two count only when
\* money came in for the older one after it was given up: Subscribe's check
\* suffices then, whatever the callbacks do.
THEOREM OneSubscriberOneBlocking ==
  ASSUME \A c, d \in Subscribers : c = d
  PROVE  Spec => [](NewestBlocks /\ OneBlocking)
<1>1. Init => NewestBlocks
  BY DEF Init, Rest, NewestBlocks, Blocking, WithStatus
<1>2. NewestBlocks <=> OnlySubscribers /\ OlderArePaid
  BY DEF NewestBlocks, OnlySubscribers, OlderArePaid
<1>3. NewestBlocks' <=> OnlySubscribers' /\ OlderArePaid'
  BY DEF NewestBlocks, OnlySubscribers, OlderArePaid
<1>4. BillingInv /\ NewestBlocks /\ [Next]_vars => NewestBlocks'
  BY <1>2, <1>3, SubscribersStep, OlderStep
<1>5. BillingInv /\ NewestBlocks => OneBlocking
  <2> SUFFICES ASSUME BillingInv, NewestBlocks, NEW s \in Blocking, NEW t \in Blocking, s < t
               PROVE  sub[s].status = "active" /\ \E b \in Bills : xendit[b].sub = s /\ Collected(b)
    BY DEF OneBlocking
  <2>1. t <= made /\ s \in Nat /\ t \in Nat /\ made \in Nat
    BY BoundType DEF BillingInv, BillingTypeOK, NumberInv, Blocking, WithStatus, Subs
  <2> QED
    BY <2>1 DEF NewestBlocks
<1> QED
  BY <1>1, <1>4, <1>5, BillingInvariant, PTL DEF Spec
=============================================================================
