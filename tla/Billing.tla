------------------------------ MODULE Billing ------------------------------
(***************************************************************************)
(* Subscriptions and payments of one workspace: the service calls of       *)
(* internal/subscription/service.go and internal/billing/service.go, and   *)
(* the Xendit payment gateway they talk to.                                *)
(*                                                                         *)
(* No call uses a database transaction: every statement commits on its     *)
(* own and is a step here, and a call may end after any of them (an error, *)
(* a dropped request, a crash).  What a call has read before stays in its  *)
(* record.  CreateInvoice is called by Subscribe only, so a subscription   *)
(* has at most one invoice and shares its number.  A step of a client      *)
(* either works or fails and ends the call; amounts are not told apart.    *)
(***************************************************************************)
EXTENDS Integers, FiniteSets, FiniteSetsExt

CONSTANTS
  Clients,      \* concurrent requests of users
  Subscribers,  \* those of them that change subscriptions; all may pay
  Callbacks,    \* concurrent webhook requests
  Plans,        \* the plans on offer, by how a subscription to them starts
  Fates,        \* what may become of an invoice at Xendit
  MaxSubs, MaxBills,  \* bounds on subscriptions and on Xendit invoices
  MaxFaults     \* bound on failed statements, calls and lost answers

ASSUME BillingAssumption ==
  /\ Subscribers \subseteq Clients
  /\ Plans \subseteq {"free", "trial", "paid"}
  /\ Fates \subseteq {"PAID", "SETTLED", "EXPIRED", "FAILED"}
  /\ MaxSubs \in Nat /\ MaxBills \in Nat /\ MaxFaults \in Nat

VARIABLES
  made,     \* subscriptions so far; their numbers follow created_at
  sub,      \* sub[s]: row of tenant_subscriptions, lapsed once past expires_at
  invoice,  \* invoice[s]: status of the invoice of s
  bills,    \* payments begun so far; their numbers follow created_at
  payment,  \* payment[b]: status of the payments row of b
  xendit,   \* xendit[b]: the invoice at Xendit, overdue once past expired_at
  owed,     \* callbacks that Xendit keeps sending until one is answered 200
  client,   \* client[c]: the call in progress in c
  hook,     \* hook[h]: the callback in progress in h
  faults    \* faults so far

vars == <<made, sub, invoice, bills, payment, xendit, owed, client, hook, faults>>

Subs  == 1..MaxSubs
Bills == 1..MaxBills

SubStatuses ==
  {"absent", "pending_payment", "active", "trial", "cancelled", "expired"}
InvoiceStatuses == {"absent", "pending", "paid", "expired", "failed"}
PaymentStatuses == InvoiceStatuses
XenditStates    == {"absent", "open", "PAID", "SETTLED", "EXPIRED", "FAILED"}
CallbackOf      == [bill : Bills, status : XenditStates \ {"absent", "open"}]

Rest == [at |-> "idle", sub |-> 0, plan |-> "none", bill |-> 0]
Calm == [at |-> "idle", bill |-> 0, status |-> "open"]

Init ==
  /\ made = 0
  /\ sub = [s \in Subs |-> [status |-> "absent", plan |-> "none", lapsed |-> FALSE]]
  /\ invoice = [s \in Subs |-> "absent"]
  /\ bills = 0
  /\ payment = [b \in Bills |-> "absent"]
  /\ xendit = [b \in Bills |-> [state |-> "absent", sub |-> 0, overdue |-> FALSE]]
  /\ owed = {}
  /\ client = [c \in Clients |-> Rest]
  /\ hook = [h \in Callbacks |-> Calm]
  /\ faults = 0

-----------------------------------------------------------------------------
(* Queries.                                                                *)

WithStatus(S) == {s \in Subs : sub[s].status \in S}

\* GetActiveSubscription, GetSubscriptionWithPlan.
Active == WithStatus({"active", "trial"})

\* GetBlockingSubscription.
Blocking == WithStatus({"active", "trial", "pending_payment"})

\* GetPendingPaymentByInvoice.
Pending(s) == {b \in Bills : xendit[b].sub = s /\ payment[b] = "pending"}

\* The newest pending payment is handed out again while it is valid.
Reusable(s) == Pending(s) # {} /\ ~xendit[Max(Pending(s))].overdue

Collected(b) == xendit[b].state \in {"PAID", "SETTLED"}

EndedUnpaid(b) == xendit[b].state \in {"EXPIRED", "FAILED"}

Fault == faults < MaxFaults /\ faults' = faults + 1

Goes(c, call) == client' = [client EXCEPT ![c] = call]

On(c, place) == [client[c] EXCEPT !.at = place]

Set(s, status) == sub' = [sub EXCEPT ![s].status = status]

\* A statement of c that does not work ends the call.
Fails(c) ==
  /\ Fault
  /\ Goes(c, Rest)
  /\ UNCHANGED <<made, sub, invoice, bills, payment, xendit, owed, hook>>

-----------------------------------------------------------------------------
(* Calls of clients.                                                       *)

\* Faulty variant: a subscription that waits for payment does not count.
AdmitUnlessActive(c, plan) ==
  /\ Active = {}
  /\ made < MaxSubs
  /\ made' = made + 1
  /\ Goes(c, [at |-> "insert", sub |-> made + 1, plan |-> plan, bill |-> 0])
  /\ UNCHANGED <<sub, invoice, bills, payment, xendit, owed, hook, faults>>

\* Subscribe up to the INSERT: nothing blocks, and created_at is taken.
Admit(c, plan) ==
  /\ Blocking = {}
  /\ made < MaxSubs
  /\ made' = made + 1
  /\ Goes(c, [at |-> "insert", sub |-> made + 1, plan |-> plan, bill |-> 0])
  /\ UNCHANGED <<sub, invoice, bills, payment, xendit, owed, hook, faults>>

\* Subscribe, StartTrial, and ChangePlan when nothing is to be cancelled.
Subscribe(c) ==
  /\ client[c].at = "idle"
  /\ \E plan \in Plans : Admit(c, plan)

\* Cancel, and ChangePlan with the plan to subscribe to next.
StartCancel(c) ==
  /\ client[c].at = "idle"
  /\ Blocking # {}
  /\ \E plan \in Plans \cup {"none"} :
       Goes(c, [at |-> "cancel", sub |-> Max(Blocking), plan |-> plan, bill |-> 0])
  /\ UNCHANGED <<made, sub, invoice, bills, payment, xendit, owed, hook, faults>>

\* ChangePlan ignores an error of the UPDATE.
Cancel(c) ==
  /\ client[c].at = "cancel"
  /\ \/ Set(client[c].sub, "cancelled") /\ UNCHANGED faults
     \/ Fault /\ UNCHANGED sub
  /\ Goes(c, IF client[c].plan = "none" THEN Rest ELSE On(c, "check"))
  /\ UNCHANGED <<made, invoice, bills, payment, xendit, owed, hook>>

Check(c) ==
  /\ client[c].at = "check"
  /\ \/ Admit(c, client[c].plan)
     \/ /\ Blocking # {}
        /\ Goes(c, Rest)
        /\ UNCHANGED <<made, sub, invoice, bills, payment, xendit, owed, hook, faults>>

FirstStatus(plan) ==
  CASE plan = "free" -> "active"
    [] plan = "trial" -> "trial"
    [] plan = "paid" -> "pending_payment"

Insert(c) ==
  /\ client[c].at = "insert"
  /\ \/ /\ sub' = [sub EXCEPT ![client[c].sub] =
                     [@ EXCEPT !.status = FirstStatus(client[c].plan),
                               !.plan = client[c].plan]]
        /\ Goes(c, IF client[c].plan = "paid" THEN On(c, "invoice") ELSE Rest)
        /\ UNCHANGED <<made, invoice, bills, payment, xendit, owed, hook, faults>>
     \/ Fails(c)

CreateInvoice(c) ==
  /\ client[c].at = "invoice"
  /\ \/ /\ invoice' = [invoice EXCEPT ![client[c].sub] = "pending"]
        /\ Goes(c, On(c, "pay"))
        /\ UNCHANGED <<made, sub, bills, payment, xendit, owed, hook, faults>>
     \/ Fails(c)

\* PayInvoice up to the call of Xendit.
Bill(c, s) ==
  /\ invoice[s] # "paid"
  /\ ~Reusable(s)
  /\ bills < MaxBills
  /\ bills' = bills + 1
  /\ Goes(c, [at |-> "xendit", sub |-> s, plan |-> "none", bill |-> bills + 1])
  /\ UNCHANGED <<made, sub, invoice, payment, xendit, owed, hook, faults>>

\* A client pays an invoice it sees, or Subscribe goes on to pay it.
PayInvoice(c) ==
  \/ /\ client[c].at = "idle"
     /\ \E s \in Subs : invoice[s] # "absent" /\ Bill(c, s)
  \/ /\ client[c].at = "pay"
     /\ \/ Bill(c, client[c].sub)
        \/ /\ invoice[client[c].sub] = "paid" \/ Reusable(client[c].sub)
           /\ Goes(c, Rest)
           /\ UNCHANGED <<made, sub, invoice, bills, payment, xendit, owed, hook, faults>>

\* The request may fail on either side of Xendit's work.
CallXendit(c) ==
  /\ client[c].at = "xendit"
  /\ \/ /\ xendit' = [xendit EXCEPT ![client[c].bill] =
                        [state |-> "open", sub |-> client[c].sub, overdue |-> FALSE]]
        /\ \/ Goes(c, On(c, "store")) /\ UNCHANGED faults
           \/ Goes(c, Rest) /\ Fault
        /\ UNCHANGED <<made, sub, invoice, bills, payment, owed, hook>>
     \/ Fails(c)

\* Faulty variant: a new payment makes the invoice pending again.
CreatePaymentReopens(c) ==
  /\ client[c].at = "store"
  /\ payment' = [payment EXCEPT ![client[c].bill] = "pending"]
  /\ invoice' = [invoice EXCEPT ![client[c].sub] = "pending"]
  /\ Goes(c, Rest)
  /\ UNCHANGED <<made, sub, bills, xendit, owed, hook, faults>>

CreatePayment(c) ==
  /\ client[c].at = "store"
  /\ \/ /\ payment' = [payment EXCEPT ![client[c].bill] = "pending"]
        /\ Goes(c, Rest)
        /\ UNCHANGED <<made, sub, invoice, bills, xendit, owed, hook, faults>>
     \/ Fails(c)

\* GetActiveSubscription finds the newest one past its date.
FindLapsed(c) ==
  /\ client[c].at = "idle"
  /\ Active # {} /\ sub[Max(Active)].lapsed
  /\ Goes(c, [at |-> "expire", sub |-> Max(Active), plan |-> "none", bill |-> 0])
  /\ UNCHANGED <<made, sub, invoice, bills, payment, xendit, owed, hook, faults>>

Expire(c) ==
  /\ client[c].at = "expire"
  /\ \/ Set(client[c].sub, "expired") /\ UNCHANGED faults
     \/ Fault /\ UNCHANGED sub
  /\ Goes(c, Rest)
  /\ UNCHANGED <<made, invoice, bills, payment, xendit, owed, hook>>

ClientStep(c) ==
  \/ c \in Subscribers /\ (Subscribe(c) \/ StartCancel(c) \/ FindLapsed(c))
  \/ Cancel(c) \/ Check(c) \/ Insert(c) \/ CreateInvoice(c) \/ PayInvoice(c)
  \/ CallXendit(c) \/ CreatePayment(c) \/ Expire(c)

-----------------------------------------------------------------------------
(* Time and Xendit.                                                        *)

\* expires_at passes; before the subscription is active nothing looks at it.
\* A paid plan without a billing cycle has none, nor has a free one.
Lapse(s) ==
  /\ s \in Active /\ sub[s].plan # "free" /\ ~sub[s].lapsed
  /\ sub' = [sub EXCEPT ![s].lapsed = TRUE]
  /\ UNCHANGED <<made, invoice, bills, payment, xendit, owed, client, hook, faults>>

\* The 24 hours of a payment start before those of its Xendit invoice.
FallDue(b) ==
  /\ xendit[b].state = "open" /\ ~xendit[b].overdue
  /\ xendit' = [xendit EXCEPT ![b].overdue = TRUE]
  /\ UNCHANGED <<made, sub, invoice, bills, payment, owed, client, hook, faults>>

\* What becomes of an invoice at Xendit: one of PAID (and then SETTLED),
\* EXPIRED and FAILED, each with a callback.
XenditMoves(b) ==
  /\ \E status \in Fates :
       /\ IF status = "SETTLED" THEN xendit[b].state = "PAID"
                                ELSE xendit[b].state = "open"
       /\ status = "EXPIRED" => xendit[b].overdue
       /\ xendit' = [xendit EXCEPT ![b].state = status]
       /\ owed' = owed \cup {[bill |-> b, status |-> status]}
  /\ UNCHANGED <<made, sub, invoice, bills, payment, client, hook, faults>>

Environment == (\E s \in Subs : Lapse(s)) \/ \E b \in Bills : FallDue(b) \/ XenditMoves(b)

-----------------------------------------------------------------------------
(* HandleWebhook.                                                          *)

HookGoes(h, to) == hook' = [hook EXCEPT ![h] = to]

\* An error is answered with 400 and the callback comes again.
Rejected(h) ==
  /\ Fault
  /\ HookGoes(h, Calm)
  /\ UNCHANGED <<made, sub, invoice, bills, payment, xendit, owed, client>>

\* Faulty variant: an unknown payment is answered with 200.
ReceiveDropsUnknown(h) ==
  /\ hook[h].at = "idle"
  /\ \/ \E o \in owed :
          /\ payment[o.bill] # "absent"
          /\ HookGoes(h, [at |-> "payment", bill |-> o.bill, status |-> o.status])
          /\ UNCHANGED owed
     \/ \E o \in owed :
          /\ payment[o.bill] = "absent"
          /\ owed' = owed \ {o}
          /\ UNCHANGED hook
  /\ UNCHANGED <<made, sub, invoice, bills, payment, xendit, client, faults>>

\* A callback whose payment is not stored is answered with 400.
Receive(h) ==
  /\ hook[h].at = "idle"
  /\ \E o \in owed :
       /\ payment[o.bill] # "absent"
       /\ HookGoes(h, [at |-> "payment", bill |-> o.bill, status |-> o.status])
  /\ UNCHANGED <<made, sub, invoice, bills, payment, xendit, owed, client, faults>>

\* The status of the payment and of the invoice after a callback.
Recorded(status) ==
  CASE status \in {"PAID", "SETTLED"} -> "paid"
    [] status = "EXPIRED" -> "expired"
    [] status = "FAILED" -> "failed"

UpdatePayment(h) ==
  /\ hook[h].at = "payment"
  /\ \/ /\ payment' = [payment EXCEPT ![hook[h].bill] = Recorded(hook[h].status)]
        /\ HookGoes(h, [hook[h] EXCEPT !.at = "invoice"])
        /\ UNCHANGED <<made, sub, invoice, bills, xendit, owed, client, faults>>
     \/ Rejected(h)

\* Faulty variant: the three cases fall through.
FallsThrough(h) == "subscription"

\* Only a collected payment goes on to the subscription.
AfterInvoice(h) ==
  IF Recorded(hook[h].status) = "paid" THEN "subscription" ELSE "answer"

\* MarkInvoicePaid stops at an error, UpdateInvoiceStatus ignores it.
UpdateInvoice(h) ==
  /\ hook[h].at = "invoice"
  /\ \/ /\ invoice' = [invoice EXCEPT ![xendit[hook[h].bill].sub] = Recorded(hook[h].status)]
        /\ HookGoes(h, [hook[h] EXCEPT !.at = AfterInvoice(h)])
        /\ UNCHANGED <<made, sub, bills, payment, xendit, owed, client, faults>>
     \/ /\ Recorded(hook[h].status) = "paid"
        /\ Rejected(h)
     \/ /\ Recorded(hook[h].status) # "paid"
        /\ Fault
        /\ HookGoes(h, [hook[h] EXCEPT !.at = "answer"])
        /\ UNCHANGED <<made, sub, invoice, bills, payment, xendit, owed, client>>

\* Faulty variant: the error of the last UPDATE is ignored.
ActivateIgnoresError(h) ==
  /\ hook[h].at = "subscription"
  /\ \/ Set(xendit[hook[h].bill].sub, "active") /\ UNCHANGED faults
     \/ Fault /\ UNCHANGED sub
  /\ HookGoes(h, [hook[h] EXCEPT !.at = "answer"])
  /\ UNCHANGED <<made, invoice, bills, payment, xendit, owed, client>>

Activate(h) ==
  /\ hook[h].at = "subscription"
  /\ \/ /\ Set(xendit[hook[h].bill].sub, "active")
        /\ HookGoes(h, [hook[h] EXCEPT !.at = "answer"])
        /\ UNCHANGED <<made, invoice, bills, payment, xendit, owed, client, faults>>
     \/ Rejected(h)

\* Xendit gets the 200, or not and sends the callback again.
Answer(h) ==
  /\ hook[h].at = "answer"
  /\ HookGoes(h, Calm)
  /\ \/ owed' = owed \ {[bill |-> hook[h].bill, status |-> hook[h].status]} /\ UNCHANGED faults
     \/ Fault /\ UNCHANGED owed
  /\ UNCHANGED <<made, sub, invoice, bills, payment, xendit, client>>

HandleWebhook(h) ==
  Receive(h) \/ UpdatePayment(h) \/ UpdateInvoice(h) \/ Activate(h) \/ Answer(h)

Next ==
  (\E c \in Clients : ClientStep(c)) \/ Environment \/ \E h \in Callbacks : HandleWebhook(h)

Spec == Init /\ [][Next]_vars

\* Xendit keeps sending and the server keeps answering.
FairSpec == Spec /\ \A h \in Callbacks : WF_vars(HandleWebhook(h))

-----------------------------------------------------------------------------
(* Properties.                                                             *)

\* The rows stay within the CHECK constraints of migrations 008 and 013, and
\* the calls within what they may hold.
BillingTypeOK ==
  /\ made \in 0..MaxSubs /\ bills \in 0..MaxBills /\ faults \in 0..MaxFaults
  /\ sub \in [Subs -> [status : SubStatuses, plan : Plans \cup {"none"}, lapsed : BOOLEAN]]
  /\ invoice \in [Subs -> InvoiceStatuses]
  /\ payment \in [Bills -> PaymentStatuses]
  /\ xendit \in [Bills -> [state : XenditStates, sub : 0..MaxSubs, overdue : BOOLEAN]]
  /\ owed \subseteq CallbackOf
  /\ client \in [Clients -> [at : {"idle", "cancel", "check", "insert", "invoice", "pay",
                                   "xendit", "store", "expire"},
                             sub : 0..MaxSubs, plan : Plans \cup {"none"}, bill : 0..MaxBills]]
  /\ hook \in [Callbacks -> [at : {"idle", "payment", "invoice", "subscription", "answer"},
                             bill : 0..MaxBills, status : XenditStates]]

\* A paid plan is active, and an invoice or a payment paid, only if Xendit
\* collected the money (billing/service.go HandleWebhook).
ActiveIsPaid ==
  /\ \A s \in Subs :
       \/ sub[s].status = "active" /\ sub[s].plan = "paid"
       \/ invoice[s] = "paid"
       => \E b \in Bills : xendit[b].sub = s /\ Collected(b)
  /\ \A b \in Bills : payment[b] = "paid" => Collected(b)

\* Three statements apply a callback and any may fail: once Xendit has
\* nothing left to send for a collected payment that has a row, that row says
\* paid and the subscription no longer waits for payment.
AnsweredIsApplied ==
  \A b \in Bills :
    Collected(b) /\ payment[b] # "absent" /\ (\A o \in owed : o.bill # b)
    => payment[b] = "paid" /\ sub[xendit[b].sub].status # "pending_payment"

\* With one client at a time subscribing, a workspace holds two subscriptions
\* only when money came in for the older one after it was given up
\* (Subscribe's check against UpdateSubscriptionStatus without a guard).
OneBlocking ==
  \A s, t \in Blocking :
    s < t => sub[s].status = "active" /\ \E b \in Bills : xendit[b].sub = s /\ Collected(b)

\* An invoice stops being paid only through another Xendit invoice of it that
\* ended without payment (UpdateInvoiceStatus has no guard).
PaidInvoiceStays ==
  [][\A s \in Subs :
       invoice[s] = "paid" /\ invoice'[s] # "paid"
       => \E b \in Bills : xendit[b].sub = s /\ EndedUnpaid(b)]_vars

\* Money collected for a payment that has a row ends the wait for payment,
\* whatever fails and whichever comes first, the row or the callback.
CollectedActivates ==
  \A b \in Bills :
    Collected(b) /\ payment[b] # "absent"
    ~> xendit[b].sub \notin WithStatus({"pending_payment"})

-----------------------------------------------------------------------------
(* The invariants behind ActiveIsPaid, AnsweredIsApplied, PaidInvoiceStays *)
(* and OneBlocking.                                                        *)

\* Only numbers given out are in use.
NumberInv ==
  /\ \A c \in Clients : client[c].sub <= made /\ client[c].bill <= bills
  /\ \A s \in Subs : sub[s].status # "absent" \/ invoice[s] # "absent" => s <= made
  /\ \A b \in Bills :
       /\ xendit[b].sub <= made
       /\ xendit[b].state # "absent" => xendit[b].sub \in Subs /\ b <= bills
       /\ payment[b] # "absent" => xendit[b].state # "absent"

Creating(c) == client[c].at \in {"insert", "invoice"}
Paying(c)   == client[c].at \in {"pay", "xendit"}
Billing(c)  == client[c].at \in {"xendit", "store"}

\* Until its invoice is there a subscription is the business of the call that
\* creates it, and nothing is owed for it.
FreshInv ==
  \A c \in Clients :
    /\ client[c].at \in {"check", "insert"} => client[c].plan \in Plans
    /\ Creating(c) \/ Paying(c) => client[c].sub \in Subs
    /\ Creating(c) =>
         /\ invoice[client[c].sub] = "absent"
         /\ \A b \in Bills : xendit[b].sub # client[c].sub
         /\ \A d \in Clients \ {c} :
              Creating(d) \/ Paying(d) => client[d].sub # client[c].sub

\* A payment belongs to the call that makes it until its row is there.
BillInv ==
  \A c \in Clients :
    Billing(c) =>
      /\ client[c].bill \in Bills
      /\ payment[client[c].bill] = "absent"
      /\ client[c].at = "xendit" <=> xendit[client[c].bill].state = "absent"
      /\ \A d \in Clients \ {c} : Billing(d) => client[d].bill # client[c].bill

\* A callback tells the truth about its payment, for good.
Told(o) ==
  /\ o.bill \in Bills
  /\ \/ o.status \in {"PAID", "SETTLED"} /\ Collected(o.bill)
     \/ o.status \in {"EXPIRED", "FAILED"} /\ EndedUnpaid(o.bill)

\* A callback of a payment without a row stays owed; one in progress has
\* applied what its place says.
CallbackInv ==
  /\ \A o \in owed : Told(o)
  /\ \A b \in Bills :
       Collected(b) /\ payment[b] = "absent" => \E o \in owed : o.bill = b
  /\ \A h \in Callbacks :
       hook[h].at # "idle" =>
         /\ Told(hook[h]) /\ payment[hook[h].bill] # "absent"
         /\ hook[h].at = "subscription" => Collected(hook[h].bill)
         /\ hook[h].at \in {"invoice", "subscription", "answer"} /\ Collected(hook[h].bill)
              => payment[hook[h].bill] = "paid"
         /\ hook[h].at = "answer" /\ Collected(hook[h].bill)
              => sub[xendit[hook[h].bill].sub].status # "pending_payment"

BillingInv ==
  /\ BillingTypeOK /\ NumberInv /\ FreshInv /\ BillInv /\ CallbackInv
  /\ ActiveIsPaid /\ AnsweredIsApplied

\* With a single subscriber a subscription other than the newest counts only
\* as a paid one, and only the newest is ever being inserted.
NewestBlocks ==
  /\ \A c \in Clients :
       /\ client[c].at \in {"cancel", "check", "insert", "invoice", "expire"} => c \in Subscribers
       /\ client[c].at = "insert" => client[c].sub = made
  /\ \A s \in Blocking :
       \/ s = made
       \/ sub[s].status = "active" /\ \E b \in Bills : xendit[b].sub = s /\ Collected(b)
=============================================================================
