------------------------------- MODULE Taxes -------------------------------
(***************************************************************************)
(* Tax calculations that follow LedgerPosted events, and report jobs:      *)
(* internal/tax/worker.go and service.go.  Amounts and rates are left out; *)
(* which taxes a transaction falls under is a set of types.                *)
(***************************************************************************)
EXTENDS Deliveries

CONSTANTS
  Types,       \* tax types: PPN_KELUARAN, PPH23, ...
  Profiles,    \* what a profile may make due: sets of types
  Defaults,    \* the types due without a profile
  MaxProfiles, \* bound on changes of the profile
  MaxJobs      \* bound on report jobs

\* A switch of the profile only adds to what is due.
ASSUME TaxesAssumption ==
  /\ Profiles \subseteq SUBSET Types
  /\ Defaults \subseteq Types
  /\ \A P \in Profiles : Defaults \subseteq P
  /\ {MaxProfiles, MaxJobs} \subseteq Nat

VARIABLES
  taxes,    \* taxes[t][x]: the status of the calculation of x for t
  profile,  \* the types due under the profile of the workspace
  changes,  \* how often the profile was changed
  job,      \* job[j]: tax_report_jobs.status
  misread,  \* transactions calculated after the profile could not be read
  crossed   \* transactions whose reversal was taken up while LedgerPosted of
            \* the original was still due or in progress

taxVars == <<taxes, profile, changes, job, misread, crossed>>

Jobs == 1..MaxJobs
Has(t, x) == taxes[t][x] # "none"

TaxesInit ==
  /\ taxes = [t \in Transactions |-> [x \in Types |-> "none"]]
  /\ profile \in Profiles
  /\ changes = 0
  /\ job = [j \in Jobs |-> "none"]
  /\ misread = {}
  /\ crossed = {}

-----------------------------------------------------------------------------
(* Requests.                                                               *)

UpdateProfile ==
  /\ changes < MaxProfiles
  /\ profile' \in Profiles \ {profile}
  /\ changes' = changes + 1
  /\ UNCHANGED <<taxes, job, misread, crossed, deliveryVars>>

\* The job and its event commit together.
RequestReport(j) ==
  /\ job[j] = "none"
  /\ job' = [job EXCEPT ![j] = "PENDING"]
  /\ due' = due \cup {Event("report", j)}
  /\ UNCHANGED <<taxes, profile, changes, misread, crossed, settled, work, repeats, cuts, transactions>>

-----------------------------------------------------------------------------
(* HandleLedgerPosted.                                                     *)

HandleLedgerPosted(w) ==
  /\ \E t \in Transactions : Take(w, Event("posted", t), "profile")
  /\ UNCHANGED <<due, settled, repeats, cuts, transactions, taxVars>>

\* A profile that cannot be read is taken for none.
ReadProfile(w) ==
  /\ On(w, "posted", "profile")
  /\ \/ /\ work' = [work EXCEPT ![w].step = "calculate", ![w].left = profile]
        /\ UNCHANGED misread
     \/ /\ work' = [work EXCEPT ![w].step = "calculate", ![w].left = Defaults]
        /\ misread' = misread \cup {work[w].event.n}
  /\ UNCHANGED <<due, settled, repeats, cuts, transactions, taxes, profile, changes, job, crossed>>

\* Faulty variant: a voided calculation does not count.
CalculatedActive(t, x) == taxes[t][x] = "ACTIVE"

\* GetTaxCalculationByTransactionAndType: whatever the status of the row.
Calculated(t, x) == Has(t, x)

\* One type after the other, PPN before PPh 23 or not: the order is nowhere
\* read.  An INSERT that fails cuts the callback off.
CalculateForTransaction(w) ==
  /\ On(w, "posted", "calculate")
  /\ \E x \in work[w].left :
       /\ work' = [work EXCEPT ![w].left = @ \ {x}]
       /\ taxes' = IF Calculated(work[w].event.n, x) THEN taxes
                   ELSE [taxes EXCEPT ![work[w].event.n][x] = "ACTIVE"]
  /\ UNCHANGED <<due, settled, repeats, cuts, transactions, profile, changes, job, misread, crossed>>

AllCalculated(w) ==
  /\ On(w, "posted", "calculate")
  /\ work[w].left = {}
  /\ Acks(w)
  /\ UNCHANGED <<repeats, cuts, transactions, taxVars>>

TakeReversal(w) ==
  /\ \E t \in Transactions :
       /\ Take(w, Event("reversed", t), "void")
       /\ crossed' = IF Event("posted", t) \in due \/ Handled(Event("posted", t))
                     THEN crossed \cup {t} ELSE crossed
  /\ UNCHANGED <<due, settled, repeats, cuts, transactions, taxes, profile, changes, job, misread>>

\* VoidTaxCalculationsByTransaction.
HandleReversal(w) ==
  /\ On(w, "reversed", "void")
  /\ taxes' = [taxes EXCEPT ![work[w].event.n] =
                 [x \in Types |-> IF @[x] = "ACTIVE" THEN "VOIDED" ELSE @[x]]]
  /\ Acks(w)
  /\ UNCHANGED <<repeats, cuts, transactions, profile, changes, job, misread, crossed>>

-----------------------------------------------------------------------------
(* HandleReportGeneration.                                                 *)

\* The UPDATE takes a PENDING job only; without one there is nothing to do.
TakeReport(w) ==
  /\ On(w, "report", "mark")
  /\ IF job[work[w].event.n] = "PENDING"
     THEN /\ job' = [job EXCEPT ![work[w].event.n] = "PROCESSING"]
          /\ GoTo(w, "generate")
          /\ UNCHANGED <<due, settled>>
     ELSE Acks(w) /\ UNCHANGED job
  /\ UNCHANGED <<repeats, cuts, transactions, taxes, profile, changes, misread, crossed>>

HandleReportGeneration(w) ==
  /\ \E j \in Jobs : Take(w, Event("report", j), "mark")
  /\ UNCHANGED <<due, settled, repeats, cuts, transactions, taxVars>>

\* Faulty variant: a failure is reported to the broker only.
GenerateOrReturn(w) ==
  /\ On(w, "report", "generate")
  /\ \/ job' = [job EXCEPT ![work[w].event.n] = "COMPLETED"] /\ Acks(w)
     \/ Naks(w) /\ UNCHANGED job
  /\ UNCHANGED <<repeats, cuts, transactions, taxes, profile, changes, misread, crossed>>

\* A query fails and that is saved, or the report is.
GenerateReport(w) ==
  /\ On(w, "report", "generate")
  /\ \/ job' = [job EXCEPT ![work[w].event.n] = "COMPLETED"] /\ Acks(w)
     \/ job' = [job EXCEPT ![work[w].event.n] = "FAILED"] /\ Naks(w)
  /\ UNCHANGED <<repeats, cuts, transactions, taxes, profile, changes, misread, crossed>>

TaxStep(w) ==
  \/ HandleLedgerPosted(w) \/ ReadProfile(w) \/ CalculateForTransaction(w) \/ AllCalculated(w)
  \/ TakeReversal(w) \/ HandleReversal(w)
  \/ HandleReportGeneration(w) \/ TakeReport(w) \/ GenerateReport(w)

\* The routes of taxes.
TaxRequest == UpdateProfile \/ \E j \in Jobs : RequestReport(j)

-----------------------------------------------------------------------------
\* A LedgerPosted that is settled has left nothing out, though its callback
\* may have been cut off between two calculations and overtaken: the taxes due
\* without a profile are there, and those of an unchanged profile unless it
\* could not be read.
SettledIsTaxed ==
  \A t \in Transactions :
    Event("posted", t) \in settled =>
      /\ \A x \in Defaults : Has(t, x)
      /\ changes = 0 /\ t \notin misread => \A x \in profile : Has(t, x)

\* Once everything about a void transaction is settled no tax of it is ACTIVE,
\* whatever was repeated; except that the two events crossed, or that a repeat
\* of the first found more taxes due than the first time.
VoidHasNoTax ==
  \A t \in Transactions \ crossed :
    /\ \A e \in {Event("posted", t), Event("reversed", t)} :
         e \in settled \ due /\ ~Handled(e)
    /\ repeats = 0 \/ (changes = 0 /\ t \notin misread)
    => \A x \in Types : taxes[t][x] # "ACTIVE"

\* Whatever is repeated, cut off and overtaken, the taxes of a transaction follow
\* what the ledger did with it.
TaxesFollow == SettledIsTaxed /\ VoidHasNoTax

\* A report that was asked for is made or fails for good: a job that waits is
\* still to come to a callback, and one that is PROCESSING is in the hands of
\* one, unless it was cut off.
ReportsGoOn ==
  \A j \in Jobs :
    /\ job[j] = "PENDING" => Event("report", j) \in due
    /\ job[j] = "PROCESSING" /\ cuts = 0 =>
         \E w \in Workers : work[w].event = Event("report", j) /\ work[w].step = "generate"
=============================================================================
