---------------------------- MODULE MCDeliveries ----------------------------
(***************************************************************************)
(* Charts, documents and taxes over the same deliveries: a document becomes*)
(* a transaction, the ledger posts it, taxes follow, a void takes them     *)
(* back; before all that the workspace gets its chart.  On their own, the  *)
(* journal of one request and the claims on an entity.                     *)
(***************************************************************************)
EXTENDS Chart, Documents, Taxes, Journals, Claims

VARIABLE claiming  \* claims are explored, and not the rest

NoTaxWork ==
  /\ taxes = [t \in Transactions |-> [x \in Types |-> "none"]]
  /\ profile = Types
  /\ changes = MaxProfiles
  /\ job = [j \in Jobs |-> "COMPLETED"]
  /\ misread = {}
  /\ crossed = {}

\* Nothing of the workspace yet; its plan, when it has one, does no OCR.
NewWorkspace ==
  /\ DeliveriesInit
  /\ ChartInit
  /\ NoTaxWork
  /\ upload = "off" /\ extraction = "none" /\ linked = 0
  /\ confirming = {} /\ created = {}

\* A workspace whose chart is there.
ChartDone ==
  /\ relation = TRUE /\ ownerRole = TRUE /\ template = TRUE
  /\ own = {"own"}
  /\ creating = [c \in Creators |-> "idle"]
  /\ cutShort = FALSE

\* A new document, under a profile that stays as it is and with no report to
\* make.
NewDocument == DeliveriesInit /\ ChartDone /\ DocumentsInit /\ NoTaxWork

\* A document that could not be read, and the draft a user entered instead.
NewDraft ==
  /\ ChartDone
  /\ due = {} /\ settled = {Event("uploaded", 1)}
  /\ work = [w \in Workers |-> Idle]
  /\ repeats = 0 /\ cuts = 0
  /\ transactions = [t \in Transactions |-> IF t = 1 THEN "DRAFT" ELSE "none"]
  /\ upload = "UPLOADED" /\ extraction = "FAILED" /\ linked = 0
  /\ confirming = {} /\ created = {}
  /\ TaxesInit

\* The request after which there is none.
NoJournal ==
  /\ ppnRate = 0 /\ liable = FALSE /\ rates = MaxRates
  /\ tie = [base |-> FALSE, tax |-> FALSE]
  /\ request = NoRequest /\ stage = "calculated" /\ since = 0
  /\ taxAmount = 0 /\ lines = <<>> /\ ppn = {}

\* A workspace that only books one request.
NewRequest ==
  /\ DeliveriesInit /\ ChartDone /\ NoTaxWork
  /\ upload = "off" /\ extraction = "none" /\ linked = 0
  /\ confirming = {} /\ created = {}
  /\ JournalsInit

Init ==
  /\ ClaimsInit
  /\ \/ /\ claiming = FALSE
        /\ (NoJournal /\ (NewWorkspace \/ NewDocument \/ NewDraft)) \/ NewRequest
     \/ /\ claiming = TRUE
        /\ NoJournal /\ NewWorkspace

World ==
  \/ \E t \in Transactions : LedgerPosts(t) \/ Void(t)
  \/ \E e \in settled : Repeat(e)

Cut(w) == work[w] # Idle /\ CutOff(w) /\ UNCHANGED <<repeats, transactions>>

Step(w) ==
  \/ ChartStep(w) /\ UNCHANGED <<documentVars, taxVars>>
  \/ DocumentStep(w) /\ UNCHANGED <<chartVars, taxVars>>
  \/ TaxStep(w) /\ UNCHANGED <<chartVars, documentVars>>

Next ==
  \/ \E w \in Workers : Step(w)
  \/ \E w \in Workers : Cut(w) /\ UNCHANGED <<chartVars, documentVars, taxVars>>
  \/ ChartRequest /\ UNCHANGED <<documentVars, taxVars>>
  \/ DocumentRequest /\ UNCHANGED <<chartVars, taxVars>>
  \/ TaxRequest /\ UNCHANGED <<chartVars, documentVars>>
  \/ World /\ UNCHANGED <<chartVars, documentVars, taxVars>>

Books == JournalsNext /\ UNCHANGED <<deliveryVars, chartVars, documentVars, taxVars>>

AllButClaims == <<deliveryVars, chartVars, documentVars, taxVars, journalVars>>

MCNext ==
  /\ UNCHANGED claiming
  /\ \/ /\ ~claiming
        /\ (Next /\ UNCHANGED journalVars) \/ Books
        /\ UNCHANGED claimsVars
     \/ claiming /\ ClaimsNext /\ UNCHANGED AllButClaims

\* Of claims that are not explored nothing is asked: no call is in progress.
MCSpec ==
  Init /\ [][MCNext]_<<claiming, AllButClaims, claimsVars>> /\ ClaimsFairness

\* Documents are extracted and tax reports made, or somebody is at it, or a
\* callback was cut off that no other will take up.
WorkGoesOn == ExtractionGoesOn /\ ReportsGoOn
=============================================================================
