----------------------------- MODULE Documents -----------------------------
(***************************************************************************)
(* One document from upload to transaction: internal/document/service.go   *)
(* and worker.go.                                                          *)
(***************************************************************************)
EXTENDS Deliveries

CONSTANTS
  Uploaders   \* requests that confirm the upload

VARIABLES
  upload,      \* documents.upload_status; "none" before there is a row, "off"
               \* where the plan of the workspace has no ocr_enabled
  extraction,  \* documents.extraction_status
  linked,      \* documents.transaction_id, 0 while there is none
  confirming,  \* the requests that have found the upload PENDING
  created      \* the transactions created from the document

documentVars == <<upload, extraction, linked, confirming, created>>

\* The number of an event only tells the confirmations apart.
Uploaded == {Event("uploaded", n) : n \in 1..Cardinality(Uploaders)}

DocumentsInit ==
  /\ upload = "none"
  /\ extraction = "none"
  /\ linked = 0
  /\ confirming = {}
  /\ created = {}

-----------------------------------------------------------------------------
\* Refused without the feature.
RequestUpload ==
  /\ upload = "none"
  /\ upload' = "PENDING"
  /\ extraction' = "PENDING"
  /\ UNCHANGED <<linked, confirming, created, deliveryVars>>

\* The status is looked at outside the transaction.
AskConfirm(u) ==
  /\ u \notin confirming
  /\ upload = "PENDING"
  /\ confirming' = confirming \cup {u}
  /\ UNCHANGED <<upload, extraction, linked, created, deliveryVars>>

\* The UPDATE does not look again: each request that got past the check
\* records an event.
ConfirmUpload(u) ==
  /\ u \in confirming
  /\ confirming' = confirming \ {u}
  /\ upload' = "UPLOADED"
  /\ \E e \in Uploaded :
       /\ e \notin due \cup settled
       /\ \A f \in Uploaded : f.n < e.n => f \in due \cup settled
       /\ due' = due \cup {e}
  /\ UNCHANGED <<extraction, linked, created, settled, work, repeats, cuts, transactions>>

-----------------------------------------------------------------------------
(* HandleDocumentUploaded.                                                 *)

HandleDocumentUploaded(w) ==
  /\ \E e \in Uploaded : Take(w, e, "read")
  /\ UNCHANGED <<due, settled, repeats, cuts, transactions, documentVars>>

\* GetDocumentByID: only a PENDING document goes on.
CheckExtraction(w) ==
  /\ On(w, "uploaded", "read")
  /\ IF extraction = "PENDING" THEN GoTo(w, "mark") /\ UNCHANGED <<due, settled>> ELSE Acks(w)
  /\ UNCHANGED <<repeats, cuts, transactions, documentVars>>

\* Faulty variant: the UPDATE is not conditional.
MarkWhateverStatus(w) ==
  /\ On(w, "uploaded", "mark")
  /\ extraction' = "PROCESSING"
  /\ GoTo(w, "extract")
  /\ UNCHANGED <<upload, linked, confirming, created, due, settled, repeats, cuts, transactions>>

\* The UPDATE repeats the condition and counts rows: one callback gets it.
MarkExtractionProcessing(w) ==
  /\ On(w, "uploaded", "mark")
  /\ IF extraction = "PENDING"
     THEN extraction' = "PROCESSING" /\ GoTo(w, "extract") /\ UNCHANGED <<due, settled>>
     ELSE Acks(w) /\ UNCHANGED extraction
  /\ UNCHANGED <<upload, linked, confirming, created, repeats, cuts, transactions>>

\* The service reads the image; or its failure is saved and the message
\* comes again, to find that nothing is PENDING; or the file is no image,
\* which is saved and final.
Extract(w) ==
  /\ On(w, "uploaded", "extract")
  /\ \/ GoTo(w, "create") /\ UNCHANGED <<due, settled, extraction>>
     \/ extraction' = "FAILED" /\ (Naks(w) \/ Acks(w))
  /\ UNCHANGED <<upload, linked, confirming, created, repeats, cuts, transactions>>

\* CreateTransaction commits on its own, or is refused and that is saved.
CreateFromResult(w) ==
  /\ On(w, "uploaded", "create")
  /\ \/ \E t \in Transactions :
          /\ CreateTransaction(t)
          /\ created' = created \cup {t}
          /\ work' = [work EXCEPT ![w].step = "save", ![w].left = {t}]
       /\ UNCHANGED <<due, settled, extraction>>
     \/ extraction' = "FAILED" /\ Naks(w) /\ UNCHANGED <<created, transactions>>
  /\ UNCHANGED <<upload, linked, confirming, repeats, cuts>>

\* The first UPDATE of SaveExtractionResult.
SaveExtractionResult(w) ==
  /\ On(w, "uploaded", "save")
  /\ extraction' = "COMPLETED"
  /\ GoTo(w, "link")
  /\ UNCHANGED <<upload, linked, confirming, created, due, settled, repeats, cuts, transactions>>

\* The second.
LinkDocumentTransaction(w) ==
  /\ On(w, "uploaded", "link")
  /\ linked' \in work[w].left
  /\ Acks(w)
  /\ UNCHANGED <<upload, extraction, confirming, created, repeats, cuts, transactions>>

DocumentStep(w) ==
  \/ HandleDocumentUploaded(w) \/ CheckExtraction(w) \/ MarkExtractionProcessing(w)
  \/ Extract(w) \/ CreateFromResult(w) \/ SaveExtractionResult(w) \/ LinkDocumentTransaction(w)

\* The routes of documents.
DocumentRequest ==
  \/ RequestUpload
  \/ \E u \in Uploaders : AskConfirm(u) \/ ConfirmUpload(u)

-----------------------------------------------------------------------------
\* An uploaded document that waits is still to come to a callback, and one
\* that is PROCESSING is in the hands of one: nothing else than a callback cut
\* off leaves it there for ever.
ExtractionGoesOn ==
  /\ upload = "UPLOADED" /\ extraction = "PENDING" => \E e \in Uploaded : e \in due
  /\ extraction = "PROCESSING" /\ cuts = 0 =>
       \E w \in Workers, step \in {"extract", "create", "save"} : On(w, "uploaded", step)

\* However often the upload is confirmed, the event delivered and a callback
\* cut off and overtaken, the document makes one transaction, and it never
\* points at another.  One that is COMPLETED points at it, unless a callback
\* has yet to do that or was cut off before.
OneTransaction ==
  /\ Cardinality(created) <= 1
  /\ linked # 0 => created = {linked}
  /\ extraction = "COMPLETED" /\ cuts = 0 =>
       linked # 0 \/ \E w \in Workers : On(w, "uploaded", "link")

=============================================================================
