------------------------------- MODULE Claims -------------------------------
(***************************************************************************)
(* Claims on one shadow entity: internal/claim/service.go, the consumer    *)
(* internal/claim/worker.go and the verification record of                 *)
(* internal/identity.                                                      *)
(*                                                                         *)
(* Every call reads the claim first, outside any transaction, and decides  *)
(* on what it has read (the steps named Ask...); the transaction that      *)
(* follows updates by id and does not look again.  A transaction starts    *)
(* with the row of its claim and is one step once it gets that row; only   *)
(* ApproveClaim waits in the middle, so its locks are variables.  Who owns *)
(* a claim is not told apart: callers act on their own claims.  Evidence   *)
(* is one document per claim, a second one changes nothing.  The audit log *)
(* and the normalized name are written and read by no call here.           *)
(***************************************************************************)
EXTENDS Integers, FiniteSets

CONSTANTS
  Callers,   \* requests of claimants, each with one call at a time
  Admins,    \* requests of reviewers
  Callbacks, \* callbacks of the claim consumer
  MaxClaims  \* bound on claims, beyond what racing callers reach

ASSUME ClaimsAssumption ==
  /\ IsFiniteSet(Callers) /\ Callers # {}
  /\ "nobody" \notin Admins
  /\ Callers \cap Admins = {} /\ Callbacks \cap (Callers \cup Admins) = {}
  /\ MaxClaims \in Nat

VARIABLES
  filed,         \* claims so far
  status,        \* status[c]: company_claims.status
  evidence,      \* evidence[c]: the status of its document
  verification,  \* status in entity_verification, one row per entity
  entity,        \* "shadow", or "claimed" once linked to a user
  holder,        \* holder[c]: whose approval holds the row of c
  linker,        \* whose approval holds the row of the entity
  call,          \* call[p]: the call in progress in p
  requested      \* claims whose CompanyClaimRequested is to be handled

claimsVars == <<filed, status, evidence, verification, entity, holder, linker, call, requested>>
records == <<filed, status, evidence, verification, entity, requested>>
locks == <<holder, linker>>

People == Callers \cup Admins \cup Callbacks
Claims == 1..MaxClaims
nobody == "nobody"

ClaimStatuses == {"DRAFT", "SUBMITTED", "UNDER_REVIEW", "APPROVED", "REJECTED", "DISPUTED"}
Verifications == {"UNVERIFIED", "PENDING", "VERIFIED", "REJECTED"}
Evidence == {"none", "PENDING", "UPLOADED"}
Ops == {"create", "submit", "dispute", "assign", "approve", "link",
        "normalize", "reject", "review"}
NoCall == [op |-> "idle", claim |-> 0]

ClaimsInit ==
  /\ filed = 0
  /\ status = [c \in Claims |-> "none"]
  /\ evidence = [c \in Claims |-> "none"]
  /\ verification = "none"
  /\ entity = "shadow"
  /\ holder = [c \in Claims |-> nobody]
  /\ linker = nobody
  /\ call = [p \in People |-> NoCall]
  /\ requested = {}

-----------------------------------------------------------------------------
(* Statements.                                                             *)

HasClaimForEntity == filed > 0

CountClaimDocuments(c) == IF evidence[c] = "UPLOADED" THEN 1 ELSE 0

Takes(p, op, c) == call' = [call EXCEPT ![p] = [op |-> op, claim |-> c]]

Ends(p) == call' = [call EXCEPT ![p] = NoCall]

\* A status is written by id, once no approval holds the row.
Free(c) == holder[c] = nobody

SetStatus(c, s) == status' = [status EXCEPT ![c] = s]

\* Faulty variant: the error is taken for a missing record and ignored.
SkipVerificationStatus(s) == UNCHANGED verification

UpdateEntityVerificationStatus(s) == verification' = s

\* ensureVerificationRecordTx.
Ensured == IF verification = "none" THEN "UNVERIFIED" ELSE verification

\* Decides on a claim read with one of the statuses S.
Asks(p, op, c, S) ==
  /\ call[p] = NoCall
  /\ status[c] \in S
  /\ Takes(p, op, c)
  /\ UNCHANGED <<records, locks>>

-----------------------------------------------------------------------------
(* Claimants.                                                              *)

\* Only a shadow entity without a claim.
AskCreate(u) ==
  /\ call[u] = NoCall
  /\ entity = "shadow"
  /\ ~HasClaimForEntity
  /\ Takes(u, "create", 0)
  /\ UNCHANGED <<records, locks>>

CreateClaim(u) ==
  /\ call[u].op = "create"
  /\ filed < MaxClaims
  /\ filed' = filed + 1
  /\ SetStatus(filed + 1, "DRAFT")
  /\ verification' = Ensured
  /\ Ends(u)
  /\ UNCHANGED <<evidence, entity, requested, locks>>

\* The status it looks at and the row it inserts are one step: evidence counts
\* in DRAFT only, and no claim leaves DRAFT without.
RequestDocumentUpload(u, c) ==
  /\ call[u] = NoCall
  /\ status[c] \in {"DRAFT", "REJECTED", "DISPUTED"}
  /\ evidence[c] = "none"
  /\ evidence' = [evidence EXCEPT ![c] = "PENDING"]
  /\ UNCHANGED <<filed, status, verification, entity, requested, locks, call>>

\* The claimant's browser has put the file in the bucket; the claim's status
\* is not looked at.
ConfirmDocumentUpload(u, c) ==
  /\ call[u] = NoCall
  /\ evidence[c] = "PENDING"
  /\ evidence' = [evidence EXCEPT ![c] = "UPLOADED"]
  /\ UNCHANGED <<filed, status, verification, entity, requested, locks, call>>

AskSubmit(u, c) ==
  /\ CountClaimDocuments(c) # 0
  /\ Asks(u, "submit", c, {"DRAFT", "REJECTED"})

\* Both UPDATEs, of a first submission and of a resubmission.
SubmitClaim(u) ==
  /\ call[u].op = "submit"
  /\ Free(call[u].claim)
  /\ SetStatus(call[u].claim, "SUBMITTED")
  /\ UpdateEntityVerificationStatus("PENDING")
  /\ requested' = requested \cup {call[u].claim}
  /\ Ends(u)
  /\ UNCHANGED <<filed, evidence, entity, locks>>

AskDispute(u, c) == Asks(u, "dispute", c, {"REJECTED"})

DisputeClaim(u) ==
  /\ call[u].op = "dispute"
  /\ Free(call[u].claim)
  /\ SetStatus(call[u].claim, "DISPUTED")
  /\ UpdateEntityVerificationStatus("PENDING")
  /\ Ends(u)
  /\ UNCHANGED <<filed, evidence, entity, requested, locks>>

-----------------------------------------------------------------------------
(* Reviewers.                                                              *)

AskAssign(a, c) == Asks(a, "assign", c, {"SUBMITTED", "DISPUTED"})

AssignClaim(a) ==
  /\ call[a].op = "assign"
  /\ Free(call[a].claim)
  /\ SetStatus(call[a].claim, "UNDER_REVIEW")
  /\ Ends(a)
  /\ UNCHANGED <<filed, evidence, verification, entity, requested, locks>>

AskReject(a, c) == Asks(a, "reject", c, {"UNDER_REVIEW"})

RejectClaim(a) ==
  /\ call[a].op = "reject"
  /\ Free(call[a].claim)
  /\ SetStatus(call[a].claim, "REJECTED")
  /\ UpdateEntityVerificationStatus("REJECTED")
  /\ Ends(a)
  /\ UNCHANGED <<filed, evidence, entity, requested, locks>>

AskApprove(a, c) == Asks(a, "approve", c, {"UNDER_REVIEW"})

\* ApproveCompanyClaim: the transaction takes the row of the claim.
BeginApproval(a) ==
  /\ call[a].op = "approve"
  /\ Free(call[a].claim)
  /\ holder' = [holder EXCEPT ![call[a].claim] = a]
  /\ Takes(a, "link", call[a].claim)
  /\ UNCHANGED <<records, linker>>

\* The UPDATE finds a shadow entity only, and then holds its row.
LinkShadowEntity(a) ==
  /\ call[a].op = "link"
  /\ linker = nobody
  /\ linker' = IF entity = "shadow" THEN a ELSE nobody
  /\ Takes(a, "normalize", call[a].claim)
  /\ UNCHANGED <<records, holder>>

\* Faulty variant: a return without Rollback keeps transaction and rows.
KeepsRows(p) == UNCHANGED locks

\* Commit or rollback.
Releases(p) ==
  /\ holder' = [c \in Claims |-> IF holder[c] = p THEN nobody ELSE holder[c]]
  /\ linker' = IF linker = p THEN nobody ELSE linker

\* EnsureNormalizedName updates the entity on another connection: while the
\* transaction of this very call holds that row it waits until the request
\* times out and everything is rolled back.
FinishApproval(a) ==
  /\ call[a].op = "normalize"
  /\ IF linker = a
     THEN UNCHANGED <<status, verification, entity>>
     ELSE /\ SetStatus(call[a].claim, "APPROVED")
          /\ UpdateEntityVerificationStatus("VERIFIED")
          /\ entity' = "claimed"
  /\ Releases(a)
  /\ Ends(a)
  /\ UNCHANGED <<filed, evidence, requested>>

-----------------------------------------------------------------------------
(* HandleClaimRequested, delivered at least once.                          *)

\* The delivery is acknowledged, or the event comes again.
Delivered(c) == requested' \in {requested, requested \ {c}}

\* A similar entity was found and the claim was SUBMITTED when read.
WorkerReads(w) ==
  /\ call[w] = NoCall
  /\ \E c \in requested : status[c] = "SUBMITTED" /\ Takes(w, "review", c)
  /\ UNCHANGED <<records, locks>>

\* No similar entity, or another status.
WorkerPasses(w) ==
  /\ call[w] = NoCall
  /\ \E c \in requested : Delivered(c)
  /\ UNCHANGED <<filed, status, evidence, verification, entity, locks, call>>

WorkerMoves(w) ==
  /\ call[w].op = "review"
  /\ Free(call[w].claim)
  /\ SetStatus(call[w].claim, "UNDER_REVIEW")
  /\ Delivered(call[w].claim)
  /\ Ends(w)
  /\ UNCHANGED <<filed, evidence, verification, entity, locks>>

-----------------------------------------------------------------------------
\* A statement fails, the client goes away, or a request is 60 s old (a
\* callback of the worker has no deadline): the call ends and its transaction,
\* if any, is rolled back.
GiveUp(p) ==
  /\ call[p] # NoCall
  /\ Ends(p)
  /\ Releases(p)
  /\ UNCHANGED records

\* The claim routes of users.
UserAsks(u) ==
  \/ AskCreate(u)
  \/ \E c \in Claims : RequestDocumentUpload(u, c) \/ ConfirmDocumentUpload(u, c)
  \/ \E c \in Claims : AskSubmit(u, c) \/ AskDispute(u, c)

UserGoesOn(u) == CreateClaim(u) \/ SubmitClaim(u) \/ DisputeClaim(u)

\* The claim routes of reviewers.
AdminAsks(a) == \E c \in Claims : AskAssign(a, c) \/ AskApprove(a, c) \/ AskReject(a, c)

AdminGoesOn(a) ==
  AssignClaim(a) \/ BeginApproval(a) \/ LinkShadowEntity(a) \/ FinishApproval(a) \/ RejectClaim(a)

\* A request goes on, or its deadline ends it.
GoesOn(p) ==
  \/ p \in Callers /\ UserGoesOn(p)
  \/ p \in Admins /\ AdminGoesOn(p)
  \/ GiveUp(p)

ClaimsNext ==
  \/ \E u \in Callers : UserAsks(u)
  \/ \E a \in Admins : AdminAsks(a)
  \/ \E w \in Callbacks : WorkerReads(w) \/ WorkerPasses(w) \/ WorkerMoves(w)
  \/ \E p \in People : GoesOn(p)

ClaimsSpec == ClaimsInit /\ [][ClaimsNext]_claimsVars

\* A request that has begun goes on: the server runs its handlers and its
\* Timeout middleware.  The worker's UPDATE waits for the row as long as it
\* takes; PostgreSQL hands a row on in the order of asking, so a row that is
\* freed again and again comes to the worker too.  That a statement of the
\* worker fails is possible and not asked for; nothing is asked of clients or
\* of the broker.
ClaimsFairness ==
  /\ \A p \in Callers \cup Admins : WF_claimsVars(GoesOn(p))
  /\ \A w \in Callbacks : SF_claimsVars(WorkerMoves(w))

ClaimsFairSpec == ClaimsSpec /\ ClaimsFairness

-----------------------------------------------------------------------------
(* Properties.                                                             *)

TypeOK ==
  /\ filed \in 0..MaxClaims
  /\ status \in [Claims -> ClaimStatuses \cup {"none"}]
  /\ evidence \in [Claims -> Evidence]
  /\ verification \in Verifications \cup {"none"}
  /\ entity \in {"shadow", "claimed"}
  /\ holder \in [Claims -> Admins \cup {nobody}]
  /\ linker \in Admins \cup {nobody}
  /\ call \in [People -> [op : Ops \cup {"idle"}, claim : 0..MaxClaims]]
  /\ requested \subseteq Claims

\* CreateClaim refuses an entity that has a claim, but looks before its
\* transaction and no constraint backs it up.  An entity never gets more
\* claims than there were callers past the check when the first was stored.
ClaimsBounded == filed <= Cardinality(Callers)

\* The verification record tells the state of the only claim, whatever
\* reviewers, the claimant and the worker overwrite: a claim that waits is
\* PENDING, a rejected one REJECTED, a draft UNVERIFIED.  A claim set back to
\* UNDER_REVIEW by a stale read may leave REJECTED behind.
VerificationFollows ==
  filed = 1 =>
    /\ status[1] = "DRAFT" => verification = "UNVERIFIED"
    /\ status[1] \in {"SUBMITTED", "DISPUTED"} => verification = "PENDING"
    /\ status[1] = "UNDER_REVIEW" => verification \in {"PENDING", "REJECTED"}
    /\ status[1] = "REJECTED" => verification = "REJECTED"

\* However many approvals hang on their own row lock one after another, the
\* worker, which no deadline ends, gets through to the row of its claim: no
\* row stays locked for ever.
WorkerGetsThrough == \A w \in Callbacks : call[w].op = "review" ~> call[w] = NoCall

\* What the documentation says of ApproveClaim: the status becomes APPROVED
\* and the shadow entity is linked.  An approval that has come to its last
\* statement ends approved.
ApprovalTakesEffect ==
  [][\A a \in Admins :
       FinishApproval(a) => \E c \in Claims : status'[c] = "APPROVED" /\ entity' = "claimed"]_claimsVars
-----------------------------------------------------------------------------
(* The inductive invariant behind ClaimsBounded and VerificationFollows.   *)

\* A claim has a status once it is made, and calls are about such claims.
CallInv ==
  /\ \A c \in Claims : status[c] = "none" <=> c > filed
  /\ \A p \in People : call[p].op \notin {"idle", "create"} => call[p].claim \in 1..filed

\* The callers past the check, once there is a claim.
Filing == {u \in Callers : call[u].op = "create"}
BoundInv == filed > 0 => filed + Cardinality(Filing) <= Cardinality(Callers)

\* An approval that comes to its last statement holds the row of a shadow
\* entity, so none takes effect.
ApproveInv ==
  /\ entity = "shadow"
  /\ \A a \in Admins : call[a].op = "normalize" => linker = a
  /\ \A c \in Claims : status[c] # "APPROVED"

\* While the only claim is a draft it can but be submitted; afterwards its
\* record waits or is rejected.
RecordInv ==
  /\ filed = 0 => verification = "none"
  /\ filed = 1 =>
       IF status[1] = "DRAFT"
       THEN \A p \in People : call[p].op \in {"idle", "create", "submit"}
       ELSE verification \in {"PENDING", "REJECTED"}

ClaimsInv ==
  TypeOK /\ CallInv /\ BoundInv /\ ApproveInv /\ RecordInv /\ VerificationFollows

=============================================================================
