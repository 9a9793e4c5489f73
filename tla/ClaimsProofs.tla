---------------------------- MODULE ClaimsProofs ----------------------------
(***************************************************************************)
(* Theorems about Claims, for any callers, reviewers, workers and bound on *)
(* claims: races never make more claims than there are callers, the        *)
(* verification record follows the claim, and no approval takes effect.    *)
(***************************************************************************)
EXTENDS Claims, FiniteSetTheorems, TLAPS

-----------------------------------------------------------------------------
(* Steps of one kind.                                                      *)

\* Who has passed the check is counted.
LEMMA CreatorsFinite ==
  ASSUME TypeOK
  PROVE  /\ IsFiniteSet(Filing) /\ Cardinality(Filing) \in Nat
         /\ Cardinality(Callers) \in Nat
         /\ Cardinality(Filing) <= Cardinality(Callers)
<1>1. Filing \subseteq Callers /\ IsFiniteSet(Callers)
  BY ClaimsAssumption DEF Filing
<1> QED BY <1>1, FS_Subset, FS_CardinalityType

\* A step that makes no claim and lets nobody past the check keeps the bound.
LEMMA BoundKept ==
  ASSUME TypeOK, BoundInv, filed' = filed, Filing' \subseteq Filing
  PROVE  BoundInv'
<1>1. Cardinality(Filing') \in Nat /\ Cardinality(Filing') <= Cardinality(Filing)
  BY CreatorsFinite, FS_Subset, FS_CardinalityType
<1> QED BY <1>1, CreatorsFinite DEF BoundInv, TypeOK

\* A call p that goes on to op with claim c.
LEMMA GoesTyped ==
  ASSUME TypeOK, NEW p \in People, NEW op \in Ops \cup {"idle"}, NEW c \in 0..MaxClaims,
         Takes(p, op, c)
  PROVE  /\ call' \in [People -> [op : Ops \cup {"idle"}, claim : 0..MaxClaims]]
         /\ call'[p].op = op /\ call'[p].claim = c
         /\ \A q \in People : q # p => call'[q] = call[q]
         /\ op # "create" => Filing' \subseteq Filing \ {p}
<1>1. /\ call' \in [People -> [op : Ops \cup {"idle"}, claim : 0..MaxClaims]]
      /\ call'[p].op = op /\ call'[p].claim = c
      /\ \A q \in People : q # p => call'[q] = call[q]
  BY DEF TypeOK, Takes
<1>2. ASSUME op # "create", NEW u \in Callers, call'[u].op = "create"
      PROVE  u # p /\ call[u].op = "create"
  BY <1>1, <1>2 DEF People
<1> QED BY <1>1, <1>2 DEF Filing

\* A call p that ends.
LEMMA EndsTyped ==
  ASSUME TypeOK, NEW p \in People, Ends(p)
  PROVE  /\ call' \in [People -> [op : Ops \cup {"idle"}, claim : 0..MaxClaims]]
         /\ call'[p].op = "idle"
         /\ \A q \in People : q # p => call'[q] = call[q]
         /\ Filing' \subseteq Filing \ {p}
<1>1. Takes(p, "idle", 0)
  BY DEF Ends, Takes, NoCall
<1>2. "idle" \in Ops \cup {"idle"} /\ 0 \in 0..MaxClaims
  BY ClaimsAssumption
<1> QED BY <1>1, <1>2, GoesTyped

\* Deciding on a claim that has been read starts a call about it, and about
\* a draft only the call that submits it.
LEMMA AskingKeeps ==
  ASSUME ClaimsInv, NEW p \in People, NEW op \in Ops \ {"create", "normalize"},
         NEW c \in Claims, NEW S \in SUBSET ClaimStatuses,
         "DRAFT" \in S => op = "submit", Asks(p, op, c, S)
  PROVE  ClaimsInv'
<1> USE DEF ClaimsInv, Asks, records, locks
<1>0. MaxClaims \in Nat /\ c \in 1..MaxClaims /\ filed \in Nat
  BY ClaimsAssumption DEF Claims, TypeOK
<1>1. /\ call' \in [People -> [op : Ops \cup {"idle"}, claim : 0..MaxClaims]]
      /\ call'[p].op = op /\ call'[p].claim = c
      /\ \A q \in People : q # p => call'[q] = call[q]
      /\ Filing' \subseteq Filing
  BY <1>0, GoesTyped
<1>2. TypeOK'
  BY <1>1 DEF TypeOK
<1>3. c \in 1..filed
  BY <1>0 DEF CallInv, ClaimStatuses
<1>4. CallInv'
  BY <1>1, <1>3 DEF CallInv
<1>5. BoundInv'
  BY <1>1, BoundKept
<1>6. ApproveInv'
  BY <1>1 DEF ApproveInv, People
<1>7. RecordInv' /\ VerificationFollows'
  BY <1>0, <1>1, <1>3 DEF RecordInv, VerificationFollows
<1> QED BY <1>2, <1>4, <1>5, <1>6, <1>7

\* The update by id that ends a call, whatever the status it overwrites.
LEMMA WritingKeeps ==
  ASSUME ClaimsInv, NEW p \in People, NEW s \in ClaimStatuses \ {"DRAFT", "APPROVED"},
         call[p].op \notin {"idle", "create"},
         SetStatus(call[p].claim, s), Ends(p),
         verification' \in Verifications \cup {"none"},
         filed = 1 =>
           \/ s \in {"SUBMITTED", "DISPUTED"} /\ verification' = "PENDING"
           \/ s = "REJECTED" /\ verification' = "REJECTED"
           \/ /\ s = "UNDER_REVIEW" /\ verification' = verification
              /\ call[p].op # "submit",
         requested' \subseteq Claims,
         UNCHANGED <<filed, evidence, entity, holder, linker>>
  PROVE  ClaimsInv'
<1> DEFINE c == call[p].claim
<1> USE DEF ClaimsInv
<1>0. /\ MaxClaims \in Nat /\ filed \in 0..MaxClaims
      /\ c \in 1..filed /\ c \in Claims
  BY ClaimsAssumption DEF CallInv, Claims, TypeOK
<1>1. /\ call' \in [People -> [op : Ops \cup {"idle"}, claim : 0..MaxClaims]]
      /\ call'[p].op = "idle"
      /\ \A q \in People : q # p => call'[q] = call[q]
      /\ Filing' \subseteq Filing
  BY EndsTyped
<1>2. /\ status' \in [Claims -> ClaimStatuses \cup {"none"}]
      /\ status'[c] = s
      /\ \A d \in Claims : d # c => status'[d] = status[d]
  BY <1>0 DEF SetStatus, TypeOK
<1>3. TypeOK'
  BY <1>1, <1>2 DEF TypeOK
<1>4. CallInv'
  <2>1. \A d \in Claims : status'[d] = "none" <=> d > filed
    BY <1>0, <1>2 DEF CallInv, ClaimStatuses
  <2> QED BY <1>1, <2>1 DEF CallInv
<1>5. BoundInv'
  BY <1>1, BoundKept
<1>6. ApproveInv'
  BY <1>1, <1>2 DEF ApproveInv, People
<1>7. ASSUME filed = 1
      PROVE  RecordInv' /\ VerificationFollows'
  <2>1. c = 1 /\ status'[1] = s
    BY <1>0, <1>2, <1>7
  <2>2. s = "UNDER_REVIEW" => verification' \in {"PENDING", "REJECTED"}
    BY <1>7 DEF RecordInv
  <2> QED BY <1>7, <2>1, <2>2 DEF RecordInv, VerificationFollows
<1>8. ASSUME filed # 1
      PROVE  RecordInv' /\ VerificationFollows'
  <2>1. filed # 0
    BY <1>0
  <2> QED BY <1>8, <2>1 DEF RecordInv, VerificationFollows
<1> QED BY <1>3, <1>4, <1>5, <1>6, <1>7, <1>8

-----------------------------------------------------------------------------
(* The invariant.                                                          *)

LEMMA ClaimsBegin == ClaimsInit => ClaimsInv
<1> SUFFICES ASSUME ClaimsInit PROVE ClaimsInv
  OBVIOUS
<1>1. TypeOK
  BY ClaimsAssumption DEF ClaimsInit, TypeOK, Ops, NoCall, nobody, Evidence, Verifications
<1>2. CallInv
  BY ClaimsAssumption DEF ClaimsInit, CallInv, Claims, NoCall
<1>3. BoundInv /\ RecordInv /\ VerificationFollows
  BY DEF ClaimsInit, BoundInv, RecordInv, VerificationFollows
<1>4. ApproveInv
  BY DEF ClaimsInit, ApproveInv, NoCall, People
<1> QED BY <1>1, <1>2, <1>3, <1>4 DEF ClaimsInv

\* The insert counts the caller out of those past the check.
LEMMA CreatingKeeps ==
  ASSUME ClaimsInv, NEW u \in Callers, CreateClaim(u)
  PROVE  ClaimsInv'
<1> USE DEF ClaimsInv
<1>0. /\ MaxClaims \in Nat /\ filed \in 0..MaxClaims /\ filed' = filed + 1
      /\ filed + 1 \in Claims /\ u \in People /\ u \in Filing
  BY ClaimsAssumption DEF CreateClaim, Claims, TypeOK, People, Filing
<1>1. /\ call' \in [People -> [op : Ops \cup {"idle"}, claim : 0..MaxClaims]]
      /\ call'[u].op = "idle"
      /\ \A q \in People : q # u => call'[q] = call[q]
      /\ Filing' \subseteq Filing \ {u}
  BY <1>0, EndsTyped DEF CreateClaim
<1>2. /\ status' \in [Claims -> ClaimStatuses \cup {"none"}]
      /\ status'[filed + 1] = "DRAFT"
      /\ \A d \in Claims : d # filed + 1 => status'[d] = status[d]
  BY <1>0 DEF CreateClaim, SetStatus, TypeOK, ClaimStatuses
<1>3. TypeOK'
  <2>1. verification' \in Verifications \cup {"none"}
    BY DEF CreateClaim, Ensured, TypeOK, Verifications
  <2> QED BY <1>0, <1>1, <1>2, <2>1 DEF CreateClaim, TypeOK, locks, Claims
<1>4. CallInv'
  <2>1. \A d \in Claims : status'[d] = "none" <=> d > filed'
    BY <1>0, <1>2 DEF CallInv, ClaimStatuses, Claims
  <2>2. \A p \in People : call'[p].op \notin {"idle", "create"} => call'[p].claim \in 1..filed'
    BY <1>0, <1>1 DEF CallInv
  <2> QED BY <2>1, <2>2 DEF CallInv
<1>5. BoundInv'
  <2>1. /\ IsFiniteSet(Filing \ {u})
        /\ Cardinality(Filing \ {u}) = Cardinality(Filing) - 1
    BY <1>0, CreatorsFinite, FS_RemoveElement
  <2>2. /\ Cardinality(Filing') \in Nat
        /\ Cardinality(Filing') <= Cardinality(Filing) - 1
    BY <1>1, <2>1, FS_Subset, FS_CardinalityType
  <2> QED BY <1>0, <2>2, CreatorsFinite DEF BoundInv
<1>6. ApproveInv'
  BY <1>0, <1>1, <1>2 DEF CreateClaim, ApproveInv, locks, People
<1>7. CASE filed = 0
  <2>1. status'[1] = "DRAFT" /\ verification' = "UNVERIFIED"
    BY <1>0, <1>2, <1>7 DEF CreateClaim, Ensured, RecordInv
  <2>2. \A p \in People : call[p].op \in {"idle", "create"}
    BY <1>7 DEF CallInv
  <2>3. RecordInv'
    BY <1>0, <1>1, <1>7, <2>1, <2>2 DEF RecordInv
  <2>4. VerificationFollows'
    BY <2>1 DEF VerificationFollows
  <2> QED BY <1>3, <1>4, <1>5, <1>6, <2>3, <2>4
<1>8. CASE filed # 0
  <2>1. RecordInv' /\ VerificationFollows'
    BY <1>0, <1>8 DEF RecordInv, VerificationFollows
  <2> QED BY <1>3, <1>4, <1>5, <1>6, <2>1
<1> QED BY <1>7, <1>8

\* A transaction that fails gives its locks back and nothing else.
LEMMA GivingUpKeeps ==
  ASSUME ClaimsInv, NEW p \in People, GiveUp(p)
  PROVE  ClaimsInv'
<1> USE DEF ClaimsInv
<1>1. /\ call' \in [People -> [op : Ops \cup {"idle"}, claim : 0..MaxClaims]]
      /\ call'[p].op = "idle"
      /\ \A q \in People : q # p => call'[q] = call[q]
      /\ Filing' \subseteq Filing
  BY EndsTyped DEF GiveUp
<1>2. /\ holder' \in [Claims -> Admins \cup {nobody}]
      /\ linker' \in Admins \cup {nobody}
      /\ linker # p => linker' = linker
  BY DEF GiveUp, Releases, TypeOK
<1>3. TypeOK'
  BY <1>1, <1>2 DEF TypeOK, GiveUp, records
<1>4. CallInv'
  BY <1>1 DEF CallInv, GiveUp, records
<1>5. BoundInv'
  BY <1>1, BoundKept DEF GiveUp, records
<1>6. ApproveInv'
  BY <1>1, <1>2 DEF ApproveInv, GiveUp, records, People
<1>7. RecordInv' /\ VerificationFollows'
  BY <1>1 DEF RecordInv, VerificationFollows, GiveUp, records
<1> QED BY <1>3, <1>4, <1>5, <1>6, <1>7

\* An approval takes its claim, then the entity, which is a shadow: whoever
\* is at the last statement holds it and waits for itself.
LEMMA ApprovingKeeps ==
  ASSUME ClaimsInv, NEW a \in Admins,
         BeginApproval(a) \/ LinkShadowEntity(a) \/ FinishApproval(a)
  PROVE  ClaimsInv'
<1> USE DEF ClaimsInv
<1>0. /\ a \in People /\ a # nobody /\ call[a].claim \in 0..MaxClaims
      /\ call[a].op \notin {"idle", "create"} /\ call[a].op # "submit"
  BY ClaimsAssumption
     DEF BeginApproval, LinkShadowEntity, FinishApproval, People, nobody, TypeOK
<1>1. /\ call' \in [People -> [op : Ops \cup {"idle"}, claim : 0..MaxClaims]]
      /\ call'[a].op \in {"idle", "link", "normalize"}
      /\ call'[a].op # "idle" => call'[a].claim = call[a].claim
      /\ \A q \in People : q # a => call'[q] = call[q]
      /\ Filing' \subseteq Filing
  <2>1. CASE BeginApproval(a)
    BY <1>0, <2>1, GoesTyped DEF BeginApproval, Ops
  <2>2. CASE LinkShadowEntity(a)
    BY <1>0, <2>2, GoesTyped DEF LinkShadowEntity, Ops
  <2>3. CASE FinishApproval(a)
    BY <1>0, <2>3, EndsTyped DEF FinishApproval
  <2> QED BY <2>1, <2>2, <2>3
<1>2. UNCHANGED records
  BY DEF BeginApproval, LinkShadowEntity, FinishApproval, ApproveInv, records
<1>3. /\ holder' \in [Claims -> Admins \cup {nobody}]
      /\ linker' \in Admins \cup {nobody}
  BY <1>0 DEF BeginApproval, LinkShadowEntity, FinishApproval, Releases, TypeOK
<1>4. TypeOK'
  BY <1>1, <1>2, <1>3 DEF TypeOK, records
<1>5. CallInv'
  BY <1>0, <1>1, <1>2 DEF CallInv, records
<1>6. BoundInv'
  BY <1>1, <1>2, BoundKept DEF records
<1>7. \A b \in Admins : call'[b].op = "normalize" => linker' = b
  <2>1. CASE BeginApproval(a)
    BY <1>0, <1>1, <2>1 DEF BeginApproval, Takes, ApproveInv, People, TypeOK
  <2>2. CASE LinkShadowEntity(a)
    <3>1. \A b \in Admins : call[b].op # "normalize"
      BY <2>2, ClaimsAssumption DEF LinkShadowEntity, ApproveInv, nobody
    <3>2. linker' = a
      BY <2>2 DEF LinkShadowEntity, ApproveInv
    <3> QED BY <1>1, <3>1, <3>2 DEF People
  <2>3. CASE FinishApproval(a)
    <3>1. linker = a
      BY <2>3 DEF FinishApproval, ApproveInv
    <3>2. \A b \in Admins : b # a => call[b].op # "normalize"
      BY <3>1 DEF ApproveInv
    <3>3. call'[a].op = "idle"
      BY <1>0, <2>3 DEF FinishApproval, Ends, NoCall, TypeOK
    <3> QED BY <1>1, <3>2, <3>3 DEF People
  <2> QED BY <2>1, <2>2, <2>3
<1>8. ApproveInv'
  BY <1>2, <1>7 DEF ApproveInv, records
<1>9. RecordInv' /\ VerificationFollows'
  <2>1. ASSUME filed = 1, status[1] = "DRAFT" PROVE FALSE
    BY <1>0, <2>1
       DEF RecordInv
  <2> QED BY <1>2, <2>1 DEF RecordInv, VerificationFollows, records
<1> QED BY <1>4, <1>5, <1>6, <1>8, <1>9

LEMMA ClaimsStep == ClaimsInv /\ [ClaimsNext]_claimsVars => ClaimsInv'
<1> SUFFICES ASSUME ClaimsInv, [ClaimsNext]_claimsVars PROVE ClaimsInv'
  OBVIOUS
<1> USE DEF People
<1>1. ASSUME NEW u \in Callers, AskCreate(u)
      PROVE  ClaimsInv'
  <2>1. filed = 0 /\ UNCHANGED <<records, locks>>
    BY <1>1 DEF AskCreate, HasClaimForEntity, ClaimsInv, TypeOK
  <2>2. /\ call' \in [People -> [op : Ops \cup {"idle"}, claim : 0..MaxClaims]]
        /\ call'[u].op = "create"
        /\ \A q \in People : q # u => call'[q] = call[q]
    <3>1. u \in People /\ "create" \in Ops \cup {"idle"} /\ 0 \in 0..MaxClaims
      BY ClaimsAssumption DEF Ops
    <3>2. TypeOK /\ Takes(u, "create", 0)
      BY <1>1 DEF AskCreate, ClaimsInv
    <3> HIDE DEF People
    <3> QED BY <3>1, <3>2, GoesTyped
  <2>3. TypeOK' /\ CallInv' /\ ApproveInv'
    BY <2>1, <2>2 DEF TypeOK, CallInv, ApproveInv, ClaimsInv, records, locks
  <2>4. BoundInv' /\ RecordInv' /\ VerificationFollows'
    BY <2>1 DEF BoundInv, RecordInv, VerificationFollows, ClaimsInv, records
  <2> QED BY <2>3, <2>4 DEF ClaimsInv
<1>2. ASSUME NEW u \in Callers, NEW c \in Claims,
             RequestDocumentUpload(u, c) \/ ConfirmDocumentUpload(u, c)
      PROVE  ClaimsInv'
  <2>1. /\ evidence' \in [Claims -> Evidence]
        /\ UNCHANGED <<filed, status, verification, entity, requested, locks, call>>
    BY <1>2 DEF RequestDocumentUpload, ConfirmDocumentUpload, ClaimsInv, TypeOK, Evidence
  <2>2. Filing' = Filing
    BY <2>1 DEF Filing
  <2> QED BY <2>1, <2>2
          DEF ClaimsInv, TypeOK, CallInv, BoundInv, ApproveInv, RecordInv,
              VerificationFollows, locks
<1>3. ASSUME NEW u \in Callers, NEW c \in Claims, AskSubmit(u, c) \/ AskDispute(u, c)
      PROVE  ClaimsInv'
  BY <1>3, AskingKeeps DEF AskSubmit, AskDispute, ClaimStatuses, Ops
<1>4. ASSUME NEW a \in Admins, NEW c \in Claims,
             AskAssign(a, c) \/ AskApprove(a, c) \/ AskReject(a, c)
      PROVE  ClaimsInv'
  BY <1>4, AskingKeeps DEF AskAssign, AskApprove, AskReject, ClaimStatuses, Ops
<1>5. ASSUME NEW w \in Callbacks, WorkerReads(w)
      PROVE  ClaimsInv'
  <2>1. PICK c \in requested : status[c] = "SUBMITTED" /\ Takes(w, "review", c)
    BY <1>5 DEF WorkerReads
  <2>2. c \in Claims /\ Asks(w, "review", c, {"SUBMITTED"})
    BY <1>5, <2>1 DEF WorkerReads, Asks, ClaimsInv, TypeOK
  <2> QED BY <2>2, AskingKeeps DEF ClaimStatuses, Ops
<1>6. ASSUME NEW w \in Callbacks, WorkerPasses(w)
      PROVE  ClaimsInv'
  <2>1. /\ requested' \subseteq Claims
        /\ UNCHANGED <<filed, status, evidence, verification, entity, locks, call>>
    BY <1>6 DEF WorkerPasses, Delivered, ClaimsInv, TypeOK
  <2>2. Filing' = Filing
    BY <2>1 DEF Filing
  <2> QED BY <2>1, <2>2
          DEF ClaimsInv, TypeOK, CallInv, BoundInv, ApproveInv, RecordInv,
              VerificationFollows, locks
<1>7. ASSUME NEW u \in Callers, CreateClaim(u)
      PROVE  ClaimsInv'
  BY <1>7, CreatingKeeps
<1>8. ASSUME NEW u \in Callers, SubmitClaim(u)
      PROVE  ClaimsInv'
  <2>1. call[u].claim \in Claims
    BY <1>8 DEF SubmitClaim, ClaimsInv, CallInv, TypeOK, Claims
  <2> QED BY <1>8, <2>1, WritingKeeps
          DEF SubmitClaim, UpdateEntityVerificationStatus, ClaimStatuses, Verifications, locks,
              ClaimsInv, TypeOK
<1>9. ASSUME NEW u \in Callers, DisputeClaim(u)
      PROVE  ClaimsInv'
  BY <1>9, WritingKeeps
     DEF DisputeClaim, UpdateEntityVerificationStatus, ClaimStatuses, Verifications, locks,
         ClaimsInv, TypeOK
<1>10. ASSUME NEW a \in Admins, AssignClaim(a)
       PROVE  ClaimsInv'
  BY <1>10, WritingKeeps DEF AssignClaim, ClaimStatuses, locks, ClaimsInv, TypeOK
<1>11. ASSUME NEW a \in Admins, RejectClaim(a)
       PROVE  ClaimsInv'
  BY <1>11, WritingKeeps
     DEF RejectClaim, UpdateEntityVerificationStatus, ClaimStatuses, Verifications, locks,
         ClaimsInv, TypeOK
<1>12. ASSUME NEW a \in Admins,
              BeginApproval(a) \/ LinkShadowEntity(a) \/ FinishApproval(a)
       PROVE  ClaimsInv'
  BY <1>12, ApprovingKeeps
<1>13. ASSUME NEW w \in Callbacks, WorkerMoves(w)
       PROVE  ClaimsInv'
  <2>1. requested' \subseteq Claims
    BY <1>13 DEF WorkerMoves, Delivered, ClaimsInv, TypeOK
  <2> QED BY <1>13, <2>1, WritingKeeps DEF WorkerMoves, ClaimStatuses, locks, ClaimsInv, TypeOK
<1>14. ASSUME NEW p \in People, GiveUp(p)
       PROVE  ClaimsInv'
  BY <1>14, GivingUpKeeps
<1>15. CASE UNCHANGED claimsVars
  <2>1. Filing' = Filing
    BY <1>15 DEF Filing, claimsVars
  <2> QED BY <1>15, <2>1
          DEF ClaimsInv, TypeOK, CallInv, BoundInv, ApproveInv, RecordInv,
              VerificationFollows, claimsVars
<1> QED BY <1>1, <1>2, <1>3, <1>4, <1>5, <1>6, <1>7, <1>8, <1>9, <1>10, <1>11, <1>12,
           <1>13, <1>14, <1>15
        DEF ClaimsNext, UserAsks, AdminAsks, GoesOn, UserGoesOn, AdminGoesOn

-----------------------------------------------------------------------------
(* Theorems.                                                               *)

\* In every state calls are about claims that exist, at most one approval
\* holds the entity, and the verification record agrees with the claim.
THEOREM ClaimsInvariant == ClaimsSpec => []ClaimsInv
<1> QED BY ClaimsBegin, ClaimsStep, PTL DEF ClaimsSpec

\* CreateClaim's unprotected check lets through at most one claim per caller,
\* however many callers race.
THEOREM ClaimsAreBounded == ClaimsSpec => []ClaimsBounded
<1>1. ClaimsInv => ClaimsBounded
  <2> SUFFICES ASSUME ClaimsInv PROVE ClaimsBounded
    OBVIOUS
  <2>1. filed \in Nat
    BY ClaimsAssumption DEF ClaimsInv, TypeOK
  <2> QED BY <2>1, CreatorsFinite DEF ClaimsInv, BoundInv, ClaimsBounded
<1> QED BY <1>1, ClaimsInvariant, PTL

\* The verification record follows the only claim of an entity through every
\* overwrite by reviewers, the claimant and the worker.
THEOREM RecordFollows == ClaimsSpec => []VerificationFollows
<1>1. ClaimsInv => VerificationFollows
  BY DEF ClaimsInv
<1> QED BY <1>1, ClaimsInvariant, PTL

\* ApproveClaim as written never completes: EnsureNormalizedName waits for the
\* row its own transaction has updated, so no claim is ever APPROVED and the
\* entity stays a shadow.
THEOREM NeverApproved ==
  ClaimsSpec => [](entity = "shadow" /\ \A c \in Claims : status[c] # "APPROVED")
<1>1. ClaimsInv => entity = "shadow" /\ \A c \in Claims : status[c] # "APPROVED"
  BY DEF ClaimsInv, ApproveInv
<1> QED BY <1>1, ClaimsInvariant, PTL

=============================================================================
