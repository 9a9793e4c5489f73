----------------------------- MODULE Identities -----------------------------
(***************************************************************************)
(* The legal identifiers and the aliases of a shadow entity, which those   *)
(* who claim it may change until they have submitted their claim:          *)
(* internal/identity/service.go.  A request is authorized by one statement *)
(* and writes by another, with no transaction around them.                 *)
(*                                                                         *)
(* The identifiers are of one type, the five are alike; an alias is one of *)
(* a few rows.  The entity has no owner (module Claims: no approval takes  *)
(* effect), so only claims authorize.  Names, formats and the verification *)
(* marks, which nothing sets, are left out.                                *)
(***************************************************************************)
EXTENDS Integers, FiniteSets

CONSTANTS
  Claimants,   \* users, each with at most one claim on the entity
  Forms,       \* requests that may overlap
  Numbers,     \* values of an identifier
  MaxAliases,  \* bound on aliases
  MaxMoves     \* bound on statements that write the status of a claim

ASSUME IdentitiesAssumption ==
  /\ IsFiniteSet(Claimants) /\ IsFiniteSet(Forms)
  /\ {MaxAliases, MaxMoves} \subseteq Nat
  /\ "no number" \notin Numbers

VARIABLES
  claim,     \* claim[u]: the status of u's claim
  legal,     \* the identifier in entity_legal_ids
  aliases,   \* rows of entity_aliases
  form,      \* form[r]: the request r
  filed,     \* filed[u]: legal and aliases when u's claim left u's hands
  excused,   \* claims that a request let through by an open claim may overtake
  moves

identityVars == <<claim, legal, aliases, form, filed, excused, moves>>

NoNumber == "no number"
Blank == [by |-> "nobody", does |-> "nothing"]
AliasRows == 1..MaxAliases
Open == {"DRAFT", "REJECTED", "DISPUTED"}
InReview == {"SUBMITTED", "UNDER_REVIEW"}

IdentitiesInit ==
  /\ claim = [u \in Claimants |-> "none"]
  /\ legal = NoNumber /\ aliases = {}
  /\ form = [r \in Forms |-> Blank]
  /\ filed = [u \in Claimants |-> <<NoNumber, {}>>]
  /\ excused = {}
  /\ moves = 0

-----------------------------------------------------------------------------
(* Authorization.                                                          *)

\* Faulty variant: a submitted claim authorizes too.
ManagesSubmitted(u) == claim[u] \in Open \cup {"SUBMITTED"}
UserCanManageClaimEntity(u) == claim[u] \in Open

UserIsClaimantForEntity(u) == claim[u] # "none"

authorizeEntity(u, requireWrite) ==
  IF requireWrite THEN UserCanManageClaimEntity(u) ELSE UserIsClaimantForEntity(u)
authorizeEntityRead(u) == authorizeEntity(u, FALSE)
authorizeEntityWrite(u) == authorizeEntity(u, TRUE)

Writes == {"add id", "update id", "delete id", "add alias", "delete alias"}
Reads == {"ids", "aliases", "status", "duplicates"}

\* A request of somebody whose claim is open excuses the claims of others.
Others(u) == {v \in Claimants \ {u} : claim[u] \in Open}

AuthorizeRequest(r, u) ==
  /\ form[r] = Blank
  /\ \E does \in Writes \cup Reads :
       /\ IF does \in Writes THEN authorizeEntityWrite(u) ELSE authorizeEntityRead(u)
       /\ form' = [form EXCEPT ![r] = [by |-> u, does |-> does]]
       /\ excused' = IF does \in Writes THEN excused \cup Others(u) ELSE excused
  /\ UNCHANGED <<claim, legal, aliases, filed, moves>>

-----------------------------------------------------------------------------
(* What an authorized request does.                                        *)

Serves(r, does) ==
  /\ form[r].does = does
  /\ form' = [form EXCEPT ![r] = Blank]
  /\ UNCHANGED <<claim, filed, excused, moves>>

\* One identifier of a type: the second INSERT is refused, ErrLegalIDExists.
CreateEntityLegalID(n) == legal' = IF legal = NoNumber THEN n ELSE legal
UpdateEntityLegalID(n) == legal' = IF legal = NoNumber THEN legal ELSE n
DeleteEntityLegalID == legal' = NoNumber
CreateEntityAlias(a) == a \notin aliases /\ aliases' = aliases \cup {a}
DeleteEntityAlias(a) == aliases' = aliases \ {a}

AddLegalID(r) ==
  /\ Serves(r, "add id")
  /\ \E n \in Numbers : CreateEntityLegalID(n)
  /\ UNCHANGED aliases

\* Nothing is said of an identifier that is not there.
UpdateLegalID(r) ==
  /\ Serves(r, "update id")
  /\ \E n \in Numbers : UpdateEntityLegalID(n)
  /\ UNCHANGED aliases

DeleteLegalID(r) ==
  /\ Serves(r, "delete id")
  /\ DeleteEntityLegalID
  /\ UNCHANGED aliases

AddAlias(r) ==
  /\ Serves(r, "add alias")
  /\ \E a \in AliasRows : CreateEntityAlias(a)
  /\ UNCHANGED legal

DeleteAlias(r) ==
  /\ Serves(r, "delete alias")
  /\ \E a \in AliasRows : DeleteEntityAlias(a)
  /\ UNCHANGED legal

\* Read and answered, whatever has become of the claim.
GetLegalIDs(r) == Serves(r, "ids") /\ UNCHANGED <<legal, aliases>>
GetAliases(r) == Serves(r, "aliases") /\ UNCHANGED <<legal, aliases>>
GetVerificationStatus(r) == Serves(r, "status") /\ UNCHANGED <<legal, aliases>>
FindDuplicates(r) == Serves(r, "duplicates") /\ UNCHANGED <<legal, aliases>>

\* The statement fails or the request is cut off.
FormFails(r) == form[r] # Blank /\ Serves(r, form[r].does) /\ UNCHANGED <<legal, aliases>>

-----------------------------------------------------------------------------
(* The claims, module Claims: each statement writes a status it decided on *)
(* before, so a claim that has left DRAFT may go from any status to any.   *)

ClaimGoes(u, from, to) ==
  /\ claim[u] \in from /\ moves < MaxMoves
  /\ claim' = [claim EXCEPT ![u] = to]
  /\ moves' = moves + 1
  /\ IF claim[u] \in Open /\ to \in InReview
     THEN /\ filed' = [filed EXCEPT ![u] = <<legal, aliases>>]
          /\ excused' =
               IF \E r \in Forms : form[r].does \in Writes
               THEN excused \cup {u} ELSE excused \ {u}
     ELSE UNCHANGED <<filed, excused>>
  /\ UNCHANGED <<legal, aliases, form>>

Left == (Open \cup InReview) \ {"DRAFT"}

CreateClaim(u) == ClaimGoes(u, {"none"}, "DRAFT")
SubmitClaim(u) == ClaimGoes(u, Left \cup {"DRAFT"}, "SUBMITTED")
ReviewClaim(u) == ClaimGoes(u, Left, "UNDER_REVIEW")
RejectClaim(u) == ClaimGoes(u, Left, "REJECTED")
DisputeClaim(u) == ClaimGoes(u, Left, "DISPUTED")

IdentitiesNext ==
  \/ \E r \in Forms :
       \/ \E u \in Claimants : AuthorizeRequest(r, u)
       \/ AddLegalID(r) \/ UpdateLegalID(r) \/ DeleteLegalID(r)
       \/ AddAlias(r) \/ DeleteAlias(r)
       \/ GetLegalIDs(r) \/ GetAliases(r) \/ GetVerificationStatus(r) \/ FindDuplicates(r)
       \/ FormFails(r)
  \/ \E u \in Claimants :
       CreateClaim(u) \/ SubmitClaim(u) \/ ReviewClaim(u) \/ RejectClaim(u) \/ DisputeClaim(u)

-----------------------------------------------------------------------------
\* What a reviewer sees of the entity is what it was when the claim left its
\* claimant's hands, unless a request let through before has come later or
\* somebody else whose claim is open may change it.
FrozenInReview ==
  \A u \in Claimants \ excused : claim[u] \in InReview => <<legal, aliases>> = filed[u]
=============================================================================
