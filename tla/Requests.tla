------------------------------ MODULE Requests ------------------------------
(***************************************************************************)
(* One request on its way through the API: middleware/auth.go, admin.go    *)
(* and workspace.go, VerifyWorkspaceAccess, the handler and the writes of  *)
(* its service.  What it needs is read step by step; meanwhile the token   *)
(* may be revoked and members and roles be changed.                        *)
(*                                                                         *)
(* A role holds the permission the route needs, all, another one or none.  *)
(* Of an administrator there is whether it is active with a role that the  *)
(* route admits.  Rate limits, CORS, scopes of tokens and headers that are *)
(* missing or malformed are left out.                                      *)
(***************************************************************************)
EXTENDS Integers, FiniteSets

API == INSTANCE Routes

CONSTANT MaxShifts  \* bound on changes while the request is on its way

ASSUME RequestsAssumption == MaxShifts \in Nat

VARIABLES
  route,     \* the route of the request
  stage,     \* how far it has come
  token,     \* "good", "expired" or "revoked"
  standing,  \* the user is ACTIVE; the administrator is, with a role admitted
  relation,  \* of the user to the workspace
  grants,    \* permissions of the roles assigned to the user
  caught,    \* permissions RequireWorkspace has put in the context
  since,     \* what has been true at some time since the request began
  wrote,     \* writes done
  answer,    \* the status answered, 0 for none
  shifts

requestVars ==
  <<route, stage, token, standing, relation, grants, caught, since, wrote, answer, shifts>>
surroundings == <<token, standing, relation, grants, shifts>>

Relations == {"none", "PEMILIK", "KARYAWAN", "INACTIVE"}
Service == route.handler

\* What a role may be given: valid permissions, or all of them.
Grantable == {{}, {"another"}, {"*"}} \cup {{p} : p \in API!AllPermissions \cap {route.needs}}

Facts ==
  {f \in {"token", "standing", "member", "permitted"} :
     CASE f = "token" -> token = "good"
       [] f = "standing" -> standing
       [] f = "member" -> relation \in {"PEMILIK", "KARYAWAN"}
       [] f = "permitted" -> relation = "PEMILIK" \/ grants \cap {"*", route.needs} # {}}

RequestsInit ==
  /\ route \in API!NewRouter
  /\ stage = "begun"
  /\ token \in {"good", "expired", "revoked"} /\ standing \in BOOLEAN
  /\ relation \in IF route.chain = "member" THEN Relations ELSE {"none"}
  /\ grants \in IF route.chain = "member" THEN Grantable ELSE {{}}
  /\ caught = {}
  /\ since = Facts
  /\ wrote = 0 /\ answer = 0 /\ shifts = 0

Reaches(to) == stage' = to /\ UNCHANGED <<route, since, surroundings>>
Passes(to) == Reaches(to) /\ UNCHANGED <<caught, wrote, answer>>
Responds(status) == Reaches("answered") /\ answer' = status

\* A check that fails, for what it finds or because the query fails.
Denies(status) == Responds(status) /\ UNCHANGED <<caught, wrote>>

-----------------------------------------------------------------------------
(* The middleware.                                                         *)

Begin ==
  /\ stage = "begun"
  /\ Passes(IF route.chain = "public" THEN "handler" ELSE "token")

\* The signature and the expiry, then the blacklist.
Authenticate ==
  /\ stage = "token"
  /\ \/ token = "good" /\ Passes("standing")
     \/ token # "good" /\ Denies(401)
     \/ Denies(500)

\* GetUserStatus, or GetAdminRole with RequireRole; an administrator of any
\* role may log out or set MFA up.
CheckStanding ==
  /\ stage = "standing"
  /\ \/ standing /\ Passes(IF route.chain = "member" THEN "relation" ELSE "handler")
     \/ Denies(401)
     \/ route.chain = "admin" /\ Denies(403)

\* Faulty variant: the status of the relation is not looked at.
AnyRelation == relation
GetUserWorkspaceAccess == IF relation = "INACTIVE" THEN "none" ELSE relation

\* The first half of VerifyWorkspaceAccess.
VerifyRelation ==
  /\ stage = "relation"
  /\ \/ /\ GetUserWorkspaceAccess = "PEMILIK"
        /\ caught' = {"*"}
        /\ Reaches("permission") /\ UNCHANGED <<wrote, answer>>
     \/ GetUserWorkspaceAccess \notin {"none", "PEMILIK"} /\ Passes("roles")
     \/ Denies(403)

ListRoleAssignmentsByMember == grants

\* The second half, for a KARYAWAN.
VerifyRoles ==
  /\ stage = "roles"
  /\ \/ /\ caught' = ListRoleAssignmentsByMember
        /\ Reaches("permission") /\ UNCHANGED <<wrote, answer>>
     \/ Denies(403)

\* "resource:*" would do as well, and no role can be given it.
hasPermission(permissions, required) == "*" \in permissions \/ required \in permissions
RequireAssignedRole == caught # {}

RequirePermission ==
  /\ stage = "permission"
  /\ IF RequireAssignedRole /\ hasPermission(caught, route.needs)
     THEN Passes("handler") ELSE Denies(403)

-----------------------------------------------------------------------------
(* The handler.                                                            *)

\* An error of the service that the handler knows, after the writes that went
\* before it.
Refuse ==
  /\ stage = "handler"
  /\ \E refusal \in Service.refusals : refusal[3] = wrote /\ Responds(refusal[2])
  /\ UNCHANGED <<caught, wrote>>

ServiceWrites ==
  /\ stage = "handler" /\ wrote < Service.writes
  /\ wrote' = wrote + 1
  /\ Reaches("handler") /\ UNCHANGED <<caught, answer>>

\* A query, a write or its reply fails, or the service refuses with an error
\* the handler does not know.
ServiceFails ==
  /\ stage = "handler"
  /\ wrote' \in {wrote, wrote + 1} /\ wrote' <= Service.writes
  /\ Responds(Service.otherwise) /\ UNCHANGED caught

Succeed ==
  /\ stage = "handler" /\ wrote = Service.writes
  /\ Responds(Service.success) /\ UNCHANGED <<caught, wrote>>

-----------------------------------------------------------------------------
(* Meanwhile.                                                              *)

Shift ==
  /\ stage # "answered"
  /\ shifts < MaxShifts /\ shifts' = shifts + 1
  /\ UNCHANGED <<route, stage, caught, wrote, answer>>
  /\ since' = since \cup Facts'

\* Logout, or its time is over.
TokenEnds ==
  /\ token = "good" /\ token' \in {"expired", "revoked"}
  /\ UNCHANGED <<standing, relation, grants>> /\ Shift

\* A user becomes ACTIVE once; administrators come and go.
StandingChanges ==
  /\ standing' = ~standing
  /\ standing => route.chain \in {"admin", "setup"}
  /\ UNCHANGED <<token, relation, grants>> /\ Shift

\* AcceptInvite, UpdateMember and RemoveMember; owners stay.
RelationChanges ==
  /\ route.chain = "member" /\ relation # "PEMILIK"
  /\ relation' \in {"none", "KARYAWAN", "INACTIVE"} \ {relation}
  /\ UNCHANGED <<token, standing, grants>> /\ Shift

\* AssignRole, UnassignRole, UpdateWorkspaceRole and DeleteWorkspaceRole.
GrantsChange ==
  /\ route.chain = "member"
  /\ grants' \in Grantable \ {grants}
  /\ UNCHANGED <<token, standing, relation>> /\ Shift

RequestsNext ==
  \/ Begin \/ Authenticate \/ CheckStanding \/ VerifyRelation \/ VerifyRoles \/ RequirePermission
  \/ Refuse \/ ServiceWrites \/ ServiceFails \/ Succeed
  \/ TokenEnds \/ StandingChanges \/ RelationChanges \/ GrantsChange

-----------------------------------------------------------------------------
\* A request is served only if its token was good, its user active, a member
\* and permitted each at some time since it began: nothing older decides.
ServedWasEntitled ==
  stage = "handler" =>
    CASE route.chain = "public" -> TRUE
      [] route.chain = "member" -> since = {"token", "standing", "member", "permitted"}
      [] OTHER -> {"token", "standing"} \subseteq since

\* A client that a handler, one that tells refusals from failures, answers
\* with a 4xx may correct its request and send it again: nothing was written.
\* Two services write before they refuse: UpdateProfile has made the default
\* profile by then, and ConfirmUpload has committed when its document cannot
\* be read again.
RefusedIsUnwritten ==
  stage = "answered" /\ answer \in 400..499 /\ Service.otherwise >= 500 =>
    \/ wrote = 0
    \/ Service = API!UpdateProfile /\ answer = 400 /\ wrote = 1
    \/ Service = API!ConfirmUpload /\ answer = 404

-----------------------------------------------------------------------------
(* The invariant behind ServedWasEntitled.                                 *)

\* What the checks before a stage have seen.
SeenBefore(at) ==
  CASE at \in {"begun", "token"} -> {}
    [] at = "standing" -> {"token"}
    [] at = "relation" -> {"token", "standing"}
    [] at \in {"roles", "permission"} -> {"token", "standing", "member"}
    [] OTHER -> {}

RequestsInv ==
  /\ relation \in Relations
  /\ Facts \subseteq since /\ since \subseteq {"token", "standing", "member", "permitted"}
  /\ SeenBefore(stage) \subseteq since
  /\ stage \in {"token", "standing"} => route.chain # "public"
  /\ stage \in {"relation", "roles", "permission"} => route.chain = "member"
  /\ stage = "permission" /\ hasPermission(caught, route.needs) => "permitted" \in since
  /\ ServedWasEntitled
=============================================================================
