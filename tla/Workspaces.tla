----------------------------- MODULE Workspaces -----------------------------
(***************************************************************************)
(* One person in one workspace: roles, invites and the membership, from    *)
(* internal/workspace/service.go and invite.go.                            *)
(*                                                                         *)
(* No call uses a transaction.  The requests of people who manage the      *)
(* workspace and of the person invited run side by side; each statement    *)
(* that matters is a step.  A row removed is never there again under the   *)
(* same id, so a read of it and a DELETE by its id are one step.           *)
(***************************************************************************)
EXTENDS Integers, FiniteSets

CONSTANTS
  Managers,    \* requests of members who may manage members and roles
  Guests,      \* requests of the person invited
  Roles,       \* custom roles
  MaxInvites,
  MaxJoins,    \* bound on memberships, one after the other
  MaxCuts      \* bound on calls cut off and statements that fail

ASSUME WorkspacesAssumption ==
  /\ IsFiniteSet(Guests)
  /\ Managers \cap Guests = {}
  /\ "none" \notin Roles
  /\ {MaxInvites, MaxJoins, MaxCuts} \subseteq Nat

VARIABLES
  role,      \* role[r]: "none" before r is created, "live", "gone"
  invite,    \* invite[i]: its status and role
  member,    \* the KARYAWAN relation of the person: number and status
  joins,     \* relations so far
  assigned,  \* the roles assigned; they outlive the membership
  call,      \* call[p]: the call in progress in p
  cuts,
  admitted,  \* admitted[i]: memberships that i has made
  lost,      \* lost[i]: of these, calls that ended before i was accepted
  unranked,  \* the membership was made by a call that ended before the grant
  taken,     \* roles taken from the person since the membership was made
  said,      \* the status the membership was last given
  crossed    \* two updates of the membership have overlapped

records == <<role, invite, member, joins, assigned>>
history == <<admitted, lost, unranked, taken, said, crossed>>
vars == <<records, call, cuts, history>>

People == Managers \cup Guests
Invites == 1..MaxInvites
Nobody == [id |-> 0, status |-> "none", via |-> 0]
Idle == [op |-> "idle"]

Init ==
  /\ role = [r \in Roles |-> "none"]
  /\ invite = [i \in Invites |-> [status |-> "none", role |-> "none"]]
  /\ member = Nobody
  /\ joins = 0
  /\ assigned = {}
  /\ call = [p \in People |-> Idle]
  /\ cuts = 0
  /\ admitted = [i \in Invites |-> 0]
  /\ lost = [i \in Invites |-> 0]
  /\ unranked = FALSE
  /\ taken = {}
  /\ said = "none"
  /\ crossed = FALSE

-----------------------------------------------------------------------------
(* Statements.                                                             *)

Does(p, c) == call' = [call EXCEPT ![p] = c]
Ends(p) == Does(p, Idle)
On(p, op) == call[p].op = op

\* ExistsRelation asks for a row of any status.
ExistsRelation == member # Nobody

\* accepted_at IS NULL AND expires_at > NOW().
ExistsPendingInvite == \E i \in Invites : invite[i].status = "open"

\* An UPDATE by id; a row that was deleted stays so.
MarkAccepted(i) ==
  invite' = IF invite[i].status = "gone" THEN invite
            ELSE [invite EXCEPT ![i].status = "accepted"]

\* A foreign key and a unique constraint let the INSERT through or not.
CanAssign(r) == role[r] = "live" /\ r \notin assigned

-----------------------------------------------------------------------------
(* Roles.                                                                  *)

CreateWorkspaceRole(r) ==
  /\ role[r] = "none"
  /\ role' = [role EXCEPT ![r] = "live"]
  /\ UNCHANGED <<invite, member, joins, assigned, call, cuts, history>>

\* The invites and the assignments of the role go with it.
DeleteWorkspaceRole(r) ==
  /\ role[r] = "live"
  /\ role' = [role EXCEPT ![r] = "gone"]
  /\ invite' = [i \in Invites |->
                  IF invite[i].role = r THEN [invite[i] EXCEPT !.status = "gone"] ELSE invite[i]]
  /\ assigned' = assigned \ {r}
  /\ UNCHANGED <<member, joins, call, cuts, history>>

AskAssign(m, r) ==
  /\ On(m, "idle")
  /\ role[r] = "live"
  /\ ExistsRelation
  /\ Does(m, [op |-> "assign", role |-> r])
  /\ UNCHANGED <<records, cuts, history>>

AssignRole(m) ==
  /\ On(m, "assign")
  /\ assigned' = IF CanAssign(call[m].role) THEN assigned \cup {call[m].role} ELSE assigned
  /\ Ends(m)
  /\ UNCHANGED <<role, invite, member, joins, cuts, history>>

UnassignRole(r) ==
  /\ r \in assigned
  /\ assigned' = assigned \ {r}
  /\ taken' = taken \cup {r}
  /\ UNCHANGED <<role, invite, member, joins, call, cuts>>
  /\ UNCHANGED <<admitted, lost, unranked, said, crossed>>

-----------------------------------------------------------------------------
(* Members.                                                                *)

\* Faulty variant: a request without a status is one for ACTIVE.
AskUpdateDefaulting(m) ==
  /\ On(m, "idle")
  /\ ExistsRelation
  /\ \E s \in {member.status, "ACTIVE", "INACTIVE"} :
       Does(m, [op |-> "update", id |-> member.id,
                status |-> IF s = member.status THEN "ACTIVE" ELSE s,
                asks |-> s # member.status])
  /\ crossed' = (crossed \/ \E o \in Managers : On(o, "update"))
  /\ UNCHANGED <<records, cuts, admitted, lost, unranked, taken, said>>

\* The row is read; a request that names no status writes back the one it read.
AskUpdate(m) ==
  /\ On(m, "idle")
  /\ ExistsRelation
  /\ \E s \in {"ACTIVE", "INACTIVE"}, asks \in BOOLEAN :
       /\ asks \/ s = member.status
       /\ Does(m, [op |-> "update", id |-> member.id, status |-> s, asks |-> asks])
  /\ crossed' = (crossed \/ \E o \in Managers : On(o, "update"))
  /\ UNCHANGED <<records, cuts, admitted, lost, unranked, taken, said>>

UpdateMember(m) ==
  /\ On(m, "update")
  /\ member' = IF member.id = call[m].id THEN [member EXCEPT !.status = call[m].status] ELSE member
  /\ said' = IF member.id = call[m].id /\ call[m].asks THEN call[m].status ELSE said
  /\ Ends(m)
  /\ UNCHANGED <<role, invite, joins, assigned, cuts, admitted, lost, unranked, taken, crossed>>

\* The assignments stay.
RemoveMember ==
  /\ ExistsRelation
  /\ member' = Nobody
  /\ said' = "none"
  /\ unranked' = FALSE
  /\ UNCHANGED <<role, invite, joins, assigned, call, cuts, admitted, lost, taken, crossed>>

-----------------------------------------------------------------------------
(* Invites.                                                                *)

\* Not for a member.
AskInvite(m, r) ==
  /\ On(m, "idle")
  /\ role[r] # "none"
  /\ ~ExistsRelation
  /\ Does(m, [op |-> "look", role |-> r])
  /\ UNCHANGED <<records, cuts, history>>

\* Not beside a pending invite, and not to a role that is gone.
LookForPending(m) ==
  /\ On(m, "look")
  /\ IF ExistsPendingInvite \/ role[call[m].role] # "live"
     THEN Ends(m)
     ELSE Does(m, [call[m] EXCEPT !.op = "invite"])
  /\ UNCHANGED <<records, cuts, history>>

CreateInvite(m) ==
  /\ On(m, "invite")
  /\ IF role[call[m].role] = "live"
     THEN \E i \in Invites :
            /\ invite[i].status = "none"
            /\ \A j \in Invites : j < i => invite[j].status # "none"
            /\ invite' = [invite EXCEPT ![i] = [status |-> "open", role |-> call[m].role]]
     ELSE UNCHANGED invite
  /\ Ends(m)
  /\ UNCHANGED <<role, member, joins, assigned, cuts, history>>

\* 24 hours later.
InviteExpires(i) ==
  /\ invite[i].status = "open"
  /\ invite' = [invite EXCEPT ![i].status = "expired"]
  /\ UNCHANGED <<role, member, joins, assigned, call, cuts, history>>

AskRevoke(m, i) ==
  /\ On(m, "idle")
  /\ invite[i].status \in {"open", "expired"}
  /\ Does(m, [op |-> "revoke", invite |-> i])
  /\ UNCHANGED <<records, cuts, history>>

\* By id, accepted in the meantime or not.
RevokeInvite(m) ==
  /\ On(m, "revoke")
  /\ invite' = [invite EXCEPT ![call[m].invite].status = "gone"]
  /\ Ends(m)
  /\ UNCHANGED <<role, member, joins, assigned, cuts, history>>

-----------------------------------------------------------------------------
(* AcceptInvite.                                                           *)

AskAccept(g, i) ==
  /\ On(g, "idle")
  /\ invite[i].status = "open"
  /\ Does(g, [op |-> "member?", invite |-> i])
  /\ UNCHANGED <<records, cuts, history>>

\* A member is not made again, and gets no role.
LookForMember(g) ==
  /\ On(g, "member?")
  /\ Does(g, [call[g] EXCEPT !.op = IF ExistsRelation THEN "mark" ELSE "join"])
  /\ UNCHANGED <<records, cuts, history>>

\* CreateRelation; the unique constraint refuses a second one.
Join(g) ==
  LET i == call[g].invite IN
  /\ On(g, "join")
  /\ joins < MaxJoins
  /\ IF ExistsRelation
     THEN Ends(g) /\ UNCHANGED <<member, joins, admitted, taken, said>>
     ELSE /\ member' = [id |-> joins + 1, status |-> "ACTIVE", via |-> i]
          /\ joins' = joins + 1
          /\ admitted' = [admitted EXCEPT ![i] = @ + 1]
          /\ taken' = {}
          /\ said' = "ACTIVE"
          /\ Does(g, [op |-> "grant", invite |-> i, id |-> joins + 1])
  /\ UNCHANGED <<role, invite, assigned, cuts, lost, unranked, crossed>>

\* Faulty variant: the role is left to whoever accepted the invite.
GrantUnlessAccepted(g) ==
  /\ On(g, "grant")
  /\ assigned' = IF CanAssign(invite[call[g].invite].role) /\ invite[call[g].invite].status # "accepted"
                 THEN assigned \cup {invite[call[g].invite].role} ELSE assigned
  /\ Does(g, [call[g] EXCEPT !.op = "joined"])
  /\ UNCHANGED <<role, invite, member, joins, cuts, history>>

\* CreateRoleAssignment, whose refusal is ignored.
GrantRole(g) ==
  /\ On(g, "grant")
  /\ assigned' = IF CanAssign(invite[call[g].invite].role)
                 THEN assigned \cup {invite[call[g].invite].role} ELSE assigned
  /\ Does(g, [call[g] EXCEPT !.op = "joined"])
  /\ UNCHANGED <<role, invite, member, joins, cuts, history>>

\* Faulty variant: the acceptance is not written.
ForgetAcceptance(g) ==
  /\ call[g].op \in {"mark", "joined"}
  /\ Ends(g)
  /\ UNCHANGED <<records, cuts, history>>

AcceptInvite(g) ==
  /\ call[g].op \in {"mark", "joined"}
  /\ MarkAccepted(call[g].invite)
  /\ Ends(g)
  /\ UNCHANGED <<role, member, joins, assigned, cuts, history>>

-----------------------------------------------------------------------------
\* A call ends early: the process stops or a statement fails.  What it has
\* written stays.
CutOff(p) ==
  /\ ~On(p, "idle")
  /\ cuts < MaxCuts
  /\ cuts' = cuts + 1
  /\ Ends(p)
  /\ lost' = IF call[p].op \in {"grant", "joined"}
             THEN [lost EXCEPT ![call[p].invite] = @ + 1] ELSE lost
  /\ unranked' = (unranked \/ (On(p, "grant") /\ call[p].id = member.id))
  /\ UNCHANGED <<records, admitted, taken, said, crossed>>

\* A statement for the role fails and the call goes on.
GrantFails(g) ==
  /\ On(g, "grant")
  /\ cuts < MaxCuts
  /\ cuts' = cuts + 1
  /\ Does(g, [call[g] EXCEPT !.op = "joined"])
  /\ unranked' = (unranked \/ call[g].id = member.id)
  /\ UNCHANGED <<records, admitted, lost, taken, said, crossed>>

Manage(m) ==
  \/ \E r \in Roles : AskAssign(m, r) \/ AskInvite(m, r)
  \/ \E i \in Invites : AskRevoke(m, i)
  \/ AskUpdate(m) \/ UpdateMember(m) \/ AssignRole(m)
  \/ LookForPending(m) \/ CreateInvite(m) \/ RevokeInvite(m)

\* The requests that are one statement.
ManageAtOnce ==
  \/ \E r \in Roles : CreateWorkspaceRole(r) \/ DeleteWorkspaceRole(r) \/ UnassignRole(r)
  \/ RemoveMember

Accept(g) ==
  \/ \E i \in Invites : AskAccept(g, i)
  \/ LookForMember(g) \/ Join(g) \/ GrantRole(g) \/ GrantFails(g) \/ AcceptInvite(g)

Next ==
  \/ \E m \in Managers : Manage(m)
  \/ ManageAtOnce
  \/ \E g \in Guests : Accept(g)
  \/ \E i \in Invites : InviteExpires(i)
  \/ \E p \in People : CutOff(p)

Spec == Init /\ [][Next]_vars

-----------------------------------------------------------------------------
(* Properties.                                                             *)

\* An invite makes a membership once for each request that accepts it at the
\* same time (the person was removed in between) and once more for each that
\* ended before it had written the acceptance, and never again.
InviteAdmitsOnce ==
  \A i \in Invites : admitted[i] <= Cardinality(Guests) + lost[i]

\* A member deactivated or activated stays so until someone asks otherwise:
\* renaming does not touch the status, nor does accepting another invite;
\* unless two updates overlapped.
DeactivationHolds == crossed \/ member.status = said

\* A member has the role of the invite that made the membership, which is what
\* VerifyWorkspaceAccess asks for: the call that made it has yet to grant it or
\* ended before, or someone took the role away or deleted it.
AdmittedCanWork ==
  member # Nobody =>
    LET r == invite[member.via].role IN
    \/ r \in assigned
    \/ r \in taken \/ role[r] = "gone"
    \/ unranked
    \/ \E g \in Guests : On(g, "grant") /\ call[g].id = member.id

-----------------------------------------------------------------------------
(* The inductive invariant behind the three.                               *)

\* What a call has in hand.
Calls ==
  {Idle}
  \cup [op : {"assign", "look", "invite"}, role : Roles]
  \cup [op : {"update"}, id : 1..MaxJoins, status : {"ACTIVE", "INACTIVE"}, asks : BOOLEAN]
  \cup [op : {"revoke", "member?", "join", "mark"}, invite : Invites]
  \cup [op : {"grant", "joined"}, invite : Invites, id : 1..MaxJoins]

TypeOK ==
  /\ role \in [Roles -> {"none", "live", "gone"}]
  /\ invite \in [Invites -> [status : {"none", "open", "expired", "accepted", "gone"},
                             role : Roles \cup {"none"}]]
  /\ joins \in 0..MaxJoins
  /\ member \in [id : 0..joins, status : {"none", "ACTIVE", "INACTIVE"}, via : 0..MaxInvites]
  /\ assigned \subseteq Roles /\ taken \subseteq Roles
  /\ call \in [People -> Calls]
  /\ admitted \in [Invites -> Nat] /\ lost \in [Invites -> Nat]
  /\ unranked \in BOOLEAN /\ crossed \in BOOLEAN

\* The requests that accept invite i, before and after they made the member.
BeforeJoin(i) == {g \in Guests : call[g].op \in {"member?", "join"} /\ call[g].invite = i}
AfterJoin(i) == {g \in Guests : call[g].op \in {"grant", "joined"} /\ call[g].invite = i}

\* Calls, invites and the membership name rows that are there, or were.
CallInv ==
  \A p \in People :
    /\ call[p].op \in {"member?", "join", "mark", "grant", "joined"} => p \in Guests
    /\ On(p, "update") => p \in Managers
    /\ call[p].op \in {"revoke", "member?", "join", "mark", "grant", "joined"} =>
         invite[call[p].invite].status # "none"
    /\ call[p].op \in {"update", "grant", "joined"} => call[p].id <= joins
    /\ On(p, "grant") /\ call[p].id = member.id => call[p].invite = member.via

RowInv ==
  /\ \A i \in Invites :
       IF invite[i].status = "none"
       THEN admitted[i] = 0 /\ lost[i] = 0 /\ invite[i].role = "none"
       ELSE invite[i].role \in Roles /\ role[invite[i].role] # "none"
  /\ member # Nobody =>
       member.id # 0 /\ member.via \in Invites /\ invite[member.via].status # "none"

\* Until an invite is accepted each membership it made has its call still
\* going on or lost; from then on only calls that had looked before make one.
CountInv ==
  \A i \in Invites :
    /\ invite[i].status \in {"open", "expired"} =>
         admitted[i] = lost[i] + Cardinality(AfterJoin(i))
    /\ invite[i].status \in {"accepted", "gone"} =>
         admitted[i] + Cardinality(BeforeJoin(i)) <= Cardinality(Guests) + lost[i]

\* An update that names no status has read the one the membership has.
StatusInv ==
  \/ crossed
  \/ /\ member.status = said
     /\ \A m, n \in Managers : On(m, "update") /\ On(n, "update") => m = n
     /\ \A m \in Managers :
          On(m, "update") /\ ~call[m].asks /\ call[m].id = member.id =>
            call[m].status = member.status

WorkspacesInv ==
  TypeOK /\ CallInv /\ RowInv /\ CountInv /\ StatusInv /\ AdmittedCanWork
=============================================================================
