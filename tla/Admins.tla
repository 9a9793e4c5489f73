------------------------------- MODULE Admins -------------------------------
(***************************************************************************)
(* The platform's administrators: internal/admin/service.go InviteAdmin,   *)
(* UpdateAdmin and DeleteAdmin with guardLastSuperAdmin.                   *)
(***************************************************************************)
EXTENDS Integers, FiniteSets

CONSTANTS
  Accounts,    \* rows of platform_admins
  Operators,   \* requests of super admins that may overlap
  MaxUpdates   \* bound on requests

ASSUME AdminsAssumption == IsFiniteSet(Accounts) /\ MaxUpdates \in Nat

VARIABLES
  admin,     \* admin[a]: role and status
  edit,      \* edit[o]: the request in progress in o
  updates,   \* requests so far
  overlap    \* two requests have overlapped

adminVars == <<admin, edit, updates, overlap>>

\* The three other roles are alike here.
AdminRoles == {"SUPER_ADMIN", "OTHER"}
NoEdit == [op |-> "idle"]

ActiveSuper == {a \in Accounts : admin[a] = [role |-> "SUPER_ADMIN", status |-> "ACTIVE"]}

\* cmd/admin-seed makes the first one.
AdminsInit ==
  /\ \E first \in Accounts :
       admin = [a \in Accounts |-> IF a = first THEN [role |-> "SUPER_ADMIN", status |-> "ACTIVE"]
                                   ELSE [role |-> "none", status |-> "none"]]
  /\ edit = [o \in Operators |-> NoEdit]
  /\ updates = 0
  /\ overlap = FALSE

Edits(o, e) == edit' = [edit EXCEPT ![o] = e]

\* A request gets in while its sender is an active super admin.
GetsIn(o) ==
  /\ edit[o] = NoEdit
  /\ ActiveSuper # {}
  /\ updates < MaxUpdates
  /\ updates' = updates + 1
  /\ overlap' = (overlap \/ \E q \in Operators : edit[q] # NoEdit)

InviteAdmin(a) ==
  /\ ActiveSuper # {}
  /\ admin[a].role = "none"
  /\ \E r \in AdminRoles : admin' = [admin EXCEPT ![a] = [role |-> r, status |-> "ACTIVE"]]
  /\ UNCHANGED <<edit, updates, overlap>>

\* The row is read, deleted or not; what the request leaves out stays as read.
AskUpdateAdmin(o, a) ==
  /\ admin[a].role # "none"
  /\ GetsIn(o)
  /\ \E r \in AdminRoles, s \in {admin[a].status, "ACTIVE", "SUSPENDED"} :
       Edits(o, [op |-> "guard", who |-> a, was |-> admin[a].role, deletes |-> FALSE,
                 now |-> [role |-> r, status |-> s]])
  /\ UNCHANGED admin

AskDeleteAdmin(o, a) ==
  /\ admin[a].role # "none"
  /\ GetsIn(o)
  /\ Edits(o, [op |-> "guard", who |-> a, was |-> admin[a].role, deletes |-> TRUE,
               now |-> [role |-> admin[a].role, status |-> "DELETED"]])
  /\ UNCHANGED admin

\* Whether the change takes a super admin away, as far as the row was read.
Demotes(e) ==
  e.was = "SUPER_ADMIN" /\ e.now # [role |-> "SUPER_ADMIN", status |-> "ACTIVE"]

\* Faulty variant: suspended super admins are counted too.
GuardCountingAll(o) ==
  /\ edit[o].op = "guard"
  /\ Edits(o, IF Demotes(edit[o]) /\ Cardinality({a \in Accounts : admin[a].role = "SUPER_ADMIN" /\
                                                    admin[a].status # "DELETED"}) <= 1
              THEN NoEdit ELSE [edit[o] EXCEPT !.op = "write"])
  /\ UNCHANGED <<admin, updates, overlap>>

\* guardLastSuperAdmin counts in a statement of its own.
GuardLastSuperAdmin(o) ==
  /\ edit[o].op = "guard"
  /\ Edits(o, IF Demotes(edit[o]) /\ Cardinality(ActiveSuper) <= 1
              THEN NoEdit ELSE [edit[o] EXCEPT !.op = "write"])
  /\ UNCHANGED <<admin, updates, overlap>>

\* By id: the whole row, or its status.
WriteAdmin(o) ==
  LET e == edit[o] IN
  /\ e.op = "write"
  /\ admin' = [admin EXCEPT ![e.who] =
                 IF e.deletes THEN [@ EXCEPT !.status = "DELETED"] ELSE e.now]
  /\ Edits(o, NoEdit)
  /\ UNCHANGED <<updates, overlap>>

\* The request ends early.
DropEdit(o) ==
  /\ edit[o] # NoEdit
  /\ Edits(o, NoEdit)
  /\ UNCHANGED <<admin, updates, overlap>>

AdminsNext ==
  \/ \E a \in Accounts : InviteAdmin(a)
  \/ \E o \in Operators :
       \/ \E a \in Accounts : AskUpdateAdmin(o, a) \/ AskDeleteAdmin(o, a)
       \/ GuardLastSuperAdmin(o) \/ WriteAdmin(o) \/ DropEdit(o)

-----------------------------------------------------------------------------
\* Somebody can still administrate the platform: a chain of role changes,
\* suspensions, deletions and reinstatements, one after the other, never
\* takes the last active super admin away.  Overlapping ones can.
SuperAdminRemains == overlap \/ ActiveSuper # {}

-----------------------------------------------------------------------------
(* The invariant behind SuperAdminRemains.                                 *)

\* A request that runs alone writes to a row that is as it was read, and
\* takes a super admin away only beside another one.
AloneInv ==
  /\ ActiveSuper # {}
  /\ \A o, q \in Operators : edit[o] # NoEdit /\ edit[q] # NoEdit => o = q
  /\ \A o \in Operators : edit[o] # NoEdit =>
       /\ admin[edit[o].who].role = edit[o].was
       /\ edit[o].op = "write" /\ Demotes(edit[o]) => ActiveSuper \ {edit[o].who} # {}

AdminsInv ==
  /\ admin \in [Accounts -> [role : AdminRoles \cup {"none"},
                             status : {"none", "ACTIVE", "SUSPENDED", "DELETED"}]]
  /\ \A a \in Accounts : admin[a].role # "none" => admin[a].status # "none"
  /\ edit \in [Operators ->
       {NoEdit} \cup {e \in [op : {"guard", "write"}, who : Accounts, was : AdminRoles,
                             deletes : BOOLEAN,
                             now : [role : AdminRoles,
                                    status : {"ACTIVE", "SUSPENDED", "DELETED"}]] :
                        e.deletes => e.now.status = "DELETED"}]
  /\ overlap \in BOOLEAN
  /\ ~overlap => AloneInv
=============================================================================
