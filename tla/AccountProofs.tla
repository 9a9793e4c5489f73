--------------------------- MODULE AccountProofs ---------------------------
(***************************************************************************)
(* A user's account, codes and sessions, what comes with them, the         *)
(* administrators and their logins, the seeding of the plans, and a        *)
(* request on its way through the API, proved for any number of requests   *)
(* that overlap, and of codes, sessions, tickets and faults.               *)
(***************************************************************************)
EXTENDS MCSessions, FiniteSetTheorems, TLAPS

\* Each by itself: no statement of one touches what another has.
SessionsSpec    == (SessionsInit \/ OldUser) /\ [][SessionsNext]_sessionVars
AdminsSpec      == AdminsInit /\ [][AdminsNext]_adminVars
AdminLoginsSpec == (AdminLoginsInit \/ EnrolledAdmin) /\ [][AdminLoginsNext]_adminLoginVars
OnboardingSpec  == OnboardingInit /\ [][OnboardingNext]_onboardingVars
PlansSpec       == PlansInit /\ [][PlansNext]_planVars
RequestsSpec    == RequestsInit /\ [][RequestsNext]_requestVars

-----------------------------------------------------------------------------
(* Counting those of a finite set who are at some place.                   *)

LEMMA PartOf ==
  ASSUME NEW C, IsFiniteSet(C), NEW S \in SUBSET C
  PROVE  /\ IsFiniteSet(S) /\ Cardinality(S) \in Nat /\ Cardinality(C) \in Nat
         /\ Cardinality(S) <= Cardinality(C)
BY FS_Subset, FS_CardinalityType

LEMMA PartsOf ==
  ASSUME NEW C, IsFiniteSet(C), NEW S \in SUBSET C, NEW T \in SUBSET C, S \cap T = {}
  PROVE  Cardinality(S) + Cardinality(T) <= Cardinality(C)
<1>1. IsFiniteSet(S) /\ IsFiniteSet(T) /\ Cardinality(S) \in Nat /\ Cardinality(T) \in Nat
  BY PartOf
<1>2. Cardinality(S \cup T) = Cardinality(S) + Cardinality(T) - Cardinality(S \cap T)
  BY <1>1, FS_Union
<1>3. Cardinality(S \cap T) = 0
  BY FS_EmptySet
<1>4. Cardinality(S \cup T) <= Cardinality(C)
  BY PartOf
<1> QED
  BY <1>1, <1>2, <1>3, <1>4

\* Only p moves.
LEMMA OneMoves ==
  ASSUME NEW C, IsFiniteSet(C), NEW p \in C, NEW S \in SUBSET C, NEW T \in SUBSET C,
         \A q \in C \ {p} : q \in S <=> q \in T
  PROVE  /\ Cardinality(S) \in Nat /\ Cardinality(T) \in Nat /\ Cardinality(C) \in Nat
         /\ Cardinality(S) <= Cardinality(C) /\ Cardinality(T) <= Cardinality(C)
         /\ p \notin S /\ p \in T => Cardinality(T) = Cardinality(S) + 1
         /\ p \in S /\ p \notin T => Cardinality(T) = Cardinality(S) - 1
         /\ (p \in S <=> p \in T) => S = T
<1>1. IsFiniteSet(S)
  BY PartOf
<1>2. CASE p \notin S /\ p \in T
  <2>1. T = S \cup {p}
    BY <1>2
  <2> QED
    BY <1>1, <1>2, <2>1, PartOf, FS_AddElement
<1>3. CASE p \in S /\ p \notin T
  <2>1. T = S \ {p}
    BY <1>3
  <2> QED
    BY <1>1, <1>3, <2>1, PartOf, FS_RemoveElement
<1>4. CASE p \in S <=> p \in T
  <2>1. S = T
    BY <1>4
  <2> QED
    BY <1>4, <2>1, PartOf
<1> QED
  BY <1>2, <1>3, <1>4

-----------------------------------------------------------------------------
(* Administrators.                                                         *)

LEMMA EditMoves ==
  ASSUME AdminsInv, NEW o \in Operators, NEW e, Edits(o, e)
  PROVE  /\ edit'[o] = e /\ \A q \in Operators \ {o} : edit'[q] = edit[q]
BY DEF AdminsInv, Edits

LEMMA InviteAdminKeeps ==
  ASSUME AdminsInv, NEW a \in Accounts, InviteAdmin(a)
  PROVE  AdminsInv'
<1> USE DEF AdminsInv
<1>1. PICK r \in AdminRoles : admin' = [admin EXCEPT ![a] = [role |-> r, status |-> "ACTIVE"]]
  BY DEF InviteAdmin
<1>2. /\ admin[a].role = "none" /\ UNCHANGED <<edit, updates, overlap>>
      /\ admin'[a] = [role |-> r, status |-> "ACTIVE"]
      /\ \A b \in Accounts \ {a} : admin'[b] = admin[b]
  BY <1>1 DEF InviteAdmin
<1>3. admin' \in [Accounts -> [role : AdminRoles \cup {"none"},
                               status : {"none", "ACTIVE", "SUSPENDED", "DELETED"}]]
  BY <1>1
<1>4. ASSUME ~overlap
      PROVE  AloneInv'
  <2>1. ActiveSuper \subseteq ActiveSuper'
    BY <1>2 DEF ActiveSuper
  <2>2. ASSUME NEW o \in Operators, edit[o] # NoEdit
        PROVE  edit[o].who # a /\ edit[o].who \in Accounts
    BY <1>2, <1>4, <2>2 DEF AloneInv, AdminRoles
  <2> QED
    BY <1>2, <1>4, <2>1, <2>2 DEF AloneInv, Demotes
<1> QED
  BY <1>2, <1>3, <1>4

EditType ==
  {e \in [op : {"guard", "write"}, who : Accounts, was : AdminRoles, deletes : BOOLEAN,
          now : [role : AdminRoles, status : {"ACTIVE", "SUSPENDED", "DELETED"}]] :
     e.deletes => e.now.status = "DELETED"}

\* A request that gets in alone finds nobody else at work.
LEMMA GetsInKeeps ==
  ASSUME AdminsInv, NEW o \in Operators, GetsIn(o), UNCHANGED admin,
         NEW e \in EditType, Edits(o, e), e.op = "guard", admin[e.who].role = e.was
  PROVE  AdminsInv'
<1> USE DEF AdminsInv
<1>1. edit'[o] = e /\ \A q \in Operators \ {o} : edit'[q] = edit[q]
  BY EditMoves
<1>2. edit' = [edit EXCEPT ![o] = e] /\ overlap' \in BOOLEAN
  BY DEF Edits, GetsIn
<1>3. edit' \in [Operators -> {NoEdit} \cup EditType]
  BY <1>2 DEF EditType
<1>4. ASSUME ~overlap'
      PROVE  AloneInv'
  <2>1. ~overlap /\ \A q \in Operators : edit[q] = NoEdit
    BY <1>4 DEF GetsIn
  <2>2. ActiveSuper' # {}
    BY DEF GetsIn, ActiveSuper
  <2> QED
    BY <1>1, <2>1, <2>2 DEF AloneInv
<1> QED
  BY <1>2, <1>3, <1>4 DEF EditType

LEMMA AskKeeps ==
  ASSUME AdminsInv, NEW o \in Operators, NEW a \in Accounts,
         AskUpdateAdmin(o, a) \/ AskDeleteAdmin(o, a)
  PROVE  AdminsInv'
<1> USE DEF AdminsInv
<1>1. /\ GetsIn(o) /\ UNCHANGED admin
      /\ admin[a].role \in AdminRoles /\ admin[a].status \in {"ACTIVE", "SUSPENDED", "DELETED"}
  BY DEF AskUpdateAdmin, AskDeleteAdmin
<1>2. CASE AskUpdateAdmin(o, a)
  <2>1. PICK r \in AdminRoles, s \in {admin[a].status, "ACTIVE", "SUSPENDED"} :
          Edits(o, [op |-> "guard", who |-> a, was |-> admin[a].role, deletes |-> FALSE,
                    now |-> [role |-> r, status |-> s]])
    BY <1>2 DEF AskUpdateAdmin
  <2>2. PICK e : e = [op |-> "guard", who |-> a, was |-> admin[a].role, deletes |-> FALSE,
                      now |-> [role |-> r, status |-> s]]
    OBVIOUS
  <2>3. e \in EditType /\ e.op = "guard" /\ admin[e.who].role = e.was
    BY <1>1, <2>2 DEF EditType
  <2> QED
    BY <1>1, <2>1, <2>2, <2>3, GetsInKeeps
<1>3. CASE AskDeleteAdmin(o, a)
  <2>1. PICK e : e = [op |-> "guard", who |-> a, was |-> admin[a].role, deletes |-> TRUE,
                      now |-> [role |-> admin[a].role, status |-> "DELETED"]]
    OBVIOUS
  <2>2. e \in EditType /\ e.op = "guard" /\ admin[e.who].role = e.was
    BY <1>1, <2>1 DEF EditType
  <2> QED
    BY <1>1, <1>3, <2>1, <2>2, GetsInKeeps DEF AskDeleteAdmin
<1> QED
  BY <1>2, <1>3

\* A request that stops leaves what AloneInv says of the others.
LEMMA StopKeeps ==
  ASSUME AdminsInv, NEW o \in Operators, Edits(o, NoEdit), UNCHANGED <<admin, updates, overlap>>
  PROVE  AdminsInv'
<1> USE DEF AdminsInv
<1>1. edit'[o] = NoEdit /\ \A q \in Operators \ {o} : edit'[q] = edit[q]
  BY EditMoves
<1>2. edit' \in [Operators -> {NoEdit} \cup EditType]
  BY DEF Edits, EditType
<1>3. AloneInv => AloneInv'
  BY <1>1 DEF AloneInv, ActiveSuper
<1> QED
  BY <1>2, <1>3 DEF EditType

\* The guard lets the last active super admin be.
LEMMA GuardKeeps ==
  ASSUME AdminsInv, NEW o \in Operators, GuardLastSuperAdmin(o)
  PROVE  AdminsInv'
<1> USE DEF AdminsInv
<1> PICK e : e = edit[o]
  OBVIOUS
<1>1. /\ UNCHANGED <<admin, updates, overlap>> /\ e.op = "guard"
      /\ e \in EditType /\ e # NoEdit
  <2>1. NoEdit.op = "idle"
    BY DEF NoEdit
  <2>2. edit \in [Operators -> {NoEdit} \cup EditType]
    BY DEF EditType
  <2> QED
    BY <2>1, <2>2 DEF GuardLastSuperAdmin
<1>2. CASE Edits(o, NoEdit)
  BY <1>1, <1>2, StopKeeps
<1>3. CASE /\ Edits(o, [e EXCEPT !.op = "write"])
           /\ ~(Demotes(e) /\ Cardinality(ActiveSuper) <= 1)
  <2> PICK f : f = [e EXCEPT !.op = "write"]
    OBVIOUS
  <2>1. /\ f \in EditType /\ f.op = "write" /\ f.who = e.who
        /\ f.was = e.was /\ f.now = e.now /\ f.deletes = e.deletes
    BY <1>1 DEF EditType
  <2>2. edit'[o] = f /\ \A q \in Operators \ {o} : edit'[q] = edit[q]
    BY <1>3, EditMoves
  <2>3. edit' \in [Operators -> {NoEdit} \cup EditType]
    BY <1>3, <2>1 DEF Edits, EditType
  <2>4. ASSUME AloneInv
        PROVE  AloneInv'
    <3>1. UNCHANGED ActiveSuper
      BY <1>1 DEF ActiveSuper
    <3>2. admin[e.who].role = e.was
      BY <1>1, <2>4 DEF AloneInv
    <3>3. ASSUME Demotes(e)
          PROVE  ActiveSuper \ {e.who} # {}
      <4>1. CASE ActiveSuper \subseteq {e.who}
        <5>1. Cardinality({e.who}) = 1 /\ IsFiniteSet({e.who})
          BY FS_Singleton
        <5>2. Cardinality(ActiveSuper) <= 1
          BY <4>1, <5>1, FS_Subset
        <5> QED
          BY <1>3, <3>3, <5>2
      <4> QED
        BY <4>1
    <3>4. Demotes(f) => Demotes(e)
      BY <2>1 DEF Demotes
    <3>5. \A q \in Operators : edit'[q] # NoEdit => edit[q] # NoEdit
      BY <1>1, <2>2
    <3> QED
      BY <1>1, <2>1, <2>2, <2>4, <3>1, <3>2, <3>3, <3>4, <3>5 DEF AloneInv, Demotes
  <2> QED
    BY <1>1, <2>3, <2>4 DEF EditType
<1> QED
  BY <1>2, <1>3 DEF GuardLastSuperAdmin

LEMMA WriteAdminKeeps ==
  ASSUME AdminsInv, NEW o \in Operators, WriteAdmin(o)
  PROVE  AdminsInv'
<1> USE DEF AdminsInv
<1> PICK e : e = edit[o]
  OBVIOUS
<1>1. /\ UNCHANGED <<updates, overlap>> /\ e.op = "write" /\ Edits(o, NoEdit)
      /\ e \in EditType /\ e # NoEdit
  <2>1. NoEdit.op = "idle"
    BY DEF NoEdit
  <2>2. edit \in [Operators -> {NoEdit} \cup EditType]
    BY DEF EditType
  <2> QED
    BY <2>1, <2>2 DEF WriteAdmin
<1> DEFINE Row == [role : AdminRoles \cup {"none"},
                   status : {"none", "ACTIVE", "SUSPENDED", "DELETED"}]
<1> PICK row : row = IF e.deletes THEN [admin[e.who] EXCEPT !.status = "DELETED"] ELSE e.now
  OBVIOUS
<1>2. e.who \in Accounts /\ admin[e.who] \in Row /\ e.now \in Row /\ e.now.status # "none"
  BY <1>1 DEF EditType
<1>3. row \in Row /\ row.status # "none"
  BY <1>2
<1>4. admin' = [admin EXCEPT ![e.who] = row]
  BY DEF WriteAdmin
<1>5. /\ admin' \in [Accounts -> Row] /\ admin'[e.who] = row
      /\ \A a \in Accounts \ {e.who} : admin'[a] = admin[a]
  BY <1>2, <1>3, <1>4
<1>6. edit'[o] = NoEdit /\ \A q \in Operators \ {o} : edit'[q] = edit[q]
  BY <1>1, EditMoves
<1>7. edit' \in [Operators -> {NoEdit} \cup EditType]
  BY <1>1 DEF Edits, EditType
<1>8. ASSUME AloneInv
      PROVE  AloneInv'
  <2>1. ActiveSuper' # {}
    <3>1. CASE Demotes(e)
      <4>1. PICK a \in ActiveSuper : a # e.who
        BY <1>1, <1>8, <3>1 DEF AloneInv
      <4> QED
        BY <1>5, <4>1 DEF ActiveSuper
    <3>2. CASE e.was # "SUPER_ADMIN"
      <4>1. e.who \notin ActiveSuper
        BY <1>1, <1>8, <3>2 DEF AloneInv, ActiveSuper
      <4> QED
        BY <1>5, <1>8, <4>1 DEF AloneInv, ActiveSuper
    <3>3. CASE e.now = [role |-> "SUPER_ADMIN", status |-> "ACTIVE"]
      <4>1. row = e.now
        BY <1>1, <3>3 DEF EditType
      <4> QED
        BY <1>2, <1>5, <3>3, <4>1 DEF ActiveSuper
    <3> QED
      BY <3>1, <3>2, <3>3 DEF Demotes
  <2>2. \A q \in Operators : edit'[q] = NoEdit
    BY <1>1, <1>6, <1>8 DEF AloneInv
  <2> QED
    BY <2>1, <2>2 DEF AloneInv
<1>9. \A a \in Accounts : admin'[a].role # "none" => admin'[a].status # "none"
  BY <1>3, <1>5
<1> QED
  BY <1>1, <1>5, <1>7, <1>8, <1>9 DEF EditType

LEMMA AdminsInitInv == AdminsInit => AdminsInv
<1> SUFFICES ASSUME AdminsInit
             PROVE  AdminsInv
  OBVIOUS
<1>1. PICK first \in Accounts :
        admin = [a \in Accounts |-> IF a = first THEN [role |-> "SUPER_ADMIN", status |-> "ACTIVE"]
                                    ELSE [role |-> "none", status |-> "none"]]
  BY DEF AdminsInit
<1>2. first \in ActiveSuper
  BY <1>1 DEF ActiveSuper
<1>3. edit = [o \in Operators |-> NoEdit] /\ overlap = FALSE
  BY DEF AdminsInit
<1> QED
  BY <1>1, <1>2, <1>3 DEF AdminsInv, AloneInv, AdminRoles

LEMMA AdminsStepInv == AdminsInv /\ [AdminsNext]_adminVars => AdminsInv'
<1> SUFFICES ASSUME AdminsInv, [AdminsNext]_adminVars
             PROVE  AdminsInv'
  OBVIOUS
<1>1. CASE AdminsNext
  BY <1>1, InviteAdminKeeps, AskKeeps, StopKeeps, GuardKeeps, WriteAdminKeeps
  DEF AdminsNext, DropEdit
<1>2. CASE UNCHANGED adminVars
  BY <1>2 DEF adminVars, AdminsInv, AloneInv, ActiveSuper
<1> QED
  BY <1>1, <1>2

\* Some active super admin remains unless two requests overlapped: the guard
\* of internal/admin/service.go suffices for one at a time, however many
\* accounts there are.
THEOREM AdminsRemain == AdminsSpec => []SuperAdminRemains
<1>1. AdminsInit => AdminsInv
  BY AdminsInitInv
<1>2. AdminsInv /\ [AdminsNext]_adminVars => AdminsInv'
  BY AdminsStepInv
<1>3. AdminsInv => SuperAdminRemains
  BY DEF AdminsInv, AloneInv, SuperAdminRemains
<1> QED
  BY <1>1, <1>2, <1>3, PTL DEF AdminsSpec

-----------------------------------------------------------------------------
(* A request on its way.                                                   *)

LEMMA SeenKeeps ==
  ASSUME RequestsInv, UNCHANGED <<route, since, surroundings>>,
         SeenBefore(stage') \subseteq since,
         stage' \in {"token", "standing"} => route.chain # "public",
         stage' \in {"relation", "roles", "permission"} => route.chain = "member",
         stage' = "permission" /\ hasPermission(caught', route.needs) => "permitted" \in since,
         stage' = "handler" => ServedWasEntitled'
  PROVE  RequestsInv'
BY DEF RequestsInv, surroundings, Facts, ServedWasEntitled, SeenBefore, hasPermission

LEMMA FactsSeen ==
  ASSUME RequestsInv
  PROVE  /\ token = "good" => "token" \in since
         /\ standing => "standing" \in since
         /\ relation \in {"PEMILIK", "KARYAWAN"} => "member" \in since
         /\ relation = "PEMILIK" \/ grants \cap {"*", route.needs} # {} => "permitted" \in since
BY DEF RequestsInv, Facts

\* The middleware.
LEMMA ChecksKeep ==
  ASSUME RequestsInv,
         Begin \/ Authenticate \/ CheckStanding \/ VerifyRelation \/ VerifyRoles
           \/ RequirePermission
  PROVE  RequestsInv'
<1> USE DEF RequestsInv, Passes, Reaches, Denies, Responds
<1>1. CASE Begin
  BY <1>1, SeenKeeps DEF Begin, SeenBefore, ServedWasEntitled
<1>2. CASE Authenticate
  BY <1>2, FactsSeen, SeenKeeps DEF Authenticate, SeenBefore
<1>3. CASE CheckStanding
  BY <1>3, FactsSeen, SeenKeeps DEF CheckStanding, SeenBefore, ServedWasEntitled
<1>4. CASE VerifyRelation
  <2>1. stage = "relation" /\ {"token", "standing"} \subseteq since /\ route.chain = "member"
    BY <1>4 DEF VerifyRelation, SeenBefore
  <2>2. CASE GetUserWorkspaceAccess = "PEMILIK" /\ caught' = {"*"} /\ Reaches("permission")
    <3>1. relation = "PEMILIK"
      BY <2>2 DEF GetUserWorkspaceAccess
    <3>2. {"member", "permitted"} \subseteq since
      BY <3>1, FactsSeen
    <3> QED
      BY <2>1, <2>2, <3>2, SeenKeeps DEF SeenBefore
  <2>3. CASE GetUserWorkspaceAccess \notin {"none", "PEMILIK"} /\ Passes("roles")
    <3>1. relation \notin {"none", "PEMILIK", "INACTIVE"}
      BY <2>3 DEF GetUserWorkspaceAccess
    <3>2. "member" \in since
      BY <3>1, FactsSeen DEF Relations
    <3> QED
      BY <2>1, <2>3, <3>2, SeenKeeps DEF SeenBefore
  <2>4. CASE Denies(403)
    BY <2>4, SeenKeeps DEF SeenBefore
  <2> QED
    BY <1>4, <2>2, <2>3, <2>4 DEF VerifyRelation
<1>5. CASE VerifyRoles
  BY <1>5, FactsSeen, SeenKeeps
  DEF VerifyRoles, SeenBefore, ListRoleAssignmentsByMember, hasPermission
<1>6. CASE RequirePermission
  BY <1>6, SeenKeeps DEF RequirePermission, SeenBefore, ServedWasEntitled
<1> QED
  BY <1>1, <1>2, <1>3, <1>4, <1>5, <1>6

LEMMA HandlerKeeps ==
  ASSUME RequestsInv, Refuse \/ ServiceWrites \/ ServiceFails \/ Succeed
  PROVE  RequestsInv'
<1>1. UNCHANGED <<route, since, surroundings>> /\ stage' \in {"handler", "answered"}
  BY DEF Refuse, ServiceWrites, ServiceFails, Succeed, Responds, Reaches
<1>2. stage = "handler"
  BY DEF Refuse, ServiceWrites, ServiceFails, Succeed
<1> QED
  BY <1>1, <1>2, SeenKeeps DEF RequestsInv, SeenBefore, ServedWasEntitled

\* What changes meanwhile is only seen later.
LEMMA ShiftKeeps ==
  ASSUME RequestsInv, Shift, relation' \in Relations
  PROVE  RequestsInv'
<1>1. UNCHANGED <<route, stage, caught>> /\ since' = since \cup Facts'
  BY DEF Shift
<1>2. Facts' \subseteq {"token", "standing", "member", "permitted"}
  BY DEF Facts
<1> QED
  BY <1>1, <1>2 DEF RequestsInv, SeenBefore, ServedWasEntitled, hasPermission

\* A handler is reached only by a request whose token was good, whose user
\* was active, a member and permitted, each at some time since the request
\* began (middleware/auth.go, admin.go and workspace.go), whatever route it
\* takes and however often they change.
THEOREM RequestsEntitled == RequestsSpec => []ServedWasEntitled
<1>1. RequestsInit => RequestsInv
  BY DEF RequestsInit, RequestsInv, SeenBefore, ServedWasEntitled, Facts, Relations
<1>2. RequestsInv /\ [RequestsNext]_requestVars => RequestsInv'
  <2>1. RequestsInv /\ RequestsNext => RequestsInv'
    <3>1. RequestsInv /\ (TokenEnds \/ StandingChanges \/ RelationChanges \/ GrantsChange)
            => relation' \in Relations
      BY DEF RequestsInv, TokenEnds, StandingChanges, RelationChanges, GrantsChange, Relations
    <3> QED
      BY <3>1, ChecksKeep, HandlerKeeps, ShiftKeeps
      DEF RequestsNext, TokenEnds, StandingChanges, RelationChanges, GrantsChange
  <2>2. RequestsInv /\ UNCHANGED requestVars => RequestsInv'
    <3> SUFFICES ASSUME RequestsInv, UNCHANGED requestVars
                 PROVE  RequestsInv'
      OBVIOUS
    <3>1. UNCHANGED <<route, stage, caught, since>> /\ UNCHANGED surroundings
      BY DEF requestVars, surroundings
    <3>2. stage = "permission" /\ hasPermission(caught, route.needs) => "permitted" \in since
      BY DEF RequestsInv
    <3>3. hasPermission(caught', route.needs) <=> hasPermission(caught, route.needs)
      BY <3>1
    <3>4. ServedWasEntitled'
      BY <3>1 DEF RequestsInv, ServedWasEntitled
    <3> QED
      BY <3>1, <3>2, <3>3, <3>4, SeenKeeps DEF RequestsInv
  <2> QED
    BY <2>1, <2>2
<1>3. RequestsInv => ServedWasEntitled
  BY DEF RequestsInv
<1> QED
  BY <1>1, <1>2, <1>3, PTL DEF RequestsSpec

-----------------------------------------------------------------------------
(* The seeding of the plans.                                               *)

LEMMA SeederMoves ==
  ASSUME PlansInv, NEW p \in Seeders, NEW state, SeederGoes(p, state)
  PROVE  seeder'[p] = state /\ \A q \in Seeders \ {p} : seeder'[q] = seeder[q]
BY DEF PlansInv, SeederGoes

SeederType == [at : {"start", "check", "create", "features", "end"}, slug : Nat,
               left : SUBSET Features]

\* What a plan must have, given where the seeders are.
Given(s, k) ==
  \/ feature[s][k] = SeedValue(s, k)
  \/ \E p \in Seeders :
       seeder[p].at = "features" /\ seeder[p].slug = s /\ k \in seeder[p].left

\* Where a run goes after a plan that is there or has been spoilt.
LEMMA NextPlanPasses ==
  ASSUME PlansInv, NEW p \in Seeders, seeder[p].at \in {"check", "create", "features"}
  PROVE  /\ NextPlan(p) \in SeederType /\ NextPlan(p).at \in {"check", "end"}
         /\ NextPlan(p).at = "check" =>
              \A s \in Slugs : s < NextPlan(p).slug => s \in Passed(p) \/ s = seeder[p].slug
         /\ NextPlan(p).at = "end" =>
              \A s \in Slugs : s \in Passed(p) \/ s = seeder[p].slug
<1>1. seeder[p].slug \in Nat /\ PlanCount \in Nat
  BY PlansAssumption DEF PlansInv, PlansAssumption
<1>2. \A s \in Slugs : s < seeder[p].slug => s \in Passed(p)
  BY DEF Passed
<1>3. \A s \in Slugs : s \in Nat /\ s <= PlanCount
  BY <1>1 DEF Slugs
<1> QED
  BY <1>1, <1>2, <1>3 DEF NextPlan, Ended, SeederType

\* A run moves on; what it leaves is spoilt or done.
LEMMA SeederKeeps ==
  ASSUME PlansInv, NEW p \in Seeders, NEW state \in SeederType, SeederGoes(p, state),
         plan' \in [Slugs -> {"none", "seeded", "created"}],
         feature' \in [Slugs -> [Features -> {"none", "on", "off"}]],
         UNCHANGED touched, spoilt \subseteq spoilt',
         \A s \in Slugs : plan[s] # "none" => plan'[s] = plan[s],
         \A s \in Slugs : plan[s] = "none" /\ plan'[s] # "none" =>
           state.at = "features" /\ state.slug = s /\ state.left = Features,
         \A s \in Slugs \ spoilt' :
           /\ state.at \in {"check", "create", "features"} /\ s < state.slug => plan'[s] # "none"
           /\ state.at = "end" => plan'[s] # "none",
         \A s \in Slugs : state.at = "features" /\ state.slug = s => plan'[s] # "none",
         \A s \in Slugs, k \in Features :
           feature'[s][k] # feature[s][k] => feature'[s][k] = SeedValue(s, k),
         \A s \in Slugs \ spoilt', k \in Features :
           seeder[p].at = "features" /\ seeder[p].slug = s /\ k \in seeder[p].left =>
             \/ feature'[s][k] = SeedValue(s, k)
             \/ state.at = "features" /\ state.slug = s /\ k \in state.left
  PROVE  PlansInv'
<1> USE DEF PlansInv
<1>1. seeder'[p] = state /\ \A q \in Seeders \ {p} : seeder'[q] = seeder[q]
  BY SeederMoves
<1>2. seeder' \in [Seeders -> SeederType]
  BY DEF SeederGoes, SeederType
<1>3. \A q \in Seeders : \A s \in Passed(q)' \ spoilt' : plan'[s] # "none"
  <2> SUFFICES ASSUME NEW q \in Seeders, NEW s \in Slugs, s \in Passed(q)', s \notin spoilt'
               PROVE  plan'[s] # "none"
    BY DEF Passed
  <2>1. CASE q = p
    BY <1>1, <2>1 DEF Passed, SeederType
  <2>2. CASE q # p
    <3>1. s \in Passed(q)
      BY <1>1, <2>2 DEF Passed
    <3> QED
      BY <3>1
  <2> QED
    BY <2>1, <2>2
<1>4. ASSUME NEW q \in Seeders, NEW s \in Slugs,
             seeder'[q].at = "features", seeder'[q].slug = s
      PROVE  plan'[s] # "none"
  <2>1. CASE q = p
    BY <1>1, <1>4, <2>1
  <2>2. CASE q # p
    <3>1. seeder'[q] = seeder[q]
      BY <1>1, <2>2
    <3> QED
      BY <1>4, <3>1
  <2> QED
    BY <2>1, <2>2
<1>5. ASSUME NEW s \in Slugs \ spoilt', NEW k \in Features,
             plan'[s] = "seeded", <<s, k>> \notin touched
      PROVE  Given(s, k)'
  <2>1. CASE plan[s] = "none"
    <3>1. seeder'[p].at = "features" /\ seeder'[p].slug = s /\ k \in seeder'[p].left
      BY <1>1, <1>5, <2>1
    <3> QED
      BY <3>1 DEF Given
  <2>2. CASE plan[s] = "seeded"
    <3>1. Given(s, k)
      BY <1>5, <2>2 DEF Given
    <3>2. CASE feature[s][k] = SeedValue(s, k)
      BY <3>2 DEF Given, SeedValue
    <3>3. ASSUME NEW q \in Seeders, q # p,
                 seeder[q].at = "features" /\ seeder[q].slug = s /\ k \in seeder[q].left
          PROVE  Given(s, k)'
      BY <1>1, <3>3 DEF Given
    <3>4. CASE seeder[p].at = "features" /\ seeder[p].slug = s /\ k \in seeder[p].left
      BY <1>1, <3>4 DEF Given, SeedValue
    <3> QED
      BY <3>1, <3>2, <3>3, <3>4 DEF Given
  <2> QED
    BY <1>5, <2>1, <2>2
<1> QED
  BY <1>2, <1>3, <1>4, <1>5 DEF SeederType, Given

\* A run goes on to the next plan, its own being there or spoilt.
LEMMA OnwardKeeps ==
  ASSUME PlansInv, NEW p \in Seeders, seeder[p].at \in {"check", "create", "features"},
         SeederGoes(p, NextPlan(p)), UNCHANGED <<plan, touched>>, spoilt \subseteq spoilt',
         seeder[p].slug \in Slugs \ spoilt' => plan[seeder[p].slug] # "none",
         feature' \in [Slugs -> [Features -> {"none", "on", "off"}]],
         \A s \in Slugs, k \in Features :
           feature'[s][k] # feature[s][k] => feature'[s][k] = SeedValue(s, k),
         \A k \in Features :
           seeder[p].at = "features" /\ seeder[p].slug \in Slugs \ spoilt'
             /\ k \in seeder[p].left =>
               feature'[seeder[p].slug][k] = SeedValue(seeder[p].slug, k)
  PROVE  PlansInv'
<1> PICK state : state = NextPlan(p)
  OBVIOUS
<1>1. /\ state \in SeederType /\ state.at \in {"check", "end"}
      /\ state.at = "check" =>
           \A s \in Slugs : s < state.slug => s \in Passed(p) \/ s = seeder[p].slug
      /\ state.at = "end" => \A s \in Slugs : s \in Passed(p) \/ s = seeder[p].slug
  BY NextPlanPasses
<1>2. \A s \in Passed(p) \ spoilt' : plan[s] # "none"
  BY DEF PlansInv
<1>3. \A s \in Slugs \ spoilt' :
        /\ state.at \in {"check", "create", "features"} /\ s < state.slug => plan[s] # "none"
        /\ state.at = "end" => plan[s] # "none"
  BY <1>1, <1>2
<1>4. plan \in [Slugs -> {"none", "seeded", "created"}]
  BY DEF PlansInv
<1> QED
  BY <1>1, <1>3, <1>4, SeederKeeps

\* A step that leaves the features alone, to a place within the same plan.
LEMMA StayKeeps ==
  ASSUME PlansInv, NEW p \in Seeders, NEW state \in SeederType, SeederGoes(p, state),
         seeder[p].at \in {"start", "check"},
         UNCHANGED <<plan, feature, touched, spoilt>>,
         state.at \in {"check", "create"},
         \A s \in Slugs : s < state.slug => s \in Passed(p)
  PROVE  PlansInv'
BY SeederKeeps DEF PlansInv

LEMMA SeedersKeep ==
  ASSUME PlansInv, NEW p \in Seeders,
         StartSeeding(p) \/ CheckPlan(p) \/ SeedPlan(p) \/ SeedFeature(p) \/ SeedingCut(p)
  PROVE  PlansInv'
<1> USE DEF PlansInv
<1> PICK here, s : here = seeder[p] /\ s = here.slug
  OBVIOUS
<1>1. here \in SeederType /\ s \in Nat
  BY DEF SeederType
<1>2. \A t \in Slugs : t \in Nat /\ t >= 1
  BY PlansAssumption DEF PlansAssumption, Slugs
<1>3. Errs(s) => spoilt \subseteq spoilt' /\ s \in spoilt'
  BY DEF Errs
<1>4. CASE StartSeeding(p)
  <2> PICK state : state = [at |-> "check", slug |-> 1, left |-> {}]
    OBVIOUS
  <2>1. state \in SeederType /\ state.at = "check" /\ state.slug = 1
    BY DEF SeederType
  <2> QED
    BY <1>2, <1>4, <2>1, StayKeeps DEF StartSeeding, SeederAt
<1>5. CASE CheckPlan(p)
  <2>1. here.at = "check" /\ UNCHANGED <<plan, feature, touched>>
    BY <1>5 DEF CheckPlan, SeederAt
  <2>2. CASE Errs(s) /\ SeederGoes(p, NextPlan(p))
    BY <1>3, <2>1, <2>2, OnwardKeeps
  <2>3. CASE UNCHANGED spoilt /\ plan[s] # "none" /\ SeederGoes(p, NextPlan(p))
    BY <2>1, <2>3, OnwardKeeps
  <2>4. CASE UNCHANGED spoilt /\ SeederGoes(p, [here EXCEPT !.at = "create"])
    <3> PICK state : state = [here EXCEPT !.at = "create"]
      OBVIOUS
    <3>1. state \in SeederType /\ state.at = "create" /\ state.slug = s
      BY <1>1 DEF SeederType
    <3>2. \A t \in Slugs : t < s => t \in Passed(p)
      BY <2>1 DEF Passed
    <3> QED
      BY <2>1, <2>4, <3>1, <3>2, StayKeeps
  <2> QED
    BY <1>5, <2>2, <2>3, <2>4 DEF CheckPlan, ExistsPlanBySlug, Skipped
<1>6. CASE SeedPlan(p)
  <2>1. here.at = "create" /\ UNCHANGED <<feature, touched>>
    BY <1>6 DEF SeedPlan, SeederAt
  <2>2. CASE Errs(s) /\ SeederGoes(p, NextPlan(p)) /\ UNCHANGED plan
    BY <1>3, <2>1, <2>2, OnwardKeeps
  <2>3. CASE plan[s] # "none" /\ SeederGoes(p, NextPlan(p)) /\ UNCHANGED <<plan, spoilt>>
    BY <2>1, <2>3, OnwardKeeps
  <2>4. CASE /\ CreatePlanRow(s, "seeded") /\ UNCHANGED spoilt
             /\ SeederGoes(p, [at |-> "features", slug |-> s, left |-> Features])
    <3> PICK state : state = [at |-> "features", slug |-> s, left |-> Features]
      OBVIOUS
    <3>1. /\ state \in SeederType /\ state.at = "features"
          /\ state.slug = s /\ state.left = Features
      BY <1>1 DEF SeederType
    <3>2. /\ plan' = [plan EXCEPT ![s] = "seeded"] /\ plan[s] = "none"
          /\ plan' \in [Slugs -> {"none", "seeded", "created"}]
      BY <2>4 DEF CreatePlanRow
    <3>3. \A t \in Slugs : IF t = s THEN plan'[t] = "seeded" ELSE plan'[t] = plan[t]
      BY <3>2
    <3>4. \A t \in Slugs \ spoilt : t < s => plan[t] # "none"
      <4>1. \A t \in Slugs : t < s => t \in Passed(p)
        BY <2>1 DEF Passed
      <4> QED
        BY <4>1
    <3>5. /\ \A t \in Slugs : plan[t] # "none" => plan'[t] = plan[t]
          /\ \A t \in Slugs : plan[t] = "none" /\ plan'[t] # "none" => t = s
          /\ \A t \in Slugs \ spoilt' : t < s => plan'[t] # "none"
          /\ \A t \in Slugs : t = s => plan'[t] # "none"
      BY <2>4, <3>2, <3>3, <3>4
    <3>6. UNCHANGED <<feature, touched, spoilt>> /\ SeederGoes(p, state)
      BY <2>1, <2>4
    <3>7. feature' \in [Slugs -> [Features -> {"none", "on", "off"}]]
      BY <3>6
    <3> QED
      BY <2>1, <3>1, <3>2, <3>5, <3>6, <3>7, SeederKeeps
  <2> QED
    BY <1>6, <2>2, <2>3, <2>4 DEF SeedPlan
<1>7. CASE SeedFeature(p)
  <2>1. here.at = "features" /\ UNCHANGED <<plan, touched>>
    BY <1>7 DEF SeedFeature, SeederAt
  <2>2. PICK k \in here.left :
          /\ \/ UpsertPlanFeature(s, k, SeedValue(s, k)) /\ UNCHANGED spoilt
             \/ Errs(s) /\ UNCHANGED feature
          /\ SeederGoes(p, IF here.left = {k} THEN NextPlan(p)
                           ELSE [here EXCEPT !.left = @ \ {k}])
    BY <1>7 DEF SeedFeature
  <2>3. here.left \subseteq Features /\ k \in Features
    BY <1>1, <2>2 DEF SeederType
  <2>4. /\ feature' \in [Slugs -> [Features -> {"none", "on", "off"}]]
        /\ \A t \in Slugs, j \in Features :
             feature'[t][j] # feature[t][j] => feature'[t][j] = SeedValue(t, j)
        /\ s \in Slugs \ spoilt' => feature'[s][k] = SeedValue(s, k)
        /\ spoilt \subseteq spoilt'
    <3>1. CASE UpsertPlanFeature(s, k, SeedValue(s, k)) /\ UNCHANGED spoilt
      <4> PICK row : row = [feature[s] EXCEPT ![k] = SeedValue(s, k)]
        OBVIOUS
      <4>1. feature' = [feature EXCEPT ![s] = row]
        BY <3>1 DEF UpsertPlanFeature
      <4>2. SeedValue(s, k) \in {"none", "on", "off"}
        BY DEF SeedValue
      <4>3. CASE s \in Slugs
        <5>1. /\ row \in [Features -> {"none", "on", "off"}] /\ row[k] = SeedValue(s, k)
              /\ \A j \in Features : j # k => row[j] = feature[s][j]
          BY <2>3, <4>2, <4>3
        <5>2. /\ feature' \in [Slugs -> [Features -> {"none", "on", "off"}]]
              /\ feature'[s] = row /\ \A t \in Slugs : t # s => feature'[t] = feature[t]
          BY <4>1, <4>3, <5>1
        <5> QED
          BY <3>1, <5>1, <5>2
      <4>4. CASE s \notin Slugs
        <5>1. feature' = feature
          BY <4>1, <4>4
        <5> QED
          BY <3>1, <4>4, <5>1
      <4> QED
        BY <4>3, <4>4
    <3>2. CASE Errs(s) /\ UNCHANGED feature
      BY <1>3, <3>2
    <3> QED
      BY <2>2, <3>1, <3>2
  <2>5. s \in Slugs => plan[s] # "none"
    BY <2>1
  <2>6. CASE here.left = {k}
    BY <2>1, <2>2, <2>4, <2>5, <2>6, OnwardKeeps
  <2>7. CASE here.left # {k}
    <3> PICK state : state = [here EXCEPT !.left = @ \ {k}]
      OBVIOUS
    <3>1. /\ state \in SeederType /\ state.at = "features"
          /\ state.slug = s /\ state.left = here.left \ {k}
      BY <1>1, <2>1 DEF SeederType
    <3>2. \A t \in Slugs \ spoilt : t < s => plan[t] # "none"
      <4>1. \A t \in Slugs : t < s => t \in Passed(p)
        BY <2>1 DEF Passed
      <4> QED
        BY <4>1
    <3>3. plan' \in [Slugs -> {"none", "seeded", "created"}] /\ SeederGoes(p, state)
      BY <2>1, <2>2, <2>7
    <3>4. \A t \in Slugs \ spoilt', j \in Features :
            seeder[p].at = "features" /\ seeder[p].slug = t /\ j \in seeder[p].left =>
              \/ feature'[t][j] = SeedValue(t, j)
              \/ state.at = "features" /\ state.slug = t /\ j \in state.left
      BY <2>4, <3>1
    <3>5. /\ \A t \in Slugs \ spoilt' : t < s => plan'[t] # "none"
          /\ \A t \in Slugs : t = s => plan'[t] # "none"
          /\ UNCHANGED <<plan, touched>>
      BY <2>1, <2>4, <2>5, <3>2
    <3> QED
      BY <2>4, <3>1, <3>3, <3>4, <3>5, SeederKeeps
  <2> QED
    BY <2>6, <2>7
<1>8. CASE SeedingCut(p)
  <2> PICK state : state = Start
    OBVIOUS
  <2>1. state \in SeederType /\ state.at = "start"
    BY DEF SeederType, Start
  <2>2. /\ Errs(s) /\ SeederGoes(p, state) /\ UNCHANGED <<plan, feature, touched>>
    BY <1>8 DEF SeedingCut
  <2> QED
    BY <1>3, <2>1, <2>2, SeederKeeps
<1> QED
  BY <1>4, <1>5, <1>6, <1>7, <1>8

LEMMA AdministratorsKeep ==
  ASSUME PlansInv, NEW s \in Slugs,
         AdminCreatePlan(s) \/ \E k \in Features : SetFeature(s, k) \/ RemoveFeature(s, k)
  PROVE  PlansInv'
<1>1. CASE AdminCreatePlan(s)
  BY <1>1 DEF AdminCreatePlan, CreatePlanRow, PlansInv, Passed, SeedValue
<1>2. ASSUME NEW k \in Features, SetFeature(s, k) \/ RemoveFeature(s, k)
      PROVE  PlansInv'
  <2>1. PICK value \in {"none", "on", "off"} : feature' = [feature EXCEPT ![s][k] = value]
    BY <1>2 DEF SetFeature, RemoveFeature, UpsertPlanFeature, DeletePlanFeature
  <2>2. UNCHANGED <<plan, seeder, spoilt>> /\ touched' = touched \cup {<<s, k>>}
    BY <1>2 DEF SetFeature, RemoveFeature
  <2>3. /\ feature' \in [Slugs -> [Features -> {"none", "on", "off"}]]
        /\ \A t \in Slugs, j \in Features :
             ~(t = s /\ j = k) => feature'[t][j] = feature[t][j]
    BY <2>1 DEF PlansInv
  <2>4. \A t \in Slugs, j \in Features : <<t, j>> = <<s, k>> => t = s /\ j = k
    OBVIOUS
  <2> QED
    BY <2>2, <2>3, <2>4 DEF PlansInv, Passed, SeedValue
<1> QED
  BY <1>1, <1>2

\* Once a run of cmd/plan-seed has ended, and none is within a plan, every plan
\* that nothing failed for is there, with what the list gives it, for any
\* number of plans, features, runs and changes by administrators.
THEOREM PlansWhole == PlansSpec => []SeededIsWhole
<1>1. PlansInit => PlansInv
  BY DEF PlansInit, PlansInv, Start, Passed
<1>2. PlansInv /\ [PlansNext]_planVars => PlansInv'
  <2>1. PlansInv /\ PlansNext => PlansInv'
    BY SeedersKeep, AdministratorsKeep DEF PlansNext
  <2>2. PlansInv /\ UNCHANGED planVars => PlansInv'
    BY DEF planVars, PlansInv, Passed, SeedValue
  <2> QED
    BY <2>1, <2>2
<1>3. PlansInv => SeededIsWhole
  BY DEF PlansInv, Passed, SeededIsWhole, SeederAt, ExistsPlanBySlug, HasFeature,
     GetPlanFeatureByKey, SeedValue
<1> QED
  BY <1>1, <1>2, <1>3, PTL DEF PlansSpec

-----------------------------------------------------------------------------
(* What a new user gets.                                                   *)

LEMMA PersonalFinite == IsFiniteSet(Personal) /\ Cardinality(Personal) \in Nat
<1>1. IsFiniteSet(Entities)
  BY FS_Interval, OnboardingAssumption DEF OnboardingAssumption, Entities
<1>2. Personal \subseteq Entities
  BY DEF Personal
<1> QED
  BY <1>1, <1>2, PartOf

\* A request goes on with the entities as they are.
LEMMA ErrandKeeps ==
  ASSUME OnboardingInv, NEW c \in Callers, NEW e \in Errands, Runs(c, e),
         UNCHANGED entity, registered' \in {"none", "UNVERIFIED", "ACTIVE"},
         owner \subseteq owner', owner' \subseteq Entities \X Personal,
         planned \subseteq planned', mishaps' \in Nat, mishaps' >= mishaps,
         e.op = "entity" => Personal = {},
         registered' # "none" /\ mishaps' = 0 =>
           SetUp' \/ Making(c)' \/ (registered # "none" /\ ~Making(c))
  PROVE  OnboardingInv'
<1> USE DEF OnboardingInv
<1>1. errand' = [errand EXCEPT ![c] = e] /\ UNCHANGED Personal
  BY DEF Runs, Personal
<1>2. errand'[c] = e /\ \A d \in Callers \ {c} : errand'[d] = errand[d]
  BY <1>1
<1>3. errand' \in [Callers -> Errands'] /\ UNCHANGED Errands
  BY <1>1 DEF Errands
<1>4. Cardinality(Personal') + Cardinality(Inserting') <= Cardinality(Callers)
  <2>1. \A d \in Callers \ {c} : d \in Inserting <=> d \in Inserting'
    BY <1>2 DEF Inserting
  <2>2. Inserting \in SUBSET Callers /\ Inserting' \in SUBSET Callers
    BY DEF Inserting
  <2> HIDE DEF OnboardingInv
  <2>3. /\ Cardinality(Inserting) \in Nat /\ Cardinality(Inserting') \in Nat
        /\ Cardinality(Inserting') <= Cardinality(Callers) /\ Cardinality(Callers) \in Nat
        /\ c \in Inserting /\ c \notin Inserting' =>
             Cardinality(Inserting') = Cardinality(Inserting) - 1
        /\ (c \in Inserting <=> c \in Inserting') => Inserting = Inserting'
    BY <2>1, <2>2, OneMoves, OnboardingAssumption DEF OnboardingAssumption
  <2>4. CASE c \in Inserting' /\ c \notin Inserting
    <3>1. Personal' = {}
      BY <1>1, <1>2, <2>4 DEF Inserting
    <3>2. Cardinality(Personal') = 0
      BY <3>1, FS_EmptySet
    <3> QED
      BY <2>3, <3>2
  <2>5. CASE c \in Inserting \/ c \notin Inserting'
    BY <1>1, <2>3, <2>5, PersonalFinite DEF OnboardingInv
  <2> QED
    BY <2>4, <2>5
<1>5. ASSUME registered' # "none", mishaps' = 0
      PROVE  SetUp' \/ \E d \in Callers : Making(d)'
  <2>1. CASE registered # "none" /\ ~Making(c)
    <3>1. mishaps = 0
      BY <1>5
    <3>2. SetUp \/ \E d \in Callers \ {c} : Making(d)
      BY <2>1, <3>1
    <3>3. SetUp => SetUp'
      BY <1>1 DEF SetUp
    <3>4. ASSUME NEW d \in Callers \ {c}, Making(d)
          PROVE  Making(d)'
      BY <1>2, <3>4 DEF Making
    <3> QED
      BY <3>2, <3>3, <3>4
  <2> QED
    BY <1>5, <2>1
<1> QED
  BY <1>1, <1>3, <1>4, <1>5

\* Requests that are about to register.
LEMMA RegistrationKeeps ==
  ASSUME OnboardingInv, NEW c \in Callers,
         AskRegistration(c) \/ InsertUser(c) \/ ReclaimUser(c)
  PROVE  OnboardingInv'
<1> USE DEF OnboardingInv
<1>1. /\ UNCHANGED <<entity, owner, planned, mishaps>>
      /\ errand[c].op \in {"idle", "create", "reclaim"}
      /\ ~Making(c)
  <2>1. errand[c].op \in {"idle", "create", "reclaim"}
    BY DEF AskRegistration, InsertUser, ReclaimUser, NoErrand
  <2> QED
    BY <2>1 DEF AskRegistration, InsertUser, ReclaimUser, Making
<1>2. PICK op \in {"idle", "create", "reclaim", "look"} :
        /\ Runs(c, [op |-> op])
        /\ \/ UNCHANGED registered
           \/ registered' = "UNVERIFIED" /\ op = "look"
  BY DEF AskRegistration, InsertUser, ReclaimUser, Finishes, NoErrand
<1> PICK e : e = [op |-> op]
  OBVIOUS
<1>3. e \in Errands /\ e.op = op /\ Runs(c, e)
  BY <1>2 DEF Errands
<1>4. errand'[c] = e
  BY <1>3 DEF Runs
<1>5. op = "look" => Making(c)'
  BY <1>3, <1>4 DEF Making
<1> QED
  BY <1>1, <1>2, <1>3, <1>5, ErrandKeeps

LEMMA LookKeeps ==
  ASSUME OnboardingInv, NEW c \in Callers, LookForPersonal(c)
  PROVE  OnboardingInv'
<1> USE DEF OnboardingInv
<1>1. UNCHANGED <<registered, entity, owner, planned, mishaps>>
  BY DEF LookForPersonal
<1>2. CASE Personal = {} /\ Runs(c, [op |-> "entity", by |-> "Register"])
  <2> PICK e : e = [op |-> "entity", by |-> "Register"]
    OBVIOUS
  <2>1. e \in Errands /\ e.op = "entity" /\ e.by = "Register" /\ errand'[c] = e
    BY <1>2 DEF Errands, Runs
  <2>2. Making(c)'
    BY <2>1 DEF Making
  <2> QED
    BY <1>1, <1>2, <2>1, <2>2, ErrandKeeps
<1>3. ASSUME NEW x \in Personal, Runs(c, [op |-> "workspace", entity |-> x])
      PROVE  OnboardingInv'
  <2> PICK e : e = [op |-> "workspace", entity |-> x]
    OBVIOUS
  <2>1. e \in Errands /\ e.op = "workspace" /\ errand'[c] = e
    BY <1>3 DEF Errands, Runs
  <2>2. Making(c)'
    BY <2>1 DEF Making
  <2> QED
    BY <1>1, <1>3, <2>1, <2>2, ErrandKeeps
<1> QED
  BY <1>2, <1>3 DEF LookForPersonal

\* The workspace and its plan: what fails is counted.
LEMMA WorkspaceKeeps ==
  ASSUME OnboardingInv, NEW c \in Callers, CreatePersonalWorkspace(c) \/ SubscribeFree(c)
  PROVE  OnboardingInv'
<1> USE DEF OnboardingInv
<1>1. Mishap => mishaps' \in Nat /\ mishaps' >= mishaps /\ mishaps' # 0
  BY DEF Mishap
<1> PICK x : x = errand[c].entity
  OBVIOUS
<1>2. x \in Personal /\ errand[c].op \in {"workspace", "plan"}
  BY DEF CreatePersonalWorkspace, SubscribeFree, Errands
<1>3. CASE CreatePersonalWorkspace(c)
  <2> PICK e : e = [op |-> "plan", entity |-> x]
    OBVIOUS
  <2>1. /\ e \in Errands /\ e.op = "plan" /\ e.entity = x
        /\ Runs(c, e) /\ errand'[c] = e /\ UNCHANGED <<registered, entity, planned>>
    BY <1>2, <1>3 DEF Errands, Runs, CreatePersonalWorkspace
  <2>2. owner' \subseteq Entities \X Personal /\ owner \subseteq owner'
    BY <1>2, <1>3 DEF CreatePersonalWorkspace, Personal
  <2>3. /\ mishaps' \in Nat /\ mishaps' >= mishaps
        /\ mishaps' = 0 => <<x, x>> \in owner'
    BY <1>1, <1>3 DEF CreatePersonalWorkspace
  <2>4. mishaps' = 0 => Making(c)'
    BY <2>1, <2>3 DEF Making
  <2> QED
    BY <2>1, <2>2, <2>3, <2>4, ErrandKeeps
<1>4. CASE SubscribeFree(c)
  <2>1. /\ NoErrand \in Errands /\ NoErrand.op = "idle" /\ Runs(c, NoErrand)
        /\ UNCHANGED <<registered, entity, owner>> /\ errand[c].op = "plan"
    BY <1>4 DEF Errands, NoErrand, SubscribeFree, Finishes
  <2>2. /\ mishaps' \in Nat /\ mishaps' >= mishaps /\ planned \subseteq planned'
        /\ mishaps' = 0 => x \in planned'
    BY <1>1, <1>4 DEF SubscribeFree
  <2>3. Making(c) => <<x, x>> \in owner
    BY <2>1 DEF Making
  <2>4. mishaps' = 0 /\ Making(c) => SetUp'
    <3>1. UNCHANGED Personal
      BY <2>1 DEF Personal
    <3> QED
      BY <1>2, <2>1, <2>2, <2>3, <3>1 DEF SetUp
  <2>5. registered' # "none" /\ mishaps' = 0 =>
          SetUp' \/ Making(c)' \/ (registered # "none" /\ ~Making(c))
    BY <2>1, <2>4
  <2> QED
    BY <2>1, <2>2, <2>5, ErrandKeeps
<1> QED
  BY <1>3, <1>4

\* What is asked for by hand, and requests that end.
LEMMA ByHandKeeps ==
  ASSUME OnboardingInv, NEW c \in Callers,
         AskCreateEntity(c) \/ AskWorkspace(c) \/ OwnWorkspace(c) \/ ErrandCut(c)
  PROVE  OnboardingInv'
<1> USE DEF OnboardingInv
<1>1. CASE AskCreateEntity(c)
  <2> PICK e : e = [op |-> "entity", by |-> "CreateEntity"]
    OBVIOUS
  <2>1. e \in Errands /\ e.op = "entity"
    BY DEF Errands
  <2>2. ~Making(c)
    BY <1>1 DEF AskCreateEntity, NoErrand, Making
  <2> QED
    BY <1>1, <2>1, <2>2, ErrandKeeps DEF AskCreateEntity
<1>2. CASE AskWorkspace(c)
  <2>1. PICK x \in Entities, y \in Personal :
          Runs(c, [op |-> "own", entity |-> x, subject |-> y])
    BY <1>2 DEF AskWorkspace
  <2> PICK e : e = [op |-> "own", entity |-> x, subject |-> y]
    OBVIOUS
  <2>2. e \in Errands /\ e.op = "own" /\ Runs(c, e)
    BY <2>1 DEF Errands
  <2>3. ~Making(c)
    BY <1>2 DEF AskWorkspace, NoErrand, Making
  <2> QED
    BY <1>2, <2>2, <2>3, ErrandKeeps DEF AskWorkspace
<1>3. CASE OwnWorkspace(c)
  <2>1. errand[c].op = "own" /\ errand[c] \in Errands
    BY <1>3 DEF OwnWorkspace
  <2>2. errand[c].entity \in Entities /\ errand[c].subject \in Personal
    BY <2>1 DEF Errands
  <2>3. NoErrand \in Errands /\ NoErrand.op = "idle" /\ ~Making(c)
    BY <2>1 DEF Errands, NoErrand, Making
  <2> QED
    BY <1>3, <2>2, <2>3, ErrandKeeps DEF OwnWorkspace, Finishes
<1>4. CASE ErrandCut(c)
  <2>1. NoErrand \in Errands /\ NoErrand.op = "idle"
    BY DEF Errands, NoErrand
  <2>2. mishaps' \in Nat /\ mishaps' >= mishaps /\ mishaps' # 0
    BY <1>4 DEF ErrandCut, Mishap
  <2> QED
    BY <1>4, <2>1, <2>2, ErrandKeeps DEF ErrandCut, Finishes
<1> QED
  BY <1>1, <1>2, <1>3, <1>4

\* Nobody else's entity becomes personal.
LEMMA AtOnceKeeps ==
  ASSUME OnboardingInv, Verify \/ CreateCompany
  PROVE  OnboardingInv'
<1> USE DEF OnboardingInv
<1>1. /\ UNCHANGED <<owner, planned, errand, mishaps>>
      /\ registered' \in {"UNVERIFIED", "ACTIVE"} \cup {registered} /\ registered # "none"
  BY DEF Verify, CreateCompany
<1>2. entity' \in [Entities -> {"none", "ORANG_PRIBADI", "BADAN_USAHA"}] /\ UNCHANGED Personal
  BY DEF Verify, CreateCompany, InsertEntity, Personal
<1>3. UNCHANGED Errands /\ UNCHANGED Inserting /\ UNCHANGED SetUp
      /\ \A c : Making(c)' <=> Making(c)
  BY <1>1, <1>2 DEF Errands, Inserting, SetUp, Making
<1> QED
  BY <1>1, <1>2, <1>3

LEMMA InsertPersonalKeeps ==
  ASSUME OnboardingInv, NEW c \in Callers, InsertPersonal(c)
  PROVE  OnboardingInv'
<1> USE DEF OnboardingInv
<1>1. UNCHANGED <<registered, owner, planned, mishaps>> /\ c \in Inserting
  BY DEF InsertPersonal, Inserting
<1>2. PICK x \in Entities :
        entity[x] = "none" /\ entity' = [entity EXCEPT ![x] = "ORANG_PRIBADI"]
  BY DEF InsertPersonal, InsertEntity
<1>3. /\ entity' \in [Entities -> {"none", "ORANG_PRIBADI", "BADAN_USAHA"}]
      /\ Personal' = Personal \cup {x} /\ x \notin Personal
  BY <1>2 DEF Personal
<1>4. PICK e \in Errands' :
        /\ Runs(c, e) /\ e.op \in {"workspace", "idle"}
        /\ e.op = "workspace" <=> errand[c].by = "Register"
  <2>1. CASE errand[c].by = "Register"
    <3>1. PICK y \in Entities : /\ entity[y] # entity'[y]
                                /\ Runs(c, [op |-> "workspace", entity |-> y])
      BY <2>1 DEF InsertPersonal
    <3>2. y = x
      BY <1>2, <3>1
    <3> PICK e : e = [op |-> "workspace", entity |-> y]
      OBVIOUS
    <3>3. e \in Errands' /\ e.op = "workspace"
      BY <1>3, <3>2 DEF Errands
    <3> QED
      BY <2>1, <3>1, <3>3
  <2>2. CASE errand[c].by # "Register"
    BY <2>2 DEF InsertPersonal, Finishes, NoErrand, Errands
  <2> QED
    BY <2>1, <2>2
<1>5. /\ errand' = [errand EXCEPT ![c] = e] /\ errand'[c] = e
      /\ \A d \in Callers \ {c} : errand'[d] = errand[d]
  BY <1>4 DEF Runs
<1>6. errand' \in [Callers -> Errands']
  <2>1. Errands \subseteq Errands'
    BY <1>3 DEF Errands
  <2> QED
    BY <1>5, <2>1
<1>7. owner' \subseteq Entities \X Personal'
  BY <1>1, <1>3
<1>8. Cardinality(Personal') + Cardinality(Inserting') <= Cardinality(Callers)
  <2>1. \A d \in Callers \ {c} : d \in Inserting <=> d \in Inserting'
    BY <1>5 DEF Inserting
  <2>2. Inserting \in SUBSET Callers /\ Inserting' \in SUBSET Callers /\ c \notin Inserting'
    BY <1>4, <1>5 DEF Inserting
  <2> HIDE DEF OnboardingInv
  <2>3. /\ Cardinality(Inserting) \in Nat /\ Cardinality(Callers) \in Nat
        /\ Cardinality(Inserting') = Cardinality(Inserting) - 1
    BY <1>1, <2>1, <2>2, OneMoves, OnboardingAssumption DEF OnboardingAssumption
  <2>4. Cardinality(Personal') = Cardinality(Personal) + 1 /\ Cardinality(Personal) \in Nat
    BY <1>3, PersonalFinite, FS_AddElement
  <2> QED
    BY <2>3, <2>4 DEF OnboardingInv
<1>9. ASSUME registered # "none", mishaps = 0
      PROVE  SetUp' \/ \E d \in Callers : Making(d)'
  <2>1. SetUp => SetUp'
    BY <1>1, <1>3 DEF SetUp
  <2>2. ASSUME NEW d \in Callers, Making(d)
        PROVE  Making(d)'
    <3>1. CASE d # c
      BY <1>1, <1>5, <2>2, <3>1 DEF Making
    <3>2. CASE d = c
      <4>1. errand[c].op = "entity" /\ errand[c].by = "Register"
        BY <1>1, <2>2, <3>2 DEF Making, Inserting
      <4> QED
        BY <1>4, <1>5, <3>2, <4>1 DEF Making
    <3> QED
      BY <3>1, <3>2
  <2> QED
    BY <1>9, <2>1, <2>2
<1> QED
  BY <1>1, <1>3, <1>6, <1>7, <1>8, <1>9

LEMMA OnboardingInitInv == OnboardingInit => OnboardingInv
<1> SUFFICES ASSUME OnboardingInit
             PROVE  OnboardingInv
  OBVIOUS
<1>1. /\ registered = "none" /\ entity = [e \in Entities |-> "none"]
      /\ owner = {} /\ errand = [c \in Callers |-> NoErrand] /\ mishaps = 0
  BY DEF OnboardingInit
<1>2. Personal = {} /\ Inserting = {}
  BY <1>1 DEF Personal, Inserting, NoErrand
<1>3. Cardinality(Personal) = 0 /\ Cardinality(Inserting) = 0 /\ Cardinality(Callers) \in Nat
  BY <1>2, FS_EmptySet, FS_CardinalityType, OnboardingAssumption DEF OnboardingAssumption
<1>4. NoErrand \in Errands
  BY DEF Errands, NoErrand
<1> QED
  BY <1>1, <1>3, <1>4 DEF OnboardingInv

LEMMA OnboardingStepInv == OnboardingInv /\ [OnboardingNext]_onboardingVars => OnboardingInv'
<1>1. OnboardingInv /\ OnboardingNext => OnboardingInv'
  BY RegistrationKeeps, LookKeeps, WorkspaceKeeps, ByHandKeeps, AtOnceKeeps,
     InsertPersonalKeeps DEF OnboardingNext
<1>2. ASSUME OnboardingInv, UNCHANGED onboardingVars
      PROVE  OnboardingInv'
  <2>1. UNCHANGED <<registered, entity, owner, planned, errand, mishaps>>
    BY <1>2 DEF onboardingVars
  <2>2. UNCHANGED Personal
    BY <2>1 DEF Personal
  <2>3. UNCHANGED Errands /\ UNCHANGED Inserting /\ UNCHANGED SetUp
        /\ \A c : Making(c)' <=> Making(c)
    BY <2>1, <2>2 DEF Errands, Inserting, SetUp, Making
  <2> QED
    BY <1>2, <2>1, <2>2, <2>3 DEF OnboardingInv
<1> QED
  BY <1>1, <1>2

\* A user has no more personal entities than requests overlapped, gets with a
\* single one into every workspace made for it, and unless something failed
\* ends up with a personal workspace on the free plan (auth/service.go
\* Register), whichever registrations and requests by hand overlap.
THEOREM UsersAreSetUp == OnboardingSpec => []VerifiedIsSetUp
<1>1. OnboardingInit => OnboardingInv
  BY OnboardingInitInv
<1>2. OnboardingInv /\ [OnboardingNext]_onboardingVars => OnboardingInv'
  BY OnboardingStepInv
<1>3. OnboardingInv => VerifiedIsSetUp
  <2> SUFFICES ASSUME OnboardingInv
               PROVE  VerifiedIsSetUp
    OBVIOUS
  <2>1. /\ Cardinality(Personal) \in Nat /\ IsFiniteSet(Personal)
        /\ Cardinality(Inserting) \in Nat /\ Cardinality(Callers) \in Nat
    <3>1. Inserting \in SUBSET Callers
      BY DEF Inserting
    <3> QED
      BY <3>1, PersonalFinite, PartOf, OnboardingAssumption DEF OnboardingAssumption
  <2>2. Cardinality(Personal) <= Cardinality(Callers)
    BY <2>1 DEF OnboardingInv
  <2>3. ASSUME Cardinality(Personal) = 1, NEW r \in owner
        PROVE  MayEnter(r[1])
    <3>1. PICK s : Personal = {s}
      BY <2>1, <2>3, FS_Singleton
    <3>2. r = <<r[1], s>>
      BY <3>1 DEF OnboardingInv
    <3> QED
      BY <3>1, <3>2 DEF MayEnter
  <2>4. ASSUME registered = "ACTIVE", mishaps = 0, ~(\E c \in Callers : SettingUp(c))
        PROVE  SetUp
    <3>1. \A c \in Callers : Making(c) => SettingUp(c)
      BY DEF Making, SettingUp
    <3> QED
      BY <2>4, <3>1 DEF OnboardingInv
  <2> QED
    BY <2>2, <2>3, <2>4 DEF VerifiedIsSetUp, SetUp
<1> QED
  BY <1>1, <1>2, <1>3, PTL DEF OnboardingSpec

-----------------------------------------------------------------------------
(* The login of an administrator.                                          *)

\* Facts about the numbers a ticket is counted with.
LEMMA TicketNumbers ==
  ASSUME AdminLoginsInv, NEW t \in Tickets
  PROVE  /\ Cardinality(Requests) \in Nat /\ MaxTries \in Nat /\ MaxTries >= 1
         /\ Cardinality(Through(t)) \in Nat /\ Cardinality(Guessing(t)) \in Nat
         /\ Cardinality(Through(t)) <= Cardinality(Requests)
         /\ Cardinality(Guessing(t)) <= Cardinality(Requests)
         /\ tries[t] \in Nat /\ uses[t] \in Nat /\ kept[t] \in Nat
         /\ wrong[t] \in Nat /\ lost[t] \in Nat
<1>1. IsFiniteSet(Requests) /\ MaxTries \in Nat /\ MaxTries >= 1
  BY AdminLoginsAssumption DEF AdminLoginsAssumption
<1>2. Through(t) \in SUBSET Requests /\ Guessing(t) \in SUBSET Requests
  BY DEF Through, Guessing
<1>3. {tries, uses, kept, wrong, lost} \subseteq [Tickets -> Nat]
  BY DEF AdminLoginsInv
<1> QED
  BY <1>1, <1>2, <1>3, PartOf

\* One request moves: who is through, or guesses, changes by it alone.
LEMMA DoesMoves ==
  ASSUME AdminLoginsInv, NEW r \in Requests, NEW d \in Doings, Does(r, d)
  PROVE  /\ doing' \in [Requests -> Doings] /\ doing'[r] = d
         /\ \A q \in Requests \ {r} : doing'[q] = doing[q]
         /\ \A t \in Tickets :
              /\ Cardinality(Through(t)') \in Nat /\ Cardinality(Guessing(t)') \in Nat
              /\ Cardinality(Through(t)') <= Cardinality(Requests)
              /\ Cardinality(Guessing(t)') <= Cardinality(Requests)
              /\ r \in Through(t) /\ r \notin Through(t)' =>
                   Cardinality(Through(t)') = Cardinality(Through(t)) - 1
              /\ (r \in Through(t) <=> r \in Through(t)') =>
                   Cardinality(Through(t)') = Cardinality(Through(t))
              /\ r \in Guessing(t) /\ r \notin Guessing(t)' =>
                   Cardinality(Guessing(t)') = Cardinality(Guessing(t)) - 1
              /\ (r \in Guessing(t) <=> r \in Guessing(t)') =>
                   Cardinality(Guessing(t)') = Cardinality(Guessing(t))
<1>1. /\ doing' \in [Requests -> Doings] /\ doing'[r] = d
      /\ \A q \in Requests \ {r} : doing'[q] = doing[q]
  BY DEF Does, AdminLoginsInv
<1>2. ASSUME NEW t \in Tickets
      PROVE  /\ \A q \in Requests \ {r} : q \in Through(t) <=> q \in Through(t)'
             /\ \A q \in Requests \ {r} : q \in Guessing(t) <=> q \in Guessing(t)'
             /\ {Through(t), Through(t)', Guessing(t), Guessing(t)'} \subseteq SUBSET Requests
  BY <1>1 DEF Through, Guessing
<1>3. IsFiniteSet(Requests)
  BY AdminLoginsAssumption DEF AdminLoginsAssumption
<1> QED
  BY <1>1, <1>2, <1>3, OneMoves

\* Where r is counted.
LEMMA WhereIs ==
  ASSUME NEW r \in Requests, NEW t
  PROVE  /\ r \in Through(t) <=> doing[r].op \in {"verify", "clear", "delete"} /\ doing[r].ticket = t
         /\ r \in Guessing(t) <=> doing[r].op = "wrong" /\ doing[r].ticket = t
         /\ r \in Through(t)' <=> doing'[r].op \in {"verify", "clear", "delete"} /\ doing'[r].ticket = t
         /\ r \in Guessing(t)' <=> doing'[r].op = "wrong" /\ doing'[r].ticket = t
BY DEF Through, Guessing

FactorInv ==
  /\ mfa \in [secret : Nat, enabled : BOOLEAN] /\ secrets \in Nat
  /\ enrolled \in Nat /\ mixed \in BOOLEAN
  /\ EnrolInv

\* A step of the tickets leaves the enrolments alone.
LEMMA FactorKept ==
  ASSUME AdminLoginsInv, UNCHANGED factor, NEW r \in Requests, NEW d, Does(r, d),
         d.op \notin {"store", "enable"}
  PROVE  FactorInv'
<1>1. /\ doing'[r] = d
      /\ \A q \in Requests \ {r} : doing'[q] = doing[q]
  BY DEF Does, AdminLoginsInv
<1>2. Enrolling' \subseteq Enrolling
  BY <1>1 DEF Enrolling
<1> QED
  BY <1>1, <1>2 DEF FactorInv, AdminLoginsInv, EnrolInv, EnrolledStays, factor

\* A request has read a live ticket, or the count for the one it holds.
LEMMA ReadTicketKeeps ==
  ASSUME AdminLoginsInv, NEW r \in Requests, NEW t \in Tickets,
         NEW d \in Doings, Does(r, d), d.op \in {"verify", "wrong", "delete"}, d.ticket = t,
         UNCHANGED <<factor, ticket, tries, uses, kept, wrong, lost>>,
         \/ doing[r].op = "idle" /\ ticket[t].live /\ d.op # "wrong"
         \/ doing[r].op = "verify" /\ doing[r].ticket = t /\ d.op = "wrong" /\ tries[t] < MaxTries
  PROVE  AdminLoginsInv'
<1>1. FactorInv'
  BY FactorKept
<1>2. /\ doing' \in [Requests -> Doings] /\ doing'[r] = d
      /\ \A q \in Requests \ {r} : doing'[q] = doing[q]
  BY DoesMoves
<1>3. TicketInv'
  <2>1. ASSUME NEW u \in Tickets
        PROVE  /\ uses[u] + Cardinality(Through(u)') <= Cardinality(Requests) + kept[u]
               /\ wrong[u] + Cardinality(Guessing(u)')
                    <= MaxTries + Cardinality(Requests) - 1 + lost[u]
    <3>1. CASE u = t /\ d.op # "wrong"
      <4>1. uses[u] + Cardinality(Through(u)') <= Cardinality(Requests) + kept[u]
        BY <3>1, TicketNumbers, DoesMoves DEF AdminLoginsInv, TicketInv
      <4>2. r \notin Guessing(u) /\ r \notin Guessing(u)'
        BY <1>2, <3>1, WhereIs
      <4> QED
        BY <4>1, <4>2, DoesMoves DEF AdminLoginsInv, TicketInv
    <3>2. CASE u = t /\ d.op = "wrong"
      <4>1. r \in Through(u) /\ r \notin Through(u)'
        BY <1>2, <3>2, WhereIs
      <4>2. uses[u] + Cardinality(Through(u)') <= Cardinality(Requests) + kept[u]
        BY <4>1, TicketNumbers, DoesMoves DEF AdminLoginsInv, TicketInv
      <4>3. wrong[u] <= MaxTries - 1 + lost[u]
        BY <3>2, AdminLoginsAssumption, TicketNumbers DEF AdminLoginsInv, TicketInv
      <4> QED
        BY <4>2, <4>3, AdminLoginsAssumption, TicketNumbers, DoesMoves DEF AdminLoginsInv
    <3>3. CASE u # t
      <4>1. /\ r \notin Through(u) /\ r \notin Guessing(u)
            /\ r \notin Through(u)' /\ r \notin Guessing(u)'
        BY <1>2, <3>3, WhereIs
      <4> QED
        BY <4>1, DoesMoves DEF AdminLoginsInv, TicketInv
    <3> QED
      BY <3>1, <3>2, <3>3
  <2>2. \A q \in Requests :
          doing'[q].op \in {"verify", "wrong", "clear", "delete"} =>
            ticket[doing'[q].ticket].kind # "none"
    BY <1>2 DEF AdminLoginsInv, TicketInv
  <2> QED
    BY <2>1, <2>2 DEF AdminLoginsInv, TicketInv
<1> QED
  BY <1>1, <1>2, <1>3 DEF AdminLoginsInv, FactorInv

LEMMA AskTicketKeeps ==
  ASSUME AdminLoginsInv, NEW r \in Requests, NEW t \in Tickets,
         AskVerifyMFA(r, t) \/ AskRefreshToken(r, t)
  PROVE  AdminLoginsInv'
<1>1. PICK op \in {"verify", "delete"} : Does(r, [op |-> op, ticket |-> t])
  BY DEF AskVerifyMFA, AskRefreshToken
<1> PICK d : d = [op |-> op, ticket |-> t]
  OBVIOUS
<1>2. d \in Doings /\ d.op = op /\ d.ticket = t /\ Does(r, d)
  BY <1>1 DEF Doings
<1>3. /\ UNCHANGED <<factor, ticket, tries, uses, kept, wrong, lost>> /\ doing[r].op = "idle"
      /\ ticket[t].live
  BY DEF AskVerifyMFA, AskRefreshToken, tallies, Rest
<1> QED
  BY <1>1, <1>2, <1>3, ReadTicketKeeps

\* A request goes on, or ends: a use of a ticket is one that was through, a
\* wrong code one that was held.
LEMMA TicketsKept ==
  ASSUME AdminLoginsInv, NEW r \in Requests, NEW d \in Doings, Does(r, d), UNCHANGED factor,
         d.op \notin {"wrong", "store", "enable"},
         d.op \in {"verify", "clear", "delete"} =>
           doing[r].op \in {"verify", "clear", "delete"} /\ d.ticket = doing[r].ticket,
         ticket' \in [Tickets -> [kind : {"none", "mfa", "refresh"}, live : BOOLEAN]],
         {tries', uses', kept', wrong', lost'} \subseteq [Tickets -> Nat],
         \A t \in Tickets :
           /\ ticket'[t].kind = "none" => ticket[t].kind = "none" /\ ~ticket'[t].live
           /\ ticket'[t].kind = "none" => uses'[t] = 0
           /\ ticket'[t].live => uses'[t] <= kept'[t]
           /\ wrong'[t] <= tries'[t] + lost'[t]
           /\ uses'[t] + kept[t] <= uses[t] + kept'[t]
                + (IF doing[r].op = "delete" /\ doing[r].ticket = t
                      /\ d.op \notin {"verify", "clear", "delete"} THEN 1 ELSE 0)
           /\ \/ wrong'[t] = 0
              \/ wrong'[t] + lost[t] <= wrong[t] + lost'[t]
                   + (IF doing[r].op = "wrong" /\ doing[r].ticket = t THEN 1 ELSE 0)
  PROVE  AdminLoginsInv'
<1>1. FactorInv'
  BY FactorKept
<1>2. /\ doing' \in [Requests -> Doings] /\ doing'[r] = d
      /\ \A q \in Requests \ {r} : doing'[q] = doing[q]
  BY DoesMoves
<1>3. ASSUME NEW t \in Tickets
      PROVE  uses'[t] + Cardinality(Through(t)') <= Cardinality(Requests) + kept'[t]
  <2>1. uses'[t] \in Nat /\ kept'[t] \in Nat
    OBVIOUS
  <2>2. uses[t] + Cardinality(Through(t)) <= Cardinality(Requests) + kept[t]
    BY DEF AdminLoginsInv, TicketInv
  <2>3. CASE r \in Through(t) /\ r \notin Through(t)'
    BY <2>1, <2>2, <2>3, TicketNumbers, DoesMoves
  <2>4. CASE r \in Through(t) <=> r \in Through(t)'
    <3>1. Cardinality(Through(t)') = Cardinality(Through(t))
      BY <2>4, DoesMoves
    <3>2. ~(doing[r].op = "delete" /\ doing[r].ticket = t /\ d.op \notin {"verify", "clear", "delete"})
      BY <1>2, <2>4, WhereIs
    <3> QED
      BY <2>1, <2>2, <3>1, <3>2, TicketNumbers
  <2>5. r \in Through(t)' => r \in Through(t)
    BY <1>2, WhereIs
  <2> QED
    BY <2>3, <2>4, <2>5
<1>4. ASSUME NEW t \in Tickets
      PROVE  wrong'[t] + Cardinality(Guessing(t)') <= MaxTries + Cardinality(Requests) - 1 + lost'[t]
  <2>1. wrong'[t] \in Nat /\ lost'[t] \in Nat
    OBVIOUS
  <2>2. wrong[t] + Cardinality(Guessing(t)) <= MaxTries + Cardinality(Requests) - 1 + lost[t]
    BY DEF AdminLoginsInv, TicketInv
  <2>3. r \notin Guessing(t)'
    BY <1>2, WhereIs
  <2>4. CASE wrong'[t] = 0
    BY <2>1, <2>4, TicketNumbers, DoesMoves
  <2>5. CASE wrong'[t] + lost[t] <= wrong[t] + lost'[t]
               + (IF doing[r].op = "wrong" /\ doing[r].ticket = t THEN 1 ELSE 0)
    <3>1. CASE r \in Guessing(t)
      BY <2>1, <2>2, <2>3, <2>5, <3>1, TicketNumbers, DoesMoves
    <3>2. CASE r \notin Guessing(t)
      <4>1. Cardinality(Guessing(t)') = Cardinality(Guessing(t))
        BY <2>3, <3>2, DoesMoves
      <4>2. ~(doing[r].op = "wrong" /\ doing[r].ticket = t)
        BY <3>2, WhereIs
      <4> QED
        BY <2>1, <2>2, <2>5, <4>1, <4>2, TicketNumbers
    <3> QED
      BY <3>1, <3>2
  <2> QED
    BY <2>4, <2>5
<1>5. \A q \in Requests :
        doing'[q].op \in {"verify", "wrong", "clear", "delete"} => ticket'[doing'[q].ticket].kind # "none"
  <2> SUFFICES ASSUME NEW q \in Requests, doing'[q].op \in {"verify", "wrong", "clear", "delete"}
               PROVE  ticket'[doing'[q].ticket].kind # "none"
    OBVIOUS
  <2>1. /\ doing[q].op \in {"verify", "wrong", "clear", "delete"} /\ doing'[q].ticket = doing[q].ticket
        /\ doing[q] \in Doings
    BY <1>2 DEF AdminLoginsInv
  <2>2. doing[q].ticket \in Tickets /\ ticket[doing[q].ticket].kind # "none"
    BY <2>1 DEF AdminLoginsInv, TicketInv, Doings
  <2> QED
    BY <2>1, <2>2
<1>6. TicketInv'
  BY <1>3, <1>4, <1>5 DEF TicketInv
<1> QED
  BY <1>1, <1>2, <1>6 DEF AdminLoginsInv, FactorInv

LEMMA Resting == Rest \in Doings /\ Rest.op = "idle"
BY DEF Rest, Doings

\* What a ticket's request holds.
LEMMA HeldTicket ==
  ASSUME AdminLoginsInv, NEW r \in Requests, doing[r].op \in {"verify", "wrong", "clear", "delete"}
  PROVE  doing[r].ticket \in Tickets
BY DEF AdminLoginsInv, Doings

LEMMA TallyTypes ==
  ASSUME AdminLoginsInv
  PROVE  /\ ticket \in [Tickets -> [kind : {"none", "mfa", "refresh"}, live : BOOLEAN]]
         /\ tries \in [Tickets -> Nat] /\ uses \in [Tickets -> Nat] /\ kept \in [Tickets -> Nat]
         /\ wrong \in [Tickets -> Nat] /\ lost \in [Tickets -> Nat]
         /\ \A t \in Tickets :
              /\ ticket[t].kind = "none" => ~ticket[t].live /\ uses[t] = 0
              /\ ticket[t].live => uses[t] <= kept[t]
              /\ wrong[t] <= tries[t] + lost[t]
BY DEF AdminLoginsInv, TicketInv

LEMMA CheckTriesKeeps ==
  ASSUME AdminLoginsInv, NEW r \in Requests, CheckTries(r)
  PROVE  AdminLoginsInv'
<1> DEFINE t == doing[r].ticket
<1>1. /\ doing[r].op = "verify" /\ t \in Tickets
      /\ UNCHANGED <<factor, ticket, tries, uses, kept, wrong, lost>>
  BY HeldTicket DEF CheckTries, tallies
<1>2. CASE tries[t] < MaxTries /\ Does(r, [op |-> "wrong", ticket |-> t])
  <2> PICK d : d = [op |-> "wrong", ticket |-> t]
    OBVIOUS
  <2>1. d \in Doings /\ d.op = "wrong" /\ d.ticket = t /\ Does(r, d)
    BY <1>1, <1>2 DEF Doings
  <2> QED
    BY <1>1, <1>2, <2>1, ReadTicketKeeps
<1>3. CASE Does(r, [op |-> "clear", ticket |-> t])
  <2> PICK d : d = [op |-> "clear", ticket |-> t]
    OBVIOUS
  <2>1. d \in Doings /\ d.op = "clear" /\ d.ticket = t /\ Does(r, d)
    BY <1>1, <1>3 DEF Doings
  <2> QED
    BY <1>1, <2>1, TicketsKept DEF AdminLoginsInv, TicketInv
<1>4. CASE Does(r, Rest)
  <2>1. Rest \in Doings /\ Rest.op = "idle"
    BY Resting
  <2>2. \A i \in Tickets :
          /\ tries'[i] = tries[i] /\ uses'[i] = uses[i] /\ kept'[i] = kept[i]
          /\ wrong'[i] = wrong[i] /\ lost'[i] = lost[i] /\ ticket'[i] = ticket[i]
          /\ {tries[i], uses[i], kept[i], wrong[i], lost[i]} \subseteq Nat
    BY <1>1, TallyTypes
  <2>3. /\ ticket' \in [Tickets -> [kind : {"none", "mfa", "refresh"}, live : BOOLEAN]]
        /\ {tries', uses', kept', wrong', lost'} \subseteq [Tickets -> Nat]
    BY <1>1, TallyTypes
  <2>4. \A i \in Tickets :
          /\ ticket[i].kind = "none" => ~ticket[i].live /\ uses[i] = 0
          /\ ticket[i].live => uses[i] <= kept[i]
          /\ wrong[i] <= tries[i] + lost[i]
    BY TallyTypes
  <2> QED
    BY <1>1, <1>4, <2>1, <2>2, <2>3, <2>4, TicketsKept
<1> QED
  BY <1>2, <1>3, <1>4 DEF CheckTries, Stops

LEMMA CountWrongKeeps ==
  ASSUME AdminLoginsInv, NEW r \in Requests, CountWrong(r)
  PROVE  AdminLoginsInv'
<1> PICK t : t = doing[r].ticket
  OBVIOUS
<1>1. /\ doing[r].op = "wrong" /\ t \in Tickets /\ Does(r, Rest)
      /\ UNCHANGED <<factor, ticket, uses, kept>>
  BY HeldTicket DEF CountWrong, Stops
<1>2. /\ wrong' = [wrong EXCEPT ![t] = @ + 1]
      /\ \/ tries' = [tries EXCEPT ![t] = @ + 1] /\ UNCHANGED lost
         \/ lost' = [lost EXCEPT ![t] = @ + 1] /\ UNCHANGED tries
  BY DEF CountWrong
<1>3. {tries', uses', kept', wrong', lost'} \subseteq [Tickets -> Nat]
  BY <1>1, <1>2, TallyTypes
<1>4. \A u \in Tickets :
        /\ wrong'[u] = wrong[u] + (IF u = t THEN 1 ELSE 0)
        /\ tries'[u] + lost'[u] = tries[u] + lost[u] + (IF u = t THEN 1 ELSE 0)
        /\ lost'[u] >= lost[u]
  BY <1>1, <1>2, TallyTypes
<1>5. \A u \in Tickets :
        /\ wrong'[u] <= tries'[u] + lost'[u]
        /\ wrong'[u] + lost[u] <= wrong[u] + lost'[u] + (IF u = t THEN 1 ELSE 0)
  BY <1>3, <1>4, TallyTypes, TicketNumbers
<1>6. ticket' \in [Tickets -> [kind : {"none", "mfa", "refresh"}, live : BOOLEAN]]
  BY <1>1, TallyTypes
<1> QED
  BY <1>1, <1>3, <1>5, <1>6, Resting, TallyTypes, TicketsKept

LEMMA ClearTriesKeeps ==
  ASSUME AdminLoginsInv, NEW r \in Requests, ClearTries(r)
  PROVE  AdminLoginsInv'
<1> PICK t, d : t = doing[r].ticket /\ d = [op |-> "delete", ticket |-> t]
  OBVIOUS
<1>1. /\ doing[r].op = "clear" /\ t \in Tickets /\ Does(r, d)
      /\ UNCHANGED <<factor, ticket, uses, kept>>
  BY HeldTicket DEF ClearTries
<1>2. d \in Doings /\ d.op = "delete" /\ d.ticket = t
  BY <1>1 DEF Doings
<1>3. /\ wrong' = [wrong EXCEPT ![t] = 0] /\ lost' = [lost EXCEPT ![t] = 0]
      /\ tries' = [tries EXCEPT ![t] = 0] \/ UNCHANGED tries
  BY DEF ClearTries
<1>4. {tries', uses', kept', wrong', lost'} \subseteq [Tickets -> Nat]
  BY <1>1, <1>3, TallyTypes
<1>5. \A u \in Tickets :
        /\ wrong'[u] <= tries'[u] + lost'[u]
        /\ \/ wrong'[u] = 0
           \/ wrong'[u] = wrong[u] /\ lost'[u] = lost[u]
  BY <1>1, <1>3, <1>4, TallyTypes
<1>6. ticket' \in [Tickets -> [kind : {"none", "mfa", "refresh"}, live : BOOLEAN]]
  BY <1>1, TallyTypes
<1>7. \A u \in Tickets :
        /\ ticket'[u].kind = "none" => ticket[u].kind = "none" /\ ~ticket'[u].live
        /\ ticket'[u].kind = "none" => uses'[u] = 0
        /\ ticket'[u].live => uses'[u] <= kept'[u]
        /\ uses'[u] + kept[u] <= uses[u] + kept'[u]
        /\ wrong'[u] = 0 \/ wrong'[u] + lost[u] <= wrong[u] + lost'[u]
  BY <1>1, <1>5, TallyTypes, TicketNumbers
<1> QED
  BY <1>1, <1>2, <1>4, <1>5, <1>6, <1>7, TicketsKept

LEMMA DeleteTicketKeeps ==
  ASSUME AdminLoginsInv, NEW r \in Requests, DeleteTicket(r)
  PROVE  AdminLoginsInv'
<1> PICK t, d : t = doing[r].ticket /\ d = [op |-> "issue"]
  OBVIOUS
<1>1. /\ doing[r].op = "delete" /\ t \in Tickets /\ Does(r, d)
      /\ UNCHANGED <<factor, tries, wrong, lost>>
      /\ d \in Doings /\ d.op = "issue"
  BY HeldTicket DEF DeleteTicket, Doings
<1>2. /\ uses' = [uses EXCEPT ![t] = @ + 1]
      /\ \/ ticket' = [ticket EXCEPT ![t].live = FALSE] /\ UNCHANGED kept
         \/ kept' = [kept EXCEPT ![t] = @ + 1] /\ UNCHANGED ticket
  BY DEF DeleteTicket
<1>3. {tries', uses', kept', wrong', lost'} \subseteq [Tickets -> Nat]
  BY <1>1, <1>2, TallyTypes
<1>4. /\ ticket' \in [Tickets -> [kind : {"none", "mfa", "refresh"}, live : BOOLEAN]]
      /\ \A u \in Tickets :
           ticket'[u].kind = ticket[u].kind /\ (ticket'[u].live => ticket[u].live)
      /\ UNCHANGED kept => ~ticket'[t].live
  <2>1. CASE UNCHANGED ticket
    BY <1>1, <1>2, <2>1, TallyTypes
  <2>2. CASE ticket' = [ticket EXCEPT ![t].live = FALSE]
    <3> PICK k : k = [ticket[t] EXCEPT !.live = FALSE]
      OBVIOUS
    <3>1. ticket[t] \in [kind : {"none", "mfa", "refresh"}, live : BOOLEAN]
      BY <1>1, TallyTypes
    <3>2. /\ k \in [kind : {"none", "mfa", "refresh"}, live : BOOLEAN]
          /\ k.kind = ticket[t].kind /\ ~k.live
      BY <3>1
    <3>3. ticket' = [ticket EXCEPT ![t] = k]
      BY <2>2
    <3>4. ticket'[t] = k /\ \A u \in Tickets \ {t} : ticket'[u] = ticket[u]
      BY <1>1, <3>3, TallyTypes
    <3>5. ticket' \in [Tickets -> [kind : {"none", "mfa", "refresh"}, live : BOOLEAN]]
      BY <1>1, <3>2, <3>3, TallyTypes
    <3> QED
      BY <3>2, <3>4, <3>5
  <2> QED
    BY <1>2, <2>1, <2>2
<1>5. \A u \in Tickets :
        /\ uses'[u] = uses[u] + (IF u = t THEN 1 ELSE 0)
        /\ \/ kept'[u] = kept[u] /\ (u = t => ~ticket'[u].live)
           \/ kept'[u] = kept[u] + (IF u = t THEN 1 ELSE 0)
  BY <1>1, <1>2, <1>4, TallyTypes
<1>6. ticket[t].kind # "none"
  BY <1>1 DEF AdminLoginsInv, TicketInv
<1>7. \A u \in Tickets :
        /\ ticket'[u].kind = "none" => ticket[u].kind = "none" /\ ~ticket'[u].live
        /\ ticket'[u].kind = "none" => uses'[u] = 0
        /\ ticket'[u].live => uses'[u] <= kept'[u]
        /\ uses'[u] + kept[u] <= uses[u] + kept'[u] + (IF t = u THEN 1 ELSE 0)
  BY <1>1, <1>3, <1>4, <1>5, <1>6, TallyTypes, TicketNumbers
<1>8. \A u \in Tickets :
        /\ wrong'[u] <= tries'[u] + lost'[u]
        /\ wrong'[u] + lost[u] <= wrong[u] + lost'[u]
  BY <1>1, TallyTypes, TicketNumbers
<1> QED
  BY <1>1, <1>3, <1>4, <1>7, <1>8, TicketsKept

LEMMA NewTicketIs ==
  ASSUME AdminLoginsInv, NEW kind \in {"mfa", "refresh"}, NEW stored \in BOOLEAN,
         NewTicket(kind, stored)
  PROVE  /\ ticket' \in [Tickets -> [kind : {"none", "mfa", "refresh"}, live : BOOLEAN]]
         /\ \A t \in Tickets :
              /\ ticket'[t].kind = "none" => ticket[t].kind = "none" /\ ~ticket'[t].live
              /\ ticket'[t].live => ticket[t].live \/ uses[t] = 0
<1>1. PICK t \in Tickets :
        ticket[t].kind = "none" /\ ticket' = [ticket EXCEPT ![t] = [kind |-> kind, live |-> stored]]
  BY DEF NewTicket
<1> QED
  BY <1>1, TallyTypes

LEMMA IssueTokensKeeps ==
  ASSUME AdminLoginsInv, NEW r \in Requests, IssueTokens(r)
  PROVE  AdminLoginsInv'
<1>1. /\ doing[r].op = "issue" /\ Does(r, Rest)
      /\ UNCHANGED <<factor, tries, uses, kept, wrong, lost>>
  BY DEF IssueTokens, Stops, tallies
<1>2. PICK stored \in BOOLEAN : NewTicket("refresh", stored)
  BY DEF IssueTokens
<1>3. \A t \in Tickets :
        /\ ticket'[t].kind = "none" => ticket[t].kind = "none" /\ ~ticket'[t].live
        /\ ticket'[t].live => uses[t] <= kept[t]
  BY <1>2, NewTicketIs, TallyTypes, TicketNumbers
<1> QED
  BY <1>1, <1>2, <1>3, NewTicketIs, Resting, TallyTypes, TicketNumbers, TicketsKept

LEMMA RequestCutKeeps ==
  ASSUME AdminLoginsInv, NEW r \in Requests, RequestCut(r)
  PROVE  AdminLoginsInv'
<1>1. Does(r, Rest) /\ UNCHANGED <<factor, ticket, tries, uses, kept>>
  BY DEF RequestCut, Stops
<1>2. CASE doing[r].op = "wrong"
  <2> PICK t : t = doing[r].ticket
    OBVIOUS
  <2>1. /\ t \in Tickets
        /\ wrong' = [wrong EXCEPT ![t] = @ + 1] /\ lost' = [lost EXCEPT ![t] = @ + 1]
    BY <1>2, HeldTicket DEF RequestCut
  <2>2. {tries', uses', kept', wrong', lost'} \subseteq [Tickets -> Nat]
    BY <1>1, <2>1, TallyTypes
  <2>3. \A u \in Tickets :
          /\ wrong'[u] <= tries[u] + lost'[u]
          /\ wrong'[u] + lost[u] <= wrong[u] + lost'[u]
    BY <2>1, <2>2, TallyTypes, TicketNumbers
  <2> QED
    BY <1>1, <1>2, <2>2, <2>3, Resting, TallyTypes, TicketNumbers, TicketsKept
<1>3. CASE doing[r].op # "wrong"
  <2>1. UNCHANGED <<wrong, lost>>
    BY <1>3 DEF RequestCut
  <2> QED
    BY <1>1, <2>1, Resting, TallyTypes, TicketNumbers, TicketsKept
<1> QED
  BY <1>2, <1>3

\* Steps of no request.
LEMMA NoRequestKeeps ==
  ASSUME AdminLoginsInv, Login \/ \E t \in Tickets : TicketEnds(t)
  PROVE  AdminLoginsInv'
<1>1. UNCHANGED <<factor, tries, doing, uses, kept, wrong, lost>>
  BY DEF Login, TicketEnds, tallies
<1>2. /\ ticket' \in [Tickets -> [kind : {"none", "mfa", "refresh"}, live : BOOLEAN]]
      /\ \A t \in Tickets :
           /\ ticket'[t].kind = "none" => ticket[t].kind = "none" /\ ~ticket'[t].live
           /\ ticket'[t].live => ticket[t].live \/ uses[t] = 0
  <2>1. CASE Login
    BY <2>1, NewTicketIs DEF Login
  <2>2. ASSUME NEW t \in Tickets, ticket' = [ticket EXCEPT ![t].live = FALSE]
        PROVE  /\ ticket' \in [Tickets -> [kind : {"none", "mfa", "refresh"}, live : BOOLEAN]]
               /\ \A u \in Tickets :
                    ticket'[u].kind = ticket[u].kind /\ (ticket'[u].live => ticket[u].live)
    BY <2>2, TallyTypes
  <2>3. CASE \E t \in Tickets : TicketEnds(t)
    BY <2>2, <2>3, TallyTypes DEF TicketEnds
  <2> QED
    BY <2>1, <2>3
<1>3. \A t : Through(t)' = Through(t) /\ Guessing(t)' = Guessing(t)
  BY <1>1 DEF Through, Guessing
<1>4. TicketInv'
  <2>1. \A t \in Tickets :
          /\ ticket'[t].kind = "none" => ~ticket'[t].live /\ uses[t] = 0
          /\ ticket'[t].live => uses[t] <= kept[t]
    BY <1>2, TallyTypes, TicketNumbers
  <2>2. \A r \in Requests :
          doing[r].op \in {"verify", "wrong", "clear", "delete"} => ticket'[doing[r].ticket].kind # "none"
    BY <1>2, HeldTicket DEF AdminLoginsInv, TicketInv
  <2> QED
    BY <1>1, <1>3, <2>1, <2>2 DEF AdminLoginsInv, TicketInv
<1>5. EnrolInv'
  BY <1>1 DEF AdminLoginsInv, EnrolInv, EnrolledStays, Enrolling, factor
<1> QED
  BY <1>1, <1>2, <1>4, <1>5 DEF AdminLoginsInv, factor

\* A step of an enrolment leaves the tickets alone.
LEMMA TicketsAlone ==
  ASSUME AdminLoginsInv, NEW r \in Requests, NEW d \in Doings, Does(r, d),
         doing[r].op \notin {"verify", "wrong", "clear", "delete"},
         d.op \notin {"verify", "wrong", "clear", "delete"},
         UNCHANGED <<ticket, tries, tallies>>
  PROVE  /\ ticket' \in [Tickets -> [kind : {"none", "mfa", "refresh"}, live : BOOLEAN]]
         /\ doing' \in [Requests -> Doings]
         /\ {tries', uses', kept', wrong', lost'} \subseteq [Tickets -> Nat]
         /\ TicketInv'
         /\ doing'[r] = d /\ \A q \in Requests \ {r} : doing'[q] = doing[q]
<1>1. /\ doing' \in [Requests -> Doings] /\ doing'[r] = d
      /\ \A q \in Requests \ {r} : doing'[q] = doing[q]
  BY DoesMoves
<1>2. UNCHANGED <<ticket, tries, uses, kept, wrong, lost>>
  BY DEF tallies
<1>3. \A t : Through(t)' = Through(t) /\ Guessing(t)' = Guessing(t)
  BY <1>1 DEF Through, Guessing
<1>4. \A q \in Requests :
        doing'[q].op \in {"verify", "wrong", "clear", "delete"} => ticket[doing'[q].ticket].kind # "none"
  BY <1>1 DEF AdminLoginsInv, TicketInv
<1>5. TicketInv'
  BY <1>2, <1>3, <1>4 DEF AdminLoginsInv, TicketInv
<1> QED
  BY <1>1, <1>2, <1>5 DEF AdminLoginsInv

LEMMA FactorTypes ==
  ASSUME AdminLoginsInv
  PROVE  FactorInv
BY DEF AdminLoginsInv, FactorInv

LEMMA FactorGives ==
  ASSUME FactorInv'
  PROVE  /\ mfa' \in [secret : Nat, enabled : BOOLEAN] /\ secrets' \in Nat
         /\ enrolled' \in Nat /\ mixed' \in BOOLEAN /\ EnrolInv'
BY DEF FactorInv

\* An enrolment is asked for.
LEMMA AskEnrolKeeps ==
  ASSUME AdminLoginsInv, NEW r \in Requests, NEW op \in {"store", "enable"}, NEW n \in Nat,
         doing[r] = Rest, Does(r, [op |-> op, secret |-> n]),
         op = "store" => ~mfa.enabled,
         secrets' \in Nat, mixed' = (mixed \/ Enrolling # {}),
         UNCHANGED <<mfa, enrolled, ticket, tries, faults, tallies>>
  PROVE  AdminLoginsInv'
<1> PICK d : d = [op |-> op, secret |-> n]
  OBVIOUS
<1>1. d \in Doings /\ d.op = op /\ Does(r, d)
  BY DEF Doings
<1>2. doing[r].op = "idle" /\ UNCHANGED <<ticket, tries, tallies>>
  BY DEF Rest
<1>3. doing'[r] = d /\ \A q \in Requests \ {r} : doing'[q] = doing[q]
  BY <1>1, DoesMoves
<1>4. ASSUME ~mixed'
      PROVE  /\ \A p, q \in Enrolling' : p = q
             /\ \A q \in Requests : doing'[q].op = "store" => ~mfa'.enabled
  <2>1. Enrolling = {}
    BY <1>4
  <2>2. Enrolling' = {r}
    BY <1>1, <1>3, <2>1 DEF Enrolling
  <2>3. \A q \in Requests : doing'[q].op = "store" => ~mfa.enabled
    BY <1>1, <1>3, <2>1 DEF Enrolling
  <2> QED
    BY <2>2, <2>3
<1>5. EnrolledStays' /\ mixed' \in BOOLEAN
  BY DEF AdminLoginsInv, EnrolInv, EnrolledStays
<1>6. FactorInv'
  BY <1>4, <1>5 DEF AdminLoginsInv, EnrolInv, FactorInv
<1> QED
  BY <1>1, <1>2, <1>6, TicketsAlone, FactorGives DEF AdminLoginsInv

\* What an enrolment writes, it writes alone; or the mix is recorded.
LEMMA EnrolWritesKeeps ==
  ASSUME AdminLoginsInv, NEW r \in Enrolling, NEW d \in Doings, Does(r, d),
         d.op \in {"idle", "issue"},
         mfa' \in [secret : Nat, enabled : BOOLEAN],
         enrolled' \in Nat, mixed' \in BOOLEAN, mixed => mixed', EnrolledStays',
         UNCHANGED <<secrets, ticket, tries, tallies>>
  PROVE  AdminLoginsInv'
<1>1. r \in Requests /\ doing[r].op \in {"store", "enable"}
  BY DEF Enrolling
<1>2. doing'[r] = d /\ \A q \in Requests \ {r} : doing'[q] = doing[q]
  BY <1>1, DoesMoves
<1>3. ASSUME ~mixed'
      PROVE  /\ \A p, q \in Enrolling' : p = q
             /\ \A q \in Requests : doing'[q].op = "store" => ~mfa'.enabled
  <2>1. \A q \in Enrolling : q = r
    BY <1>3 DEF AdminLoginsInv, EnrolInv
  <2>2. Enrolling' = {}
    BY <1>2, <2>1 DEF Enrolling
  <2> QED
    BY <2>2 DEF Enrolling
<1>4. FactorInv'
  BY <1>3 DEF AdminLoginsInv, EnrolInv, FactorInv
<1> QED
  BY <1>1, <1>4, TicketsAlone, FactorGives DEF AdminLoginsInv

LEMMA EnrolKeeps ==
  ASSUME AdminLoginsInv, NEW r \in Requests,
         AskSetupMFA(r) \/ AskConfirmMFASetup(r) \/ StoreSecret(r) \/ EnableMFA(r)
  PROVE  AdminLoginsInv'
<1>1. CASE AskSetupMFA(r)
  <2>1. secrets + 1 \in Nat
    BY DEF AdminLoginsInv
  <2> QED
    BY <1>1, <2>1, AskEnrolKeeps DEF AskSetupMFA
<1>2. CASE AskConfirmMFASetup(r)
  <2>1. mfa.secret \in Nat /\ secrets' \in Nat
    BY <1>2 DEF AskConfirmMFASetup, AdminLoginsInv
  <2> QED
    BY <1>2, <2>1, AskEnrolKeeps DEF AskConfirmMFASetup
<1>3. ASSUME doing[r].op \in {"store", "enable"}
      PROVE  r \in Enrolling /\ doing[r].secret \in Nat
  BY <1>3 DEF Enrolling, AdminLoginsInv, Doings
<1>4. CASE StoreSecret(r)
  <2>1. r \in Enrolling /\ doing[r].secret \in Nat /\ doing[r].op = "store"
    BY <1>3, <1>4 DEF StoreSecret
  <2>2. /\ mfa' = [secret |-> doing[r].secret, enabled |-> FALSE] \/ UNCHANGED mfa
        /\ Does(r, Rest) /\ UNCHANGED <<secrets, enrolled, mixed, ticket, tries, tallies>>
    BY <1>4 DEF StoreSecret, Stops
  <2>3. mfa' \in [secret : Nat, enabled : BOOLEAN]
    <3>1. CASE UNCHANGED mfa
      BY <3>1 DEF AdminLoginsInv
    <3>2. CASE mfa' = [secret |-> doing[r].secret, enabled |-> FALSE]
      BY <2>1, <3>2
    <3> QED
      BY <2>2, <3>1, <3>2
  <2>4. EnrolledStays'
    <3>1. CASE mixed
      BY <2>2, <3>1 DEF EnrolledStays
    <3>2. CASE ~mixed
      <4>1. ~mfa.enabled
        BY <2>1, <3>2 DEF AdminLoginsInv, EnrolInv
      <4>2. enrolled = 0
        BY <3>2, <4>1 DEF AdminLoginsInv, EnrolInv, EnrolledStays
      <4> QED
        BY <2>2, <4>2 DEF EnrolledStays
    <3> QED
      BY <3>1, <3>2
  <2>5. enrolled' \in Nat /\ mixed' \in BOOLEAN /\ (mixed => mixed')
    BY <2>2 DEF AdminLoginsInv
  <2> QED
    BY <2>1, <2>2, <2>3, <2>4, <2>5, Resting, EnrolWritesKeeps
<1>5. CASE EnableMFA(r)
  <2>1. r \in Enrolling /\ doing[r].secret \in Nat
    BY <1>3, <1>5 DEF EnableMFA
  <2>2. /\ \/ mfa' = [secret |-> doing[r].secret, enabled |-> TRUE] /\ UNCHANGED mixed
           \/ mixed' = TRUE /\ UNCHANGED mfa
        /\ enrolled' = doing[r].secret /\ UNCHANGED <<secrets, ticket, tries, tallies>>
        /\ Does(r, [op |-> "issue"])
    BY <1>5 DEF EnableMFA
  <2>3. mfa' \in [secret : Nat, enabled : BOOLEAN] /\ enrolled' \in Nat /\ mixed' \in BOOLEAN
    <3>1. CASE UNCHANGED mfa /\ mixed' = TRUE
      BY <2>1, <2>2, <3>1 DEF AdminLoginsInv
    <3>2. CASE mfa' = [secret |-> doing[r].secret, enabled |-> TRUE] /\ UNCHANGED mixed
      BY <2>1, <2>2, <3>2 DEF AdminLoginsInv
    <3> QED
      BY <2>2, <3>1, <3>2
  <2>4. EnrolledStays' /\ (mixed => mixed')
    BY <2>2 DEF EnrolledStays
  <2>5. [op |-> "issue"] \in Doings
    BY DEF Doings
  <2> QED
    BY <2>1, <2>2, <2>3, <2>4, <2>5, EnrolWritesKeeps
<1> QED
  BY <1>1, <1>2, <1>4, <1>5

LEMMA AdminLoginsInitInv == AdminLoginsInit \/ EnrolledAdmin => AdminLoginsInv
<1> SUFFICES ASSUME AdminLoginsInit \/ EnrolledAdmin PROVE AdminLoginsInv
  OBVIOUS
<1>0. MaxSecrets \in Nat
  BY AdminLoginsAssumption DEF AdminLoginsAssumption
<1> USE DEF EnrolledAdmin
<1>9. /\ ticket = [t \in Tickets |-> [kind |-> "none", live |-> FALSE]]
      /\ doing = [r \in Requests |-> Rest]
      /\ tries = [t \in Tickets |-> 0] /\ uses = [t \in Tickets |-> 0]
      /\ kept = [t \in Tickets |-> 0] /\ wrong = [t \in Tickets |-> 0]
      /\ lost = [t \in Tickets |-> 0] /\ mixed = FALSE
  BY DEF AdminLoginsInit
<1>10. \/ mfa = [secret |-> 0, enabled |-> FALSE] /\ secrets = 0 /\ enrolled = 0
       \/ mfa = [secret |-> MaxSecrets, enabled |-> TRUE] /\ secrets = MaxSecrets /\ enrolled = MaxSecrets
  BY DEF AdminLoginsInit
<1> HIDE DEF EnrolledAdmin
<1>1. /\ ticket \in [Tickets -> [kind : {"none", "mfa", "refresh"}, live : BOOLEAN]]
      /\ doing \in [Requests -> Doings]
      /\ mfa \in [secret : Nat, enabled : BOOLEAN]
  <2>1. [kind |-> "none", live |-> FALSE] \in [kind : {"none", "mfa", "refresh"}, live : BOOLEAN]
    OBVIOUS
  <2>2. ticket \in [Tickets -> [kind : {"none", "mfa", "refresh"}, live : BOOLEAN]]
    BY <1>9, <2>1
  <2>3. [secret |-> 0, enabled |-> FALSE] \in [secret : Nat, enabled : BOOLEAN]
    OBVIOUS
  <2>4. [secret |-> MaxSecrets, enabled |-> TRUE] \in [secret : Nat, enabled : BOOLEAN]
    BY <1>0
  <2>5. mfa \in [secret : Nat, enabled : BOOLEAN]
    BY <1>10, <2>3, <2>4
  <2> QED
    BY <1>9, <2>2, <2>5, Resting
<1>7. {tries, uses, kept, wrong, lost} \subseteq [Tickets -> Nat]
  <2>1. /\ tries \in [Tickets -> Nat] /\ uses \in [Tickets -> Nat] /\ kept \in [Tickets -> Nat]
        /\ wrong \in [Tickets -> Nat] /\ lost \in [Tickets -> Nat]
    BY <1>9
  <2> QED
    BY <2>1
<1>8. secrets \in Nat /\ enrolled \in Nat /\ mixed \in BOOLEAN
  <2>1. mixed \in BOOLEAN
    BY <1>9
  <2>2. CASE mfa = [secret |-> 0, enabled |-> FALSE] /\ secrets = 0 /\ enrolled = 0
    BY <2>1, <2>2
  <2>3. CASE secrets = MaxSecrets /\ enrolled = MaxSecrets
    BY <1>0, <2>1, <2>3
  <2> QED
    BY <1>10, <2>2, <2>3
<1>2. \A r \in Requests : doing[r].op = "idle"
  BY <1>9, Resting
<1>3. \A t \in Tickets : Through(t) = {} /\ Guessing(t) = {}
  BY <1>2 DEF Through, Guessing
<1>4. Cardinality({}) = 0 /\ Cardinality(Requests) \in Nat /\ MaxTries \in Nat /\ MaxTries >= 1
  BY AdminLoginsAssumption, FS_EmptySet, FS_CardinalityType DEF AdminLoginsAssumption
<1>5. TicketInv
  <2>1. \A t \in Tickets :
          /\ ~ticket[t].live
          /\ uses[t] = 0 /\ kept[t] = 0 /\ wrong[t] = 0 /\ tries[t] = 0 /\ lost[t] = 0
    BY <1>9
  <2>2. \A t \in Tickets :
          /\ uses[t] + Cardinality(Through(t)) <= Cardinality(Requests) + kept[t]
          /\ wrong[t] <= tries[t] + lost[t]
          /\ wrong[t] + Cardinality(Guessing(t)) <= MaxTries + Cardinality(Requests) - 1 + lost[t]
    <3> TAKE t \in Tickets
    <3>1. Cardinality(Through(t)) = 0 /\ Cardinality(Guessing(t)) = 0
      BY <1>3, <1>4
    <3> QED
      BY <1>4, <2>1, <3>1
  <2> QED
    BY <1>2, <2>1, <2>2 DEF TicketInv
<1>6. EnrolInv
  BY <1>2, <1>10 DEF EnrolInv, EnrolledStays, Enrolling
<1> QED
  BY <1>1, <1>5, <1>6, <1>7, <1>8 DEF AdminLoginsInv

LEMMA AdminLoginsStepInv == AdminLoginsInv /\ [AdminLoginsNext]_adminLoginVars => AdminLoginsInv'
<1> SUFFICES ASSUME AdminLoginsInv, [AdminLoginsNext]_adminLoginVars PROVE AdminLoginsInv'
  OBVIOUS
<1>1. CASE UNCHANGED adminLoginVars
  BY <1>1 DEF adminLoginVars, factor, tallies, AdminLoginsInv, TicketInv, EnrolInv, EnrolledStays,
       Enrolling, Through, Guessing
<1>2. CASE AdminLoginsNext
  <2>1. CASE Login \/ \E t \in Tickets : TicketEnds(t)
    BY <2>1, NoRequestKeeps
  <2>2. ASSUME NEW r \in Requests,
               \/ \E t \in Tickets : AskVerifyMFA(r, t) \/ AskRefreshToken(r, t)
               \/ AskSetupMFA(r) \/ AskConfirmMFASetup(r)
               \/ CheckTries(r) \/ CountWrong(r) \/ ClearTries(r) \/ DeleteTicket(r) \/ IssueTokens(r)
               \/ StoreSecret(r) \/ EnableMFA(r) \/ RequestCut(r)
        PROVE  AdminLoginsInv'
    BY <2>2, AskTicketKeeps, EnrolKeeps, CheckTriesKeeps, CountWrongKeeps, ClearTriesKeeps, DeleteTicketKeeps,
       IssueTokensKeeps, RequestCutKeeps
  <2> QED
    BY <1>2, <2>1, <2>2 DEF AdminLoginsNext
<1> QED
  BY <1>1, <1>2

LEMMA AdminLoginsInvariant == AdminLoginsSpec => []AdminLoginsInv
<1>1. AdminLoginsInit \/ EnrolledAdmin => AdminLoginsInv
  BY AdminLoginsInitInv
<1>2. AdminLoginsInv /\ [AdminLoginsNext]_adminLoginVars => AdminLoginsInv'
  BY AdminLoginsStepInv
<1> QED
  BY <1>1, <1>2, PTL DEF AdminLoginsSpec

\* However the logins and refreshes of an administrator interleave and fail, a
\* token lets through those who read it together and one for each that failed
\* to delete it, and wrong codes stop at the limit: for every set of requests
\* and every limit (admin/service.go VerifyMFA, RefreshToken).
THEOREM TicketsSpent == AdminLoginsSpec => []TicketsAreSpent
<1>1. AdminLoginsInv => TicketsAreSpent
  <2> SUFFICES ASSUME AdminLoginsInv, NEW t \in Tickets
               PROVE  /\ uses[t] <= Cardinality(Requests) + kept[t]
                      /\ wrong[t] <= MaxTries + Cardinality(Requests) - 1 + lost[t]
    BY DEF TicketsAreSpent
  <2>1. /\ uses[t] + Cardinality(Through(t)) <= Cardinality(Requests) + kept[t]
        /\ wrong[t] + Cardinality(Guessing(t)) <= MaxTries + Cardinality(Requests) - 1 + lost[t]
    BY DEF AdminLoginsInv, TicketInv
  <2> QED
    BY <2>1, TicketNumbers
<1> QED
  BY <1>1, AdminLoginsInvariant, PTL

\* The secret an administrator confirmed stays, unless enrolments overlapped or
\* one was not saved (ConfirmMFASetup).
THEOREM SecretStays == AdminLoginsSpec => []EnrolledStays
<1>1. AdminLoginsInv => EnrolledStays
  BY DEF AdminLoginsInv, EnrolInv
<1> QED
  BY <1>1, AdminLoginsInvariant, PTL

-----------------------------------------------------------------------------
(* Codes, sessions and the password of a user.                             *)

LEMMA CallMoves ==
  ASSUME TallyInv, NEW p \in Clients, NEW r \in Calls, Goes(p, r)
  PROVE  /\ request' \in [Clients -> Calls] /\ request'[p] = r
         /\ \A q \in Clients \ {p} : request'[q] = request[q]
BY DEF TallyInv, Goes

\* One call moves: who holds a code changes by it alone.
LEMMA HoldingMoves ==
  ASSUME TallyInv, NEW p \in Clients, NEW r \in Calls, Goes(p, r), NEW op, NEW n
  PROVE  /\ Cardinality(Holding(op, n)) \in Nat /\ Cardinality(Holding(op, n)') \in Nat
         /\ Cardinality(Clients) \in Nat
         /\ Cardinality(Holding(op, n)') <= Cardinality(Clients)
         /\ request[p].op = op /\ request[p].code = n /\ ~(r.op = op /\ r.code = n) =>
              Cardinality(Holding(op, n)') = Cardinality(Holding(op, n)) - 1
         /\ ~(request[p].op = op /\ request[p].code = n) /\ ~(r.op = op /\ r.code = n) =>
              Cardinality(Holding(op, n)') = Cardinality(Holding(op, n))
<1>1. /\ request'[p] = r
      /\ \A q \in Clients \ {p} : request'[q] = request[q]
  BY CallMoves
<1>2. /\ Holding(op, n) \in SUBSET Clients /\ Holding(op, n)' \in SUBSET Clients
      /\ \A q \in Clients \ {p} : q \in Holding(op, n) <=> q \in Holding(op, n)'
  BY <1>1 DEF Holding, At
<1>3. /\ p \in Holding(op, n) <=> request[p].op = op /\ request[p].code = n
      /\ p \in Holding(op, n)' <=> r.op = op /\ r.code = n
  BY <1>1 DEF Holding, At
<1>4. IsFiniteSet(Clients)
  BY SessionsAssumption DEF SessionsAssumption
<1> QED
  BY <1>2, <1>3, <1>4, OneMoves

LEMMA ComingMoves ==
  ASSUME TallyInv, NEW p \in Clients, NEW r \in Calls, Goes(p, r), NEW op, NEW s
  PROVE  /\ Cardinality(Coming(op, s)) \in Nat /\ Cardinality(Coming(op, s)') \in Nat
         /\ Cardinality(Clients) \in Nat
         /\ request[p].op = op /\ request[p].from = s /\ ~(r.op = op /\ r.from = s) =>
              Cardinality(Coming(op, s)') = Cardinality(Coming(op, s)) - 1
         /\ ~(request[p].op = op /\ request[p].from = s) /\ r.op = op /\ r.from = s =>
              Cardinality(Coming(op, s)') = Cardinality(Coming(op, s)) + 1
         /\ ~(request[p].op = op /\ request[p].from = s) /\ ~(r.op = op /\ r.from = s) =>
              Cardinality(Coming(op, s)') = Cardinality(Coming(op, s))
<1>1. /\ request'[p] = r
      /\ \A q \in Clients \ {p} : request'[q] = request[q]
  BY CallMoves
<1>2. /\ Coming(op, s) \in SUBSET Clients /\ Coming(op, s)' \in SUBSET Clients
      /\ \A q \in Clients \ {p} : q \in Coming(op, s) <=> q \in Coming(op, s)'
  BY <1>1 DEF Coming, At
<1>3. /\ p \in Coming(op, s) <=> request[p].op = op /\ request[p].from = s
      /\ p \in Coming(op, s)' <=> r.op = op /\ r.from = s
  BY <1>1 DEF Coming, At
<1>4. IsFiniteSet(Clients)
  BY SessionsAssumption DEF SessionsAssumption
<1> QED
  BY <1>2, <1>3, <1>4, OneMoves

CodeTypes ==
  /\ code \in [Codes -> [purpose : Purposes \cup {"none"}, status : {"none", "valid", "gone"},
                         attempts : Nat]]
  /\ passes \in [Codes -> Nat] /\ misses \in [Codes -> Nat] /\ uncounted \in [Codes -> Nat]

SessionTypes ==
  /\ session \in [SessionIds -> {"none", "live", "gone"}]
  /\ replaced \in [SessionIds -> Nat] /\ left \in [SessionIds -> Nat]

AccountTypes ==
  /\ account \in {"none", "UNVERIFIED", "ACTIVE"}
  /\ password \in Passwords \cup {"none"} /\ proved \in Passwords \cup {"none"}

LEMMA TalliesAre ==
  ASSUME TallyInv
  PROVE  AccountTypes /\ CodeTypes /\ SessionTypes
BY DEF TallyInv, AccountTypes, CodeTypes, SessionTypes

LEMMA TalliesStay ==
  ASSUME request' \in [Clients -> Calls], AccountTypes', CodeTypes', SessionTypes'
  PROVE  TallyInv'
BY DEF TallyInv, AccountTypes, CodeTypes, SessionTypes

LEMMA AccountStays ==
  ASSUME TallyInv, UNCHANGED <<users, proved>>
  PROVE  AccountTypes'
BY DEF TallyInv, AccountTypes, users

LEMMA CodeNumbers ==
  ASSUME TallyInv, NEW n \in Codes
  PROVE  /\ Cardinality(Clients) \in Nat /\ MaxAttempts \in Nat /\ MaxAttempts >= 1
         /\ passes[n] \in Nat /\ misses[n] \in Nat /\ uncounted[n] \in Nat
         /\ code[n].attempts \in Nat
         /\ Cardinality(Holding("use", n)) \in Nat /\ Cardinality(Holding("miss", n)) \in Nat
<1>1. IsFiniteSet(Clients) /\ MaxAttempts \in Nat /\ MaxAttempts >= 1
  BY SessionsAssumption DEF SessionsAssumption
<1>2. Holding("use", n) \in SUBSET Clients /\ Holding("miss", n) \in SUBSET Clients
  BY DEF Holding
<1>3. CodeTypes
  BY TalliesAre
<1> QED
  BY <1>1, <1>2, <1>3, PartOf DEF CodeTypes

\* A call goes on, and holds no code after that.
LEMMA CodesKept ==
  ASSUME TallyInv, CodeInv, NEW p \in Clients, NEW r \in Calls, Goes(p, r),
         r.op \notin {"use", "miss"}, CodeTypes',
         \A n \in Codes :
           /\ code'[n].status = "none" => code[n].status = "none" /\ misses'[n] = 0
           /\ code'[n].status # "gone" => passes'[n] = 0
           /\ code'[n].status = "valid" => misses'[n] <= code'[n].attempts + uncounted'[n]
           /\ \/ passes'[n] = passes[n]
              \/ passes'[n] = passes[n] + 1 /\ request[p].op = "use" /\ request[p].code = n
           /\ \/ misses'[n] = misses[n] /\ uncounted'[n] >= uncounted[n]
              \/ /\ misses'[n] = misses[n] + 1 /\ uncounted'[n] >= uncounted[n]
                 /\ request[p].op = "miss" /\ request[p].code = n
           /\ \/ code'[n].attempts = 0
              \/ code'[n].attempts = code[n].attempts
              \/ /\ code'[n].attempts = code[n].attempts + 1
                 /\ request[p].op = "miss" /\ request[p].code = n
  PROVE  CodeInv'
<1>1. /\ request'[p] = r
      /\ \A q \in Clients \ {p} : request'[q] = request[q]
  BY CallMoves
<1>2. ASSUME NEW n \in Codes
      PROVE  /\ passes'[n] + Cardinality(Holding("use", n)') <= Cardinality(Clients)
             /\ misses'[n] + Cardinality(Holding("miss", n)')
                  <= MaxAttempts + Cardinality(Clients) - 1 + uncounted'[n]
             /\ code'[n].attempts + Cardinality(Holding("miss", n)')
                  <= MaxAttempts + Cardinality(Clients) - 1
  <2>1. /\ passes'[n] \in Nat /\ misses'[n] \in Nat /\ uncounted'[n] \in Nat
        /\ code'[n].attempts \in Nat
    BY DEF CodeTypes
  <2>2. /\ passes[n] + Cardinality(Holding("use", n)) <= Cardinality(Clients)
        /\ misses[n] + Cardinality(Holding("miss", n))
             <= MaxAttempts + Cardinality(Clients) - 1 + uncounted[n]
        /\ code[n].attempts + Cardinality(Holding("miss", n))
             <= MaxAttempts + Cardinality(Clients) - 1
    BY DEF CodeInv
  <2>3. passes'[n] + Cardinality(Holding("use", n)') <= Cardinality(Clients)
    <3>1. CASE request[p].op = "use" /\ request[p].code = n
      <4>1. Cardinality(Holding("use", n)') = Cardinality(Holding("use", n)) - 1
        BY <3>1, HoldingMoves
      <4> QED
        BY <2>1, <2>2, <4>1, CodeNumbers
    <3>2. CASE ~(request[p].op = "use" /\ request[p].code = n)
      <4>1. Cardinality(Holding("use", n)') = Cardinality(Holding("use", n))
        BY <3>2, HoldingMoves
      <4> QED
        BY <2>2, <3>2, <4>1
    <3> QED
      BY <3>1, <3>2
  <2>4. /\ misses'[n] + Cardinality(Holding("miss", n)')
             <= MaxAttempts + Cardinality(Clients) - 1 + uncounted'[n]
        /\ code'[n].attempts + Cardinality(Holding("miss", n)')
             <= MaxAttempts + Cardinality(Clients) - 1
    <3>1. CASE request[p].op = "miss" /\ request[p].code = n
      <4>1. /\ Cardinality(Holding("miss", n)') = Cardinality(Holding("miss", n)) - 1
            /\ Cardinality(Holding("miss", n)') \in Nat
            /\ Cardinality(Holding("miss", n)') <= Cardinality(Clients)
        BY <3>1, HoldingMoves
      <4> QED
        BY <2>1, <2>2, <4>1, CodeNumbers
    <3>2. CASE ~(request[p].op = "miss" /\ request[p].code = n)
      <4>1. /\ Cardinality(Holding("miss", n)') = Cardinality(Holding("miss", n))
            /\ Cardinality(Holding("miss", n)') <= Cardinality(Clients)
        BY <3>2, HoldingMoves
      <4>2. /\ misses'[n] = misses[n] /\ uncounted'[n] >= uncounted[n]
            /\ code'[n].attempts = 0 \/ code'[n].attempts = code[n].attempts
        BY <3>2
      <4> QED
        BY <2>1, <2>2, <4>1, <4>2, CodeNumbers
    <3> QED
      BY <3>1, <3>2
  <2> QED
    BY <2>3, <2>4
<1>3. \A q \in Clients :
        At(q, "use")' \/ At(q, "miss")' => code'[request'[q].code].status # "none"
  <2> SUFFICES ASSUME NEW q \in Clients, request'[q].op \in {"use", "miss"}
               PROVE  code'[request'[q].code].status # "none"
    BY DEF At
  <2>1. request[q].op \in {"use", "miss"} /\ request'[q] = request[q] /\ request[q] \in Calls
    BY <1>1 DEF TallyInv
  <2>2. request[q].code \in Codes /\ code[request[q].code].status # "none"
    BY <2>1 DEF CodeInv, Calls, At
  <2> QED
    BY <2>1, <2>2
<1> QED
  BY <1>2, <1>3 DEF CodeInv

\* The same, should no code and no tally change.
LEMMA CodesAlone ==
  ASSUME TallyInv, CodeInv, NEW p \in Clients, NEW r \in Calls, Goes(p, r),
         r.op \notin {"use", "miss"}, UNCHANGED <<code, passes, misses, uncounted>>
  PROVE  CodeInv' /\ CodeTypes'
<1>1. CodeTypes'
  BY TalliesAre DEF CodeTypes
<1>2. \A n \in Codes :
        /\ code'[n].status = "none" => code[n].status = "none" /\ misses'[n] = 0
        /\ code'[n].status # "gone" => passes'[n] = 0
        /\ code'[n].status = "valid" => misses'[n] <= code'[n].attempts + uncounted'[n]
        /\ uncounted'[n] >= uncounted[n]
  BY CodeNumbers DEF CodeInv
<1> QED
  BY <1>1, <1>2, CodesKept

\* A call has read a valid code.
LEMMA CodeRead ==
  ASSUME TallyInv, CodeInv, NEW p \in Clients, NEW r \in Calls, Goes(p, r),
         At(p, "idle"), r.op \in {"use", "miss"}, r.code \in Codes,
         code[r.code].status = "valid", code[r.code].attempts < MaxAttempts,
         UNCHANGED <<code, passes, misses, uncounted>>
  PROVE  CodeInv' /\ CodeTypes'
<1>1. /\ request'[p] = r
      /\ \A q \in Clients \ {p} : request'[q] = request[q]
  BY CallMoves
<1>2. ASSUME NEW n \in Codes
      PROVE  /\ passes[n] + Cardinality(Holding("use", n)') <= Cardinality(Clients)
             /\ misses[n] + Cardinality(Holding("miss", n)')
                  <= MaxAttempts + Cardinality(Clients) - 1 + uncounted[n]
             /\ code[n].attempts + Cardinality(Holding("miss", n)')
                  <= MaxAttempts + Cardinality(Clients) - 1
  <2>1. CASE n = r.code
    <3>1. passes[n] = 0 /\ misses[n] <= code[n].attempts + uncounted[n]
      BY <2>1 DEF CodeInv
    <3>2. /\ Cardinality(Holding("use", n)') \in Nat /\ Cardinality(Holding("miss", n)') \in Nat
          /\ Cardinality(Holding("use", n)') <= Cardinality(Clients)
          /\ Cardinality(Holding("miss", n)') <= Cardinality(Clients)
      BY HoldingMoves
    <3>3. code[n].attempts <= MaxAttempts - 1
      BY <2>1, CodeNumbers
    <3> QED
      BY <3>1, <3>2, <3>3, CodeNumbers
  <2>2. CASE n # r.code
    <3>1. /\ Cardinality(Holding("use", n)') = Cardinality(Holding("use", n))
          /\ Cardinality(Holding("miss", n)') = Cardinality(Holding("miss", n))
      BY <2>2, HoldingMoves DEF At
    <3> QED
      BY <3>1 DEF CodeInv
  <2> QED
    BY <2>1, <2>2
<1>3. \A q \in Clients :
        At(q, "use")' \/ At(q, "miss")' => code[request'[q].code].status # "none"
  BY <1>1 DEF CodeInv, At
<1>4. CodeInv'
  BY <1>2, <1>3 DEF CodeInv
<1> QED
  BY <1>4, TalliesAre DEF CodeTypes

LEMMA SessionNumbers ==
  ASSUME TallyInv, NEW s \in SessionIds
  PROVE  /\ Cardinality(Clients) \in Nat
         /\ replaced[s] \in Nat /\ left[s] \in Nat
         /\ Cardinality(Coming("open", s)) \in Nat /\ Cardinality(Coming("drop", s)) \in Nat
         /\ Cardinality(Coming("open", s)) + Cardinality(Coming("drop", s)) <= Cardinality(Clients)
<1>1. IsFiniteSet(Clients)
  BY SessionsAssumption DEF SessionsAssumption
<1>2. Coming("open", s) \in SUBSET Clients /\ Coming("drop", s) \in SUBSET Clients
  BY DEF Coming
<1>3. Coming("open", s) \cap Coming("drop", s) = {}
  BY DEF Coming, At
<1>4. SessionTypes
  BY TalliesAre
<1> QED
  BY <1>1, <1>2, <1>3, <1>4, PartOf, PartsOf DEF SessionTypes

\* A call goes on, and neither replaces a session nor is about to.
LEMMA SessionsKept ==
  ASSUME TallyInv, SessionInv, NEW p \in Clients, NEW r \in Calls, Goes(p, r),
         r.op # "drop", r.op = "open" => r.from = 0, SessionTypes', UNCHANGED replaced,
         \A s \in SessionIds :
           /\ session'[s] = "none" => session[s] = "none"
           /\ session'[s] = "live" => session[s] \in {"none", "live"}
           /\ left'[s] >= left[s]
           /\ request[p].op = "drop" /\ request[p].from = s =>
                session'[s] = "gone" \/ left'[s] = left[s] + 1
  PROVE  SessionInv'
<1>1. /\ request'[p] = r
      /\ \A q \in Clients \ {p} : request'[q] = request[q]
  BY CallMoves
<1>2. ASSUME NEW s \in SessionIds
      PROVE  /\ session'[s] = "none" => replaced[s] = 0
             /\ session'[s] = "live" => replaced[s] <= left'[s] + Cardinality(Coming("drop", s)')
             /\ replaced[s] + Cardinality(Coming("open", s)') <= Cardinality(Clients) + left'[s]
  <2>1. left'[s] \in Nat
    BY DEF SessionTypes
  <2>2. replaced[s] + Cardinality(Coming("open", s)') <= Cardinality(Clients) + left'[s]
    <3>1. Cardinality(Coming("open", s)') \in Nat
          /\ Cardinality(Coming("open", s)') <= Cardinality(Coming("open", s))
      <4>1. ~(r.op = "open" /\ r.from = s)
        BY DEF SessionIds
      <4> QED
        BY <4>1, ComingMoves, SessionNumbers
    <3>2. replaced[s] + Cardinality(Coming("open", s)) <= Cardinality(Clients) + left[s]
      BY DEF SessionInv
    <3> QED
      BY <2>1, <3>1, <3>2, SessionNumbers
  <2>3. ASSUME session'[s] = "live"
        PROVE  replaced[s] <= left'[s] + Cardinality(Coming("drop", s)')
    <3>1. replaced[s] <= left[s] + Cardinality(Coming("drop", s))
      BY <2>3, SessionNumbers DEF SessionInv
    <3>2. CASE request[p].op = "drop" /\ request[p].from = s
      <4>1. /\ Cardinality(Coming("drop", s)') = Cardinality(Coming("drop", s)) - 1
            /\ left'[s] = left[s] + 1
        BY <2>3, <3>2, ComingMoves
      <4> QED
        BY <3>1, <4>1, SessionNumbers
    <3>3. CASE ~(request[p].op = "drop" /\ request[p].from = s)
      <4>1. Cardinality(Coming("drop", s)') = Cardinality(Coming("drop", s))
        BY <3>3, ComingMoves
      <4> QED
        BY <2>1, <3>1, <4>1, SessionNumbers
    <3> QED
      BY <3>2, <3>3
  <2> QED
    BY <2>2, <2>3 DEF SessionInv
<1>3. \A q \in Clients :
        At(q, "drop")' \/ (At(q, "open")' /\ request'[q].from # 0)
          => session'[request'[q].from] # "none"
  <2> SUFFICES ASSUME NEW q \in Clients,
                      request'[q].op = "drop" \/ (request'[q].op = "open" /\ request'[q].from # 0)
               PROVE  session'[request'[q].from] # "none"
    BY DEF At
  <2>1. /\ request[q].op = "drop" \/ (request[q].op = "open" /\ request[q].from # 0)
        /\ request'[q] = request[q] /\ request[q] \in Calls
    BY <1>1 DEF TallyInv
  <2>2. MaxSessions \in Nat
    BY SessionsAssumption DEF SessionsAssumption
  <2>3. request[q].from \in SessionIds
    BY <2>1, <2>2 DEF Calls, SessionIds
  <2> QED
    BY <2>1, <2>3 DEF SessionInv, At
<1> QED
  BY <1>2, <1>3 DEF SessionInv

\* The same, should the sessions stay.
LEMMA SessionsAlone ==
  ASSUME TallyInv, SessionInv, NEW p \in Clients, NEW r \in Calls, Goes(p, r),
         r.op # "drop", r.op = "open" => r.from = 0, ~At(p, "drop"),
         UNCHANGED <<session, replaced, left>>
  PROVE  SessionInv' /\ SessionTypes'
<1>1. SessionTypes'
  BY TalliesAre DEF SessionTypes
<1>2. \A s \in SessionIds :
        /\ session'[s] = "none" => session[s] = "none"
        /\ session'[s] = "live" => session[s] \in {"none", "live"}
        /\ left'[s] >= left[s]
  BY SessionNumbers
<1> QED
  BY <1>1, <1>2, SessionsKept DEF At

LEMMA RefreshTokenKeepsSessions ==
  ASSUME TallyInv, SessionInv, NEW p \in Clients, NEW s \in SessionIds, RefreshToken(p, s)
  PROVE  SessionInv' /\ SessionTypes'
<1> PICK r : r = [op |-> "open", from |-> s]
  OBVIOUS
<1>1. r \in Calls /\ r.op = "open" /\ r.from = s /\ Goes(p, r)
  BY SessionsAssumption DEF SessionsAssumption, RefreshToken, Calls, SessionIds
<1>2. /\ request'[p] = r
      /\ \A q \in Clients \ {p} : request'[q] = request[q]
  BY <1>1, CallMoves
<1>3. UNCHANGED <<session, replaced, left>> /\ At(p, "idle") /\ session[s] = "live"
  BY DEF RefreshToken, history
<1>4. ASSUME NEW t \in SessionIds
      PROVE  /\ session[t] = "live" => replaced[t] <= left[t] + Cardinality(Coming("drop", t)')
             /\ replaced[t] + Cardinality(Coming("open", t)') <= Cardinality(Clients) + left[t]
  <2>1. Cardinality(Coming("drop", t)') = Cardinality(Coming("drop", t))
    BY <1>1, <1>3, ComingMoves DEF At
  <2>2. replaced[t] + Cardinality(Coming("open", t)') <= Cardinality(Clients) + left[t]
    <3>1. CASE t = s
      <4>1. replaced[t] <= left[t] + Cardinality(Coming("drop", t))
        BY <1>3, <3>1 DEF SessionInv
      <4>2. Cardinality(Coming("open", t)') + Cardinality(Coming("drop", t)) <= Cardinality(Clients)
        <5>1. Coming("open", t)' \in SUBSET Clients /\ Coming("drop", t)' \in SUBSET Clients
          BY DEF Coming
        <5>2. Coming("open", t)' \cap Coming("drop", t)' = {}
          BY DEF Coming, At
        <5>3. IsFiniteSet(Clients)
          BY SessionsAssumption DEF SessionsAssumption
        <5> QED
          BY <2>1, <5>1, <5>2, <5>3, PartsOf
      <4>3. Cardinality(Coming("open", t)') \in Nat
        BY <1>1, ComingMoves
      <4> QED
        BY <4>1, <4>2, <4>3, SessionNumbers
    <3>2. CASE t # s
      <4>1. Cardinality(Coming("open", t)') = Cardinality(Coming("open", t))
        BY <1>1, <1>3, <3>2, ComingMoves DEF At
      <4> QED
        BY <4>1 DEF SessionInv
    <3> QED
      BY <3>1, <3>2
  <2> QED
    BY <2>1, <2>2 DEF SessionInv
<1>5. \A q \in Clients :
        At(q, "drop")' \/ (At(q, "open")' /\ request'[q].from # 0)
          => session[request'[q].from] # "none"
  BY <1>1, <1>2, <1>3 DEF SessionInv, At
<1>6. SessionInv'
  BY <1>3, <1>4, <1>5 DEF SessionInv
<1> QED
  BY <1>3, <1>6, TalliesAre DEF SessionTypes

\* A session is made from the one of the token, which is about to go.
LEMMA ReplaceSession ==
  ASSUME TallyInv, SessionInv, NEW p \in Clients, NEW s \in SessionIds,
         At(p, "open"), request[p].from = s, CreateSession(p)
  PROVE  SessionInv' /\ SessionTypes'
<1> PICK r : r = [op |-> "drop", from |-> s]
  OBVIOUS
<1>1. s # 0
  BY DEF SessionIds
<1>2. /\ r \in Calls /\ r.op = "drop" /\ r.from = s /\ Goes(p, r)
      /\ replaced' = [replaced EXCEPT ![s] = @ + 1] /\ UNCHANGED left
  BY <1>1 DEF CreateSession, Calls
<1>3. /\ request'[p] = r
      /\ \A q \in Clients \ {p} : request'[q] = request[q]
  BY <1>2, CallMoves
<1>4. PICK t \in SessionIds : session[t] = "none" /\ session' = [session EXCEPT ![t] = "live"]
  BY DEF CreateSession, NextSession
<1>5. session[s] # "none"
  BY <1>1 DEF SessionInv
<1>6. SessionTypes'
  BY <1>2, <1>4, TalliesAre DEF SessionTypes
<1>7. \A u \in SessionIds :
        /\ session'[u] = IF u = t THEN "live" ELSE session[u]
        /\ replaced'[u] = replaced[u] + (IF u = s THEN 1 ELSE 0)
  BY <1>2, <1>4, TalliesAre DEF SessionTypes
<1>8. ASSUME NEW u \in SessionIds
      PROVE  /\ session'[u] = "none" => replaced'[u] = 0
             /\ session'[u] = "live" => replaced'[u] <= left[u] + Cardinality(Coming("drop", u)')
             /\ replaced'[u] + Cardinality(Coming("open", u)') <= Cardinality(Clients) + left[u]
  <2>1. CASE u = s
    <3>1. /\ Cardinality(Coming("drop", u)') = Cardinality(Coming("drop", u)) + 1
          /\ Cardinality(Coming("open", u)') = Cardinality(Coming("open", u)) - 1
      BY <1>2, <2>1, ComingMoves DEF At
    <3>2. session'[u] = session[u] /\ session[u] # "none" /\ replaced'[u] = replaced[u] + 1
      BY <1>4, <1>5, <1>7, <2>1
    <3>3. /\ session[u] = "live" => replaced[u] <= left[u] + Cardinality(Coming("drop", u))
          /\ replaced[u] + Cardinality(Coming("open", u)) <= Cardinality(Clients) + left[u]
      BY DEF SessionInv
    <3> QED
      BY <3>1, <3>2, <3>3, SessionNumbers
  <2>2. CASE u # s
    <3>1. /\ Cardinality(Coming("drop", u)') = Cardinality(Coming("drop", u))
          /\ Cardinality(Coming("open", u)') = Cardinality(Coming("open", u))
      BY <1>2, <2>2, ComingMoves DEF At
    <3>2. replaced'[u] = replaced[u] /\ (session[u] = "none" => replaced[u] = 0)
      BY <1>7, <2>2, SessionNumbers DEF SessionInv
    <3>3. session'[u] = "live" => session[u] = "live" \/ session[u] = "none"
      BY <1>4, <1>7
    <3> QED
      BY <1>7, <3>1, <3>2, <3>3, SessionNumbers DEF SessionInv
  <2> QED
    BY <2>1, <2>2
<1>9. \A q \in Clients :
        At(q, "drop")' \/ (At(q, "open")' /\ request'[q].from # 0)
          => session'[request'[q].from] # "none"
  <2> SUFFICES ASSUME NEW q \in Clients,
                      request'[q].op = "drop" \/ (request'[q].op = "open" /\ request'[q].from # 0)
               PROVE  session'[request'[q].from] # "none"
    BY DEF At
  <2>1. session' = [session EXCEPT ![t] = "live"] /\ session \in [SessionIds -> {"none", "live", "gone"}]
    BY <1>4, TalliesAre DEF SessionTypes
  <2>2. CASE q = p
    BY <1>2, <1>3, <1>5, <2>1, <2>2
  <2>3. CASE q # p
    <3>1. request'[q] = request[q] /\ session[request[q].from] # "none"
      BY <1>3, <2>3 DEF SessionInv, At
    <3> QED
      BY <2>1, <3>1
  <2> QED
    BY <2>2, <2>3
<1>10. SessionInv'
  BY <1>2, <1>8, <1>9 DEF SessionInv
<1> QED
  BY <1>6, <1>10

\* A call goes on, activates the account next only with its password, and
\* leaves the account and its password.
LEMMA PasswordKept ==
  ASSUME TallyInv, PasswordInv, NEW p \in Clients, NEW r \in Calls, Goes(p, r),
         UNCHANGED <<users, proved, renewed>>,
         r.op = "activate" /\ account = "UNVERIFIED" => r.password = password,
         account = "none" => r.op \in {"idle", "create"} /\ UNCHANGED <<code, session>>
  PROVE  PasswordInv'
<1>1. /\ request'[p] = r
      /\ \A q \in Clients \ {p} : request'[q] = request[q]
  BY CallMoves
<1>2. UNCHANGED <<account, password, proved, renewed>>
  BY DEF users
<1>3. ActiveKeepsPassword'
  BY <1>2 DEF PasswordInv, ActiveKeepsPassword
<1>4. \A q \in Clients :
        Checked(q)' /\ account' = "UNVERIFIED" => request'[q].password = password' \/ renewed'
  BY <1>1, <1>2 DEF PasswordInv, Checked, At
<1>5. ASSUME account' = "none"
      PROVE  /\ \A n \in Codes : code'[n].status = "none"
             /\ \A s \in SessionIds : session'[s] = "none"
             /\ \A q \in Clients : At(q, "idle")' \/ At(q, "create")'
  <2>1. account = "none" /\ code' = code /\ session' = session
    BY <1>2, <1>5
  <2>2. \A q \in Clients : request'[q].op = "idle" \/ request'[q].op = "create"
    BY <1>1, <2>1 DEF PasswordInv, At
  <2> QED
    BY <2>1, <2>2 DEF PasswordInv, At
<1> QED
  BY <1>3, <1>4, <1>5 DEF PasswordInv

LEMMA SomeoneThere ==
  ASSUME PasswordInv, NEW p \in Clients, request[p].op \notin {"idle", "create"}
  PROVE  account # "none"
BY DEF PasswordInv, At

\* What is known in a step.
LEMMA SessionsAre ==
  ASSUME SessionsInv
  PROVE  /\ TallyInv /\ CodeInv /\ SessionInv /\ PasswordInv
         /\ request \in [Clients -> Calls]
BY DEF SessionsInv, TallyInv

\* A call goes on without a trace.
LEMMA QuietKeeps ==
  ASSUME SessionsInv, NEW p \in Clients, NEW r \in Calls, Goes(p, r),
         UNCHANGED <<users, code, session, history>>,
         r.op \notin {"use", "miss", "drop"}, r.op = "open" => r.from = 0, ~At(p, "drop"),
         r.op = "activate" /\ account = "UNVERIFIED" => r.password = password,
         account = "none" => r.op \in {"idle", "create"}
  PROVE  SessionsInv'
<1>1. CodeInv' /\ CodeTypes'
  BY SessionsAre, CodesAlone DEF history
<1>2. SessionInv' /\ SessionTypes'
  BY SessionsAre, SessionsAlone DEF history
<1>3. PasswordInv'
  BY SessionsAre, PasswordKept DEF history
<1>4. TallyInv'
  BY <1>1, <1>2, SessionsAre, CallMoves, AccountStays, TalliesStay DEF history
<1> QED
  BY <1>1, <1>2, <1>3, <1>4 DEF SessionsInv

LEMMA Idling == Still \in Calls /\ Still.op = "idle"
BY DEF Still, Calls

LEMMA AskKeepsAll ==
  ASSUME SessionsInv, NEW p \in Clients,
         AskRegister(p) \/ LoginWithEmail(p) \/ AskChangePassword(p) \/ LogoutAll(p)
  PROVE  SessionsInv'
<1>1. PICK r \in Calls :
        /\ Goes(p, r) /\ r.op \notin {"use", "miss", "drop", "activate"}
        /\ r.op = "open" => r.from = 0
        /\ account = "none" => r.op \in {"idle", "create"}
  <2>1. CASE AskRegister(p)
    <3>1. PICK pw \in Passwords :
            Goes(p, [op |-> IF account = "none" THEN "create" ELSE "reclaim", password |-> pw])
      BY <2>1 DEF AskRegister
    <3>2. [op |-> IF account = "none" THEN "create" ELSE "reclaim", password |-> pw] \in Calls
      BY DEF Calls
    <3> QED
      BY <3>1, <3>2
  <2>2. CASE LoginWithEmail(p)
    <3>1. [op |-> "open", from |-> 0] \in Calls
      BY SessionsAssumption DEF SessionsAssumption, Calls
    <3> QED
      BY <2>2, <3>1 DEF LoginWithEmail
  <2>3. CASE AskChangePassword(p)
    <3>1. PICK pw \in Passwords : Goes(p, [op |-> "set", password |-> pw])
      BY <2>3 DEF AskChangePassword
    <3>2. [op |-> "set", password |-> pw] \in Calls
      BY DEF Calls
    <3> QED
      BY <2>3, <3>1, <3>2 DEF AskChangePassword
  <2>4. CASE LogoutAll(p)
    <3>1. [op |-> "all"] \in Calls
      BY DEF Calls
    <3> QED
      BY <2>4, <3>1 DEF LogoutAll
  <2> QED
    BY <2>1, <2>2, <2>3, <2>4
<1>2. UNCHANGED <<users, code, session, history>> /\ At(p, "idle")
  BY DEF AskRegister, LoginWithEmail, AskChangePassword, LogoutAll
<1> QED
  BY <1>1, <1>2, QuietKeeps DEF At

LEMMA CheckUserKeeps ==
  ASSUME SessionsInv, NEW p \in Clients, CheckUser(p)
  PROVE  SessionsInv'
<1>1. [op |-> "open", from |-> 0] \in Calls
  BY SessionsAssumption DEF SessionsAssumption, Calls
<1>2. /\ UNCHANGED <<users, code, session, history>> /\ At(p, "user")
      /\ Goes(p, Still) \/ Goes(p, [op |-> "open", from |-> 0])
  BY DEF CheckUser, Ends
<1>3. account # "none"
  BY <1>2, SessionsAre, SomeoneThere DEF At
<1> QED
  BY <1>1, <1>2, <1>3, Idling, QuietKeeps DEF At

LEMMA AskCodeKeeps ==
  ASSUME SessionsInv, NEW p \in Clients, NEW purpose, NEW then \in {"check", "user", "set"},
         AskCode(p, purpose, then)
  PROVE  SessionsInv'
<1>1. PICK n \in Codes, op \in {"use", "miss"}, pw \in Passwords \cup {"none"} :
        /\ code[n].status = "valid" /\ code[n].attempts < MaxAttempts
        /\ Goes(p, [op |-> op, code |-> n, then |-> then, password |-> pw])
  BY DEF AskCode, GetValidOTP
<1> PICK r : r = [op |-> op, code |-> n, then |-> then, password |-> pw]
  OBVIOUS
<1>2. r \in Calls /\ r.op \in {"use", "miss"} /\ r.op = op /\ r.code = n /\ Goes(p, r)
  BY <1>1 DEF Calls
<1>3. UNCHANGED <<users, code, session, history>> /\ At(p, "idle")
  BY DEF AskCode
<1>4. UNCHANGED <<passes, misses, uncounted, replaced, left, proved, renewed>>
  BY <1>3 DEF history
<1>5. CodeInv' /\ CodeTypes'
  BY <1>1, <1>2, <1>3, <1>4, SessionsAre, CodeRead
<1>6. SessionInv' /\ SessionTypes'
  BY <1>2, <1>3, <1>4, SessionsAre, SessionsAlone DEF At
<1>7. account # "none"
  BY <1>1, SessionsAre DEF PasswordInv
<1>8. PasswordInv'
  BY <1>2, <1>3, <1>4, <1>7, SessionsAre, PasswordKept
<1>9. TallyInv'
  BY <1>2, <1>3, <1>4, <1>5, <1>6, SessionsAre, CallMoves, AccountStays, TalliesStay
<1> QED
  BY <1>5, <1>6, <1>8, <1>9 DEF SessionsInv

LEMMA RefreshTokenKeeps ==
  ASSUME SessionsInv, NEW p \in Clients, NEW s \in SessionIds, RefreshToken(p, s)
  PROVE  SessionsInv'
<1> PICK r : r = [op |-> "open", from |-> s]
  OBVIOUS
<1>1. r \in Calls /\ r.op = "open" /\ Goes(p, r)
  BY SessionsAssumption DEF SessionsAssumption, RefreshToken, Calls, SessionIds
<1>2. /\ UNCHANGED <<users, code, session, history>> /\ session[s] = "live"
      /\ UNCHANGED <<passes, misses, uncounted, replaced, left, proved, renewed>>
  BY DEF RefreshToken, history
<1>3. CodeInv' /\ CodeTypes'
  BY <1>1, <1>2, SessionsAre, CodesAlone
<1>4. SessionInv' /\ SessionTypes'
  BY SessionsAre, RefreshTokenKeepsSessions
<1>5. account # "none"
  BY <1>2, SessionsAre DEF PasswordInv
<1>6. PasswordInv'
  BY <1>1, <1>2, <1>5, SessionsAre, PasswordKept
<1>7. TallyInv'
  BY <1>1, <1>2, <1>3, <1>4, SessionsAre, CallMoves, AccountStays, TalliesStay
<1> QED
  BY <1>3, <1>4, <1>6, <1>7 DEF SessionsInv

-----------------------------------------------------------------------------
(* The statements of a call.                                               *)

LEMMA CountMissKeeps ==
  ASSUME SessionsInv, NEW p \in Clients, CountMiss(p)
  PROVE  SessionsInv'
<1> PICK n : n = request[p].code
  OBVIOUS
<1>1. /\ request[p].op = "miss" /\ n \in Codes /\ Goes(p, Still)
      /\ misses' = [misses EXCEPT ![n] = @ + 1]
      /\ UNCHANGED <<users, session, passes, uncounted, replaced, left, proved, renewed>>
  BY SessionsAre DEF CountMiss, At, Ends, Calls
<1>2. \/ code' = [code EXCEPT ![n].attempts = @ + 1]
      \/ code' = [code EXCEPT ![n].status = "gone"]
  BY DEF CountMiss
<1>3. CodeTypes /\ code[n].status # "none"
  BY <1>1, SessionsAre, TalliesAre DEF CodeInv, At
<1>4. /\ code' \in [Codes -> [purpose : Purposes \cup {"none"}, status : {"none", "valid", "gone"},
                              attempts : Nat]]
      /\ \A m \in Codes \ {n} : code'[m] = code[m]
      /\ \/ code'[n].status = code[n].status /\ code'[n].attempts = code[n].attempts + 1
         \/ code'[n].status = "gone" /\ code'[n].attempts = code[n].attempts
  <2>0. /\ code \in [Codes -> [purpose : Purposes \cup {"none"}, status : {"none", "valid", "gone"},
                               attempts : Nat]]
        /\ code[n] \in [purpose : Purposes \cup {"none"}, status : {"none", "valid", "gone"},
                        attempts : Nat]
    BY <1>1, <1>3 DEF CodeTypes
  <2>1. CASE code' = [code EXCEPT ![n].attempts = @ + 1]
    <3> PICK row : row = [code[n] EXCEPT !.attempts = @ + 1]
      OBVIOUS
    <3>1. /\ row \in [purpose : Purposes \cup {"none"}, status : {"none", "valid", "gone"},
                      attempts : Nat]
          /\ row.status = code[n].status /\ row.attempts = code[n].attempts + 1
      BY <2>0
    <3>2. code' = [code EXCEPT ![n] = row]
      BY <2>1
    <3> QED
      BY <1>1, <2>0, <3>1, <3>2
  <2>2. CASE code' = [code EXCEPT ![n].status = "gone"]
    <3> PICK row : row = [code[n] EXCEPT !.status = "gone"]
      OBVIOUS
    <3>1. /\ row \in [purpose : Purposes \cup {"none"}, status : {"none", "valid", "gone"},
                      attempts : Nat]
          /\ row.status = "gone" /\ row.attempts = code[n].attempts
      BY <2>0
    <3>2. code' = [code EXCEPT ![n] = row]
      BY <2>2
    <3> QED
      BY <1>1, <2>0, <3>1, <3>2
  <2> QED
    BY <1>2, <2>1, <2>2
<1>5. misses' \in [Codes -> Nat] /\ \A m \in Codes : misses'[m] = misses[m] + (IF m = n THEN 1 ELSE 0)
  BY <1>1, <1>3 DEF CodeTypes
<1>6. CodeTypes'
  BY <1>1, <1>3, <1>4, <1>5 DEF CodeTypes
<1>7. ASSUME NEW m \in Codes
      PROVE  /\ code'[m].status = "none" => code[m].status = "none" /\ misses'[m] = 0
             /\ code'[m].status # "gone" => passes'[m] = 0
             /\ code'[m].status = "valid" => misses'[m] <= code'[m].attempts + uncounted'[m]
             /\ uncounted'[m] >= uncounted[m]
             /\ m # n => misses'[m] = misses[m] /\ code'[m].attempts = code[m].attempts
             /\ m = n => misses'[m] = misses[m] + 1
  <2>1. CASE m = n
    BY <1>1, <1>3, <1>4, <1>5, <2>1, SessionsAre, CodeNumbers DEF CodeInv
  <2>2. CASE m # n
    BY <1>1, <1>4, <1>5, <2>2, SessionsAre, CodeNumbers DEF CodeInv
  <2> QED
    BY <2>1, <2>2
<1>8. CodeInv'
  BY <1>1, <1>4, <1>6, <1>7, SessionsAre, Idling, CodesKept
<1>9. SessionInv' /\ SessionTypes'
  BY <1>1, SessionsAre, Idling, SessionsAlone DEF At
<1>10. account # "none"
  BY <1>1, SessionsAre, SomeoneThere
<1>11. PasswordInv'
  BY <1>1, <1>10, SessionsAre, Idling, PasswordKept
<1>12. TallyInv'
  BY <1>1, <1>6, <1>9, SessionsAre, Idling, CallMoves, AccountStays, TalliesStay
<1> QED
  BY <1>8, <1>9, <1>11, <1>12 DEF SessionsInv

LEMMA UseCodeKeeps ==
  ASSUME SessionsInv, NEW p \in Clients, UseCode(p)
  PROVE  SessionsInv'
<1> PICK n, r : n = request[p].code /\ r = [request[p] EXCEPT !.op = request[p].then]
  OBVIOUS
<1>1. /\ request[p].op = "use"
      /\ request[p] \in [op : {"use"}, code : Codes, then : {"check", "user", "set"},
                         password : Passwords \cup {"none"}]
  BY SessionsAre DEF UseCode, At, Calls
<1>2. /\ n \in Codes /\ r.op \in {"check", "user", "set"} /\ Goes(p, r)
      /\ r \in [op : {"check", "user", "set"}, code : Codes, then : {"check", "user", "set"},
                password : Passwords \cup {"none"}]
  BY <1>1 DEF UseCode
<1>3. r \in Calls
  BY <1>2 DEF Calls
<1>4. /\ code' = [code EXCEPT ![n].status = "gone"] /\ passes' = [passes EXCEPT ![n] = @ + 1]
      /\ UNCHANGED <<users, session, misses, uncounted, replaced, left, proved, renewed>>
  BY DEF UseCode
<1>5. CodeTypes
  BY SessionsAre, TalliesAre
<1>6. /\ code' \in [Codes -> [purpose : Purposes \cup {"none"}, status : {"none", "valid", "gone"},
                              attempts : Nat]]
      /\ \A m \in Codes \ {n} : code'[m] = code[m]
      /\ code'[n].status = "gone" /\ code'[n].attempts = code[n].attempts
  <2> PICK k : k = [code[n] EXCEPT !.status = "gone"]
    OBVIOUS
  <2>1. code[n] \in [purpose : Purposes \cup {"none"}, status : {"none", "valid", "gone"},
                      attempts : Nat]
    BY <1>2, <1>5 DEF CodeTypes
  <2>2. /\ k \in [purpose : Purposes \cup {"none"}, status : {"none", "valid", "gone"},
                   attempts : Nat]
        /\ k.status = "gone" /\ k.attempts = code[n].attempts
    BY <2>1
  <2>3. code' = [code EXCEPT ![n] = k]
    BY <1>4
  <2>4. code'[n] = k /\ \A m \in Codes \ {n} : code'[m] = code[m]
    BY <1>2, <1>5, <2>3 DEF CodeTypes
  <2>5. code' \in [Codes -> [purpose : Purposes \cup {"none"}, status : {"none", "valid", "gone"},
                             attempts : Nat]]
    BY <1>2, <1>5, <2>2, <2>3 DEF CodeTypes
  <2> QED
    BY <2>2, <2>4, <2>5
<1>7. passes' \in [Codes -> Nat] /\ \A m \in Codes : passes'[m] = passes[m] + (IF m = n THEN 1 ELSE 0)
  BY <1>2, <1>4, <1>5 DEF CodeTypes
<1>8. CodeTypes'
  BY <1>4, <1>5, <1>6, <1>7 DEF CodeTypes
<1>9. ASSUME NEW m \in Codes
      PROVE  /\ code'[m].status = "none" => code[m].status = "none" /\ misses'[m] = 0
             /\ code'[m].status # "gone" => passes'[m] = 0
             /\ code'[m].status = "valid" => misses'[m] <= code'[m].attempts + uncounted'[m]
             /\ uncounted'[m] >= uncounted[m]
             /\ code'[m].attempts = code[m].attempts
             /\ m # n => passes'[m] = passes[m]
             /\ m = n => passes'[m] = passes[m] + 1
  <2>1. CASE m = n
    BY <1>4, <1>6, <1>7, <2>1, SessionsAre, CodeNumbers DEF CodeInv
  <2>2. CASE m # n
    BY <1>4, <1>6, <1>7, <2>2, SessionsAre, CodeNumbers DEF CodeInv
  <2> QED
    BY <2>1, <2>2
<1>10. CodeInv'
  BY <1>1, <1>2, <1>3, <1>4, <1>8, <1>9, SessionsAre, CodesKept
<1>11. SessionInv' /\ SessionTypes'
  BY <1>1, <1>2, <1>3, <1>4, SessionsAre, SessionsAlone DEF At
<1>12. account # "none"
  BY <1>1, SessionsAre, SomeoneThere
<1>13. PasswordInv'
  BY <1>2, <1>3, <1>4, <1>12, SessionsAre, PasswordKept
<1>14. TallyInv'
  BY <1>2, <1>3, <1>4, <1>8, <1>11, SessionsAre, CallMoves, AccountStays, TalliesStay
<1> QED
  BY <1>10, <1>11, <1>13, <1>14 DEF SessionsInv

\* A code is issued.
LEMMA CodeIssued ==
  ASSUME TallyInv, CodeInv, NEW purpose \in Purposes, StoreOTP(purpose),
         UNCHANGED <<passes, misses, uncounted>>
  PROVE  /\ CodeTypes'
         /\ \A n \in Codes :
              /\ code'[n].status = "none" => code[n].status = "none" /\ misses'[n] = 0
              /\ code'[n].status # "gone" => passes'[n] = 0
              /\ code'[n].status = "valid" => misses'[n] <= code'[n].attempts + uncounted'[n]
              /\ code'[n].attempts = 0 \/ code'[n].attempts = code[n].attempts
<1>1. PICK n \in Codes :
        /\ code[n].status = "none"
        /\ code' = [code EXCEPT ![n] = [purpose |-> purpose, status |-> "valid", attempts |-> 0]]
  BY DEF StoreOTP, NextCode
<1>2. CodeTypes
  BY TalliesAre
<1>3. code' \in [Codes -> [purpose : Purposes \cup {"none"}, status : {"none", "valid", "gone"},
                           attempts : Nat]]
  BY <1>1, <1>2 DEF CodeTypes
<1>4. /\ \A m \in Codes \ {n} : code'[m] = code[m]
      /\ code'[n].status = "valid" /\ code'[n].attempts = 0
  BY <1>1, <1>2 DEF CodeTypes
<1>5. passes[n] = 0 /\ misses[n] = 0
  BY <1>1 DEF CodeInv
<1>6. CodeTypes'
  BY <1>2, <1>3 DEF CodeTypes
<1>7. ASSUME NEW m \in Codes
      PROVE  /\ code'[m].status = "none" => code[m].status = "none" /\ misses'[m] = 0
             /\ code'[m].status # "gone" => passes'[m] = 0
             /\ code'[m].status = "valid" => misses'[m] <= code'[m].attempts + uncounted'[m]
             /\ code'[m].attempts = 0 \/ code'[m].attempts = code[m].attempts
  <2>1. CASE m = n
    BY <1>4, <1>5, <2>1, CodeNumbers
  <2>2. CASE m # n
    BY <1>4, <2>2 DEF CodeInv
  <2> QED
    BY <2>1, <2>2
<1> QED
  BY <1>6, <1>7

LEMMA SendCodeKeeps ==
  ASSUME SessionsInv, NEW p \in Clients, SendCode(p)
  PROVE  SessionsInv'
<1>1. /\ request[p].op = "send" /\ Goes(p, Still) /\ StoreOTP("verify")
      /\ UNCHANGED <<users, session, passes, misses, uncounted, replaced, left, proved, renewed>>
  BY DEF SendCode, At, Ends, history
<1>2. "verify" \in Purposes
  BY DEF Purposes
<1>3. /\ CodeTypes'
      /\ \A n \in Codes :
           /\ code'[n].status = "none" => code[n].status = "none" /\ misses'[n] = 0
           /\ code'[n].status # "gone" => passes'[n] = 0
           /\ code'[n].status = "valid" => misses'[n] <= code'[n].attempts + uncounted'[n]
           /\ code'[n].attempts = 0 \/ code'[n].attempts = code[n].attempts
           /\ uncounted'[n] >= uncounted[n]
  BY <1>1, <1>2, SessionsAre, CodeIssued, CodeNumbers
<1>4. CodeInv'
  BY <1>1, <1>3, SessionsAre, Idling, CodesKept
<1>5. SessionInv' /\ SessionTypes'
  BY <1>1, SessionsAre, Idling, SessionsAlone DEF At
<1>6. account # "none"
  BY <1>1, SessionsAre, SomeoneThere
<1>7. PasswordInv'
  BY <1>1, <1>6, SessionsAre, Idling, PasswordKept
<1>8. TallyInv'
  BY <1>1, <1>3, <1>5, SessionsAre, Idling, CallMoves, AccountStays, TalliesStay
<1> QED
  BY <1>4, <1>5, <1>7, <1>8 DEF SessionsInv

\* The account or its password changes.
LEMMA AccountMoves ==
  ASSUME SessionsInv, NEW p \in Clients, NEW r \in Calls, Goes(p, r),
         r.op \in {"idle", "send", "all"}, ~At(p, "drop"),
         UNCHANGED <<code, session, passes, misses, uncounted, replaced, left>>,
         AccountTypes', account' # "none",
         account' = "ACTIVE" => password' = proved' \/ renewed',
         \A q \in Clients \ {p} :
           request[q].op = "activate" /\ account' = "UNVERIFIED" =>
             request[q].password = password' \/ renewed'
  PROVE  SessionsInv'
<1>1. /\ request' \in [Clients -> Calls] /\ request'[p] = r
      /\ \A q \in Clients \ {p} : request'[q] = request[q]
  BY SessionsAre, CallMoves
<1>2. CodeInv' /\ CodeTypes'
  BY SessionsAre, CodesAlone
<1>3. SessionInv' /\ SessionTypes'
  BY SessionsAre, SessionsAlone
<1>4. PasswordInv'
  BY <1>1 DEF PasswordInv, ActiveKeepsPassword, Checked, At
<1>5. TallyInv'
  BY <1>1, <1>2, <1>3, TalliesStay
<1> QED
  BY <1>2, <1>3, <1>4, <1>5 DEF SessionsInv

LEMMA Sending == [op |-> "send"] \in Calls /\ [op |-> "all"] \in Calls
BY DEF Calls

LEMMA CreateUserKeeps ==
  ASSUME SessionsInv, NEW p \in Clients, CreateUser(p)
  PROVE  SessionsInv'
<1>1. /\ request[p].op = "create" /\ UNCHANGED <<code, session, history>>
      /\ UNCHANGED <<passes, misses, uncounted, replaced, left, proved, renewed>>
  BY DEF CreateUser, At, history
<1>2. CASE account = "none"
  <2>1. /\ Goes(p, [op |-> "send"]) /\ account' = "UNVERIFIED" /\ password' = request[p].password
    BY <1>2 DEF CreateUser
  <2>2. request[p].password \in Passwords \cup {"none"}
    BY <1>1, SessionsAre DEF Calls
  <2>3. AccountTypes'
    BY <1>1, <2>1, <2>2, SessionsAre, TalliesAre DEF AccountTypes
  <2>4. \A q \in Clients : request[q].op # "activate"
    BY <1>2, SessionsAre DEF PasswordInv, At
  <2> QED
    BY <1>1, <2>1, <2>3, <2>4, Sending, AccountMoves DEF At
<1>3. CASE account # "none"
  <2>1. Goes(p, Still) /\ UNCHANGED users
    BY <1>3 DEF CreateUser, Ends
  <2> QED
    BY <1>1, <2>1, Idling, QuietKeeps DEF At
<1> QED
  BY <1>2, <1>3

LEMMA ReclaimKeeps ==
  ASSUME SessionsInv, NEW p \in Clients, ReclaimUnverifiedUser(p)
  PROVE  SessionsInv'
<1>1. /\ request[p].op = "reclaim"
      /\ UNCHANGED <<account, code, session, passes, misses, uncounted, replaced, left, proved>>
  BY DEF ReclaimUnverifiedUser, At
<1>2. CASE account = "UNVERIFIED"
  <2>1. /\ Goes(p, [op |-> "send"]) /\ password' = request[p].password
        /\ renewed' = (renewed \/ \E q \in Clients : Checked(q))
    BY <1>2 DEF ReclaimUnverifiedUser
  <2>2. request[p].password \in Passwords \cup {"none"}
    BY <1>1, SessionsAre DEF Calls
  <2>3. AccountTypes'
    BY <1>1, <2>1, <2>2, SessionsAre, TalliesAre DEF AccountTypes
  <2>4. \A q \in Clients : request[q].op = "activate" => renewed'
    BY <2>1 DEF Checked, At
  <2> QED
    BY <1>1, <1>2, <2>1, <2>3, <2>4, Sending, AccountMoves DEF At
<1>3. CASE account # "UNVERIFIED"
  <2>1. Goes(p, Still) /\ UNCHANGED <<users, history>>
    BY <1>1, <1>3 DEF ReclaimUnverifiedUser, Ends, users, history
  <2> QED
    BY <1>1, <2>1, Idling, QuietKeeps DEF At
<1> QED
  BY <1>2, <1>3

LEMMA CheckPasswordKeeps ==
  ASSUME SessionsInv, NEW p \in Clients, CheckPassword(p)
  PROVE  SessionsInv'
<1> PICK r : r = [op |-> "activate", password |-> request[p].password]
  OBVIOUS
<1>1. /\ request[p].op = "check" /\ UNCHANGED <<users, code, session, history>>
      /\ \/ Goes(p, Still)
         \/ Goes(p, r) /\ (account = "UNVERIFIED" => request[p].password = password)
  BY DEF CheckPassword, Ends, At
<1>2. account # "none"
  BY <1>1, SessionsAre, SomeoneThere
<1>3. r \in Calls /\ r.op = "activate" /\ r.password = request[p].password
  BY <1>1, SessionsAre DEF Calls
<1> QED
  BY <1>1, <1>2, <1>3, Idling, QuietKeeps DEF At

LEMMA ActivateKeeps ==
  ASSUME SessionsInv, NEW p \in Clients, Activate(p)
  PROVE  SessionsInv'
<1>1. /\ request[p].op = "activate" /\ Goes(p, Still) /\ account' = "ACTIVE"
      /\ proved' = IF account = "UNVERIFIED" THEN request[p].password ELSE proved
      /\ UNCHANGED <<password, code, session, passes, misses, uncounted, replaced, left, renewed>>
  BY DEF Activate, Ends, At
<1>2. request[p].password \in Passwords \cup {"none"} /\ account # "none"
  BY <1>1, SessionsAre, SomeoneThere DEF Calls
<1>3. AccountTypes'
  BY <1>1, <1>2, SessionsAre, TalliesAre DEF AccountTypes
<1>4. password' = proved' \/ renewed'
  BY <1>1, <1>2, SessionsAre, TalliesAre
     DEF PasswordInv, ActiveKeepsPassword, Checked, At, AccountTypes
<1> QED
  BY <1>1, <1>3, <1>4, Idling, AccountMoves DEF At

LEMMA SetPasswordKeeps ==
  ASSUME SessionsInv, NEW p \in Clients, SetPassword(p)
  PROVE  SessionsInv'
<1>1. /\ request[p].op = "set" /\ Goes(p, [op |-> "all"])
      /\ password' = request[p].password /\ renewed'
      /\ UNCHANGED <<account, code, session, passes, misses, uncounted, replaced, left, proved>>
  BY DEF SetPassword, At
<1>2. request[p].password \in Passwords \cup {"none"} /\ account # "none"
  BY <1>1, SessionsAre, SomeoneThere DEF Calls
<1>3. AccountTypes'
  BY <1>1, <1>2, SessionsAre, TalliesAre DEF AccountTypes
<1> QED
  BY <1>1, <1>2, <1>3, Sending, AccountMoves DEF At

\* Sessions come or go, and no code does.
LEMMA SessionsMove ==
  ASSUME SessionsInv, NEW p \in Clients, NEW r \in Calls, Goes(p, r),
         request[p].op \notin {"idle", "create"}, r.op \in {"idle", "drop"},
         UNCHANGED <<users, code, passes, misses, uncounted, proved, renewed>>,
         SessionInv', SessionTypes'
  PROVE  SessionsInv'
<1>1. CodeInv' /\ CodeTypes'
  BY SessionsAre, CodesAlone
<1>2. account # "none"
  BY SessionsAre, SomeoneThere
<1>3. PasswordInv'
  BY <1>2, SessionsAre, PasswordKept
<1>4. TallyInv'
  BY <1>1, SessionsAre, CallMoves, AccountStays, TalliesStay
<1> QED
  BY <1>1, <1>3, <1>4 DEF SessionsInv

LEMMA CreateSessionKeeps ==
  ASSUME SessionsInv, NEW p \in Clients, CreateSession(p)
  PROVE  SessionsInv'
<1> PICK s : s = request[p].from
  OBVIOUS
<1>1. /\ request[p].op = "open" /\ s \in 0..MaxSessions /\ MaxSessions \in Nat
      /\ UNCHANGED <<users, code, passes, misses, uncounted, left, proved, renewed>>
  BY SessionsAre, SessionsAssumption DEF CreateSession, At, Calls, SessionsAssumption
<1>2. CASE s = 0
  <2>1. Goes(p, Still) /\ UNCHANGED <<replaced, left>>
    BY <1>1, <1>2 DEF CreateSession, Ends
  <2>2. PICK t \in SessionIds : session[t] = "none" /\ session' = [session EXCEPT ![t] = "live"]
    BY DEF CreateSession, NextSession
  <2>3. SessionTypes'
    BY <2>1, <2>2, SessionsAre, TalliesAre DEF SessionTypes
  <2>4. \A u \in SessionIds :
          /\ session'[u] = "none" => session[u] = "none"
          /\ session'[u] = "live" => session[u] \in {"none", "live"}
          /\ left'[u] >= left[u]
    BY <2>1, <2>2, SessionsAre, TalliesAre, SessionNumbers DEF SessionTypes
  <2>5. SessionInv'
    BY <1>1, <2>1, <2>3, <2>4, SessionsAre, Idling, SessionsKept
  <2> QED
    BY <1>1, <2>1, <2>3, <2>5, Idling, SessionsMove
<1>3. CASE s # 0
  <2>1. s \in SessionIds
    BY <1>1, <1>3 DEF SessionIds
  <2>2. SessionInv' /\ SessionTypes'
    BY <1>1, <2>1, SessionsAre, ReplaceSession DEF At
  <2>3. [op |-> "drop", from |-> s] \in Calls /\ Goes(p, [op |-> "drop", from |-> s])
    BY <1>3, <2>1 DEF CreateSession, Calls
  <2> QED
    BY <1>1, <2>2, <2>3, SessionsMove
<1> QED
  BY <1>2, <1>3

LEMMA DropOldSessionKeeps ==
  ASSUME SessionsInv, NEW p \in Clients, DropOldSession(p)
  PROVE  SessionsInv'
<1> PICK s : s = request[p].from
  OBVIOUS
<1>1. /\ request[p].op = "drop" /\ s \in SessionIds /\ Goes(p, Still)
      /\ UNCHANGED <<users, code, passes, misses, uncounted, replaced, proved, renewed>>
      /\ \/ session' = [session EXCEPT ![s] = "gone"] /\ UNCHANGED left
         \/ left' = [left EXCEPT ![s] = @ + 1] /\ UNCHANGED session
  BY SessionsAre DEF DropOldSession, Ends, At, Calls
<1>2. SessionTypes'
  BY <1>1, SessionsAre, TalliesAre DEF SessionTypes
<1>3. \A u \in SessionIds :
        /\ session'[u] = "none" => session[u] = "none"
        /\ session'[u] = "live" => session[u] \in {"none", "live"}
        /\ left'[u] >= left[u]
        /\ u = s => session'[u] = "gone" \/ left'[u] = left[u] + 1
  BY <1>1, SessionsAre, TalliesAre, SessionNumbers DEF SessionTypes
<1>4. SessionInv'
  BY <1>1, <1>2, <1>3, SessionsAre, Idling, SessionsKept
<1> QED
  BY <1>1, <1>2, <1>4, Idling, SessionsMove

LEMMA DeleteUserSessionsKeeps ==
  ASSUME SessionsInv, NEW p \in Clients, DeleteUserSessions(p)
  PROVE  SessionsInv'
<1>1. /\ request[p].op = "all" /\ Goes(p, Still)
      /\ UNCHANGED <<users, code, passes, misses, uncounted, replaced, left, proved, renewed>>
      /\ session' = [s \in SessionIds |-> IF session[s] = "live" THEN "gone" ELSE session[s]]
  BY DEF DeleteUserSessions, Ends, At, history
<1>2. SessionTypes'
  BY <1>1, SessionsAre, TalliesAre DEF SessionTypes
<1>3. \A u \in SessionIds :
        /\ session'[u] = "none" => session[u] = "none"
        /\ session'[u] = "live" => session[u] \in {"none", "live"}
        /\ left'[u] >= left[u]
  BY <1>1, SessionsAre, TalliesAre, SessionNumbers DEF SessionTypes
<1>4. SessionInv'
  BY <1>1, <1>2, <1>3, SessionsAre, Idling, SessionsKept
<1> QED
  BY <1>1, <1>2, <1>4, Idling, SessionsMove

LEMMA CutOffKeeps ==
  ASSUME SessionsInv, NEW p \in Clients, CutOff(p)
  PROVE  SessionsInv'
<1>1. /\ request[p].op # "idle" /\ Goes(p, Still)
      /\ UNCHANGED <<users, code, session, passes, replaced, proved, renewed>>
  BY DEF CutOff, Ends, At
<1>2. TallyInv /\ AccountTypes /\ CodeTypes /\ SessionTypes
  BY SessionsAre, TalliesAre
<1>3. CodeInv' /\ CodeTypes'
  <2>1. CASE request[p].op = "miss"
    <3> PICK n : n = request[p].code
      OBVIOUS
    <3>1. /\ n \in Codes
          /\ misses' = [misses EXCEPT ![n] = @ + 1] /\ uncounted' = [uncounted EXCEPT ![n] = @ + 1]
      BY <2>1, SessionsAre DEF CutOff, At, Calls
    <3>2. CodeTypes'
      BY <1>1, <1>2, <3>1 DEF CodeTypes
    <3>3. \A m \in Codes :
            /\ misses'[m] = misses[m] + (IF m = n THEN 1 ELSE 0)
            /\ uncounted'[m] = uncounted[m] + (IF m = n THEN 1 ELSE 0)
      BY <1>2, <3>1 DEF CodeTypes
    <3>4. code[n].status # "none"
      BY <2>1, SessionsAre DEF CodeInv, At
    <3>5. ASSUME NEW m \in Codes
          PROVE  /\ code'[m].status = "none" => code[m].status = "none" /\ misses'[m] = 0
                 /\ code'[m].status # "gone" => passes'[m] = 0
                 /\ code'[m].status = "valid" => misses'[m] <= code'[m].attempts + uncounted'[m]
                 /\ uncounted'[m] >= uncounted[m]
                 /\ m # n => misses'[m] = misses[m]
                 /\ m = n => misses'[m] = misses[m] + 1
      <4>1. CASE m = n
        BY <1>1, <3>3, <3>4, <4>1, SessionsAre, CodeNumbers DEF CodeInv
      <4>2. CASE m # n
        BY <1>1, <3>3, <4>2, SessionsAre, CodeNumbers DEF CodeInv
      <4> QED
        BY <4>1, <4>2
    <3> QED
      BY <1>1, <2>1, <3>2, <3>5, SessionsAre, Idling, CodesKept
  <2>2. CASE request[p].op # "miss"
    BY <1>1, <2>2, SessionsAre, Idling, CodesAlone DEF CutOff, At
  <2> QED
    BY <2>1, <2>2
<1>4. SessionInv' /\ SessionTypes'
  <2>1. CASE request[p].op = "drop"
    <3> PICK s : s = request[p].from
      OBVIOUS
    <3>1. s \in SessionIds /\ left' = [left EXCEPT ![s] = @ + 1]
      BY <2>1, SessionsAre DEF CutOff, At, Calls
    <3>2. SessionTypes'
      BY <1>1, <1>2, <3>1 DEF SessionTypes
    <3>3. \A u \in SessionIds :
            /\ session'[u] = "none" => session[u] = "none"
            /\ session'[u] = "live" => session[u] \in {"none", "live"}
            /\ left'[u] >= left[u]
            /\ u = s => left'[u] = left[u] + 1
      BY <1>1, <1>2, <3>1, SessionNumbers DEF SessionTypes
    <3> QED
      BY <1>1, <3>2, <3>3, SessionsAre, Idling, SessionsKept
  <2>2. CASE request[p].op # "drop"
    BY <1>1, <2>2, SessionsAre, Idling, SessionsAlone DEF CutOff, At
  <2> QED
    BY <2>1, <2>2
<1>5. PasswordInv'
  BY <1>1, SessionsAre, Idling, PasswordKept
<1>6. TallyInv'
  BY <1>1, <1>3, <1>4, SessionsAre, Idling, CallMoves, AccountStays, TalliesStay
<1> QED
  BY <1>3, <1>4, <1>5, <1>6 DEF SessionsInv

\* Requests of one statement, and time.
LEMMA NoCallMoves ==
  ASSUME SessionsInv, UNCHANGED <<users, request, passes, misses, uncounted, replaced, left, proved, renewed>>,
         CodeTypes', SessionTypes',
         \A n \in Codes :
           /\ code'[n].status = "none" => code[n].status = "none" /\ misses'[n] = 0
           /\ code'[n].status # "gone" => passes'[n] = 0
           /\ code'[n].status = "valid" => misses'[n] <= code'[n].attempts + uncounted'[n]
           /\ code'[n].attempts = 0 \/ code'[n].attempts = code[n].attempts,
         \A s \in SessionIds :
           /\ session'[s] = "none" => session[s] = "none"
           /\ session'[s] = "live" => session[s] = "live",
         account = "none" => UNCHANGED <<code, session>>
  PROVE  SessionsInv'
<1>1. TallyInv /\ CodeInv /\ SessionInv /\ PasswordInv
  BY SessionsAre
<1>2. \A op, n : Holding(op, n)' = Holding(op, n) /\ Coming(op, n)' = Coming(op, n)
  BY DEF Holding, Coming, At
<1>3. CodeInv'
  <2>1. ASSUME NEW n \in Codes
        PROVE  code'[n].attempts + Cardinality(Holding("miss", n)) <= MaxAttempts + Cardinality(Clients) - 1
    <3>1. code[n].attempts + Cardinality(Holding("miss", n)) <= MaxAttempts + Cardinality(Clients) - 1
      BY <1>1 DEF CodeInv
    <3> QED
      BY <1>1, <3>1, CodeNumbers
  <2>2. ASSUME NEW p \in Clients, At(p, "use") \/ At(p, "miss")
        PROVE  code'[request[p].code].status # "none"
    <3>1. request[p].code \in Codes /\ code[request[p].code].status # "none"
      BY <1>1, <2>2, SessionsAre DEF CodeInv, At, Calls
    <3> QED
      BY <3>1
  <2>3. \A p \in Clients :
          At(p, "use")' \/ At(p, "miss")' => code'[request'[p].code].status # "none"
    BY <2>2 DEF At
  <2>4. \A n \in Codes :
          /\ passes[n] + Cardinality(Holding("use", n)) <= Cardinality(Clients)
          /\ misses[n] + Cardinality(Holding("miss", n))
               <= MaxAttempts + Cardinality(Clients) - 1 + uncounted[n]
    BY <1>1 DEF CodeInv
  <2> QED
    BY <1>2, <2>1, <2>3, <2>4 DEF CodeInv
<1>4. SessionInv'
  <2>1. ASSUME NEW p \in Clients, At(p, "drop") \/ (At(p, "open") /\ request[p].from # 0)
        PROVE  session'[request[p].from] # "none"
    <3>1. request[p].from \in SessionIds
      BY <2>1, SessionsAre, SessionsAssumption DEF SessionsAssumption, Calls, At, SessionIds
    <3> QED
      BY <1>1, <2>1, <3>1 DEF SessionInv
  <2>2. \A p \in Clients :
          At(p, "drop")' \/ (At(p, "open")' /\ request'[p].from # 0)
            => session'[request'[p].from] # "none"
    BY <2>1 DEF At
  <2> QED
    BY <1>1, <1>2, <2>2 DEF SessionInv
<1>5. PasswordInv'
  BY <1>1 DEF PasswordInv, ActiveKeepsPassword, Checked, At, users
<1>6. TallyInv'
  BY <1>1, SessionsAre, AccountStays, TalliesStay
<1> QED
  BY <1>3, <1>4, <1>5, <1>6 DEF SessionsInv

LEMMA AtOnceKeepsAll ==
  ASSUME SessionsInv, AtOnce
  PROVE  SessionsInv'
<1>1. TallyInv /\ CodeInv /\ PasswordInv /\ AccountTypes /\ CodeTypes /\ SessionTypes
  BY SessionsAre, TalliesAre
<1>2. ASSUME NEW purpose \in Purposes, RequestOTP(purpose)
      PROVE  SessionsInv'
  <2>1. /\ account # "none" /\ StoreOTP(purpose)
        /\ UNCHANGED <<users, session, request, passes, misses, uncounted, replaced, left, proved, renewed>>
    BY <1>2 DEF RequestOTP, history
  <2>2. SessionTypes'
    BY <1>1, <2>1 DEF SessionTypes
  <2> QED
    BY <1>1, <2>1, <2>2, CodeIssued, NoCallMoves
<1>3. ASSUME NEW n \in Codes, CodeExpires(n)
      PROVE  SessionsInv'
  <2>1. /\ code[n].status = "valid" /\ code' = [code EXCEPT ![n].status = "gone"]
        /\ UNCHANGED <<users, session, request, passes, misses, uncounted, replaced, left, proved, renewed>>
    BY <1>3 DEF CodeExpires, history
  <2>2. /\ code' \in [Codes -> [purpose : Purposes \cup {"none"}, status : {"none", "valid", "gone"},
                                attempts : Nat]]
        /\ \A m \in Codes \ {n} : code'[m] = code[m]
        /\ code'[n].status = "gone" /\ code'[n].attempts = code[n].attempts
    BY <1>1, <2>1 DEF CodeTypes
  <2>3. CodeTypes' /\ SessionTypes'
    BY <1>1, <2>1, <2>2 DEF CodeTypes, SessionTypes
  <2>4. \A m \in Codes :
          /\ code'[m].status = "none" => code[m].status = "none" /\ misses[m] = 0
          /\ code'[m].status # "gone" => passes[m] = 0
          /\ code'[m].status = "valid" => misses[m] <= code'[m].attempts + uncounted[m]
          /\ code'[m].attempts = code[m].attempts
    <3> TAKE m \in Codes
    <3>1. CASE m = n
      BY <2>2, <3>1
    <3>2. CASE m # n
      BY <1>1, <2>2, <3>2 DEF CodeInv
    <3> QED
      BY <3>1, <3>2
  <2>5. account # "none"
    BY <1>1, <2>1 DEF PasswordInv
  <2> QED
    BY <1>1, <2>1, <2>3, <2>4, <2>5, NoCallMoves
<1>4. ASSUME NEW s \in SessionIds, SessionEnds(s)
      PROVE  SessionsInv'
  <2>1. /\ session[s] = "live" /\ session' = [session EXCEPT ![s] = "gone"]
        /\ UNCHANGED <<users, code, request, passes, misses, uncounted, replaced, left, proved, renewed>>
    BY <1>4 DEF SessionEnds, history
  <2>2. CodeTypes' /\ SessionTypes'
    BY <1>1, <2>1 DEF CodeTypes, SessionTypes
  <2>3. \A t \in SessionIds :
          /\ session'[t] = "none" => session[t] = "none"
          /\ session'[t] = "live" => session[t] = "live"
    BY <1>1, <2>1 DEF SessionTypes
  <2>4. account # "none"
    BY <1>1, <2>1 DEF PasswordInv
  <2>5. \A n \in Codes :
          /\ code'[n].status = "none" => code[n].status = "none" /\ misses'[n] = 0
          /\ code'[n].status # "gone" => passes'[n] = 0
          /\ code'[n].status = "valid" => misses'[n] <= code'[n].attempts + uncounted'[n]
    BY <1>1, <2>1 DEF CodeInv
  <2> QED
    BY <2>1, <2>2, <2>3, <2>4, <2>5, NoCallMoves
<1> QED
  BY <1>2, <1>3, <1>4 DEF AtOnce

LEMMA SessionsInitInv == SessionsInit => SessionsInv
<1> SUFFICES ASSUME SessionsInit PROVE SessionsInv
  OBVIOUS
<1>1. /\ Cardinality({}) = 0 /\ Cardinality(Clients) \in Nat
      /\ MaxAttempts \in Nat /\ MaxAttempts >= 1
  BY SessionsAssumption, FS_EmptySet, FS_CardinalityType DEF SessionsAssumption
<1>2. \A p \in Clients : request[p].op = "idle"
  BY Idling DEF SessionsInit
<1>3. \A n : Holding("use", n) = {} /\ Holding("miss", n) = {} /\ Coming("open", n) = {}
             /\ Coming("drop", n) = {}
  BY <1>2 DEF Holding, Coming, At
<1>4. AccountTypes /\ request \in [Clients -> Calls]
  BY Idling DEF AccountTypes, SessionsInit
<1>5. CodeTypes
  BY DEF CodeTypes, SessionsInit
<1>6. SessionTypes
  BY DEF SessionTypes, SessionsInit
<1>7. TallyInv
  BY <1>4, <1>5, <1>6 DEF TallyInv, AccountTypes, CodeTypes, SessionTypes
<1>8. ASSUME NEW n \in Codes
      PROVE  /\ code[n].status = "none" /\ code[n].attempts = 0
             /\ passes[n] = 0 /\ misses[n] = 0 /\ uncounted[n] = 0
             /\ Cardinality(Holding("use", n)) = 0 /\ Cardinality(Holding("miss", n)) = 0
  BY <1>1, <1>3 DEF SessionsInit
<1>9. CodeInv
  BY <1>1, <1>2, <1>8 DEF CodeInv, At
<1>10. ASSUME NEW s \in SessionIds
       PROVE  /\ session[s] = "none" /\ replaced[s] = 0 /\ left[s] = 0
              /\ Cardinality(Coming("open", s)) = 0
  BY <1>1, <1>3 DEF SessionsInit
<1>11. SessionInv
  BY <1>1, <1>2, <1>10 DEF SessionInv, At
<1>12. PasswordInv
  BY <1>2, <1>8, <1>10 DEF PasswordInv, ActiveKeepsPassword, Checked, At, SessionsInit
<1> QED
  BY <1>7, <1>9, <1>11, <1>12 DEF SessionsInv

LEMMA OldUserInv == OldUser => SessionsInv
<1> SUFFICES ASSUME OldUser PROVE SessionsInv
  OBVIOUS
<1>1. /\ Cardinality({}) = 0 /\ Cardinality(Clients) \in Nat /\ Cardinality(Clients) >= 1
      /\ MaxAttempts \in Nat /\ MaxAttempts >= 1
  BY SessionsAssumption, FS_EmptySet, FS_CardinalityType DEF SessionsAssumption
<1>2. \A p \in Clients : request[p].op = "idle"
  BY Idling DEF OldUser
<1>3. \A n : Holding("use", n) = {} /\ Holding("miss", n) = {} /\ Coming("open", n) = {}
             /\ Coming("drop", n) = {}
  BY <1>2 DEF Holding, Coming, At
<1>4. AccountTypes /\ request \in [Clients -> Calls]
  BY Idling DEF AccountTypes, OldUser
<1>5. CodeTypes
  BY DEF CodeTypes, OldUser, Purposes
<1>6. SessionTypes
  BY DEF SessionTypes, OldUser
<1>7. TallyInv
  BY <1>4, <1>5, <1>6 DEF TallyInv, AccountTypes, CodeTypes, SessionTypes
<1>8. ASSUME NEW n \in Codes
      PROVE  /\ code[n].status = "gone" /\ code[n].attempts = 0
             /\ passes[n] = 1 /\ misses[n] = 0 /\ uncounted[n] = 0
             /\ Cardinality(Holding("use", n)) = 0 /\ Cardinality(Holding("miss", n)) = 0
  BY <1>1, <1>3 DEF OldUser
<1>9. CodeInv
  BY <1>1, <1>2, <1>8 DEF CodeInv, At
<1>10. ASSUME NEW s \in SessionIds
       PROVE  /\ session[s] = "none" /\ replaced[s] = 0 /\ left[s] = 0
              /\ Cardinality(Coming("open", s)) = 0
  BY <1>1, <1>3 DEF OldUser
<1>11. SessionInv
  BY <1>1, <1>2, <1>10 DEF SessionInv, At
<1>12. PasswordInv
  BY <1>2 DEF PasswordInv, ActiveKeepsPassword, Checked, At, OldUser
<1> QED
  BY <1>7, <1>9, <1>11, <1>12 DEF SessionsInv

LEMMA SessionsStepInv == SessionsInv /\ [SessionsNext]_sessionVars => SessionsInv'
<1> SUFFICES ASSUME SessionsInv, [SessionsNext]_sessionVars PROVE SessionsInv'
  OBVIOUS
<1>1. CASE UNCHANGED sessionVars
  <2>1. UNCHANGED users /\ UNCHANGED <<request, code, session>> /\ UNCHANGED history
    BY <1>1 DEF sessionVars
  <2>2. TallyInv'
    BY <2>1 DEF SessionsInv, TallyInv, users, history
  <2>3. CodeInv'
    BY <2>1 DEF SessionsInv, CodeInv, Holding, At, history
  <2>4. SessionInv'
    BY <2>1 DEF SessionsInv, SessionInv, Coming, At, users, history
  <2>5. PasswordInv'
    BY <2>1 DEF SessionsInv, PasswordInv, ActiveKeepsPassword, Checked, At, users, history
  <2> QED
    BY <2>2, <2>3, <2>4, <2>5 DEF SessionsInv
<1>2. CASE SessionsNext
  <2>1. CASE AtOnce
    BY <2>1, AtOnceKeepsAll
  <2>2. ASSUME NEW p \in Clients, Asks(p)
        PROVE  SessionsInv'
    BY <2>2, AskKeepsAll, RefreshTokenKeeps, AskCodeKeeps DEF Asks
  <2>3. ASSUME NEW p \in Clients, GoesOn(p)
        PROVE  SessionsInv'
    BY <2>3, CountMissKeeps, UseCodeKeeps, CreateUserKeeps, ReclaimKeeps, SendCodeKeeps,
       CheckPasswordKeeps, ActivateKeeps, CheckUserKeeps, CreateSessionKeeps, DropOldSessionKeeps,
       SetPasswordKeeps, DeleteUserSessionsKeeps, CutOffKeeps DEF GoesOn
  <2> QED
    BY <1>2, <2>1, <2>2, <2>3 DEF SessionsNext
<1> QED
  BY <1>1, <1>2

LEMMA SessionsInvariant == SessionsSpec => []SessionsInv
<1>1. SessionsInit \/ OldUser => SessionsInv
  BY SessionsInitInv, OldUserInv
<1>2. SessionsInv /\ [SessionsNext]_sessionVars => SessionsInv'
  BY SessionsStepInv
<1> QED
  BY <1>1, <1>2, PTL DEF SessionsSpec

\* Every value a call leaves is one its table holds; the attempts of a code stay
\* within the limit and one more for each request but one.
THEOREM SessionsTyped == SessionsSpec => []SessionsTypeOK
<1>1. SessionsInv => SessionsTypeOK
  <2> SUFFICES ASSUME SessionsInv PROVE SessionsTypeOK
    OBVIOUS
  <2>1. TallyInv /\ AccountTypes /\ CodeTypes /\ SessionTypes
    BY SessionsAre, TalliesAre
  <2>2. ASSUME NEW n \in Codes
        PROVE  code[n].attempts \in 0..MaxAttempts + Cardinality(Clients)
    <3>1. code[n].attempts + Cardinality(Holding("miss", n)) <= MaxAttempts + Cardinality(Clients) - 1
      BY SessionsAre DEF CodeInv
    <3> QED
      BY <2>1, <3>1, CodeNumbers
  <2>3. code \in [Codes -> [purpose : Purposes \cup {"none"}, status : {"none", "valid", "gone"},
                            attempts : 0..MaxAttempts + Cardinality(Clients)]]
    BY <2>1, <2>2 DEF CodeTypes
  <2> QED
    BY <2>1, <2>3 DEF SessionsTypeOK, AccountTypes, SessionTypes
<1> QED
  BY <1>1, SessionsInvariant, PTL

\* A refresh token makes no more sessions than requests use it together, and one
\* for each that failed to remove the old: for every set of clients.
THEOREM RefreshesReplace == SessionsSpec => []RefreshReplaces
<1>1. SessionsInv => RefreshReplaces
  <2> SUFFICES ASSUME SessionsInv, NEW s \in SessionIds
               PROVE  replaced[s] <= Cardinality(Clients) + left[s]
    BY DEF RefreshReplaces
  <2>1. replaced[s] + Cardinality(Coming("open", s)) <= Cardinality(Clients) + left[s]
    BY SessionsAre DEF SessionInv
  <2> QED
    BY <2>1, SessionsAre, SessionNumbers
<1> QED
  BY <1>1, SessionsInvariant, PTL

\* A code lets through those who read it together, and wrong guesses stop at the
\* limit, for every limit and set of clients.
THEOREM CodesAreSpent == SessionsSpec => []CodeIsSpent
<1>1. SessionsInv => CodeIsSpent
  <2> SUFFICES ASSUME SessionsInv, NEW n \in Codes
               PROVE  /\ passes[n] <= Cardinality(Clients)
                      /\ misses[n] <= MaxAttempts + Cardinality(Clients) - 1 + uncounted[n]
    BY DEF CodeIsSpent
  <2>1. /\ passes[n] + Cardinality(Holding("use", n)) <= Cardinality(Clients)
        /\ misses[n] + Cardinality(Holding("miss", n))
             <= MaxAttempts + Cardinality(Clients) - 1 + uncounted[n]
    BY SessionsAre DEF CodeInv
  <2> QED
    BY <2>1, SessionsAre, CodeNumbers
<1> QED
  BY <1>1, SessionsInvariant, PTL

\* No registration takes over an ACTIVE account: its password is the one that was
\* proved, unless it was changed or reclaimed after that check.
THEOREM PasswordStays == SessionsSpec => []ActiveKeepsPassword
<1>1. SessionsInv => ActiveKeepsPassword
  BY DEF SessionsInv, PasswordInv
<1> QED
  BY <1>1, SessionsInvariant, PTL

-----------------------------------------------------------------------------
(* All of them side by side.                                               *)

\* To each of them the joint specification is its own.
LEMMA EachByItself ==
  Spec => /\ SessionsSpec /\ AdminsSpec /\ AdminLoginsSpec
          /\ OnboardingSpec /\ PlansSpec /\ RequestsSpec
<1>1. Init => /\ SessionsInit \/ OldUser
              /\ AdminLoginsInit \/ EnrolledAdmin
              /\ AdminsInit /\ OnboardingInit /\ PlansInit /\ RequestsInit
  BY DEF Init, NothingAsked
<1> DEFINE all == <<subject, sessionVars, adminVars, adminLoginVars, onboardingVars,
                    planVars, requestVars>>
<1>2. [Next]_all => /\ [SessionsNext]_sessionVars /\ [AdminsNext]_adminVars
                    /\ [AdminLoginsNext]_adminLoginVars /\ [OnboardingNext]_onboardingVars
                    /\ [PlansNext]_planVars /\ [RequestsNext]_requestVars
  BY DEF Next
<1> QED
  BY <1>1, <1>2, PTL
  DEF Spec, SessionsSpec, AdminsSpec, AdminLoginsSpec, OnboardingSpec, PlansSpec, RequestsSpec

\* Nine of the ten invariants that TLC checks on the run of these modules hold
\* of its specification for every value of the constants; RefusedIsUnwritten,
\* which says something of each route, is left to TLC.
THEOREM AccountsHold ==
  Spec => [](/\ RefreshReplaces /\ CodeIsSpent /\ ActiveKeepsPassword
             /\ SuperAdminRemains /\ TicketsAreSpent /\ EnrolledStays
             /\ VerifiedIsSetUp /\ SeededIsWhole /\ ServedWasEntitled)
BY EachByItself, RefreshesReplace, CodesAreSpent, PasswordStays, AdminsRemain, TicketsSpent,
   SecretStays, UsersAreSetUp, PlansWhole, RequestsEntitled, PTL
=============================================================================
