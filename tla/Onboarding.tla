----------------------------- MODULE Onboarding -----------------------------
(***************************************************************************)
(* What a new user gets besides the account: the personal entity, the      *)
(* workspace on it and the free plan.  Register of internal/auth/service.go*)
(* makes them one by one and ignores what fails; internal/entity and       *)
(* internal/workspace offer the same by hand.                              *)
(***************************************************************************)
EXTENDS Integers, FiniteSets

CONSTANTS
  Callers,      \* requests of the user that may overlap
  MaxEntities,  \* bound on the user's entities
  MaxMishaps    \* bound on failed statements and requests cut off

ASSUME OnboardingAssumption ==
  IsFiniteSet(Callers) /\ MaxEntities \in Nat /\ MaxMishaps \in Nat

VARIABLES
  registered,  \* users.status, "none" before the row
  entity,      \* entity[e]: its entity_type, "none" before the row
  owner,       \* <<o, s>>: s is PEMILIK of the workspace on entity o
  planned,     \* the workspaces that are subscribed to the free plan
  errand,      \* errand[c]: the request in progress in c
  mishaps

onboardingVars == <<registered, entity, owner, planned, errand, mishaps>>

Entities == 1..MaxEntities
NoErrand == [op |-> "idle"]

OnboardingInit ==
  /\ registered = "none"
  /\ entity = [e \in Entities |-> "none"]
  /\ owner = {} /\ planned = {}
  /\ errand = [c \in Callers |-> NoErrand]
  /\ mishaps = 0

Runs(c, e) == errand' = [errand EXCEPT ![c] = e]
Finishes(c) == Runs(c, NoErrand)
Mishap == mishaps < MaxMishaps /\ mishaps' = mishaps + 1

\* GetEntityByUserID: LIMIT 1, in no order.
Personal == {e \in Entities : entity[e] = "ORANG_PRIBADI"}

InsertEntity(type) ==
  \E e \in Entities :
    /\ entity[e] = "none" /\ \A f \in Entities : f < e => entity[f] # "none"
    /\ entity' = [entity EXCEPT ![e] = type]

-----------------------------------------------------------------------------
(* Register, past its checks, and the code that makes the account ACTIVE.  *)

AskRegistration(c) ==
  /\ errand[c] = NoErrand
  /\ registered # "ACTIVE"
  /\ Runs(c, [op |-> IF registered = "none" THEN "create" ELSE "reclaim"])
  /\ UNCHANGED <<registered, entity, owner, planned, mishaps>>

\* Of two INSERTs the second hits the unique constraint.
InsertUser(c) ==
  /\ errand[c].op = "create"
  /\ IF registered = "none"
     THEN registered' = "UNVERIFIED" /\ Runs(c, [op |-> "look"])
     ELSE Finishes(c) /\ UNCHANGED registered
  /\ UNCHANGED <<entity, owner, planned, mishaps>>

\* An account that is claimed anew "already has" entity and workspace.
ReclaimUser(c) ==
  /\ errand[c].op = "reclaim"
  /\ Finishes(c)
  /\ UNCHANGED <<registered, entity, owner, planned, mishaps>>

Verify ==
  /\ registered = "UNVERIFIED"
  /\ registered' = "ACTIVE"
  /\ UNCHANGED <<entity, owner, planned, errand, mishaps>>

\* CreatePersonalEntity takes the one that is there.
LookForPersonal(c) ==
  /\ errand[c].op = "look"
  /\ IF Personal = {} THEN Runs(c, [op |-> "entity", by |-> "Register"])
     ELSE \E e \in Personal : Runs(c, [op |-> "workspace", entity |-> e])
  /\ UNCHANGED <<registered, entity, owner, planned, mishaps>>

\* The INSERT of CreatePersonalEntity and CreateEntity: no constraint.
InsertPersonal(c) ==
  /\ errand[c].op = "entity"
  /\ InsertEntity("ORANG_PRIBADI")
  /\ IF errand[c].by = "Register"
     THEN \E e \in Entities : /\ entity[e] # entity'[e]
                              /\ Runs(c, [op |-> "workspace", entity |-> e])
     ELSE Finishes(c)
  /\ UNCHANGED <<registered, owner, planned, mishaps>>

\* CreatePersonalWorkspace; the unique constraint, or any failure, is passed
\* over.
CreatePersonalWorkspace(c) ==
  LET e == errand[c].entity IN
  /\ errand[c].op = "workspace"
  /\ \/ owner' = owner \cup {<<e, e>>} /\ UNCHANGED mishaps
     \/ Mishap /\ UNCHANGED owner
  /\ Runs(c, [op |-> "plan", entity |-> e])
  /\ UNCHANGED <<registered, entity, planned>>

\* Subscribe to the free plan; its failure is logged.
SubscribeFree(c) ==
  /\ errand[c].op = "plan"
  /\ \/ planned' = planned \cup {errand[c].entity} /\ UNCHANGED mishaps
     \/ Mishap /\ UNCHANGED planned
  /\ Finishes(c)
  /\ UNCHANGED <<registered, entity, owner>>

-----------------------------------------------------------------------------
(* By hand.                                                                *)

\* Faulty variant: nobody looks for the personal entity.
AskAnyEntity(c) ==
  /\ errand[c] = NoErrand /\ registered = "ACTIVE"
  /\ Runs(c, [op |-> "entity", by |-> "CreateEntity"])
  /\ UNCHANGED <<registered, entity, owner, planned, mishaps>>

\* CreateEntity with the user's own type.
AskCreateEntity(c) ==
  /\ errand[c] = NoErrand /\ registered = "ACTIVE"
  /\ Personal = {}
  /\ Runs(c, [op |-> "entity", by |-> "CreateEntity"])
  /\ UNCHANGED <<registered, entity, owner, planned, mishaps>>

\* CreateEntity for a company, of which a user may have many.
CreateCompany ==
  /\ registered = "ACTIVE"
  /\ InsertEntity("BADAN_USAHA")
  /\ UNCHANGED <<registered, owner, planned, errand, mishaps>>

\* CreateWorkspace takes a personal entity for the user's and asks whether it
\* owns the workspace already.
AskWorkspace(c) ==
  /\ errand[c] = NoErrand /\ registered = "ACTIVE"
  /\ \E e \in Entities, s \in Personal :
       /\ entity[e] # "none" /\ <<e, s>> \notin owner
       /\ Runs(c, [op |-> "own", entity |-> e, subject |-> s])
  /\ UNCHANGED <<registered, entity, owner, planned, mishaps>>

\* The relation; a second one hits the unique constraint.
OwnWorkspace(c) ==
  /\ errand[c].op = "own"
  /\ owner' = owner \cup {<<errand[c].entity, errand[c].subject>>}
  /\ Finishes(c)
  /\ UNCHANGED <<registered, entity, planned, mishaps>>

\* The request ends early.
ErrandCut(c) ==
  /\ errand[c] # NoErrand
  /\ Mishap
  /\ Finishes(c)
  /\ UNCHANGED <<registered, entity, owner, planned>>

OnboardingNext ==
  \/ Verify \/ CreateCompany
  \/ \E c \in Callers :
       \/ AskRegistration(c) \/ InsertUser(c) \/ ReclaimUser(c)
       \/ LookForPersonal(c) \/ InsertPersonal(c)
       \/ CreatePersonalWorkspace(c) \/ SubscribeFree(c)
       \/ AskCreateEntity(c) \/ AskWorkspace(c) \/ OwnWorkspace(c)
       \/ ErrandCut(c)

-----------------------------------------------------------------------------
(* Properties.                                                             *)

\* VerifyWorkspaceAccess asks whether the personal entity it finds owns the
\* workspace.
MayEnter(e) == \A s \in Personal : <<e, s>> \in owner

SettingUp(c) == errand[c].op \in {"create", "look", "entity", "workspace", "plan"}

\* A user has no more personal entities than requests overlapped, and with
\* one of them gets into every workspace made for it.  Unless a statement
\* failed, a verified user whose registration has come to its end has a
\* personal workspace on the free plan, also when a second registration took
\* the account over, or the user was faster and made the entity by hand.
VerifiedIsSetUp ==
  /\ Cardinality(Personal) <= Cardinality(Callers)
  /\ Cardinality(Personal) = 1 => \A r \in owner : MayEnter(r[1])
  /\ registered = "ACTIVE" /\ mishaps = 0 /\ ~(\E c \in Callers : SettingUp(c)) =>
       \E e \in Personal : <<e, e>> \in owner /\ e \in planned

\* Register: "re-claimed accounts already have theirs".
ReclaimedHaveTheirs ==
  [][\A c \in Callers :
       errand[c].op = "reclaim" /\ errand'[c] = NoErrand => Personal # {}]_onboardingVars

-----------------------------------------------------------------------------
(* The invariants behind VerifiedIsSetUp.                                  *)

Errands ==
  [op : {"idle", "create", "reclaim", "look"}]
  \cup [op : {"entity"}, by : {"Register", "CreateEntity"}]
  \cup [op : {"workspace", "plan"}, entity : Personal]
  \cup [op : {"own"}, entity : Entities, subject : Personal]

\* Only who found no personal entity inserts one.
Inserting == {c \in Callers : errand[c].op = "entity"}

SetUp == \E e \in Personal : <<e, e>> \in owner /\ e \in planned

\* A registration that has the personal workspace made, or will.
Making(c) ==
  \/ errand[c].op \in {"look", "workspace"}
  \/ errand[c].op = "entity" /\ errand[c].by = "Register"
  \/ errand[c].op = "plan" /\ <<errand[c].entity, errand[c].entity>> \in owner

OnboardingInv ==
  /\ registered \in {"none", "UNVERIFIED", "ACTIVE"}
  /\ entity \in [Entities -> {"none", "ORANG_PRIBADI", "BADAN_USAHA"}]
  /\ owner \subseteq Entities \X Personal
  /\ errand \in [Callers -> Errands]
  /\ mishaps \in Nat
  /\ Cardinality(Personal) + Cardinality(Inserting) <= Cardinality(Callers)
  /\ registered # "none" /\ mishaps = 0 => SetUp \/ \E c \in Callers : Making(c)
=============================================================================
