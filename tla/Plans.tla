------------------------------- MODULE Plans --------------------------------
(***************************************************************************)
(* The plans on offer and their features: cmd/plan-seed, which may be run  *)
(* again and twice at once, and the administrators' requests.              *)
(*                                                                         *)
(* The seeding makes one statement per plan and per feature, without a     *)
(* transaction; it skips plans that are there.  A feature is on or off;    *)
(* quotas and tiers, prices and texts are left out.                        *)
(***************************************************************************)
EXTENDS Integers, FiniteSets

CONSTANTS
  Seeders,     \* runs of cmd/plan-seed
  PlanCount,   \* plans in its list, seeded in this order
  Features,    \* features of each of them
  MaxErrors    \* bound on statements that fail and runs that are cut off

ASSUME PlansAssumption ==
  /\ IsFiniteSet(Seeders) /\ IsFiniteSet(Features)
  /\ {PlanCount, MaxErrors} \subseteq Nat

VARIABLES
  plan,      \* plan[s]: "none", "seeded" or "created" by an administrator
  feature,   \* feature[s][k]: "none", "on" or "off"
  seeder,    \* seeder[p]: what p does next
  errors,
  touched,   \* features an administrator has set or removed
  spoilt     \* plans for which a statement failed or a run was cut off

planVars == <<plan, feature, seeder, errors, touched, spoilt>>

Slugs == 1..PlanCount
Start == [at |-> "start", slug |-> 1, left |-> {}]
Ended == [at |-> "end", slug |-> 1, left |-> {}]

\* The list of cmd/plan-seed, of a feature in which its plans differ, such as
\* ocr_enabled: off in the first and on in the second.  Others, report_financial
\* or api_access, are alike in both.
SeedValue(s, k) == IF s = 1 THEN "off" ELSE "on"

PlansInit ==
  /\ plan = [s \in Slugs |-> "none"]
  /\ feature = [s \in Slugs |-> [k \in Features |-> "none"]]
  /\ seeder = [p \in Seeders |-> Start]
  /\ errors = 0
  /\ touched = {}
  /\ spoilt = {}

-----------------------------------------------------------------------------
(* cmd/plan-seed.                                                          *)

SeederGoes(p, state) == seeder' = [seeder EXCEPT ![p] = state]
SeederAt(p, at) == seeder[p].at = at

Errs(s) ==
  /\ errors < MaxErrors /\ errors' = errors + 1
  /\ spoilt' = spoilt \cup {s}

NextPlan(p) ==
  IF seeder[p].slug < PlanCount
  THEN [at |-> "check", slug |-> seeder[p].slug + 1, left |-> {}]
  ELSE Ended

StartSeeding(p) ==
  /\ SeederAt(p, "start")
  /\ SeederGoes(p, [at |-> "check", slug |-> 1, left |-> {}])
  /\ UNCHANGED <<plan, feature, errors, touched, spoilt>>

\* Faulty variant: a plan that is there ends the run.
SkippedAll(p) == Ended
Skipped(p) == NextPlan(p)

ExistsPlanBySlug(s) == plan[s] # "none"

CheckPlan(p) ==
  LET s == seeder[p].slug IN
  /\ SeederAt(p, "check")
  /\ \/ /\ SeederGoes(p, IF ExistsPlanBySlug(s) THEN Skipped(p)
                         ELSE [seeder[p] EXCEPT !.at = "create"])
        /\ UNCHANGED <<errors, spoilt>>
     \/ Errs(s) /\ SeederGoes(p, NextPlan(p))
  /\ UNCHANGED <<plan, feature, touched>>

\* The slug is unique: of two INSERTs the second fails.
CreatePlanRow(s, by) == plan[s] = "none" /\ plan' = [plan EXCEPT ![s] = by]

SeedPlan(p) ==
  LET s == seeder[p].slug IN
  /\ SeederAt(p, "create")
  /\ \/ /\ CreatePlanRow(s, "seeded")
        /\ SeederGoes(p, [at |-> "features", slug |-> s, left |-> Features])
        /\ UNCHANGED <<errors, spoilt>>
     \/ /\ plan[s] # "none"
        /\ SeederGoes(p, NextPlan(p))
        /\ UNCHANGED <<plan, errors, spoilt>>
     \/ Errs(s) /\ SeederGoes(p, NextPlan(p)) /\ UNCHANGED plan
  /\ UNCHANGED <<feature, touched>>

UpsertPlanFeature(s, k, value) == feature' = [feature EXCEPT ![s][k] = value]

\* A feature that fails is logged and passed over.
SeedFeature(p) ==
  LET s == seeder[p].slug IN
  /\ SeederAt(p, "features")
  /\ \E k \in seeder[p].left :
       /\ \/ UpsertPlanFeature(s, k, SeedValue(s, k)) /\ UNCHANGED <<errors, spoilt>>
          \/ Errs(s) /\ UNCHANGED feature
       /\ SeederGoes(p, IF seeder[p].left = {k} THEN NextPlan(p)
                        ELSE [seeder[p] EXCEPT !.left = @ \ {k}])
  /\ UNCHANGED <<plan, touched>>

\* The run ends where it is; it may be started again.
SeedingCut(p) ==
  /\ seeder[p].at \in {"check", "create", "features"}
  /\ Errs(seeder[p].slug)
  /\ SeederGoes(p, Start)
  /\ UNCHANGED <<plan, feature, touched>>

-----------------------------------------------------------------------------
(* Administrators and workspaces.                                          *)

AdminCreatePlan(s) ==
  /\ CreatePlanRow(s, "created")
  /\ UNCHANGED <<feature, seeder, errors, touched, spoilt>>

SetFeature(s, k) ==
  /\ plan[s] # "none"
  /\ \E value \in {"on", "off"} : UpsertPlanFeature(s, k, value)
  /\ touched' = touched \cup {<<s, k>>}
  /\ UNCHANGED <<plan, seeder, errors, spoilt>>

DeletePlanFeature(s, k) == feature' = [feature EXCEPT ![s][k] = "none"]

RemoveFeature(s, k) ==
  /\ plan[s] # "none"
  /\ DeletePlanFeature(s, k)
  /\ touched' = touched \cup {<<s, k>>}
  /\ UNCHANGED <<plan, seeder, errors, spoilt>>

GetPlanFeatureByKey(s, k) == feature[s][k]

\* For a workspace that has plan s; a feature that is not there is not had.
HasFeature(s, k) == GetPlanFeatureByKey(s, k) = "on"

PlansNext ==
  \/ \E p \in Seeders :
       \/ StartSeeding(p) \/ CheckPlan(p) \/ SeedPlan(p) \/ SeedFeature(p) \/ SeedingCut(p)
  \/ \E s \in Slugs :
       \/ AdminCreatePlan(s)
       \/ \E k \in Features : SetFeature(s, k) \/ RemoveFeature(s, k)

-----------------------------------------------------------------------------
\* Once a run of cmd/plan-seed has ended every plan is there, and those that
\* were seeded give what the list says and nobody has changed since, but for
\* plans for which a statement failed or a run was cut off: a later run skips
\* a plan that is there, whole or not.
SeededIsWhole ==
  (\E p \in Seeders : SeederAt(p, "end")) /\ (\A p \in Seeders : ~SeederAt(p, "features")) =>
    \A s \in Slugs \ spoilt :
      /\ ExistsPlanBySlug(s)
      /\ plan[s] = "seeded" =>
           \A k \in Features :
             <<s, k>> \notin touched => HasFeature(s, k) = (SeedValue(s, k) = "on")

-----------------------------------------------------------------------------
(* The invariant behind SeededIsWhole.                                     *)

\* Plans that p has passed.
Passed(p) ==
  CASE seeder[p].at = "start" -> {}
    [] seeder[p].at = "end" -> Slugs
    [] OTHER -> {s \in Slugs : s < seeder[p].slug}

PlansInv ==
  /\ plan \in [Slugs -> {"none", "seeded", "created"}]
  /\ feature \in [Slugs -> [Features -> {"none", "on", "off"}]]
  /\ seeder \in [Seeders -> [at : {"start", "check", "create", "features", "end"},
                             slug : Nat, left : SUBSET Features]]
  /\ \A p \in Seeders : \A s \in Passed(p) \ spoilt : plan[s] # "none"
  /\ \A p \in Seeders, s \in Slugs :
       seeder[p].at = "features" /\ seeder[p].slug = s => plan[s] # "none"
  /\ \A s \in Slugs \ spoilt, k \in Features :
       plan[s] = "seeded" /\ <<s, k>> \notin touched =>
         \/ feature[s][k] = SeedValue(s, k)
         \/ \E p \in Seeders :
              seeder[p].at = "features" /\ seeder[p].slug = s /\ k \in seeder[p].left
=============================================================================
