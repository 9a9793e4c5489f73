------------------------------- MODULE Chart -------------------------------
(***************************************************************************)
(* A workspace comes into being and gets its chart of accounts:            *)
(* CreateWorkspace in internal/workspace/service.go, the WorkspaceCreated  *)
(* consumer in cmd/consumer/main.go and SeedDefaultCOA and CreateAccount   *)
(* in internal/accounting/coa_service.go.                                  *)
(***************************************************************************)
EXTENDS Deliveries

CONSTANTS
  Creators   \* requests that create the workspace of one entity

VARIABLES
  relation,   \* whether the PEMILIK relation exists, which makes the workspace
  ownerRole,  \* whether its Owner role exists
  template,   \* whether the accounts of the template are in the chart
  own,        \* accounts entered by hand: under a code of their own, or under
              \* one the template uses as well
  creating,   \* creating[c]: how far request c is
  cutShort    \* a creation ended between the relation and the event

chartVars == <<relation, ownerRole, template, own, creating, cutShort>>

Created == Event("workspace", 1)
Codes == {"own", "template"}

ChartInit ==
  /\ relation = FALSE
  /\ ownerRole = FALSE
  /\ template = FALSE
  /\ own = {}
  /\ creating = [c \in Creators |-> "idle"]
  /\ cutShort = FALSE

-----------------------------------------------------------------------------
(* CreateWorkspace: every statement commits on its own.                    *)

At(c, step) == creating' = [creating EXCEPT ![c] = step]

\* ExistsRelation.
AskCreateWorkspace(c) ==
  /\ creating[c] = "idle"
  /\ ~relation
  /\ At(c, "checked")
  /\ UNCHANGED <<relation, ownerRole, template, own, cutShort, deliveryVars>>

\* Of two requests past the check the second hits the unique constraint.
CreateRelation(c) ==
  /\ creating[c] = "checked"
  /\ relation' = TRUE
  /\ At(c, IF relation THEN "idle" ELSE "related")
  /\ UNCHANGED <<ownerRole, template, own, cutShort, deliveryVars>>

\* An error is ignored.
BootstrapOwnerRole(c) ==
  /\ creating[c] = "related"
  /\ ownerRole' \in {ownerRole, TRUE}
  /\ At(c, "emit")
  /\ UNCHANGED <<relation, template, own, cutShort, deliveryVars>>

EmitCreated(c) ==
  /\ creating[c] = "emit"
  /\ due' = due \cup {Created}
  /\ At(c, "idle")
  /\ UNCHANGED <<relation, ownerRole, template, own, cutShort>>
  /\ UNCHANGED <<settled, work, repeats, cuts, transactions>>

\* The process stops, or the event cannot be recorded, which is only logged.
\* The relation stays, and no later request gets past the check.
CutShort(c) ==
  /\ creating[c] # "idle"
  /\ At(c, "idle")
  /\ cutShort' = (cutShort \/ creating[c] # "checked")
  /\ UNCHANGED <<relation, ownerRole, template, own, deliveryVars>>

-----------------------------------------------------------------------------
(* The chart of accounts.                                                  *)

\* CreateAccount; codes are unique within a workspace.
CreateAccount(code) ==
  /\ relation
  /\ code \notin own
  /\ template => code # "template"
  /\ own' = own \cup {code}
  /\ UNCHANGED <<relation, ownerRole, template, creating, cutShort, deliveryVars>>

HandleWorkspaceCreated(w) ==
  /\ Take(w, Created, "count")
  /\ UNCHANGED <<due, settled, repeats, cuts, transactions, chartVars>>

\* Any account counts; ErrCOAAlreadySeeded is success to the consumer.
CountAccounts(w) ==
  /\ On(w, "workspace", "count")
  /\ IF template \/ own # {} THEN Acks(w) ELSE GoTo(w, "insert") /\ UNCHANGED <<due, settled>>
  /\ UNCHANGED <<repeats, cuts, transactions, chartVars>>

\* Faulty variant: the consumer takes every error for ErrCOAAlreadySeeded.
SeedOrGiveUp(w) ==
  /\ On(w, "workspace", "insert")
  /\ template' \in {template, "template" \notin own}
  /\ Acks(w)
  /\ UNCHANGED <<repeats, cuts, transactions, relation, ownerRole, own, creating, cutShort>>

\* One transaction: all accounts of the template, or none where a code is
\* taken (by another seeding or by hand) or a statement fails.
SeedDefaultCOA(w) ==
  /\ On(w, "workspace", "insert")
  /\ \/ ~template /\ "template" \notin own /\ template' = TRUE /\ Acks(w)
     \/ UNCHANGED template /\ Naks(w)
  /\ UNCHANGED <<repeats, cuts, transactions, relation, ownerRole, own, creating, cutShort>>

ChartStep(w) == HandleWorkspaceCreated(w) \/ CountAccounts(w) \/ SeedDefaultCOA(w)

ChartRequest ==
  \/ \E c \in Creators :
       \/ AskCreateWorkspace(c) \/ CreateRelation(c) \/ BootstrapOwnerRole(c)
       \/ EmitCreated(c) \/ CutShort(c)
  \/ \E code \in Codes : CreateAccount(code)

-----------------------------------------------------------------------------
\* A workspace without any account is still to get its chart: the request that
\* creates it goes on or its event is still to be handled, however requests
\* race, statements fail and deliveries are cut off or repeated.  Only a
\* creation that ended before its event leaves it so.
ChartFollows ==
  relation /\ ~template /\ own = {} =>
    \/ cutShort
    \/ Created \in due
    \/ \E c \in Creators : creating[c] \in {"related", "emit"}
=============================================================================
