------------------------------- MODULE Edits --------------------------------
(***************************************************************************)
(* One row of a table that its owners edit: requests read the row, put     *)
(* what they were asked for into it and write all its columns back, in     *)
(* separate statements and no transaction.                                 *)
(*                                                                         *)
(* A row is a name, for the columns an edit may set, and an extra, for the *)
(* one that differs: is_active of plans, items and accounts (with the      *)
(* parent of the latter), another column elsewhere.  Values are checked    *)
(* before anything is read or written and always valid here.  System       *)
(* accounts and roles, and entities of others, are refused.                *)
(***************************************************************************)
EXTENDS Integers, FiniteSets

CONSTANTS
  Editors,   \* requests that may overlap
  MaxEdits   \* bound on requests that read the row

ASSUME EditsAssumption == IsFiniteSet(Editors) /\ MaxEdits \in Nat

VARIABLES
  table,     \* the table of the row
  record,    \* the row, None before it is there, Gone after
  edit,      \* edit[p]: what p is about to write
  edits,
  meant,     \* what was last asked for, column by column
  reverted   \* columns written back by an edit that had read them before

editVars == <<table, record, edit, edits, meant, reverted>>

Fields == {"name", "extra"}
Usual == "usual"  \* the default of the code: active, no parent, empty
Values == {Usual, "other"}
Rows == [Fields -> Values]
None == [missing |-> TRUE]
Gone == [deleted |-> TRUE]
Ready == [new |-> None, asked |-> {}, stale |-> {}]

\* What a request may ask for: some of the columns.
Asks == UNION {[asked -> Values] : asked \in SUBSET Fields}

Overlaid(old, ask) == [f \in Fields |-> IF f \in DOMAIN ask THEN ask[f] ELSE old[f]]
Refilled(ask) == [f \in Fields |-> IF f \in DOMAIN ask THEN ask[f] ELSE Usual]

-----------------------------------------------------------------------------
(* What an edit makes of the row it read.                                  *)

MergeEntity(old, ask) == Overlaid(old, ask)
MergeItem(old, ask) == Overlaid(old, ask)
MergeRole(old, ask) == Overlaid(old, ask)

\* Faulty variant: what is left out is active.
MergePlanActive(old, ask) == [Overlaid(old, ask) EXCEPT !.extra = Refilled(ask).extra]
MergePlan(old, ask) == Overlaid(old, ask)

\* Whether it is asked for or not: an account that is not said to be inactive
\* is active again, one without a parent in the request loses its own.
MergeAccount(old, ask) == [Overlaid(old, ask) EXCEPT !.extra = Refilled(ask).extra]

-----------------------------------------------------------------------------
(* The statements.                                                         *)

UpdateEntity(old, new) == [old EXCEPT !.name = new.name, !.extra = new.extra]
UpdatePlan(old, new) == [old EXCEPT !.name = new.name, !.extra = new.extra]
UpdateAccount(old, new) == [old EXCEPT !.name = new.name, !.extra = new.extra]
UpdateWorkspaceRole(old, new) == [old EXCEPT !.name = new.name, !.extra = new.extra]
UpdateTaxProfile(old, new) == [old EXCEPT !.name = new.name, !.extra = new.extra]
UpdateItem(old, new) == [old EXCEPT !.name = new.name]
UpsertEntityMeta(new) == new

\* An UPDATE of a row that is not there changes nothing.
Stored(new) ==
  IF table = "meta" THEN UpsertEntityMeta(new)
  ELSE IF record \notin Rows THEN record
  ELSE [entity |-> UpdateEntity(record, new), plan |-> UpdatePlan(record, new),
        account |-> UpdateAccount(record, new), role |-> UpdateWorkspaceRole(record, new),
        profile |-> UpdateTaxProfile(record, new), item |-> UpdateItem(record, new)][table]

-----------------------------------------------------------------------------
(* The requests.                                                           *)

EditsInit ==
  /\ table \in {"entity", "meta", "plan", "item", "account", "role", "profile"}
  /\ record = IF table = "entity" THEN [f \in Fields |-> Usual] ELSE None
  /\ edit = [p \in Editors |-> Ready]
  /\ edits = 0
  /\ meant = IF table = "entity" THEN [f \in Fields |-> Usual] ELSE None
  /\ reverted = {}

\* p has read the row and is about to write.
Intends(p, new, asked) ==
  /\ edit[p] = Ready /\ edits < MaxEdits
  /\ edit' = [edit EXCEPT ![p] = [new |-> new, asked |-> asked, stale |-> {}]]
  /\ edits' = edits + 1
  /\ UNCHANGED <<table, record, meant, reverted>>

AskUpdateEntity(p) ==
  /\ table = "entity"
  /\ \E ask \in Asks : Intends(p, MergeEntity(record, ask), DOMAIN ask)

\* Reads the entity only; all columns are replaced.
AskUpdateEntityMeta(p) ==
  /\ table = "meta"
  /\ \E ask \in Asks : Intends(p, Refilled(ask), Fields)

AskUpdatePlan(p) ==
  /\ table = "plan" /\ record \in Rows
  /\ \E ask \in Asks : Intends(p, MergePlan(record, ask), DOMAIN ask)

AskUpdateItem(p) ==
  /\ table = "item" /\ record \in Rows
  /\ \E ask \in Asks :
       DOMAIN ask \subseteq {"name"} /\ Intends(p, MergeItem(record, ask), DOMAIN ask)

AskUpdateAccount(p) ==
  /\ table = "account" /\ record \in Rows
  /\ \E ask \in Asks : Intends(p, MergeAccount(record, ask), DOMAIN ask)

AskUpdateRole(p) ==
  /\ table = "role" /\ record \in Rows
  /\ \E ask \in Asks : Intends(p, MergeRole(record, ask), DOMAIN ask)

\* The profile is there once it has been asked for; all columns are replaced.
AskUpdateProfile(p) ==
  /\ table = "profile" /\ record \in Rows
  /\ \E ask \in Asks : Intends(p, Refilled(ask), Fields)

\* What the other edits in progress have read is stale in these columns.
Outdates(asked) ==
  [p \in Editors |->
     IF edit[p] = Ready THEN Ready ELSE [edit[p] EXCEPT !.stale = @ \cup asked]]

Write(p) ==
  LET new == edit[p].new
      asked == edit[p].asked
  IN
  /\ edit[p] # Ready
  /\ record' = Stored(new)
  /\ IF record' \in Rows
     THEN /\ meant' = [f \in Fields |-> IF f \in asked THEN new[f] ELSE meant[f]]
          /\ reverted' = (reverted \cup edit[p].stale) \ asked
          /\ edit' = [Outdates(asked) EXCEPT ![p] = Ready]
     ELSE /\ UNCHANGED <<meant, reverted>>
          /\ edit' = [edit EXCEPT ![p] = Ready]
  /\ UNCHANGED <<table, edits>>

Inserts(new) ==
  /\ record = None
  /\ record' = new /\ meant' = new
  /\ UNCHANGED <<table, edit, edits, reverted>>

\* One row per slug, code or name: the second INSERT is refused.
CreatePlan == table = "plan" /\ \E new \in Rows : new.extra = Usual /\ Inserts(new)
CreateItem == table = "item" /\ \E new \in Rows : new.extra = Usual /\ Inserts(new)
CreateAccount == table = "account" /\ \E new \in Rows : Inserts(new)
CreateRole == table = "role" /\ \E new \in Rows : Inserts(new)
GetOrCreateProfile == table = "profile" /\ Inserts([f \in Fields |-> Usual])

\* One column is written, whatever the rest.
Sets(value) ==
  /\ record \in Rows
  /\ record' = [record EXCEPT !.extra = value]
  /\ meant' = [meant EXCEPT !.extra = value]
  /\ reverted' = reverted \ {"extra"}
  /\ edit' = Outdates({"extra"})
  /\ UNCHANGED <<table, edits>>

DeletePlan == table = "plan" /\ Sets("other")
SoftDeleteItem == table = "item" /\ Sets("other")
ReactivateItem == table = "item" /\ Sets(Usual)

DeleteRole ==
  /\ table = "role" /\ record \in Rows
  /\ record' = Gone /\ meant' = Gone
  /\ UNCHANGED <<table, edit, edits, reverted>>

EditsNext ==
  \/ CreatePlan \/ CreateItem \/ CreateAccount \/ CreateRole \/ GetOrCreateProfile
  \/ DeletePlan \/ SoftDeleteItem \/ ReactivateItem \/ DeleteRole
  \/ \E p \in Editors :
       \/ AskUpdateEntity(p) \/ AskUpdateEntityMeta(p) \/ AskUpdatePlan(p)
       \/ AskUpdateItem(p) \/ AskUpdateAccount(p) \/ AskUpdateRole(p) \/ AskUpdateProfile(p)
       \/ Write(p)

-----------------------------------------------------------------------------
\* An edit of an account makes the columns it leaves out usual again.
Resets(f, value) == table = "account" /\ f = "extra" /\ value = Usual

\* A column nobody asked to change is what it was last asked to be, unless an
\* edit that had read it before wrote it back, or an edit of an account left it
\* out; and what switches an item on and off is never written back.
UnaskedStays ==
  record \in Rows =>
    /\ \A f \in Fields :
         record[f] # meant[f] => f \in reverted \/ Resets(f, record[f])
    /\ table = "item" => record.extra = meant.extra
=============================================================================
