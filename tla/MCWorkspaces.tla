---------------------------- MODULE MCWorkspaces ----------------------------
(***************************************************************************)
(* The members of a workspace, with two requests of each side any MaxBusy  *)
(* of which overlap; a list that is read page by page; a row that is       *)
(* edited; the identifiers of an entity that is claimed.  They keep to     *)
(* their own tables: one is explored at a time.                            *)
(***************************************************************************)
EXTENDS Workspaces, Lists, Edits, Identities, TLC

CONSTANT MaxBusy

VARIABLE subject  \* the one that is explored

\* An empty list and a row that nobody edits, for the other subjects.
NothingListed == ListsInit /\ list = "accounts" /\ Made = {}
NothingEdited == EditsInit /\ table = "entity"

MCInit ==
  /\ Init /\ IdentitiesInit
  /\ \/ subject \in {"members", "identities"} /\ NothingListed /\ NothingEdited
     \/ subject = "lists" /\ ListsInit /\ NothingEdited
     \/ subject = "edits" /\ NothingListed /\ EditsInit

MCNext ==
  /\ UNCHANGED subject
  /\ \/ /\ subject = "members" /\ Next
        /\ UNCHANGED <<listVars, editVars, identityVars>>
     \/ /\ subject = "lists" /\ ListsNext
        /\ UNCHANGED <<vars, editVars, identityVars>>
     \/ /\ subject = "edits" /\ EditsNext
        /\ UNCHANGED <<vars, listVars, identityVars>>
     \/ /\ subject = "identities" /\ IdentitiesNext
        /\ UNCHANGED <<vars, listVars, editVars>>

MCSpec == MCInit /\ [][MCNext]_<<subject, vars, listVars, editVars, identityVars>>

FewBusy == Cardinality({p \in People : ~On(p, "idle")}) <= MaxBusy

\* Rows at the same place come in any order: nothing is said of their lists.
Untied == ~tied

InScope == FewBusy /\ Untied

MCSymmetry ==
  Permutations(Managers) \cup Permutations(Guests) \cup Permutations(Roles)
=============================================================================
