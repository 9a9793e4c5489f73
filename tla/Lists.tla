------------------------------- MODULE Lists --------------------------------
(***************************************************************************)
(* A client reads one list of the API page by page, by LIMIT and OFFSET,   *)
(* while other requests add rows, rename them and move them in and out of  *)
(* what the list selects.  Every page is a statement of its own: nothing   *)
(* holds the list still.                                                   *)
(*                                                                         *)
(* A row is its creation time, whether the WHERE clause selects it and a   *)
(* place (a name, a date or a similarity); what else it holds is left out. *)
(***************************************************************************)
EXTENDS Integers, FiniteSets, Sequences, SequencesExt

CONSTANTS
  MaxRows, MaxPlaces,
  Twenty, Fifty, Hundred,  \* the default limits and the highest one
  MaxChanges,              \* bound on rows changed while the list is read
  MaxDrops                 \* bound on rows whose lookups fail

ASSUME ListsAssumption ==
  /\ {MaxRows, MaxPlaces, MaxChanges, MaxDrops} \subseteq Nat
  /\ {Twenty, Fifty, Hundred} \subseteq Nat \ {0}
  /\ Twenty <= Fifty /\ Fifty <= Hundred

VARIABLES
  list,     \* the list that is read
  row,      \* row[i]: is it there, selected, and where
  asked,    \* the limit the client sends, 0 for none
  offset,   \* rows received so far
  done,     \* a page came back empty, or the list is not paged
  shown,    \* shown[i]: how often row i was received
  steady,   \* rows listed all along, at the same place
  left, came, drops,  \* rows that left, came, were dropped by a lookup
  tied      \* two listed rows were at the same place

listVars == <<list, row, asked, offset, done, shown, steady, left, came, drops, tied>>

RowIds == 1..MaxRows
Absent == [made |-> FALSE, fits |-> FALSE, place |-> 1]

Made == {i \in RowIds : row[i].made}
Fitting == {i \in Made : row[i].fits}

\* What a list is made of: which rows, order, LIMIT (0 for none) and OFFSET.
Select(rows, order, limit, from) ==
  [rows |-> rows, order |-> order, limit |-> limit, from |-> from, drops |-> FALSE]
Whole(rows, order) == Select(rows, order, 0, 0)

RowsOf(select) == IF select.rows = "all" THEN Made ELSE Fitting

\* Rows are looked up one by one, and those whose lookup fails left out.
Dropping(select) == [select EXCEPT !.drops = TRUE]

-----------------------------------------------------------------------------
(* The statements.                                                         *)

ListTransactionsByWorkspace(l, o) == Select("all", "dated", l, o)
ListItemsByWorkspace(l, o) == Select("fitting", "named", l, o)
ListItemsByType(l, o) == Select("fitting", "named", l, o)
ListAllItemsByWorkspace(l, o) == Select("all", "named", l, o)
ListLedgerEntriesByAccount(l, o) == Select("all", "newest", l, o)
ListInvoicesByWorkspace(l, o) == Select("all", "newest", l, o)
ListAllInvoicesQuery(l, o) == Select("all", "newest", l, o)
ListPaymentsByWorkspace(l, o) == Select("all", "newest", l, o)
ListAllSubscriptionsQuery(l, o) == Select("all", "newest", l, o)
ListAllClaimsQuery(l, o) == Select("all", "newest", l, o)
ListClaimsByStatus(l, o) == Select("fitting", "oldest", l, o)
SearchEntitiesByName(l, o) == Select("fitting", "named", l, o)
SearchEntitiesFuzzy(l, o) == Select("fitting", "alike", l, o)
ListDocumentsByWorkspace(l, o) == Select("all", "newest", l, o)
ListTaxCalculations(l, o) == Select("fitting", "newest", l, o)
ListTaxReportJobs(l, o) == Select("all", "newest", l, o)

ListAccountsByWorkspace == Whole("fitting", "named")
ListAllAccountsByWorkspace == Whole("all", "named")
ListAccountsByTypeQuery == Whole("fitting", "named")
ListSubscriptionsByWorkspace == Whole("all", "newest")
ListPlans == Whole("fitting", "named")
ListAllPlans == Whole("all", "named")
ListEntitiesByUserID == Whole("all", "newest")
ListRelationsByObject == Whole("fitting", "newest")
ListWorkspacesBySubject == Whole("fitting", "newest")
ListCounterpartyAliasesFromRelations == Whole("fitting", "named")
ListWorkspaceRoles == Whole("all", "named")
ListPendingInvitesByWorkspace == Whole("fitting", "newest")
GetClaimsByClaimant == Whole("all", "newest")
ListTaxDocumentRefs == Whole("all", "newest")

-----------------------------------------------------------------------------
(* The services, and the handlers that do more than pass two numbers on.   *)

OrElse(limit, default) == IF limit <= 0 THEN default ELSE limit
Capped(limit) == IF limit > Hundred THEN Hundred ELSE limit

\* Beyond the highest limit it is the default that counts.
parsePagination(limit) == IF limit <= 0 \/ limit > Hundred THEN Fifty ELSE limit

ListTransactions(l, o) == ListTransactionsByWorkspace(parsePagination(l), o)
GetGeneralLedger(l, o) == ListLedgerEntriesByAccount(parsePagination(l), o)
ListItems(l, o) ==
  [items |-> ListItemsByWorkspace(parsePagination(l), o),
   by_type |-> ListItemsByType(parsePagination(l), o),
   all |-> ListAllItemsByWorkspace(parsePagination(l), o)]
ListInvoices(l, o) == ListInvoicesByWorkspace(OrElse(l, Twenty), o)
ListPayments(l, o) == ListPaymentsByWorkspace(OrElse(l, Twenty), o)
ListAllInvoices(l, o) == ListAllInvoicesQuery(OrElse(l, Fifty), o)
ListAllSubscriptions(l, o) == ListAllSubscriptionsQuery(OrElse(l, Fifty), o)
ListClaimsForReview(l, o) == ListClaimsByStatus(Capped(OrElse(l, Twenty)), o)
ListAllClaims(l, o) == ListAllClaimsQuery(Capped(OrElse(l, Twenty)), o)
SearchEntitiesForUser(l, o) == Dropping(SearchEntitiesByName(Capped(OrElse(l, Twenty)), o))
SearchFuzzy(l, o) == SearchEntitiesFuzzy(Capped(OrElse(l, Twenty)), o)
ListDocuments(l, o) == ListDocumentsByWorkspace(Capped(OrElse(l, Twenty)), o)
ListReportJobs(l, o) == ListTaxReportJobs(OrElse(l, Twenty), o)

\* The handler of the calculations counts in pages: page 1 begins at 0, and an
\* offset counts as the page it is on.
PageOffset(page, perPage) == (page - 1) * perPage
ListCalculations(l, o) ==
  LET perPage == OrElse(l, Twenty) IN
  ListTaxCalculations(perPage, PageOffset(o \div perPage + 1, perPage))

\* The handler of accounts chooses between three.
ListAccounts ==
  [accounts |-> ListAccountsByWorkspace,
   by_type |-> ListAccountsByTypeQuery,
   all |-> ListAllAccountsByWorkspace]
ListMyWorkspaces == Dropping(ListWorkspacesBySubject)
ListMembers == Dropping(ListRelationsByObject)
ListCounterparties == Dropping(ListRelationsByObject)

Limits == 0..(Hundred + 1)

\* What the client asked for is answered with.
Answers(l, o) ==
  [transactions |-> ListTransactions(l, o), ledger |-> GetGeneralLedger(l, o),
   items |-> ListItems(l, o).items, items_by_type |-> ListItems(l, o).by_type,
   items_all |-> ListItems(l, o).all,
   invoices |-> ListInvoices(l, o), payments |-> ListPayments(l, o),
   all_invoices |-> ListAllInvoices(l, o), all_subscriptions |-> ListAllSubscriptions(l, o),
   review |-> ListClaimsForReview(l, o), all_claims |-> ListAllClaims(l, o),
   entities |-> SearchEntitiesForUser(l, o), matches |-> SearchFuzzy(l, o),
   documents |-> ListDocuments(l, o), tax_reports |-> ListReportJobs(l, o),
   calculations |-> ListCalculations(l, o),
   accounts |-> ListAccounts.accounts, accounts_by_type |-> ListAccounts.by_type,
   accounts_all |-> ListAccounts.all,
   subscriptions |-> ListSubscriptionsByWorkspace, plans |-> ListPlans,
   all_plans |-> ListAllPlans, my_entities |-> ListEntitiesByUserID,
   my_workspaces |-> ListMyWorkspaces, members |-> ListMembers,
   counterparties |-> ListCounterparties, aliases |-> ListCounterpartyAliasesFromRelations,
   roles |-> ListWorkspaceRoles, invites |-> ListPendingInvitesByWorkspace,
   my_claims |-> GetClaimsByClaimant, tax_documents |-> ListTaxDocumentRefs]

Answer == Answers(asked, offset)[list]
Listed == RowsOf(Answer)

-----------------------------------------------------------------------------
(* Reading, and what goes on meanwhile.                                    *)

Before(order, i, j) ==
  CASE order = "newest" -> i > j
    [] order = "oldest" -> i < j
    [] order = "dated" -> row[i].place > row[j].place \/ (row[i].place = row[j].place /\ i > j)
    [] order = "alike" -> row[i].place > row[j].place
    [] order = "named" -> row[i].place < row[j].place

\* The orders PostgreSQL may return rows in; ties come in any.
Ordered(select) ==
  {s \in SetToSeqs(RowsOf(select)) :
     \A a, b \in 1..Len(s) : a < b => ~Before(select.order, s[b], s[a])}

Window(s, from, limit) ==
  IF limit = 0 THEN s ELSE SubSeq(s, from + 1, Min({from + limit, Len(s)}))

\* Faulty variant: OFFSET counts pages.
OffsetInPages(select) ==
  {Window(s, select.from * select.limit, select.limit) : s \in Ordered(select)}

Pages(select) == {Window(s, select.from, select.limit) : s \in Ordered(select)}

PlacesOf(select) == IF select.order \in {"newest", "oldest"} THEN {1} ELSE 1..MaxPlaces

Tied(select) ==
  \E i, j \in RowsOf(select) :
    i # j /\ ~Before(select.order, i, j) /\ ~Before(select.order, j, i)

ListsInit ==
  /\ \E made \in SUBSET RowIds : \E place \in [made -> 1..MaxPlaces], fits \in [made -> BOOLEAN] :
       row = [i \in RowIds |-> IF i \in made
                THEN [made |-> TRUE, fits |-> fits[i], place |-> place[i]] ELSE Absent]
  /\ list \in DOMAIN Answers(0, 0)
  /\ asked \in IF Answers(0, 0)[list].limit = 0 THEN {0} ELSE Limits
  /\ offset = 0 /\ done = FALSE
  /\ Listed = Fitting
  /\ \A i \in RowIds : row[i].place \in PlacesOf(Answer)
  /\ shown = [i \in RowIds |-> 0]
  /\ steady = Listed
  /\ left = 0 /\ came = 0 /\ drops = 0
  /\ tied = Tied(Answer)

ReadPage ==
  /\ ~done
  /\ \E s \in Pages(Answer) : \E dropped \in SUBSET ToSet(s) :
       LET got == ToSet(s) \ dropped IN
       /\ dropped # {} => Answer.drops /\ drops + Cardinality(dropped) <= MaxDrops
       /\ drops' = drops + Cardinality(dropped)
       /\ shown' = [i \in RowIds |-> IF i \in got THEN shown[i] + 1 ELSE shown[i]]
       /\ offset' = offset + Cardinality(got)
       /\ done' = (Answer.limit = 0 \/ got = {})
  /\ UNCHANGED <<list, row, asked, steady, left, came, tied>>

Meanwhile == offset > 0 /\ ~done /\ left + came < MaxChanges

\* Row i becomes r between two pages.
Becomes(i, r) ==
  /\ row' = [row EXCEPT ![i] = r]
  /\ steady' = steady \ {i}
  /\ left' = IF i \in Listed THEN left + 1 ELSE left
  /\ UNCHANGED <<list, asked, offset, done, shown, drops>>
  /\ came' = IF i \in Listed' THEN came + 1 ELSE came
  /\ tied' = (tied \/ Tied(Answer)')

\* Creation times are taken before the commit that makes the row visible.
AddRow(i) ==
  /\ Meanwhile /\ ~row[i].made
  /\ \E place \in PlacesOf(Answer) : Becomes(i, [made |-> TRUE, fits |-> TRUE, place |-> place])

\* Soft deletes and reactivations, claims that change status, relations that
\* end, calculations that are reversed.
MoveRow(i) ==
  /\ list \in {"items", "items_by_type", "review", "matches", "calculations"}
  /\ Meanwhile /\ row[i].made
  /\ Becomes(i, [row[i] EXCEPT !.fits = ~@])

\* UpdateItem and UpdateEntity; dates and creation times stay.
Rename(i) ==
  /\ list \in {"items", "items_by_type", "items_all", "entities", "matches"}
  /\ Meanwhile /\ row[i].made
  /\ \E place \in 1..MaxPlaces \ {row[i].place} : Becomes(i, [row[i] EXCEPT !.place = place])

ListsNext == ReadPage \/ \E i \in RowIds : AddRow(i) \/ MoveRow(i) \/ Rename(i)

-----------------------------------------------------------------------------
\* A client that reads a list to its end, past its own limit too, misses at
\* most one of the rows that stayed where they were for each row that left
\* meanwhile, and sees at most one twice for each that came, as long as no
\* lookup failed and no two rows were at the same place.  The list of
\* calculations repeats more: an offset inside a page is its beginning
\* (api/handler/tax_handler.go:109 says any offset works).
PagesShowAll ==
  done /\ ~tied /\ drops = 0 =>
    /\ Cardinality({i \in steady : shown[i] = 0}) <= left
    /\ list # "calculations" =>
         Cardinality({i \in RowIds : shown[i] > 1}) <= came
=============================================================================
