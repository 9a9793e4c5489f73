------------------------------ MODULE MCLedger ------------------------------
(***************************************************************************)
(* Instances of the ledger for TLC: the chart of accounts is cut down to   *)
(* the accounts of one or two journal rules (internal/accounting/rules.go).*)
(***************************************************************************)
EXTENDS Reports, TLC

MCAccounts == {"kas", "pendapatan"}

MCCash == {"kas"}

MCType == "kas" :> "asset" @@ "pendapatan" :> "revenue"

MCCreditNormal == {"pendapatan"}

\* With the owner's drawings (a contra account).  The revenue account is one
\* the client has added.
WithOwner == MCAccounts \cup {"prive"}

FromTemplate == {"kas", "prive"}

OwnerType == MCType @@ "prive" :> "equity"

Entries2(debit, credit, x) ==
  <<[account |-> debit, amount |-> x], [account |-> credit, amount |-> -x]>>

\* Rule PENDAPATAN_USAHA.
Sale == Entries2("kas", "pendapatan", 2)

\* Manual journals: two items sold, a line for each, as every rule with PPN
\* has two lines on kas; and a sale of 5 of which the owner kept 1.
TwoItems ==
  <<[account |-> "kas", amount |-> 2], [account |-> "kas", amount |-> 1],
    [account |-> "pendapatan", amount |-> -3]>>

SoldAndDrawn ==
  <<[account |-> "kas", amount |-> 4], [account |-> "prive", amount |-> 1],
    [account |-> "pendapatan", amount |-> -5]>>

\* A manual journal one cent short of balance, with the accounts in the
\* other order: two workers may deadlock on the rows of account_balances.
ShortByACent ==
  <<[account |-> "pendapatan", amount |-> -2], [account |-> "kas", amount |-> 3]>>


\* A manual journal without lines.
NoLines == <<>>

OneSale == {Sale}
SaleShortEmpty == {Sale, ShortByACent, NoLines}
TwoAndOwner == {TwoItems, SoldAndDrawn}

WorkersAlike == Permutations(Workers) \cup Permutations(Clients)
=============================================================================
