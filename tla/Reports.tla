------------------------------- MODULE Reports -------------------------------
(***************************************************************************)
(* The financial reports of internal/accounting/report_service.go.  Each   *)
(* is one statement over the committed tables, hence an operator of the    *)
(* ledger's state.  Trial balance, balance sheet and income statement sum  *)
(* account_balances, for the active accounts only; the cash flow sums      *)
(* ledger_entries.  A transaction is dated by its month.                   *)
(*                                                                         *)
(* Next to the ledger's steps there is the one update of the chart that    *)
(* the reports depend on: UpdateAccount of coa_service.go (whole in        *)
(* module Edits) deactivates accounts, also those with entries.            *)
(***************************************************************************)
EXTENDS Ledger

CONSTANTS
  SystemAccounts,  \* accounts.is_system: those of the template
  CashAccounts     \* the accounts 1-1001 and 1-1002

ASSUME ReportsAssumption ==
  CashAccounts \subseteq SystemAccounts /\ SystemAccounts \subseteq Accounts

VARIABLE active  \* the accounts with is_active

ReportsInit == LedgerInit /\ active = Accounts

\* UpdateAccount: a request without is_active sets it.  Entries and balances
\* are not looked at, and neither rules nor journals look at is_active.
UpdateAccount ==
  /\ \E a \in Accounts \ SystemAccounts :
       active' \in {active \cup {a}, active \ {a}}
  /\ UNCHANGED ledgerVars

ReportsNext ==
  \/ LedgerNext /\ UNCHANGED active
  \/ UpdateAccount

ReportsSpec == ReportsInit /\ [][ReportsNext]_<<ledgerVars, active>>

Periods(from, to) == {m \in Months : from <= m /\ m <= to}

TotalDebit(a, periods) == MapThenSumSet(LAMBDA m : balances[<<a, m>>].debit, periods)

TotalCredit(a, periods) == MapThenSumSet(LAMBDA m : balances[<<a, m>>].credit, periods)

\* SUM(ending_balance), with the sign applyNormalBalance has given it.
EndingSum(a, periods) == MapThenSumSet(LAMBDA m : balances[<<a, m>>].ending, periods)

\* GetTrialBalance: the active accounts that moved.
TrialBalance(from, to) ==
  LET periods == Periods(from, to) IN
  {[account |-> a, debit |-> TotalDebit(a, periods), credit |-> TotalCredit(a, periods),
    balance |-> EndingSum(a, periods)] :
     a \in {b \in active : TotalDebit(b, periods) > 0 \/ TotalCredit(b, periods) > 0}}

OfType(types) == {a \in active : AccountType[a] \in types}

\* The rows of one kind of account with a balance, and what they come to.
Section(type, periods) ==
  {r \in {[account |-> a, balance |-> EndingSum(a, periods)] : a \in OfType({type})} :
     r.balance # 0}

SectionTotal(rows) == MapThenSumSet(LAMBDA r : r.balance, rows)

\* GetBalanceSheet: IsBalanced compares what is on the sheet, and only that.
BalanceSheet(m) ==
  LET periods == Periods(0, m)
      assets == Section("asset", periods)
      liabilities == Section("liability", periods)
      equity == Section("equity", periods)
  IN [lines |-> assets \cup liabilities \cup equity,
      balanced |-> SectionTotal(assets) = SectionTotal(liabilities) + SectionTotal(equity)]

\* GetIncomeStatement, which turns the sign of the revenue once more.
IncomeStatement(from, to) ==
  LET revenue == Section("revenue", Periods(from, to))
      expenses == Section("expense", Periods(from, to))
  IN [lines |-> revenue \cup expenses,
      totalRevenue |-> -SectionTotal(revenue),
      totalExpense |-> SectionTotal(expenses),
      netIncome |-> -SectionTotal(revenue) - SectionTotal(expenses)]

CashEntries(from, to) ==
  {e \in ledger : e.account \in CashAccounts /\ txs[e.tx].month \in Periods(from, to)}

\* GetCashFlow: one row for each date with an entry.
CashFlow(from, to) ==
  [m \in {txs[e.tx].month : e \in CashEntries(from, to)} |->
     LET entries == {e \in CashEntries(from, to) : txs[e.tx].month = m} IN
     [debit |-> MapThenSumSet(LAMBDA e : Debit(e.amount), entries),
      credit |-> MapThenSumSet(LAMBDA e : Credit(e.amount), entries),
      net |-> NetOf(entries)]]

-----------------------------------------------------------------------------
\* What the entries of some accounts dated in some months come to.
NetWithin(accounts, periods) ==
  NetOf({e \in ledger : e.account \in accounts /\ txs[e.tx].month \in periods})

\* The reports of one range agree although they come from two tables that
\* workers write side by side.  The trial balance misses as much debit or
\* credit as there is on the accounts that were deactivated, and nothing else
\* but the tolerance of each posting; the cash flow comes to what the cash
\* accounts moved by, which nobody can deactivate.
ReportsAgree ==
  \A from, to \in Months :
    LET trial == TrialBalance(from, to)
        missing == NetWithin(Accounts \ active, Periods(from, to))
        drift == Tolerance * Cardinality({e.at : e \in ledger})
        flow == CashFlow(from, to)
        cash == {r \in trial : r.account \in CashAccounts}
    IN /\ MapThenSumSet(LAMBDA r : r.debit - r.credit, trial) + missing \in (-drift)..drift
       /\ MapThenSumSet(LAMBDA m : flow[m].net, DOMAIN flow)
            = MapThenSumSet(LAMBDA r : r.debit - r.credit, cash)

\* The entries of an account up to the last one dated in month n, in the
\* order they were written in.
WrittenUpTo(a, n) ==
  {f \in On(a, ledger) :
     \E e \in On(a, ledger) : txs[e.tx].month = n /\ ~WrittenBefore(e, f)}

\* What a sum of ending balances stands for: month by month, all that the
\* account had by then, whatever it was dated.
Shown(a, periods) == MapThenSumSet(LAMBDA n : NetOf(WrittenUpTo(a, n)), periods)

ShownOn(accounts, periods) == MapThenSumSet(LAMBDA a : Shown(a, periods), accounts)

\* The accounts of the reports no posting has touched twice.
Plain == {a \in active : OnePerPosting(On(a, ledger))}

\* The accounts of the sheet whose normal side is not that of their type, as
\* accumulated depreciation and the owner's drawings (coa_template.go).
Contra ==
  {a \in active :
     \/ AccountType[a] = "asset" /\ a \in CreditNormal
     \/ AccountType[a] \in {"liability", "equity"} /\ a \notin CreditNormal}

\* The rows a section should have for some of its accounts.
RowsShown(accounts, periods) ==
  {r \in {[account |-> a, balance |-> Signed(a, Shown(a, periods))] : a \in accounts} :
     r.balance # 0}

\* Sheet and statement against the ledger, with one worker.  Each active
\* account with a balance has its row, and the row is the sum of what the
\* account had after the last posting of each month: an earlier month counts
\* again in every later one, and a back-dated posting counts what is dated
\* after it.  The sheet holds no result of the year and adds contra accounts
\* where it should subtract them, so it is "balanced" just when income,
\* expenses and twice the contra accounts come to what all accounts do.
ReportsFollowLedger ==
  LET plain == Plain
      income == OfType({"revenue", "expense"})
      RowsOn(report) == {r \in report.lines : r.account \in plain}
  IN \A to \in Months :
       LET sheet == BalanceSheet(to)
           periods == Periods(0, to)
       IN /\ RowsOn(sheet) = RowsShown(plain \ income, periods)
          /\ \A from \in Months :
               RowsOn(IncomeStatement(from, to))
                 = RowsShown(plain \cap income, Periods(from, to))
          /\ plain = active =>
               (sheet.balanced <=>
                  ShownOn(income, periods) + 2 * ShownOn(Contra, periods)
                    = ShownOn(active, periods))

-----------------------------------------------------------------------------
(* What comments and the documentation say of the reports.                 *)

\* report_service.go: "cumulative balances up to the given period".
SheetIsCumulative ==
  \A a \in Accounts, m \in Months :
    EndingSum(a, Periods(0, m)) = Signed(a, NetWithin({a}, Periods(0, m)))

\* USER_FLOW.md: an income statement with a positive total_revenue whose
\* net_income is what is left of it after total_expenses.
IncomeIsPositive ==
  \A m \in Months :
    LET statement == IncomeStatement(m, m) IN
    (\A r \in statement.lines : r.balance > 0) => statement.totalRevenue >= 0
=============================================================================
