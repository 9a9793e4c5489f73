------------------------------- MODULE Ledger -------------------------------
(***************************************************************************)
(* Double-entry bookkeeping of one workspace: the transactions a client    *)
(* creates and voids (internal/accounting/service.go) and the ledger       *)
(* worker that posts them (internal/accounting/ledger_worker.go), over the *)
(* tables of migration 014 and the statements of queries/accounting.sql.   *)
(*                                                                         *)
(* PostgreSQL runs at READ COMMITTED: a transaction sees what others have  *)
(* committed and what it wrote itself.  A posting is therefore a sequence  *)
(* of steps that collect entries in own, made visible by one last step.    *)
(*                                                                         *)
(* Amounts are integers in cents; a journal line has a positive amount for *)
(* a debit and a negative one for a credit.  Rounding inside NUMERIC(15,2) *)
(* and the currency are left out.                                          *)
(***************************************************************************)
EXTENDS Integers, Sequences, FiniteSets, FiniteSetsExt

CONSTANTS
  Accounts,         \* the chart of accounts
  AccountType,      \* accounts.account_type
  CreditNormal,     \* the accounts whose normal_balance is CREDIT
  Journals,         \* the journals that clients and the rule engine produce
  Months,           \* the periods, 1..n
  Tolerance,        \* balanceEpsilon, in cents
  Clients,          \* concurrent requests that void
  Workers,          \* running instances of the ledger worker
  MaxTransactions,  \* bound on the transactions
  MaxDeliveries,    \* bound on the deliveries of an event
  MaxAborts         \* bound on failed database transactions

ASSUME LedgerAssumption ==
  /\ CreditNormal \subseteq Accounts
  /\ AccountType \in
       [Accounts -> {"asset", "liability", "equity", "revenue", "expense"}]
  /\ Journals \subseteq Seq([account : Accounts, amount : Int \ {0}])
  /\ Months \subseteq Nat
  /\ Tolerance \in Nat
  /\ MaxTransactions \in Nat /\ MaxDeliveries \in Nat /\ MaxAborts \in Nat

VARIABLES
  txs,       \* transactions with their journal_entries; the index is the number
  ledger,    \* ledger_entries, committed
  balances,  \* account_balances, committed
  work,      \* work[w]: the posting in progress in w
  voiding,   \* voiding[c]: the transaction c is voiding, 0 for none
  clock,     \* the latest posted_at given out
  delivered, \* delivered[t]: deliveries of TransactionCreated for t
  alarms,    \* postings after which the equation check logged a warning
  aborts     \* database transactions failed so far

ledgerVars ==
  <<txs, ledger, balances, work, voiding, clock, delivered, alarms, aborts>>

Numbers == 1..MaxTransactions

Line == [account : Accounts, amount : Int \ {0}]

Transaction ==
  [status : {"DRAFT", "POSTED", "VOID", "FAILED"}, lines : Seq(Line),
   month : Months, reverses : 0..MaxTransactions]

\* posted_at is at; id orders the entries of one posting on one account.
Entry ==
  [tx : Numbers, line : Nat, account : Accounts, amount : Int \ {0},
   running : Int, at : Nat, id : Nat]

Balance == [debit : Nat, credit : Nat, ending : Int, count : Nat]

Idle == [at |-> "idle", tx |-> 0, line |-> 0, stamp |-> 0, own |-> {}]

Fetched(t) == [at |-> "fetched", tx |-> t, line |-> 0, stamp |-> 0, own |-> {}]

Work ==
  [at : {"idle", "fetched", "line", "upsert"}, tx : 0..MaxTransactions,
   line : Nat, stamp : Nat, own : SUBSET Entry]

LedgerInit ==
  /\ txs = <<>>
  /\ ledger = {}
  /\ balances = [r \in Accounts \X Months |->
                   [debit |-> 0, credit |-> 0, ending |-> 0, count |-> 0]]
  /\ work = [w \in Workers |-> Idle]
  /\ voiding = [c \in Clients |-> 0]
  /\ clock = 0
  /\ delivered = [t \in Numbers |-> 0]
  /\ alarms = {}
  /\ aborts = 0

-----------------------------------------------------------------------------
(* Sums and balances.                                                      *)

Debit(x) == IF x > 0 THEN x ELSE 0

Credit(x) == IF x < 0 THEN -x ELSE 0

NetOfLines(lines) ==
  MapThenSumSet(LAMBDA i : lines[i].amount, DOMAIN lines)

NetOf(entries) == MapThenSumSet(LAMBDA e : e.amount, entries)

\* balancesEqual: debit and credit may differ by the tolerance.  In float64 a
\* difference of exactly the tolerance passes for some amounts only.
Balanced(lines) == NetOfLines(lines) \in (-Tolerance)..Tolerance

\* applyNormalBalance.
Signed(account, amount) == IF account \in CreditNormal THEN -amount ELSE amount

On(account, entries) == {e \in entries : e.account = account}

Before(e, f) == e.at < f.at \/ (e.at = f.at /\ e.id < f.id)

Latest(account, entries) ==
  {e \in On(account, entries) : \A f \in On(account, entries) : ~Before(e, f)}

Earliest(account, entries) ==
  {e \in On(account, entries) : \A f \in On(account, entries) : ~Before(f, e)}

RunningOf(entries) ==
  IF entries = {} THEN 0 ELSE (CHOOSE e \in entries : TRUE).running

\* Faulty variant: ORDER BY without DESC.
FirstBalance(account, entries) == RunningOf(Earliest(account, entries))

\* GetLastLedgerBalance: ORDER BY posted_at DESC, id DESC LIMIT 1.
LastBalance(account, entries) == RunningOf(Latest(account, entries))

\* validateAccountingEquation: the sum over the accounts of one type.
TypeTotal(type, entries) ==
  MapThenSumSet(LAMBDA a : LastBalance(a, entries),
                {a \in Accounts : AccountType[a] = type})

EquationHolds(entries) ==
  TypeTotal("asset", entries)
    - (TypeTotal("liability", entries) + TypeTotal("equity", entries)
         - TypeTotal("revenue", entries) - TypeTotal("expense", entries))
  \in (-Tolerance)..Tolerance

-----------------------------------------------------------------------------
(* Requests.                                                               *)

\* CreateTransaction commits header, journal and event at once.  Of two
\* requests that computed the same number the unique constraint fails one.
CreateTransaction ==
  /\ Len(txs) < MaxTransactions
  /\ \E lines \in Journals, m \in Months :
       /\ Balanced(lines)
       /\ txs' = Append(txs, [status |-> "DRAFT", lines |-> lines,
                              month |-> m, reverses |-> 0])
  /\ UNCHANGED <<ledger, balances, work, voiding, clock, delivered, alarms, aborts>>

\* VoidTransaction reads the status before its database transaction.
StartVoid(c) ==
  /\ voiding[c] = 0
  /\ \E t \in DOMAIN txs :
       /\ txs[t].status = "POSTED"
       /\ voiding' = [voiding EXCEPT ![c] = t]
  /\ UNCHANGED <<txs, ledger, balances, work, clock, delivered, alarms, aborts>>

\* Faulty variant: debit and credit keep their sides.
SameLines(lines) == lines

\* The reversal's journal: debit and credit change sides.
SwappedLines(lines) ==
  [i \in DOMAIN lines |-> [lines[i] EXCEPT !.amount = -@]]

\* The reversal, dated today, with the mark on the original, in one commit.
CommitVoid(c) ==
  /\ voiding[c] # 0 /\ Len(txs) < MaxTransactions
  /\ \E m \in Months :
       txs' = Append([txs EXCEPT ![voiding[c]].status = "VOID"],
                     [status |-> "DRAFT", month |-> m, reverses |-> voiding[c],
                      lines |-> SwappedLines(txs[voiding[c]].lines)])
  /\ voiding' = [voiding EXCEPT ![c] = 0]
  /\ UNCHANGED <<ledger, balances, work, clock, delivered, alarms, aborts>>

\* The number was taken meanwhile, or the database failed: rolled back.
AbortVoid(c) ==
  /\ voiding[c] # 0
  /\ voiding' = [voiding EXCEPT ![c] = 0]
  /\ UNCHANGED <<txs, ledger, balances, work, clock, delivered, alarms, aborts>>

-----------------------------------------------------------------------------
(* HandleTransactionCreated.                                               *)

Posting(w) == txs[work[w].tx]

\* The entry a worker is writing.
CurrentLine(w) == Posting(w).lines[work[w].line]

\* Faulty variant: the status is not looked at.
FetchWhateverStatus(w) ==
  /\ work[w].at = "idle"
  /\ \E t \in DOMAIN txs :
       /\ delivered[t] < MaxDeliveries
       /\ delivered' = [delivered EXCEPT ![t] = @ + 1]
       /\ work' = [work EXCEPT ![w] = Fetched(t)]
  /\ UNCHANGED <<txs, ledger, balances, voiding, clock, alarms, aborts>>

\* The event arrives, perhaps not for the first time; only a DRAFT is posted.
Fetch(w) ==
  /\ work[w].at = "idle"
  /\ \E t \in DOMAIN txs :
       /\ delivered[t] < MaxDeliveries
       /\ delivered' = [delivered EXCEPT ![t] = @ + 1]
       /\ IF txs[t].status = "DRAFT"
          THEN work' = [work EXCEPT ![w] = Fetched(t)]
          ELSE UNCHANGED work
  /\ UNCHANGED <<txs, ledger, balances, voiding, clock, alarms, aborts>>

Postable(lines) == lines # <<>> /\ Balanced(lines)

\* MarkTransactionFailed, in a statement of its own.
Refuse(w) ==
  /\ work[w].at = "fetched" /\ ~Postable(Posting(w).lines)
  /\ txs' = [txs EXCEPT ![work[w].tx].status = "FAILED"]
  /\ work' = [work EXCEPT ![w] = Idle]
  /\ UNCHANGED <<ledger, balances, voiding, clock, delivered, alarms, aborts>>

\* The database transaction begins and now is taken.
Begin(w) ==
  /\ work[w].at = "fetched" /\ Postable(Posting(w).lines)
  /\ clock' = clock + 1
  /\ work' = [work EXCEPT ![w].at = "line", ![w].line = 1, ![w].stamp = clock + 1]
  /\ UNCHANGED <<txs, ledger, balances, voiding, delivered, alarms, aborts>>

\* The ids this posting has left for an account: uuids, so in any order.
FreeIds(w, account) ==
  1..Cardinality({i \in DOMAIN Posting(w).lines : Posting(w).lines[i].account = account})
    \ {e.id : e \in On(account, work[w].own)}

\* GetLastLedgerBalance, then the insert of the entry computed from it.
WriteEntry(w) ==
  /\ work[w].at = "line" /\ work[w].line \in DOMAIN Posting(w).lines
  /\ LET account == CurrentLine(w).account
         amount == CurrentLine(w).amount
     IN \E id \in FreeIds(w, account) :
          work' = [work EXCEPT
            ![w].at = "upsert",
            ![w].own = @ \cup
              {[tx |-> work[w].tx, line |-> work[w].line, account |-> account,
                amount |-> amount, at |-> work[w].stamp, id |-> id,
                running |-> LastBalance(account, ledger \cup work[w].own)
                              + Signed(account, amount)]}]
  /\ UNCHANGED <<txs, ledger, balances, voiding, clock, delivered, alarms, aborts>>

\* The rows of account_balances w has upserted and holds until it commits.
Locked(w) ==
  {<<e.account, Posting(w).month>> : e \in {f \in work[w].own : f.line < work[w].line}}

\* The workers w has to wait for before its next upsert.
WaitsFor(w) ==
  {v \in Workers \ {w} :
     work[w].at = "upsert" /\ <<CurrentLine(w).account, Posting(w).month>> \in Locked(v)}

\* UpsertAccountBalance, once nobody else holds the row.
Upsert(w) ==
  /\ work[w].at = "upsert" /\ WaitsFor(w) = {}
  /\ work' = [work EXCEPT ![w].at = "line", ![w].line = @ + 1]
  /\ UNCHANGED <<txs, ledger, balances, voiding, clock, delivered, alarms, aborts>>

\* Faulty variant: the totals are replaced instead of added to.
ReplacedBalance(b, entries) ==
  IF entries = {} THEN b
  ELSE [debit |-> MapThenSumSet(LAMBDA e : Debit(e.amount), entries),
        credit |-> MapThenSumSet(LAMBDA e : Credit(e.amount), entries),
        ending |-> (CHOOSE e \in entries : \A f \in entries : f.line <= e.line).running,
        count |-> b.count + Cardinality(entries)]

\* Faulty variant: ending_balance is added to as well.
AddedBalance(b, entries) ==
  IF entries = {} THEN b
  ELSE [debit |-> b.debit + MapThenSumSet(LAMBDA e : Debit(e.amount), entries),
        credit |-> b.credit + MapThenSumSet(LAMBDA e : Credit(e.amount), entries),
        ending |-> b.ending
                     + (CHOOSE e \in entries : \A f \in entries : f.line <= e.line).running,
        count |-> b.count + Cardinality(entries)]

\* DO UPDATE SET, for the entries of one posting on one row, in order.
UpsertedBalance(b, entries) ==
  IF entries = {} THEN b
  ELSE [debit |-> b.debit + MapThenSumSet(LAMBDA e : Debit(e.amount), entries),
        credit |-> b.credit + MapThenSumSet(LAMBDA e : Credit(e.amount), entries),
        ending |-> (CHOOSE e \in entries : \A f \in entries : f.line <= e.line).running,
        count |-> b.count + Cardinality(entries)]

\* Faulty variant: the commit is lost after the status was written.
PostWithoutEntries(w) ==
  /\ work[w].at = "line" /\ work[w].line > Len(Posting(w).lines)
  /\ txs' = [txs EXCEPT ![work[w].tx].status = "POSTED"]
  /\ work' = [work EXCEPT ![w] = Idle]
  /\ UNCHANGED <<ledger, balances, alarms, voiding, clock, delivered, aborts>>

\* MarkTransactionPosted (whatever the status has become), the soft check of
\* the equation, EmitEvent(LedgerPosted) and the commit of it all.
Post(w) ==
  /\ work[w].at = "line" /\ work[w].line > Len(Posting(w).lines)
  /\ txs' = [txs EXCEPT ![work[w].tx].status = "POSTED"]
  /\ ledger' = ledger \cup work[w].own
  /\ balances' = [r \in Accounts \X Months |->
                    IF r[2] = Posting(w).month
                    THEN UpsertedBalance(balances[r], On(r[1], work[w].own))
                    ELSE balances[r]]
  /\ alarms' = IF EquationHolds(ledger \cup work[w].own)
               THEN alarms ELSE alarms \cup {work[w].stamp}
  /\ work' = [work EXCEPT ![w] = Idle]
  /\ UNCHANGED <<voiding, clock, delivered, aborts>>

\* LedgerPosted events of a transaction: one per committed posting.
LedgerPosted(t) == {e.at : e \in {f \in ledger : f.tx = t}}

Deadlocked(w) == \E v \in WaitsFor(w) : w \in WaitsFor(v)

\* Faulty variant: the entries written so far stay.
RollbackKeepsEntries(w) ==
  /\ work[w].at # "idle"
  /\ aborts < MaxAborts /\ aborts' = aborts + 1
  /\ work' = [work EXCEPT ![w] = Idle]
  /\ ledger' = ledger \cup work[w].own
  /\ UNCHANGED <<txs, balances, voiding, clock, delivered, alarms>>

\* A statement fails, the worker stops, or PostgreSQL breaks a deadlock:
\* everything is rolled back and the event will be delivered again.
Rollback(w) ==
  /\ work[w].at # "idle"
  /\ IF Deadlocked(w) THEN UNCHANGED aborts
     ELSE aborts < MaxAborts /\ aborts' = aborts + 1
  /\ work' = [work EXCEPT ![w] = Idle]
  /\ UNCHANGED <<txs, ledger, balances, voiding, clock, delivered, alarms>>

-----------------------------------------------------------------------------
ClientStep(c) == StartVoid(c) \/ CommitVoid(c) \/ AbortVoid(c)

WorkerStep(w) ==
  \/ Fetch(w) \/ Refuse(w) \/ Begin(w) \/ WriteEntry(w) \/ Upsert(w)
  \/ Post(w) \/ Rollback(w)

LedgerNext ==
  \/ CreateTransaction
  \/ \E c \in Clients : ClientStep(c)
  \/ \E w \in Workers : WorkerStep(w)

LedgerSpec == LedgerInit /\ [][LedgerNext]_ledgerVars

-----------------------------------------------------------------------------
(* Properties that hold for any number of workers and clients.             *)

TypesButTotals ==
  /\ txs \in Seq(Transaction) /\ Len(txs) <= MaxTransactions
  /\ ledger \subseteq Entry
  /\ work \in [Workers -> Work]
  /\ voiding \in [Clients -> 0..MaxTransactions]
  /\ clock \in Nat
  /\ delivered \in [Numbers -> Nat]
  /\ alarms \subseteq Nat
  /\ aborts \in Nat

\* The types of the tables and of the postings in progress.
LedgerTypeOK == TypesButTotals /\ balances \in [Accounts \X Months -> Balance]

\* A posting is in the ledger whole or not at all: the entries with one
\* posted_at belong to one transaction and are all the lines of its journal
\* (the single commit of HandleTransactionCreated).
PostingsAreWhole ==
  \A e \in ledger :
    LET posting == {f \in ledger : f.at = e.at}
    IN /\ \A f \in posting : f.tx = e.tx
       /\ {f.line : f \in posting} = DOMAIN txs[e.tx].lines

\* What a transaction's status says about the ledger: entries once it is
\* posted, also after it is voided, and none while it is a draft or failed.
LedgerFollowsStatus ==
  \A t \in DOMAIN txs :
    txs[t].status \in {"POSTED", "VOID"} <=> \E e \in ledger : e.tx = t

-----------------------------------------------------------------------------
(* Properties that need a single worker.                                   *)

\* An event delivered again, after a rollback or a success, is posted once.
PostedOnce == \A t \in DOMAIN txs : Cardinality(LedgerPosted(t)) <= 1

\* The life of a transaction: a draft is posted or refused, a posted one is
\* voided, and nothing else ever happens to a status.
StatusSteps ==
  [][\A t \in DOMAIN txs :
       <<txs[t].status, txs'[t].status>> \in
         {<<"DRAFT", "POSTED">>, <<"DRAFT", "FAILED">>, <<"POSTED", "VOID">>}
           \cup {<<s, s>> : s \in {"DRAFT", "POSTED", "VOID", "FAILED"}}]_txs

\* The order entries are written in; Before is the one they are read in.
WrittenBefore(e, f) == e.at < f.at \/ (e.at = f.at /\ e.line < f.line)

OnePerPosting(entries) == \A e, f \in entries : e.at = f.at => e = f

\* An entry's running balance is the sum of its account up to it, unless a
\* posting before it has touched the account twice (a sale with PPN does: the
\* next posting then reads either of the two).
RunsIn(entries) ==
  \A e \in entries :
    LET earlier == {f \in On(e.account, entries) : WrittenBefore(f, e)} IN
    OnePerPosting(earlier) => e.running = Signed(e.account, NetOf(earlier) + e.amount)

\* ending_balance is the running balance of the entry written last of the
\* account's entries dated in the period.
EndsWithLast(r) ==
  LET row == {e \in On(r[1], ledger) : txs[e.tx].month = r[2]} IN
  \/ row = {} /\ balances[r].ending = 0
  \/ \E e \in row : /\ \A f \in row : ~WrittenBefore(e, f)
                    /\ balances[r].ending = e.running

\* Running and ending balances are the sums they stand for, whatever was
\* redelivered, rolled back or voided in between.
RunningBalances ==
  RunsIn(ledger) /\ \A r \in Accounts \X Months : EndsWithLast(r)

Reversals(t) == {s \in DOMAIN txs : txs[s].reverses = t}

\* A voided transaction and its reversal cancel out on every account, once
\* the reversal is posted: true as long as requests void one at a time.
VoidNetsToZero ==
  \A t \in DOMAIN txs :
    txs[t].status = "VOID" /\ (\A s \in Reversals(t) : LedgerPosted(s) # {}) =>
      \A a \in Accounts :
        NetOf({e \in On(a, ledger) : e.tx \in {t} \cup Reversals(t)}) = 0

-----------------------------------------------------------------------------
(* The invariants behind PostingsAreWhole, PostedOnce and StatusSteps.     *)

Busy(w) == work[w].at # "idle"

Writing(w) == work[w].at \in {"line", "upsert"}

\* What a posting in progress has collected: the entries of the lines up to
\* the one it is at, all with its stamp.
OwnInvOf(w) ==
  /\ Busy(w) => work[w].tx \in DOMAIN txs
  /\ ~Writing(w) => work[w].own = {}
  /\ \A e \in work[w].own : e.at = work[w].stamp /\ e.tx = work[w].tx
  /\ work[w].at = "line" =>
       /\ work[w].line \in 1..(Len(Posting(w).lines) + 1)
       /\ {e.line : e \in work[w].own} = 1..(work[w].line - 1)
  /\ work[w].at = "upsert" =>
       /\ work[w].line \in 1..Len(Posting(w).lines)
       /\ {e.line : e \in work[w].own} = 1..work[w].line

OwnInv == \A w \in Workers : OwnInvOf(w)

\* No two postings, finished or in progress, have the same stamp.
StampInv ==
  /\ \A w \in Workers : Writing(w) => work[w].stamp \in 1..clock
  /\ \A v, w \in Workers :
       Writing(v) /\ Writing(w) /\ work[v].stamp = work[w].stamp => v = w
  /\ \A e \in ledger : e.at \in 1..clock /\ e.tx \in DOMAIN txs
  /\ \A e \in ledger, w \in Workers : Writing(w) => e.at # work[w].stamp

VoidingInv == \A c \in Clients : voiding[c] \in 0..Len(txs)

PostingInv ==
  TypesButTotals /\ OwnInv /\ StampInv /\ VoidingInv /\ PostingsAreWhole

\* With one worker a posting in progress is that of a draft, and nothing
\* but a posting makes entries.
OnceInv ==
  /\ \A w \in Workers : Busy(w) => Posting(w).status = "DRAFT"
  /\ \A c \in Clients :
       voiding[c] # 0 => txs[voiding[c]].status \in {"POSTED", "VOID"}
  /\ \A e \in ledger : txs[e.tx].status \in {"POSTED", "VOID"}
  /\ \A e, f \in ledger : e.tx = f.tx => e.at = f.at

-----------------------------------------------------------------------------
(* What the documentation and the comments say, for the runs that refute   *)
(* it.                                                                     *)

\* USER_FLOW.md: a void's "net effect = 0", whoever else asks for it.
VoidNetEffectIsZero == VoidNetsToZero

\* The ledger worker's "ending_balance = cumulative running balance", also
\* for journals with two lines on one account (every sale with PPN).
EndingIsCumulative ==
  \A r \in Accounts \X Months : balances[r].count > 0 =>
    \E e \in On(r[1], ledger) :
      /\ e.running = balances[r].ending
      /\ e.running = Signed(r[1], NetOf({f \in On(r[1], ledger) : f.at <= e.at}))

\* The equation check: a warning means that debit and credit of the ledger
\* differ ("Validate accounting equation (A = L + E)").
AlarmMeansImbalance == NetOf(ledger) = 0 => alarms = {}
=============================================================================
