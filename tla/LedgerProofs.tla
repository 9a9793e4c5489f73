---------------------------- MODULE LedgerProofs ----------------------------
(***************************************************************************)
(* Theorems about Ledger and Reports, for any accounts, journals, clients, *)
(* bounds and tolerance.  For any number of workers postings are whole,    *)
(* the ledger holds what the statuses say and reports of one range agree;  *)
(* with one worker every transaction is posted once, its status only moves *)
(* forward, voids net to zero, balances are the sums they stand for and    *)
(* sheet and statement are what the ledger says.                           *)
(***************************************************************************)
EXTENDS Reports, SumTheorems

-----------------------------------------------------------------------------
(* Operators.                                                              *)

\* What appending to a table leaves alone.
LEMMA Appended ==
  ASSUME NEW s \in Seq(Transaction), NEW x \in Transaction
  PROVE  /\ Append(s, x) \in Seq(Transaction)
         /\ Len(Append(s, x)) = Len(s) + 1
         /\ DOMAIN Append(s, x) = 1..(Len(s) + 1)
         /\ \A i \in 1..Len(s) : Append(s, x)[i] = s[i]
         /\ Append(s, x)[Len(s) + 1] = x
  OBVIOUS

\* A table of transactions after UPDATE ... SET status = v WHERE id = t.
Restate(s, t, v) == [s EXCEPT ![t].status = v]

\* What changing the status of one transaction leaves alone.
LEMMA Restated ==
  ASSUME NEW s \in Seq(Transaction), NEW t \in DOMAIN s,
         NEW v \in {"DRAFT", "POSTED", "VOID", "FAILED"}
  PROVE  /\ Restate(s, t, v) \in Seq(Transaction)
         /\ Len(Restate(s, t, v)) = Len(s) /\ DOMAIN Restate(s, t, v) = DOMAIN s
         /\ \A i \in DOMAIN s : Restate(s, t, v)[i].lines = s[i].lines
         /\ \A i \in DOMAIN s : i # t => Restate(s, t, v)[i] = s[i]
         /\ Restate(s, t, v)[t].status = v
<1> DEFINE r == Restate(s, t, v)
<1>1. DOMAIN s = 1..Len(s) /\ Len(s) \in Nat
  OBVIOUS
<1>2. \A i \in 1..Len(s) : s[i] \in Transaction
  OBVIOUS
<1>3. \A i \in 1..Len(s) : r[i] \in Transaction
  BY <1>1, <1>2 DEF Transaction, Restate
<1>4. r = [i \in 1..Len(s) |-> r[i]]
  BY <1>1 DEF Restate
<1>5. r \in Seq(Transaction) /\ Len(r) = Len(s)
  BY <1>1, <1>3, <1>4
<1> QED BY <1>1, <1>2, <1>5 DEF Transaction, Restate

\* A reversal's journal is a journal.
LEMMA SwappedTyped ==
  ASSUME NEW lines \in Seq(Line)
  PROVE  SwappedLines(lines) \in Seq(Line)
<1>1. DOMAIN lines = 1..Len(lines) /\ Len(lines) \in Nat
  OBVIOUS
<1>2. ASSUME NEW l \in Line
      PROVE  [l EXCEPT !.amount = -@] \in Line
  BY DEF Line
<1>3. \A i \in 1..Len(lines) : lines[i] \in Line
  OBVIOUS
<1> QED BY <1>1, <1>2, <1>3 DEF SwappedLines

LEMMA RunningTyped ==
  ASSUME NEW account, NEW entries \in SUBSET Entry
  PROVE  LastBalance(account, entries) \in Int
<1>1. Latest(account, entries) \subseteq Entry
  BY DEF Latest, On
<1> QED BY <1>1 DEF LastBalance, RunningOf, Entry

\* The ids are a subset of the numbers up to a cardinality.
LEMMA FreeIdsTyped ==
  ASSUME NEW w, NEW account, Posting(w).lines \in Seq(Line)
  PROVE  FreeIds(w, account) \subseteq Nat
<1> DEFINE on == {i \in DOMAIN Posting(w).lines : Posting(w).lines[i].account = account}
<1>1. IsFiniteSet(1..Len(Posting(w).lines))
  BY FS_Interval
<1>2. IsFiniteSet(on)
  BY <1>1, FS_Subset
<1>3. Cardinality(on) \in Nat
  BY <1>2, FS_CardinalityType
<1> QED BY <1>3 DEF FreeIds

-----------------------------------------------------------------------------
(* The table of transactions.                                              *)

\* Transactions are never deleted and their journals never change.
LEMMA JournalsAreFinal ==
  ASSUME TypesButTotals, OwnInv, VoidingInv, [LedgerNext]_ledgerVars
  PROVE  /\ txs' \in Seq(Transaction)
         /\ Len(txs) <= Len(txs') /\ Len(txs') <= MaxTransactions
         /\ DOMAIN txs \subseteq DOMAIN txs'
         /\ \A t \in DOMAIN txs : txs'[t].lines = txs[t].lines
<1> USE LedgerAssumption
<1>0. /\ txs \in Seq(Transaction) /\ Len(txs) <= MaxTransactions
      /\ DOMAIN txs = 1..Len(txs) /\ Len(txs) \in Nat
  BY DEF TypesButTotals
<1>1. ASSUME CreateTransaction
      PROVE  /\ Len(txs) < MaxTransactions
             /\ \E x \in Transaction : txs' = Append(txs, x)
  <2>1. PICK lines \in Journals, m \in Months :
          txs' = Append(txs, [status |-> "DRAFT", lines |-> lines,
                              month |-> m, reverses |-> 0])
    BY <1>1 DEF CreateTransaction
  <2>2. lines \in Seq(Line)
    BY <2>1 DEF LedgerAssumption, Line
  <2>3. [status |-> "DRAFT", lines |-> lines, month |-> m, reverses |-> 0] \in Transaction
    BY <2>2 DEF Transaction, LedgerAssumption
  <2> QED BY <1>1, <2>1, <2>3 DEF CreateTransaction
<1>2. ASSUME NEW c \in Clients, CommitVoid(c)
      PROVE  /\ voiding[c] \in DOMAIN txs
             /\ Len(txs) < MaxTransactions
             /\ \E x \in Transaction :
                  txs' = Append(Restate(txs, voiding[c], "VOID"), x)
  <2>1. voiding[c] \in DOMAIN txs
    BY <1>0, <1>2 DEF CommitVoid, VoidingInv
  <2>2. PICK m \in Months :
          txs' = Append([txs EXCEPT ![voiding[c]].status = "VOID"],
                     [status |-> "DRAFT", month |-> m, reverses |-> voiding[c],
                      lines |-> SwappedLines(txs[voiding[c]].lines)])
    BY <1>2 DEF CommitVoid
  <2>3. txs[voiding[c]] \in Transaction
    BY <1>0, <2>1
  <2>4. SwappedLines(txs[voiding[c]].lines) \in Seq(Line)
    BY <2>3, SwappedTyped DEF Transaction
  <2>5. voiding[c] \in 0..MaxTransactions
    BY <1>0, <2>1 DEF LedgerAssumption
  <2>6. [status |-> "DRAFT", month |-> m, reverses |-> voiding[c],
         lines |-> SwappedLines(txs[voiding[c]].lines)] \in Transaction
    BY <2>4, <2>5 DEF Transaction
  <2> QED BY <1>2, <2>1, <2>2, <2>6 DEF CommitVoid, Restate
<1>3. ASSUME NEW w \in Workers, Refuse(w)
      PROVE  work[w].tx \in DOMAIN txs /\ txs' = Restate(txs, work[w].tx, "FAILED")
  BY <1>3 DEF Refuse, OwnInv, OwnInvOf, Busy, Restate
<1>4. ASSUME NEW w \in Workers, Post(w)
      PROVE  work[w].tx \in DOMAIN txs /\ txs' = Restate(txs, work[w].tx, "POSTED")
  BY <1>4 DEF Post, OwnInv, OwnInvOf, Busy, Restate
<1>5. CASE CreateTransaction
  <2>1. PICK x \in Transaction : txs' = Append(txs, x)
    BY <1>1, <1>5
  <2>2. /\ txs' \in Seq(Transaction) /\ Len(txs') = Len(txs) + 1
        /\ DOMAIN txs' = 1..(Len(txs) + 1)
        /\ \A i \in 1..Len(txs) : txs'[i] = txs[i]
    BY <1>0, <2>1, Appended
  <2> QED BY <1>0, <1>1, <1>5, <2>2 DEF LedgerAssumption
<1>6. ASSUME NEW c \in Clients, CommitVoid(c)
      PROVE  /\ txs' \in Seq(Transaction)
             /\ Len(txs) <= Len(txs') /\ Len(txs') <= MaxTransactions
             /\ DOMAIN txs \subseteq DOMAIN txs'
             /\ \A t \in DOMAIN txs : txs'[t].lines = txs[t].lines
  <2> DEFINE voided == Restate(txs, voiding[c], "VOID")
  <2>1. PICK x \in Transaction : txs' = Append(voided, x)
    BY <1>2, <1>6
  <2>2. /\ voided \in Seq(Transaction) /\ Len(voided) = Len(txs)
        /\ \A i \in DOMAIN txs : voided[i].lines = txs[i].lines
    BY <1>0, <1>2, <1>6, Restated
  <2> HIDE DEF voided
  <2>3. /\ txs' \in Seq(Transaction) /\ Len(txs') = Len(txs) + 1
        /\ DOMAIN txs' = 1..(Len(txs) + 1)
        /\ \A i \in 1..Len(txs) : txs'[i] = voided[i]
    BY <1>0, <2>1, <2>2, Appended
  <2>4. Len(txs) < MaxTransactions
    BY <1>2, <1>6
  <2> QED BY <1>0, <2>2, <2>3, <2>4 DEF LedgerAssumption
<1>7. ASSUME NEW w \in Workers, Refuse(w) \/ Post(w)
      PROVE  /\ txs' \in Seq(Transaction) /\ Len(txs') = Len(txs)
             /\ DOMAIN txs' = DOMAIN txs
             /\ \A t \in DOMAIN txs : txs'[t].lines = txs[t].lines
  <2>1. CASE Refuse(w)
    <3>1. work[w].tx \in DOMAIN txs /\ txs' = Restate(txs, work[w].tx, "FAILED")
      BY <1>3, <2>1
    <3>2. txs' \in Seq(Transaction) /\ Len(txs') = Len(txs)
      BY <1>0, <3>1, Restated
    <3> DEFINE r == Restate(txs, work[w].tx, "FAILED")
    <3>3. \A t \in DOMAIN txs : r[t].lines = txs[t].lines
      BY ZenonT(30), <1>0, <3>1, Restated
    <3>4. \A t \in DOMAIN txs : txs'[t].lines = txs[t].lines
      BY <3>1, <3>3
    <3> QED BY <1>0, <3>2, <3>4
  <2>2. CASE Post(w)
    <3>1. work[w].tx \in DOMAIN txs /\ txs' = Restate(txs, work[w].tx, "POSTED")
      BY <1>4, <2>2
    <3>2. txs' \in Seq(Transaction) /\ Len(txs') = Len(txs)
      BY <1>0, <3>1, Restated
    <3> DEFINE r == Restate(txs, work[w].tx, "POSTED")
    <3>3. \A t \in DOMAIN txs : r[t].lines = txs[t].lines
      BY ZenonT(30), <1>0, <3>1, Restated
    <3>4. \A t \in DOMAIN txs : txs'[t].lines = txs[t].lines
      BY <3>1, <3>3
    <3> QED BY <1>0, <3>2, <3>4
  <2> QED BY <1>7, <2>1, <2>2
<1>8. CASE UNCHANGED txs
  BY <1>0, <1>8
<1>9. \/ CreateTransaction
      \/ \E c \in Clients : CommitVoid(c)
      \/ \E w \in Workers : Refuse(w) \/ Post(w)
      \/ UNCHANGED txs
  BY DEF LedgerNext, ClientStep, WorkerStep, StartVoid, AbortVoid, Fetch, Begin,
         WriteEntry, Upsert, Rollback, ledgerVars
<1> QED
  BY <1>0, <1>5, <1>6, <1>7, <1>8, <1>9

\* A worker that does nothing keeps its part of the invariant.
LEMMA OwnKept ==
  ASSUME NEW v \in Workers, OwnInvOf(v), work'[v] = work[v],
         DOMAIN txs \subseteq DOMAIN txs',
         \A t \in DOMAIN txs : txs'[t].lines = txs[t].lines
  PROVE  OwnInvOf(v)'
  BY DEF OwnInvOf, Busy, Writing, Posting

-----------------------------------------------------------------------------
(* Postings are whole.                                                     *)

LEMMA PostingInit == LedgerInit => PostingInv
<1> SUFFICES ASSUME LedgerInit PROVE PostingInv
  OBVIOUS
<1> USE LedgerAssumption DEF LedgerInit, LedgerAssumption
<1>1. Len(txs) = 0 /\ DOMAIN txs = {} /\ txs \in Seq(Transaction)
  OBVIOUS
<1>2. TypesButTotals
  BY <1>1 DEF TypesButTotals, Idle, Work
<1>3. OwnInv
  BY DEF OwnInv, OwnInvOf, Busy, Writing, Idle
<1>4. StampInv
  BY DEF StampInv, Writing, Idle
<1>5. VoidingInv
  BY <1>1 DEF VoidingInv
<1>6. PostingsAreWhole
  BY DEF PostingsAreWhole
<1> QED BY <1>2, <1>3, <1>4, <1>5, <1>6 DEF PostingInv

\* Steps of a client do not touch a posting.
LEMMA PostingClientStep ==
  ASSUME PostingInv, [LedgerNext]_ledgerVars, UNCHANGED <<ledger, work, clock>>,
         UNCHANGED <<delivered, alarms, aborts>>,
         \A c \in Clients : voiding'[c] \in {0, voiding[c]} \cup DOMAIN txs,
         voiding' = [c \in Clients |-> voiding'[c]]
  PROVE  PostingInv'
<1> USE DEF PostingInv
<1>1. /\ txs' \in Seq(Transaction)
      /\ Len(txs) <= Len(txs') /\ Len(txs') <= MaxTransactions
      /\ DOMAIN txs \subseteq DOMAIN txs'
      /\ \A t \in DOMAIN txs : txs'[t].lines = txs[t].lines
  BY JournalsAreFinal
<1>2. DOMAIN txs = 1..Len(txs) /\ Len(txs) \in Nat /\ Len(txs) <= MaxTransactions
      /\ Len(txs') \in Nat
  BY <1>1 DEF TypesButTotals
<1>3. VoidingInv' /\ \A c \in Clients : voiding'[c] \in 0..MaxTransactions
  <2>1. MaxTransactions \in Nat
    BY LedgerAssumption DEF LedgerAssumption
  <2>2. \A c \in Clients : voiding[c] \in 0..MaxTransactions
    BY DEF TypesButTotals
  <2>3. \A c \in Clients : voiding'[c] \in 0..MaxTransactions
    BY <1>2, <2>1, <2>2
  <2>4. \A c \in Clients : voiding'[c] \in {0} \cup DOMAIN txs'
    BY <1>1 DEF VoidingInv
  <2> QED
    BY <2>3, <2>4 DEF VoidingInv
<1>4. TypesButTotals'
  BY <1>1, <1>3 DEF TypesButTotals
<1>5. OwnInv'
  BY <1>1, OwnKept DEF OwnInv
<1>6. StampInv'
  BY <1>1 DEF StampInv, Writing
<1>7. PostingsAreWhole'
  BY <1>1 DEF PostingsAreWhole, StampInv
<1> QED BY <1>3, <1>4, <1>5, <1>6, <1>7

\* A worker's step that commits nothing: what is left to check is the type,
\* the worker's own part, and that a new stamp is new.
LEMMA PostingQuietStep ==
  ASSUME PostingInv, [LedgerNext]_ledgerVars, TypesButTotals',
         UNCHANGED <<ledger, voiding>>,
         NEW w \in Workers, OwnInvOf(w)',
         \A v \in Workers \ {w} : work'[v] = work[v],
         \/ clock' = clock /\ (Writing(w)' => Writing(w) /\ work'[w].stamp = work[w].stamp)
         \/ clock' = clock + 1 /\ work'[w].stamp = clock'
  PROVE  PostingInv'
<1> USE DEF PostingInv
<1>1. /\ Len(txs) <= Len(txs')
      /\ DOMAIN txs \subseteq DOMAIN txs'
      /\ \A t \in DOMAIN txs : txs'[t].lines = txs[t].lines
  BY JournalsAreFinal
<1>2. /\ DOMAIN txs = 1..Len(txs) /\ Len(txs) \in Nat
      /\ Len(txs') \in Nat /\ clock \in Nat
  BY DEF TypesButTotals
<1>3. OwnInv'
  BY <1>1, OwnKept DEF OwnInv
<1>4. \A v \in Workers \ {w} : (Writing(v)' <=> Writing(v)) /\ work'[v].stamp = work[v].stamp
  BY DEF Writing
<1>5. StampInv'
  <2>1. \A v \in Workers : Writing(v)' => work'[v].stamp \in 1..clock'
    BY <1>2, <1>4 DEF StampInv
  <2>2. ASSUME NEW u \in Workers, NEW v \in Workers, Writing(u)', Writing(v)',
               work'[u].stamp = work'[v].stamp
        PROVE  u = v
    <3>1. \A x \in Workers : Writing(x) => work[x].stamp \in 1..clock
      BY DEF StampInv
    <3>2. \A x, y \in Workers :
            Writing(x) /\ Writing(y) /\ work[x].stamp = work[y].stamp => x = y
      BY DEF StampInv
    <3> QED BY <1>2, <1>4, <2>2, <3>1, <3>2
  <2>3. \A e \in ledger' : e.at \in 1..clock' /\ e.tx \in DOMAIN txs'
    BY <1>1, <1>2 DEF StampInv
  <2>4. ASSUME NEW e \in ledger', NEW v \in Workers, Writing(v)'
        PROVE  e.at # work'[v].stamp
    <3>1. e.at \in 1..clock
      BY DEF StampInv
    <3>2. \A x \in Workers : Writing(x) => e.at # work[x].stamp
      BY DEF StampInv
    <3> QED BY <1>2, <1>4, <2>4, <3>1, <3>2
  <2> QED BY <2>1, <2>2, <2>3, <2>4 DEF StampInv
<1>6. VoidingInv'
  BY <1>1, <1>2 DEF VoidingInv
<1>7. PostingsAreWhole'
  BY <1>1 DEF PostingsAreWhole, StampInv
<1> QED BY <1>3, <1>5, <1>6, <1>7

\* The six quiet steps of a worker.
LEMMA PostingWorkerStep ==
  ASSUME PostingInv, LedgerNext, NEW w \in Workers,
         Fetch(w) \/ Refuse(w) \/ Begin(w) \/ WriteEntry(w) \/ Upsert(w) \/ Rollback(w)
  PROVE  PostingInv'
<1> USE DEF PostingInv
<1>0. /\ txs \in Seq(Transaction) /\ Len(txs) \in Nat /\ Len(txs) <= MaxTransactions
      /\ DOMAIN txs = 1..Len(txs)
      /\ clock \in Nat /\ OwnInvOf(w)
      /\ work \in [Workers -> Work]
  BY DEF TypesButTotals, OwnInv
<1>1. /\ txs' \in Seq(Transaction) /\ Len(txs') <= MaxTransactions
      /\ DOMAIN txs \subseteq DOMAIN txs'
      /\ \A t \in DOMAIN txs : txs'[t].lines = txs[t].lines
  BY JournalsAreFinal
<1>2. CASE Fetch(w)
  <2>1. PICK t \in DOMAIN txs :
          /\ delivered' = [delivered EXCEPT ![t] = @ + 1]
          /\ \/ work' = [work EXCEPT ![w] = Fetched(t)]
             \/ UNCHANGED work
    BY <1>2 DEF Fetch
  <2>2. t \in Numbers
    BY <1>0, LedgerAssumption DEF Numbers, LedgerAssumption
  <2>3. delivered' \in [Numbers -> Nat]
    BY <2>1, <2>2 DEF TypesButTotals
  <2>4. Fetched(t) \in Work
    BY <1>0, <2>2 DEF Fetched, Work, Numbers
  <2>5. TypesButTotals'
    BY <1>0, <1>1, <1>2, <2>1, <2>2, <2>3, <2>4 DEF TypesButTotals, Fetch
  <2>6. OwnInvOf(w)'
    BY <1>0, <1>1, <1>2, <2>1 DEF OwnInvOf, Busy, Writing, Fetch, Posting, Fetched
  <2>7. Writing(w)' => Writing(w) /\ work'[w].stamp = work[w].stamp
    BY <1>0, <2>1 DEF Writing, Fetched
  <2>8. \A v \in Workers \ {w} : work'[v] = work[v]
    BY <1>0, <2>1
  <2> QED BY <1>2, <2>5, <2>6, <2>7, <2>8, PostingQuietStep DEF Fetch
<1>3. CASE Refuse(w) \/ Rollback(w)
  <2>1. work' = [work EXCEPT ![w] = Idle] /\ UNCHANGED <<ledger, voiding, clock, delivered, alarms>>
    BY <1>3 DEF Refuse, Rollback
  <2>2. aborts' \in Nat
    BY <1>3 DEF Refuse, Rollback, TypesButTotals
  <2>3. TypesButTotals'
    BY <1>0, <1>1, <2>1, <2>2, LedgerAssumption DEF TypesButTotals, Idle, Work, LedgerAssumption
  <2>4. OwnInvOf(w)'
    BY <1>0, <2>1 DEF OwnInvOf, Busy, Writing, Idle
  <2>5. ~Writing(w)'
    BY <1>0, <2>1 DEF Writing, Idle
  <2>6. \A v \in Workers \ {w} : work'[v] = work[v]
    BY <1>0, <2>1
  <2> QED BY <2>1, <2>3, <2>4, <2>5, <2>6, PostingQuietStep
<1>4. CASE Begin(w)
  <2>1. /\ work' = [work EXCEPT ![w].at = "line", ![w].line = 1, ![w].stamp = clock + 1]
        /\ work[w].at = "fetched" /\ work[w].tx \in DOMAIN txs /\ work[w].own = {}
        /\ UNCHANGED <<txs, ledger, voiding, delivered, alarms, aborts>>
        /\ clock' = clock + 1
    BY <1>0, <1>4 DEF Begin, OwnInvOf, Busy, Writing
  <2> DEFINE begun == [at |-> "line", tx |-> work[w].tx, line |-> 1,
                      stamp |-> clock + 1, own |-> work[w].own]
  <2>7. begun \in Work
    BY <1>0 DEF Work
  <2>8. work' = [work EXCEPT ![w] = begun]
    <3>1. work[w] \in Work /\ work' = [work EXCEPT ![w] = work'[w]]
      BY <1>0, <2>1
    <3>2. work'[w] = [work[w] EXCEPT !.at = "line", !.line = 1, !.stamp = clock + 1]
      BY <1>0, <2>1
    <3>3. work'[w] = begun
      BY <3>1, <3>2 DEF Work
    <3> QED BY <3>1, <3>3
  <2> HIDE DEF begun
  <2>10. work' \in [Workers -> Work]
    BY <1>0, <2>7, <2>8
  <2>11. clock' \in Nat /\ UNCHANGED <<txs, ledger, voiding, delivered, alarms, aborts>>
    BY <1>0, <2>1
  <2>2. TypesButTotals'
    BY <2>10, <2>11 DEF TypesButTotals
  <2>9. txs[work[w].tx] \in Transaction
    BY <1>0, <2>1
  <2>3. txs[work[w].tx].lines \in Seq(Line)
    BY <2>9 DEF Transaction
  <2>4. OwnInvOf(w)'
    BY <1>0, <2>1, <2>3 DEF OwnInvOf, Busy, Writing, Posting
  <2>5. work'[w].stamp = clock'
    BY <1>0, <2>1
  <2>6. \A v \in Workers \ {w} : work'[v] = work[v]
    BY <1>0, <2>1
  <2> QED BY <2>1, <2>2, <2>4, <2>5, <2>6, PostingQuietStep
<1>5. CASE WriteEntry(w)
  <2> DEFINE account == CurrentLine(w).account
             amount == CurrentLine(w).amount
             entry(id) ==
               [tx |-> work[w].tx, line |-> work[w].line, account |-> account,
                amount |-> amount, at |-> work[w].stamp, id |-> id,
                running |-> LastBalance(account, ledger \cup work[w].own)
                              + Signed(account, amount)]
  <2>1. PICK id \in FreeIds(w, account) :
          work' = [work EXCEPT ![w].at = "upsert", ![w].own = @ \cup {entry(id)}]
    BY <1>5 DEF WriteEntry
  <2>2. /\ work[w].at = "line" /\ work[w].tx \in DOMAIN txs
        /\ work[w].line \in DOMAIN Posting(w).lines
        /\ UNCHANGED <<txs, ledger, voiding, clock, delivered, alarms, aborts>>
    BY <1>0, <1>5 DEF WriteEntry, OwnInvOf, Busy
  <2>18. Posting(w) \in Transaction
    BY <1>0, <2>2 DEF Posting
  <2>3. Posting(w).lines \in Seq(Line)
    BY <2>18 DEF Transaction
  <2>4. CurrentLine(w) \in Line /\ work[w].line \in 1..Len(Posting(w).lines)
    BY <2>2, <2>3 DEF CurrentLine
  <2>5. account \in Accounts /\ amount \in Int \ {0} /\ id \in Nat
    BY <2>1, <2>3, <2>4, FreeIdsTyped DEF Line
  <2>6. LastBalance(account, ledger \cup work[w].own) \in Int
    <3>1. ledger \cup work[w].own \in SUBSET Entry
      BY <1>0 DEF TypesButTotals, Work
    <3> QED BY <3>1, RunningTyped
  <2>7. Signed(account, amount) \in Int
    BY <2>5 DEF Signed
  <2>8. work[w].tx \in Numbers /\ work[w].line \in Nat /\ work[w].stamp \in Nat
    BY <1>0, <2>2, LedgerAssumption DEF Numbers, LedgerAssumption, Work
  <2>9. /\ entry(id) \in Entry /\ entry(id).line = work[w].line
        /\ entry(id).at = work[w].stamp /\ entry(id).tx = work[w].tx
    BY <2>5, <2>6, <2>7, <2>8 DEF Entry
  <2> HIDE DEF entry, account, amount
  <2>10. TypesButTotals'
    <3>1. work[w].own \cup {entry(id)} \in SUBSET Entry
      BY <1>0, <2>9 DEF Work
    <3>2. [work[w] EXCEPT !.at = "upsert", !.own = @ \cup {entry(id)}] \in Work
      BY <1>0, <3>1 DEF Work
    <3>3. work' \in [Workers -> Work]
      BY <1>0, <2>1, <3>2
    <3> QED BY <2>2, <3>3 DEF TypesButTotals
  <2>11. /\ work'[w].at = "upsert" /\ work'[w].own = work[w].own \cup {entry(id)}
         /\ work'[w].tx = work[w].tx /\ work'[w].line = work[w].line
         /\ work'[w].stamp = work[w].stamp
    BY <1>0, <2>1
  <2>12. Posting(w)' = Posting(w)
    BY <2>2, <2>11 DEF Posting
  <2>13. {e.line : e \in work'[w].own} = 1..work'[w].line
    <3>1. {e.line : e \in work[w].own} = 1..(work[w].line - 1)
      BY <1>0, <2>2 DEF OwnInvOf
    <3>2. {e.line : e \in work'[w].own} = {e.line : e \in work[w].own} \cup {work[w].line}
      BY <2>9, <2>11
    <3>3. 1..(work[w].line - 1) \cup {work[w].line} = 1..work[w].line
      BY <2>4
    <3> QED BY <2>11, <3>1, <3>2, <3>3
  <2>14. \A e \in work'[w].own : e.at = work'[w].stamp /\ e.tx = work'[w].tx
    BY <1>0, <2>9, <2>11 DEF OwnInvOf
  <2>15. OwnInvOf(w)'
    BY <2>2, <2>4, <2>11, <2>12, <2>13, <2>14 DEF OwnInvOf, Busy, Writing
  <2>16. Writing(w)
    BY <2>2 DEF Writing
  <2>17. \A v \in Workers \ {w} : work'[v] = work[v]
    BY <1>0, <2>1
  <2> QED BY <2>2, <2>10, <2>11, <2>15, <2>16, <2>17, PostingQuietStep
<1>6. CASE Upsert(w)
  <2>1. /\ work' = [work EXCEPT ![w].at = "line", ![w].line = @ + 1]
        /\ work[w].at = "upsert" /\ work[w].tx \in DOMAIN txs
        /\ UNCHANGED <<txs, ledger, voiding, clock, delivered, alarms, aborts>>
    BY <1>0, <1>6 DEF Upsert, OwnInvOf, Busy
  <2> DEFINE upserted == [at |-> "line", tx |-> work[w].tx, line |-> work[w].line + 1,
                         stamp |-> work[w].stamp, own |-> work[w].own]
  <2>17. upserted \in Work
    BY <1>0 DEF Work
  <2>18. work' = [work EXCEPT ![w] = upserted]
    BY <1>0, <2>1 DEF Work
  <2>2. TypesButTotals'
    <3>1. work' \in [Workers -> Work]
      BY <1>0, <2>17, <2>18
    <3> QED BY <2>1, <3>1 DEF TypesButTotals
  <2>3. /\ work'[w].at = "line" /\ work'[w].own = work[w].own
        /\ work'[w].tx = work[w].tx /\ work'[w].line = work[w].line + 1
        /\ work'[w].stamp = work[w].stamp
    BY <1>0, <2>1
  <2>19. Posting(w) \in Transaction /\ Posting(w)' = Posting(w)
    BY <1>0, <2>1, <2>3 DEF Posting
  <2>4. Posting(w).lines \in Seq(Line) /\ Posting(w)' = Posting(w)
    BY <2>19 DEF Transaction
  <2>5. OwnInvOf(w)'
    BY <1>0, <2>1, <2>3, <2>4 DEF OwnInvOf, Busy, Writing
  <2>6. Writing(w)
    BY <2>1 DEF Writing
  <2>7. \A v \in Workers \ {w} : work'[v] = work[v]
    BY <1>0, <2>1
  <2> QED BY <2>1, <2>2, <2>3, <2>5, <2>6, <2>7, PostingQuietStep
<1> QED BY <1>2, <1>3, <1>4, <1>5, <1>6

\* The commit: the worker's entries join the ledger, all lines of them.
LEMMA PostingPostStep ==
  ASSUME PostingInv, LedgerNext, NEW w \in Workers, Post(w)
  PROVE  PostingInv'
<1> USE DEF PostingInv
<1> DEFINE own == work[w].own
<1>0. /\ txs \in Seq(Transaction) /\ Len(txs) \in Nat /\ Len(txs) <= MaxTransactions
      /\ clock \in Nat /\ OwnInvOf(w) /\ work \in [Workers -> Work]
      /\ DOMAIN txs = 1..Len(txs)
  BY DEF TypesButTotals, OwnInv
<1>1. /\ txs' \in Seq(Transaction)
      /\ Len(txs) <= Len(txs') /\ Len(txs') <= MaxTransactions
      /\ DOMAIN txs \subseteq DOMAIN txs'
      /\ \A t \in DOMAIN txs : txs'[t].lines = txs[t].lines
  BY JournalsAreFinal
<1>2. /\ work[w].at = "line" /\ work[w].line > Len(Posting(w).lines)
      /\ ledger' = ledger \cup own
      /\ work' = [work EXCEPT ![w] = Idle]
      /\ alarms' \in {alarms, alarms \cup {work[w].stamp}}
      /\ UNCHANGED <<voiding, clock, delivered, aborts>>
  BY DEF Post
<1>3. /\ work[w].tx \in DOMAIN txs /\ Writing(w)
      /\ work[w].line \in 1..(Len(Posting(w).lines) + 1)
      /\ {e.line : e \in own} = 1..(work[w].line - 1)
      /\ \A e \in own : e.at = work[w].stamp /\ e.tx = work[w].tx
  BY <1>0, <1>2 DEF OwnInvOf, Busy, Writing
<1>4. Posting(w) \in Transaction
  BY <1>0, <1>3 DEF Posting
<1>5. /\ Posting(w).lines \in Seq(Line)
      /\ {e.line : e \in own} = DOMAIN Posting(w).lines
  <2>1. Posting(w).lines \in Seq(Line)
    BY <1>4 DEF Transaction
  <2>2. work[w].line - 1 = Len(Posting(w).lines)
    BY <1>2, <1>3, <2>1
  <2>3. {e.line : e \in own} = 1..Len(Posting(w).lines)
    BY ONLY <1>3, <2>2
  <2>4. DOMAIN Posting(w).lines = 1..Len(Posting(w).lines)
    BY ONLY <2>1
  <2> QED BY ONLY <2>1, <2>3, <2>4
<1>6. TypesButTotals'
  <2>1. own \subseteq Entry /\ work[w].stamp \in Nat
    BY <1>0 DEF Work
  <2>2. Idle \in Work
    BY LedgerAssumption DEF Idle, Work, LedgerAssumption
  <2>3. work' \in [Workers -> Work]
    BY <1>0, <1>2, <2>2
  <2>4. ledger' \subseteq Entry /\ alarms' \subseteq Nat
    BY <1>2, <2>1 DEF TypesButTotals
  <2> QED BY <1>1, <1>2, <2>3, <2>4 DEF TypesButTotals
<1>7. \A v \in Workers \ {w} : work'[v] = work[v]
  BY <1>0, <1>2
<1>8. work'[w] = Idle /\ ~Writing(w)'
  BY <1>0, <1>2 DEF Writing, Idle
<1>9. OwnInv'
  <2>1. OwnInvOf(w)'
    BY <1>8 DEF OwnInvOf, Busy, Writing, Idle
  <2>2. \A v \in Workers \ {w} : OwnInvOf(v)'
    BY <1>1, <1>7, OwnKept DEF OwnInv
  <2> QED BY <2>1, <2>2 DEF OwnInv
<1>10. \A v \in Workers :
         Writing(v)' => v # w /\ Writing(v) /\ work'[v].stamp = work[v].stamp
  BY <1>7, <1>8 DEF Writing
<1>11. StampInv'
  <2>1. \A v \in Workers : Writing(v)' => work'[v].stamp \in 1..clock'
    BY <1>2, <1>10 DEF StampInv
  <2>2. \A u, v \in Workers :
          Writing(u)' /\ Writing(v)' /\ work'[u].stamp = work'[v].stamp => u = v
    BY <1>10 DEF StampInv
  <2>3. \A e \in ledger' : e.at \in 1..clock' /\ e.tx \in DOMAIN txs'
    BY <1>1, <1>2, <1>3 DEF StampInv
  <2>4. \A e \in ledger', v \in Workers : Writing(v)' => e.at # work'[v].stamp
    BY <1>2, <1>3, <1>10 DEF StampInv
  <2> QED BY <2>1, <2>2, <2>3, <2>4 DEF StampInv
<1>12. VoidingInv'
  <2>1. Len(txs') \in Nat
    BY <1>1
  <2> QED BY <1>0, <1>1, <1>2, <2>1 DEF VoidingInv
<1>13. \A e \in ledger : e.at # work[w].stamp
  BY <1>3 DEF StampInv
<1>14. PostingsAreWhole'
  <2>1. ASSUME NEW e \in ledger
        PROVE  {f \in ledger' : f.at = e.at} = {f \in ledger : f.at = e.at}
    BY <1>2, <1>3, <1>13, <2>1
  <2>2. ASSUME NEW e \in own
        PROVE  {f \in ledger' : f.at = e.at} = own
    BY <1>2, <1>3, <1>13, <2>2
  <2>3. ASSUME NEW e \in ledger
        PROVE  LET posting == {f \in ledger' : f.at = e.at}
               IN /\ \A f \in posting : f.tx = e.tx
                  /\ {f.line : f \in posting} = DOMAIN txs'[e.tx].lines
    <3>1. e.tx \in DOMAIN txs
      BY DEF StampInv
    <3> QED BY <1>1, <2>1, <2>3, <3>1 DEF PostingsAreWhole
  <2>4. ASSUME NEW e \in own
        PROVE  LET posting == {f \in ledger' : f.at = e.at}
               IN /\ \A f \in posting : f.tx = e.tx
                  /\ {f.line : f \in posting} = DOMAIN txs'[e.tx].lines
    BY <1>1, <1>3, <1>5, <2>2, <2>4 DEF Posting
  <2> QED BY <1>2, <2>3, <2>4 DEF PostingsAreWhole
<1> QED BY <1>6, <1>9, <1>11, <1>12, <1>14

LEMMA PostingStep == PostingInv /\ [LedgerNext]_ledgerVars => PostingInv'
<1> SUFFICES ASSUME PostingInv, [LedgerNext]_ledgerVars
             PROVE  PostingInv'
  OBVIOUS
<1> USE DEF PostingInv
<1>0. voiding \in [Clients -> 0..MaxTransactions]
  BY DEF TypesButTotals
<1>1. CASE CreateTransaction \/ UNCHANGED ledgerVars
  <2>1. UNCHANGED <<ledger, work, clock, delivered, alarms, aborts, voiding>>
    BY <1>1 DEF CreateTransaction, ledgerVars
  <2> QED BY <1>0, <2>1, PostingClientStep
<1>2. ASSUME NEW c \in Clients, ClientStep(c)
      PROVE  PostingInv'
  <2>1. UNCHANGED <<ledger, work, clock, delivered, alarms, aborts>>
    BY <1>2 DEF ClientStep, StartVoid, CommitVoid, AbortVoid
  <2>2. \E t \in {0} \cup DOMAIN txs : voiding' = [voiding EXCEPT ![c] = t]
    BY <1>2 DEF ClientStep, StartVoid, CommitVoid, AbortVoid
  <2>3. /\ \A d \in Clients : voiding'[d] \in {0, voiding[d]} \cup DOMAIN txs
        /\ voiding' = [d \in Clients |-> voiding'[d]]
    BY <1>0, <2>2
  <2> QED BY <2>1, <2>3, PostingClientStep
<1>3. ASSUME NEW w \in Workers, WorkerStep(w)
      PROVE  PostingInv'
  <2>1. LedgerNext
    BY <1>3 DEF LedgerNext
  <2> QED BY <1>3, <2>1, PostingWorkerStep, PostingPostStep DEF WorkerStep
<1> QED BY <1>1, <1>2, <1>3 DEF LedgerNext

\* For any number of workers, clients, deliveries and rollbacks, the ledger
\* holds whole postings only (HandleTransactionCreated commits once).
THEOREM WholePostings == LedgerSpec => []PostingsAreWhole
<1>1. LedgerSpec => []PostingInv
  BY PostingInit, PostingStep, PTL DEF LedgerSpec
<1>2. PostingInv => PostingsAreWhole
  BY DEF PostingInv
<1> QED BY <1>1, <1>2, PTL

-----------------------------------------------------------------------------
(* With one worker, postings happen once.                                  *)

OneWorker == \A v, w \in Workers : v = w

\* A step that commits no entry and puts no other transaction to work: what
\* is left to check is that the statuses it changes are not relied upon.
LEMMA OnceQuietStep ==
  ASSUME PostingInv, OnceInv, [LedgerNext]_ledgerVars, UNCHANGED ledger,
         \A t \in DOMAIN txs : txs[t].status \in {"POSTED", "VOID"} =>
            txs'[t].status \in {"POSTED", "VOID"},
         \A w \in Workers : Busy(w)' => Posting(w)'.status = "DRAFT",
         \A c \in Clients : \/ voiding'[c] \in {0, voiding[c]}
                            \/ /\ voiding'[c] \in DOMAIN txs
                               /\ txs[voiding'[c]].status = "POSTED"
  PROVE  OnceInv'
<1>0. DOMAIN txs = 1..Len(txs) /\ Len(txs) \in Nat
  BY DEF PostingInv, TypesButTotals
<1>1. \A c \in Clients : voiding'[c] # 0 => txs'[voiding'[c]].status \in {"POSTED", "VOID"}
  BY <1>0 DEF OnceInv, PostingInv, VoidingInv
<1>2. \A e \in ledger' : txs'[e.tx].status \in {"POSTED", "VOID"}
  BY DEF OnceInv, PostingInv, StampInv
<1>3. \A e, f \in ledger' : e.tx = f.tx => e.at = f.at
  BY DEF OnceInv
<1> QED BY <1>1, <1>2, <1>3 DEF OnceInv

StatusStep(t) ==
  <<txs[t].status, txs'[t].status>> \in
    {<<"DRAFT", "POSTED">>, <<"DRAFT", "FAILED">>, <<"POSTED", "VOID">>}
      \cup {<<s, s>> : s \in {"DRAFT", "POSTED", "VOID", "FAILED"}}

LEMMA OnceStep ==
  ASSUME OneWorker, PostingInv, OnceInv, [LedgerNext]_ledgerVars
  PROVE  OnceInv' /\ \A t \in DOMAIN txs : StatusStep(t)
<1>0. /\ txs \in Seq(Transaction) /\ DOMAIN txs = 1..Len(txs) /\ Len(txs) \in Nat
      /\ work \in [Workers -> Work] /\ voiding \in [Clients -> 0..MaxTransactions]
      /\ \A w \in Workers : Busy(w) => work[w].tx \in DOMAIN txs
      /\ \A c \in Clients : voiding[c] # 0 => voiding[c] \in DOMAIN txs
  BY DEF PostingInv, TypesButTotals, OwnInv, OwnInvOf, VoidingInv
<1>13. \A t \in DOMAIN txs : txs[t] \in Transaction
  BY <1>0
<1>14. \A t \in DOMAIN txs : txs[t].status \in {"DRAFT", "POSTED", "VOID", "FAILED"}
  BY <1>13 DEF Transaction
<1>1. CASE UNCHANGED <<ledger, work>> /\ \A t \in DOMAIN txs : txs'[t] = txs[t]
  <2>1. \A t \in DOMAIN txs : StatusStep(t)
    BY <1>1, <1>14 DEF StatusStep
  <2>2. \A w \in Workers : Busy(w)' => Posting(w)'.status = "DRAFT"
    BY <1>0, <1>1 DEF OnceInv, Busy, Posting
  <2>3. \A c \in Clients : \/ voiding'[c] \in {0, voiding[c]}
                           \/ /\ voiding'[c] \in DOMAIN txs
                              /\ txs[voiding'[c]].status = "POSTED"
    <3>1. CASE UNCHANGED voiding
      BY <3>1
    <3>2. CASE \E c \in Clients : StartVoid(c) \/ AbortVoid(c)
      BY <1>0, <3>2 DEF StartVoid, AbortVoid
    <3>3. ASSUME NEW c \in Clients, CommitVoid(c)
          PROVE  voiding' = [voiding EXCEPT ![c] = 0]
      BY <3>3 DEF CommitVoid
    <3>4. CASE \E c \in Clients : CommitVoid(c)
      BY <1>0, <3>3, <3>4
    <3> QED BY <3>1, <3>2, <3>4
        DEF LedgerNext, ClientStep, WorkerStep, CreateTransaction, Fetch, Refuse,
            Begin, WriteEntry, Upsert, Post, Rollback, ledgerVars
  <2> QED BY <1>1, <2>1, <2>2, <2>3, OnceQuietStep
<1>2. CASE CreateTransaction
  <2>1. UNCHANGED <<ledger, work>>
    BY <1>2 DEF CreateTransaction
  <2>2. \E x : txs' = Append(txs, x)
    BY <1>2 DEF CreateTransaction
  <2>3. \A t \in DOMAIN txs : txs'[t] = txs[t]
    BY <1>0, <2>2
  <2> QED BY <1>1, <2>1, <2>3
<1>3. CASE \/ UNCHANGED ledgerVars
           \/ \E c \in Clients : StartVoid(c) \/ AbortVoid(c)
  BY <1>1, <1>3 DEF StartVoid, AbortVoid, ledgerVars
<1>4. ASSUME NEW c \in Clients, CommitVoid(c)
      PROVE  OnceInv' /\ \A t \in DOMAIN txs : StatusStep(t)
  <2> DEFINE voided == Restate(txs, voiding[c], "VOID")
  <2>1. /\ voiding[c] \in DOMAIN txs /\ UNCHANGED <<ledger, work>>
        /\ voiding' = [voiding EXCEPT ![c] = 0]
        /\ \E x : txs' = Append(voided, x)
    BY <1>0, <1>4 DEF CommitVoid, Restate
  <2>2. /\ voided \in Seq(Transaction) /\ Len(voided) = Len(txs)
        /\ \A t \in DOMAIN txs : t # voiding[c] => voided[t] = txs[t]
        /\ voided[voiding[c]].status = "VOID"
    <3>1. txs \in Seq(Transaction) /\ voiding[c] \in DOMAIN txs
      BY <1>0, <2>1
    <3>2. voided \in Seq(Transaction) /\ Len(voided) = Len(txs)
      BY ONLY <3>1, Restated
    <3>3. \A t \in DOMAIN txs : t # voiding[c] => voided[t] = txs[t]
      BY ONLY <3>1, Restated
    <3>4. voided[voiding[c]].status = "VOID"
      BY ONLY <3>1, Restated
    <3> QED BY ONLY <3>2, <3>3, <3>4
  <2> HIDE DEF voided
  <2>3. \A t \in DOMAIN txs : txs'[t] = voided[t]
    BY <1>0, <2>1, <2>2
  <2>4. txs[voiding[c]].status \in {"POSTED", "VOID"}
    BY <1>0, <2>1 DEF OnceInv
  <2>5. \A t \in DOMAIN txs : StatusStep(t)
    BY <1>14, <2>1, <2>2, <2>3, <2>4 DEF StatusStep
  <2>6. ASSUME NEW w \in Workers, Busy(w)'
        PROVE  Posting(w)'.status = "DRAFT"
    <3>1. work[w].tx \in DOMAIN txs /\ txs[work[w].tx].status = "DRAFT"
      BY <1>0, <2>1, <2>6 DEF OnceInv, Busy, Posting
    <3>2. txs'[work[w].tx] = txs[work[w].tx]
      BY <2>2, <2>3, <2>4, <3>1
    <3> QED BY <2>1, <3>1, <3>2 DEF Posting
  <2>7. \A d \in Clients : voiding'[d] \in {0, voiding[d]}
    BY <1>0, <2>1
  <2>8. \A t \in DOMAIN txs : txs[t].status \in {"POSTED", "VOID"} =>
            txs'[t].status \in {"POSTED", "VOID"}
    BY <2>1, <2>2, <2>3
  <2> QED BY <2>1, <2>5, <2>6, <2>7, <2>8, OnceQuietStep
<1>5. ASSUME NEW w \in Workers, Fetch(w)
      PROVE  OnceInv' /\ \A t \in DOMAIN txs : StatusStep(t)
  <2>1. UNCHANGED <<txs, ledger, voiding>>
    BY <1>5 DEF Fetch
  <2>2. \A t \in DOMAIN txs : StatusStep(t)
    BY <1>14, <2>1 DEF StatusStep
  <2>3. ASSUME NEW v \in Workers, Busy(v)'
        PROVE  Posting(v)'.status = "DRAFT"
    <3>1. v = w
      BY DEF OneWorker
    <3>2. work[w].at = "idle" /\ work'[w].at # "idle"
      BY <1>5, <2>3, <3>1 DEF Fetch, Busy
    <3>3. PICK t \in DOMAIN txs :
            txs[t].status = "DRAFT" /\ work' = [work EXCEPT ![w] = Fetched(t)]
      BY <1>5, <3>2 DEF Fetch
    <3>4. work'[w].tx = t
      BY <1>0, <3>3 DEF Fetched
    <3> QED BY <2>1, <3>1, <3>3, <3>4 DEF Posting
  <2> QED BY <2>1, <2>2, <2>3, OnceQuietStep
<1>6. ASSUME NEW w \in Workers, Begin(w) \/ WriteEntry(w) \/ Upsert(w) \/ Rollback(w)
      PROVE  OnceInv' /\ \A t \in DOMAIN txs : StatusStep(t)
  <2>1. UNCHANGED <<txs, ledger, voiding>>
    BY <1>6 DEF Begin, WriteEntry, Upsert, Rollback
  <2>2. \A t \in DOMAIN txs : StatusStep(t)
    BY <1>14, <2>1 DEF StatusStep
  <2>3. Busy(w) /\ (Busy(w)' => work'[w].tx = work[w].tx)
    <3>1. CASE Begin(w)
      BY <1>0, <3>1 DEF Begin, Busy
    <3>2. CASE WriteEntry(w)
      BY <1>0, <3>2 DEF WriteEntry, Busy
    <3>3. CASE Upsert(w)
      BY <1>0, <3>3 DEF Upsert, Busy
    <3>4. CASE Rollback(w)
      BY <1>0, <3>4 DEF Rollback, Busy, Idle
    <3> QED BY <1>6, <3>1, <3>2, <3>3, <3>4
  <2>4. \A v \in Workers : Busy(v)' => Posting(v)'.status = "DRAFT"
    BY <2>1, <2>3 DEF OneWorker, OnceInv, Posting
  <2> QED BY <2>1, <2>2, <2>4, OnceQuietStep
<1>7. ASSUME NEW w \in Workers, NEW v \in {"FAILED", "POSTED"}, Busy(w),
             work' = [work EXCEPT ![w] = Idle], UNCHANGED voiding,
             txs' = Restate(txs, work[w].tx, v)
      PROVE  /\ work[w].tx \in DOMAIN txs /\ txs[work[w].tx].status = "DRAFT"
             /\ \A t \in DOMAIN txs : t # work[w].tx => txs'[t] = txs[t]
             /\ txs'[work[w].tx].status = v
             /\ \A t \in DOMAIN txs : StatusStep(t)
             /\ \A u \in Workers : ~Busy(u)'
  <2>1. work[w].tx \in DOMAIN txs /\ txs[work[w].tx].status = "DRAFT"
    BY <1>0, <1>7 DEF OnceInv, Posting
  <2>2. /\ \A t \in DOMAIN txs : t # work[w].tx => txs'[t] = txs[t]
        /\ txs'[work[w].tx].status = v
    <3>1. /\ \A i \in DOMAIN txs :
               i # work[w].tx => Restate(txs, work[w].tx, v)[i] = txs[i]
          /\ Restate(txs, work[w].tx, v)[work[w].tx].status = v
      <4> DEFINE t == work[w].tx
      <4>1. t \in DOMAIN txs /\ txs \in Seq(Transaction)
        BY <1>0, <2>1
      <4> HIDE DEF t
      <4>2. /\ \A i \in DOMAIN txs : i # t => Restate(txs, t, v)[i] = txs[i]
            /\ Restate(txs, t, v)[t].status = v
        <5>1. CASE v = "FAILED"
          BY <4>1, <5>1, Restated
        <5>2. CASE v = "POSTED"
          BY <4>1, <5>2, Restated
        <5> QED BY <5>1, <5>2
      <4> QED BY <4>2 DEF t
    <3> QED BY <1>7, <3>1
  <2>3. \A t \in DOMAIN txs : StatusStep(t)
    BY <1>14, <2>1, <2>2 DEF StatusStep
  <2>4. \A u \in Workers : ~Busy(u)'
    BY <1>0, <1>7 DEF OneWorker, Busy, Idle
  <2> QED BY <2>1, <2>2, <2>3, <2>4
<1>8. ASSUME NEW w \in Workers, Refuse(w)
      PROVE  OnceInv' /\ \A t \in DOMAIN txs : StatusStep(t)
  <2>1. /\ work' = [work EXCEPT ![w] = Idle] /\ UNCHANGED <<voiding, ledger>>
        /\ Busy(w) /\ txs' = Restate(txs, work[w].tx, "FAILED")
    BY <1>8 DEF Refuse, Restate, Busy
  <2>2. /\ work[w].tx \in DOMAIN txs /\ txs[work[w].tx].status = "DRAFT"
        /\ \A t \in DOMAIN txs : t # work[w].tx => txs'[t] = txs[t]
        /\ \A t \in DOMAIN txs : StatusStep(t)
        /\ \A u \in Workers : ~Busy(u)'
    BY <1>7, <2>1
  <2> QED BY <2>1, <2>2, OnceQuietStep
<1>9. ASSUME NEW w \in Workers, Post(w)
      PROVE  OnceInv' /\ \A t \in DOMAIN txs : StatusStep(t)
  <2>1. /\ work' = [work EXCEPT ![w] = Idle] /\ UNCHANGED voiding
        /\ Busy(w) /\ txs' = Restate(txs, work[w].tx, "POSTED")
        /\ ledger' = ledger \cup work[w].own
    BY <1>9 DEF Post, Restate, Busy
  <2>2. /\ work[w].tx \in DOMAIN txs /\ txs[work[w].tx].status = "DRAFT"
        /\ \A t \in DOMAIN txs : t # work[w].tx => txs'[t] = txs[t]
        /\ txs'[work[w].tx].status = "POSTED"
        /\ \A t \in DOMAIN txs : StatusStep(t)
        /\ \A u \in Workers : ~Busy(u)'
    BY <1>7, <2>1
  <2>3. \A e \in work[w].own : e.at = work[w].stamp /\ e.tx = work[w].tx
    BY DEF PostingInv, OwnInv, OwnInvOf
  <2>4. \A e \in ledger : e.tx \in DOMAIN txs /\ e.tx # work[w].tx
    BY <2>2 DEF PostingInv, StampInv, OnceInv
  <2>5. \A e \in ledger' : txs'[e.tx].status \in {"POSTED", "VOID"}
    BY <2>1, <2>2, <2>3, <2>4 DEF OnceInv
  <2>6. \A e, f \in ledger' : e.tx = f.tx => e.at = f.at
    BY <2>1, <2>3, <2>4 DEF OnceInv
  <2>7. \A c \in Clients : voiding'[c] # 0 => txs'[voiding'[c]].status \in {"POSTED", "VOID"}
    BY <1>0, <2>1, <2>2 DEF OnceInv
  <2> QED BY <2>2, <2>5, <2>6, <2>7 DEF OnceInv
<1> QED BY <1>2, <1>3, <1>4, <1>5, <1>6, <1>8, <1>9
    DEF LedgerNext, ClientStep, WorkerStep

LEMMA OnceInit == LedgerInit => OnceInv
  BY DEF LedgerInit, OnceInv, Busy, Idle

LEMMA OneEventEach == OnceInv => PostedOnce
<1> SUFFICES ASSUME OnceInv, NEW t \in DOMAIN txs
             PROVE  Cardinality(LedgerPosted(t)) <= 1
  BY DEF PostedOnce
<1>1. CASE LedgerPosted(t) = {}
  BY <1>1, FS_EmptySet
<1>2. ASSUME NEW x \in LedgerPosted(t)
      PROVE  LedgerPosted(t) = {x}
  BY <1>2 DEF LedgerPosted, OnceInv
<1>3. CASE LedgerPosted(t) # {}
  <2>1. PICK x : x \in LedgerPosted(t)
    BY <1>3
  <2>2. LedgerPosted(t) = {x}
    BY <1>2, <2>1
  <2>3. Cardinality({x}) = 1
    BY FS_Singleton
  <2> QED BY <2>2, <2>3
<1> QED BY <1>1, <1>3

\* With one worker a transaction is posted at most once, however often its
\* event is delivered and whatever is rolled back or voided meanwhile.
THEOREM PostsOnce ==
  ASSUME OneWorker
  PROVE  LedgerSpec => []PostedOnce
<1>1. LedgerInit => PostingInv /\ OnceInv
  BY PostingInit, OnceInit
<1>2. PostingInv /\ OnceInv /\ [LedgerNext]_ledgerVars => (PostingInv /\ OnceInv)'
  BY PostingStep, OnceStep
<1>3. PostingInv /\ OnceInv => PostedOnce
  BY OneEventEach
<1> QED BY <1>1, <1>2, <1>3, PTL DEF LedgerSpec

\* With one worker a status only moves from DRAFT to POSTED or FAILED and
\* from POSTED to VOID (USER_FLOW.md, "Transaction Status Lifecycle").
THEOREM StatusLifecycle ==
  ASSUME OneWorker
  PROVE  LedgerSpec => StatusSteps
<1> DEFINE Steps == \A t \in DOMAIN txs : StatusStep(t)
<1>1. LedgerInit => PostingInv /\ OnceInv
  BY PostingInit, OnceInit
<1>2. PostingInv /\ OnceInv /\ [LedgerNext]_ledgerVars => (PostingInv /\ OnceInv)'
  BY PostingStep, OnceStep
<1>3. PostingInv /\ OnceInv /\ [LedgerNext]_ledgerVars => [Steps]_txs
  BY OnceStep
<1>4. StatusSteps <=> [][Steps]_txs
  BY DEF StatusSteps, StatusStep
<1> QED BY <1>1, <1>2, <1>3, <1>4, PTL DEF LedgerSpec

-----------------------------------------------------------------------------
(* What each step does to the table of transactions.                       *)

LEMMA MarkedOnly ==
  ASSUME PostingInv, NEW t \in DOMAIN txs, NEW v \in {"DRAFT", "POSTED", "VOID", "FAILED"}
  PROVE  /\ DOMAIN Restate(txs, t, v) = DOMAIN txs
         /\ \A i \in DOMAIN txs :
              /\ Restate(txs, t, v)[i].lines = txs[i].lines
              /\ Restate(txs, t, v)[i].month = txs[i].month
              /\ Restate(txs, t, v)[i].reverses = txs[i].reverses
              /\ Restate(txs, t, v)[i].status = IF i = t THEN v ELSE txs[i].status
<1>1. \A i \in DOMAIN txs : txs[i] \in Transaction
  BY DEF PostingInv, TypesButTotals
<1> PICK y : y = [txs[t] EXCEPT !.status = v]
  OBVIOUS
<1>2. /\ y.status = v /\ y.lines = txs[t].lines /\ y.month = txs[t].month
      /\ y.reverses = txs[t].reverses
  BY <1>1 DEF Transaction
<1>3. Restate(txs, t, v) = [txs EXCEPT ![t] = y]
  BY DEF Restate
<1> QED
  BY <1>2, <1>3

\* A transaction more.
LEMMA TableGrows ==
  ASSUME PostingInv, CreateTransaction
  PROVE  /\ DOMAIN txs' = DOMAIN txs \cup {Len(txs) + 1} /\ Len(txs) + 1 \notin DOMAIN txs
         /\ \A t \in DOMAIN txs : txs'[t] = txs[t]
         /\ txs'[Len(txs) + 1].status = "DRAFT" /\ txs'[Len(txs) + 1].reverses = 0
         /\ txs'[Len(txs) + 1].lines \in Journals
         /\ UNCHANGED <<ledger, balances, work, voiding, clock>>
<1>1. PICK lines \in Journals, m \in Months :
        txs' = Append(txs, [status |-> "DRAFT", lines |-> lines, month |-> m, reverses |-> 0])
  BY DEF CreateTransaction
<1>2. txs \in Seq(Transaction) /\ Len(txs) \in Nat /\ DOMAIN txs = 1..Len(txs)
  BY DEF PostingInv, TypesButTotals
<1>3. UNCHANGED <<ledger, balances, work, voiding, clock>>
  BY DEF CreateTransaction
<1> PICK x : x = [status |-> "DRAFT", lines |-> lines, month |-> m, reverses |-> 0]
  OBVIOUS
<1>4. x.status = "DRAFT" /\ x.lines = lines /\ x.reverses = 0
  OBVIOUS
<1>5. txs' = Append(txs, x)
  BY <1>1
<1>6. /\ DOMAIN txs' = 1..(Len(txs) + 1) /\ txs'[Len(txs) + 1] = x
      /\ \A t \in DOMAIN txs : txs'[t] = txs[t]
  BY <1>2, <1>5
<1>7. 1..(Len(txs) + 1) = (1..Len(txs)) \cup {Len(txs) + 1} /\ Len(txs) + 1 \notin 1..Len(txs)
  BY <1>2
<1> QED
  BY <1>2, <1>3, <1>4, <1>6, <1>7

\* A reversal more, and its original marked.
LEMMA TableReverses ==
  ASSUME PostingInv, NEW c \in Clients, CommitVoid(c)
  PROVE  /\ voiding[c] \in DOMAIN txs /\ voiding[c] # 0
         /\ DOMAIN txs' = DOMAIN txs \cup {Len(txs) + 1} /\ Len(txs) + 1 \notin DOMAIN txs
         /\ \A t \in DOMAIN txs :
              /\ txs'[t].lines = txs[t].lines /\ txs'[t].month = txs[t].month
              /\ txs'[t].reverses = txs[t].reverses
              /\ txs'[t].status = IF t = voiding[c] THEN "VOID" ELSE txs[t].status
         /\ txs'[Len(txs) + 1].status = "DRAFT" /\ txs'[Len(txs) + 1].reverses = voiding[c]
         /\ txs'[Len(txs) + 1].lines = SwappedLines(txs[voiding[c]].lines)
         /\ voiding' = [voiding EXCEPT ![c] = 0]
         /\ UNCHANGED <<ledger, balances, work, clock>>
<1> PICK v : v = voiding[c]
  OBVIOUS
<1>1. /\ txs \in Seq(Transaction) /\ Len(txs) \in Nat /\ DOMAIN txs = 1..Len(txs)
      /\ v \in 0..Len(txs) /\ v # 0
  BY DEF PostingInv, TypesButTotals, VoidingInv, CommitVoid
<1>2. v \in DOMAIN txs
  BY <1>1
<1> PICK voided : voided = Restate(txs, v, "VOID")
  OBVIOUS
<1>3. PICK m \in Months :
        txs' = Append(voided, [status |-> "DRAFT", month |-> m, reverses |-> v,
                               lines |-> SwappedLines(txs[v].lines)])
  BY DEF CommitVoid, Restate
<1>4. voided \in Seq(Transaction) /\ Len(voided) = Len(txs)
  BY <1>1, <1>2, Restated
<1>5. /\ DOMAIN voided = DOMAIN txs
      /\ \A t \in DOMAIN txs :
           /\ voided[t].lines = txs[t].lines /\ voided[t].month = txs[t].month
           /\ voided[t].reverses = txs[t].reverses
           /\ voided[t].status = IF t = v THEN "VOID" ELSE txs[t].status
  BY <1>2, MarkedOnly
<1> PICK x : x = [status |-> "DRAFT", month |-> m, reverses |-> v,
                  lines |-> SwappedLines(txs[v].lines)]
  OBVIOUS
<1>6. x.status = "DRAFT" /\ x.reverses = v /\ x.lines = SwappedLines(txs[v].lines)
  OBVIOUS
<1>7. txs' = Append(voided, x)
  BY <1>3
<1>8. /\ DOMAIN txs' = 1..(Len(txs) + 1) /\ txs'[Len(txs) + 1] = x
      /\ \A t \in 1..Len(txs) : txs'[t] = voided[t]
  BY <1>1, <1>4, <1>7
<1>9. 1..(Len(txs) + 1) = (1..Len(txs)) \cup {Len(txs) + 1} /\ Len(txs) + 1 \notin 1..Len(txs)
  BY <1>1
<1>10. voiding' = [voiding EXCEPT ![c] = 0] /\ UNCHANGED <<ledger, balances, work, clock>>
  BY DEF CommitVoid
<1> QED
  BY <1>1, <1>2, <1>5, <1>6, <1>8, <1>9, <1>10

\* A transaction marked by the worker that is done with it.
LEMMA TableMarked ==
  ASSUME PostingInv, NEW w \in Workers, NEW v \in {"POSTED", "FAILED"}, Busy(w),
         txs' = Restate(txs, work[w].tx, v)
  PROVE  /\ work[w].tx \in DOMAIN txs /\ DOMAIN txs' = DOMAIN txs
         /\ \A t \in DOMAIN txs :
              /\ txs'[t].lines = txs[t].lines /\ txs'[t].month = txs[t].month
              /\ txs'[t].reverses = txs[t].reverses
              /\ txs'[t].status = IF t = work[w].tx THEN v ELSE txs[t].status
<1> PICK t : t = work[w].tx
  OBVIOUS
<1>1. t \in DOMAIN txs
  BY DEF PostingInv, OwnInv, OwnInvOf
<1>2. v \in {"DRAFT", "POSTED", "VOID", "FAILED"}
  OBVIOUS
<1>3. txs' = Restate(txs, t, v)
  OBVIOUS
<1> QED
  BY <1>1, <1>2, <1>3, MarkedOnly

-----------------------------------------------------------------------------
(* The ledger follows the status, for any number of workers.               *)

\* What is posted could be posted, and what is being voided was posted.
FollowInv ==
  /\ \A w \in Workers : Writing(w) => Postable(Posting(w).lines)
  /\ \A c \in Clients : voiding[c] # 0 => txs[voiding[c]].status \in {"POSTED", "VOID"}
  /\ \A t \in DOMAIN txs :
       txs[t].status \in {"POSTED", "VOID"} => Postable(txs[t].lines)
  /\ LedgerFollowsStatus

\* A step that commits no entry, makes no posting of what cannot be posted
\* and starts to void what is posted only.
LEMMA FollowQuietStep ==
  ASSUME PostingInv, FollowInv, DOMAIN txs \subseteq DOMAIN txs', UNCHANGED ledger,
         \A t \in DOMAIN txs : txs'[t].lines = txs[t].lines,
         \A t \in DOMAIN txs : txs'[t].status \in {"POSTED", "VOID"} <=>
                               txs[t].status \in {"POSTED", "VOID"},
         \A t \in DOMAIN txs' \ DOMAIN txs : txs'[t].status = "DRAFT",
         \A w \in Workers : Writing(w)' =>
           \/ Writing(w) /\ work'[w].tx = work[w].tx
           \/ work'[w].tx \in DOMAIN txs /\ Postable(txs[work'[w].tx].lines),
         \A c \in Clients : \/ voiding'[c] \in {0, voiding[c]}
                            \/ /\ voiding'[c] \in DOMAIN txs
                               /\ txs[voiding'[c]].status = "POSTED"
  PROVE  FollowInv'
<1>1. \A w \in Workers : Writing(w) => work[w].tx \in DOMAIN txs
  BY DEF PostingInv, OwnInv, OwnInvOf, Busy, Writing
<1>2. \A c \in Clients : voiding[c] # 0 => voiding[c] \in DOMAIN txs
  BY DEF PostingInv, VoidingInv, TypesButTotals
<1>3. \A e \in ledger : e.tx \in DOMAIN txs
  BY DEF PostingInv, StampInv
<1>4. ASSUME NEW w \in Workers, Writing(w)' PROVE Postable(Posting(w)'.lines)
  BY <1>1, <1>4 DEF FollowInv, Posting
<1>5. ASSUME NEW c \in Clients, voiding'[c] # 0
      PROVE  txs'[voiding'[c]].status \in {"POSTED", "VOID"}
  BY <1>2, <1>5 DEF FollowInv
<1>6. ASSUME NEW t \in DOMAIN txs', txs'[t].status \in {"POSTED", "VOID"}
      PROVE  Postable(txs'[t].lines)
  BY <1>6 DEF FollowInv
<1>7. ASSUME NEW t \in DOMAIN txs'
      PROVE  txs'[t].status \in {"POSTED", "VOID"} <=> \E e \in ledger : e.tx = t
  <2>1. CASE t \in DOMAIN txs
    BY <2>1 DEF FollowInv, LedgerFollowsStatus
  <2>2. CASE t \notin DOMAIN txs
    BY <1>3, <2>2
  <2> QED
    BY <2>1, <2>2
<1> QED
  BY <1>4, <1>5, <1>6, <1>7 DEF FollowInv, LedgerFollowsStatus, Postable, Balanced

LEMMA FollowStep == PostingInv /\ FollowInv /\ [LedgerNext]_ledgerVars => FollowInv'
<1> SUFFICES ASSUME PostingInv, FollowInv, [LedgerNext]_ledgerVars PROVE FollowInv'
  OBVIOUS
<1>0. work \in [Workers -> Work] /\ voiding \in [Clients -> 0..MaxTransactions]
  BY DEF PostingInv, TypesButTotals
<1>1. CASE CreateTransaction
  BY <1>1, TableGrows, FollowQuietStep DEF Writing
<1>2. ASSUME NEW c \in Clients, StartVoid(c) \/ AbortVoid(c)
      PROVE  FollowInv'
  <2>1. UNCHANGED <<txs, ledger, work>>
    BY <1>2 DEF StartVoid, AbortVoid
  <2>2. \A d \in Clients : \/ voiding'[d] \in {0, voiding[d]}
                           \/ /\ voiding'[d] \in DOMAIN txs
                              /\ txs[voiding'[d]].status = "POSTED"
    BY <1>0, <1>2 DEF StartVoid, AbortVoid
  <2> QED
    BY <2>1, <2>2, FollowQuietStep DEF Writing
<1>3. ASSUME NEW c \in Clients, CommitVoid(c)
      PROVE  FollowInv'
  <2>1. /\ voiding[c] \in DOMAIN txs /\ voiding[c] # 0
        /\ DOMAIN txs' = DOMAIN txs \cup {Len(txs) + 1} /\ Len(txs) + 1 \notin DOMAIN txs
        /\ \A t \in DOMAIN txs :
             /\ txs'[t].lines = txs[t].lines
             /\ txs'[t].status = IF t = voiding[c] THEN "VOID" ELSE txs[t].status
        /\ txs'[Len(txs) + 1].status = "DRAFT"
        /\ voiding' = [voiding EXCEPT ![c] = 0]
        /\ UNCHANGED <<ledger, work>>
    <3>1. /\ voiding[c] \in DOMAIN txs /\ voiding[c] # 0
          /\ DOMAIN txs' = DOMAIN txs \cup {Len(txs) + 1} /\ Len(txs) + 1 \notin DOMAIN txs
          /\ txs'[Len(txs) + 1].status = "DRAFT"
          /\ voiding' = [voiding EXCEPT ![c] = 0]
          /\ UNCHANGED <<ledger, work>>
      BY <1>3, TableReverses
    <3>2. \A t \in DOMAIN txs :
            /\ txs'[t].lines = txs[t].lines
            /\ txs'[t].status = IF t = voiding[c] THEN "VOID" ELSE txs[t].status
      BY <1>3, TableReverses
    <3> QED
      BY <3>1, <3>2
  <2>2. txs[voiding[c]].status \in {"POSTED", "VOID"}
    BY <2>1 DEF FollowInv
  <2>3. \A t \in DOMAIN txs : txs'[t].status \in {"POSTED", "VOID"} <=>
                              txs[t].status \in {"POSTED", "VOID"}
    BY <2>1, <2>2
  <2>4. \A d \in Clients : voiding'[d] \in {0, voiding[d]}
    BY <1>0, <2>1
  <2> QED
    BY <2>1, <2>3, <2>4, FollowQuietStep DEF Writing
<1>4. ASSUME NEW w \in Workers, Fetch(w) \/ Begin(w) \/ WriteEntry(w) \/ Upsert(w) \/ Rollback(w)
      PROVE  FollowInv'
  <2>1. UNCHANGED <<txs, ledger, voiding>>
    BY <1>4 DEF Fetch, Begin, WriteEntry, Upsert, Rollback
  <2>2. \A v \in Workers \ {w} : work'[v] = work[v]
    BY <1>0, <1>4 DEF Fetch, Begin, WriteEntry, Upsert, Rollback
  <2>3. Writing(w)' => \/ Writing(w) /\ work'[w].tx = work[w].tx
                       \/ work'[w].tx \in DOMAIN txs /\ Postable(txs[work'[w].tx].lines)
    <3>1. CASE Fetch(w)
      BY <1>0, <3>1 DEF Fetch, Writing, Fetched
    <3>2. CASE Begin(w)
      <4>1. work[w].tx \in DOMAIN txs /\ Postable(txs[work[w].tx].lines)
        BY <3>2 DEF Begin, PostingInv, OwnInv, OwnInvOf, Busy, Posting
      <4>2. work'[w].tx = work[w].tx
        BY <1>0, <3>2 DEF Begin
      <4> QED
        BY <4>1, <4>2
    <3>3. CASE WriteEntry(w)
      BY <1>0, <3>3 DEF WriteEntry, Writing
    <3>4. CASE Upsert(w)
      BY <1>0, <3>4 DEF Upsert, Writing
    <3>5. CASE Rollback(w)
      BY <1>0, <3>5 DEF Rollback, Writing, Idle
    <3> QED
      BY <1>4, <3>1, <3>2, <3>3, <3>4, <3>5
  <2> QED
    BY <2>1, <2>2, <2>3, FollowQuietStep DEF Writing
<1>5. ASSUME NEW w \in Workers, Refuse(w)
      PROVE  FollowInv'
  <2>1. /\ Busy(w) /\ txs' = Restate(txs, work[w].tx, "FAILED")
        /\ ~Postable(txs[work[w].tx].lines)
        /\ work' = [work EXCEPT ![w] = Idle] /\ UNCHANGED <<ledger, voiding>>
    BY <1>5 DEF Refuse, Busy, Restate, Posting
  <2>2. /\ work[w].tx \in DOMAIN txs /\ DOMAIN txs' = DOMAIN txs
        /\ \A t \in DOMAIN txs :
             /\ txs'[t].lines = txs[t].lines
             /\ txs'[t].status = IF t = work[w].tx THEN "FAILED" ELSE txs[t].status
    BY <2>1, TableMarked
  <2>3. txs[work[w].tx].status \notin {"POSTED", "VOID"}
    BY <2>1, <2>2 DEF FollowInv
  <2>4. \A t \in DOMAIN txs : txs'[t].status \in {"POSTED", "VOID"} <=>
                              txs[t].status \in {"POSTED", "VOID"}
    BY <2>2, <2>3
  <2>5. \A v \in Workers : Writing(v)' => Writing(v) /\ work'[v].tx = work[v].tx
    BY <1>0, <2>1 DEF Writing, Idle
  <2> QED
    BY <2>1, <2>2, <2>4, <2>5, FollowQuietStep
<1>6. ASSUME NEW w \in Workers, Post(w)
      PROVE  FollowInv'
  <2>1. /\ Busy(w) /\ Writing(w) /\ txs' = Restate(txs, work[w].tx, "POSTED")
        /\ work' = [work EXCEPT ![w] = Idle] /\ UNCHANGED voiding
        /\ ledger' = ledger \cup work[w].own
    BY <1>6 DEF Post, Busy, Restate, Writing
  <2>2. /\ work[w].tx \in DOMAIN txs /\ DOMAIN txs' = DOMAIN txs
        /\ \A t \in DOMAIN txs :
             /\ txs'[t].lines = txs[t].lines
             /\ txs'[t].status = IF t = work[w].tx THEN "POSTED" ELSE txs[t].status
    BY <2>1, TableMarked
  <2>3. Postable(txs[work[w].tx].lines)
    BY <2>1 DEF FollowInv, Posting
  <2>4. (\A e \in work[w].own : e.tx = work[w].tx) /\ \E e \in work[w].own : e.tx = work[w].tx
    <3>1. /\ \A e \in work[w].own : e.tx = work[w].tx
          /\ work[w].line \in 1..(Len(Posting(w).lines) + 1)
          /\ work[w].line > Len(Posting(w).lines)
          /\ {e.line : e \in work[w].own} = 1..(work[w].line - 1)
      BY <1>6 DEF PostingInv, OwnInv, OwnInvOf, Post
    <3>2. Posting(w).lines \in Seq(Line) /\ Posting(w).lines # <<>>
      <4>1. txs[work[w].tx] \in Transaction
        BY <2>2 DEF PostingInv, TypesButTotals
      <4> QED
        BY <2>3, <4>1 DEF Posting, Transaction, Postable
    <3>3. Len(Posting(w).lines) \in Nat /\ Len(Posting(w).lines) # 0
      BY <3>2
    <3>4. 1 \in 1..(work[w].line - 1)
      BY <3>1, <3>3
    <3> QED
      BY <3>1, <3>4
  <2>5. \A e \in ledger : e.tx \in DOMAIN txs
    BY DEF PostingInv, StampInv
  <2>6. \A v \in Workers : Writing(v)' => Postable(Posting(v)'.lines)
    <3>1. \A v \in Workers : Writing(v)' => Writing(v) /\ work'[v].tx = work[v].tx
      BY <1>0, <2>1 DEF Writing, Idle
    <3>2. \A v \in Workers : Writing(v) => work[v].tx \in DOMAIN txs
      BY DEF PostingInv, OwnInv, OwnInvOf, Busy, Writing
    <3> QED
      BY <2>2, <3>1, <3>2 DEF FollowInv, Posting
  <2>7. \A c \in Clients : voiding'[c] # 0 => txs'[voiding'[c]].status \in {"POSTED", "VOID"}
    <3>1. \A c \in Clients : voiding[c] # 0 => voiding[c] \in DOMAIN txs
      BY DEF PostingInv, VoidingInv, TypesButTotals
    <3> QED
      BY <2>1, <2>2, <3>1 DEF FollowInv
  <2>8. \A t \in DOMAIN txs' : txs'[t].status \in {"POSTED", "VOID"} => Postable(txs'[t].lines)
    BY <2>2, <2>3 DEF FollowInv
  <2>9. ASSUME NEW t \in DOMAIN txs'
        PROVE  txs'[t].status \in {"POSTED", "VOID"} <=> \E e \in ledger' : e.tx = t
    BY <2>1, <2>2, <2>4 DEF FollowInv, LedgerFollowsStatus
  <2> QED
    BY <2>6, <2>7, <2>8, <2>9 DEF FollowInv, LedgerFollowsStatus, Postable, Balanced
<1>7. CASE UNCHANGED ledgerVars
  BY <1>7 DEF ledgerVars, FollowInv, LedgerFollowsStatus, Writing, Posting
<1> QED
  BY <1>1, <1>2, <1>3, <1>4, <1>5, <1>6, <1>7 DEF LedgerNext, ClientStep, WorkerStep

\* A transaction has entries just when it is posted or void, whatever number
\* of workers post it side by side and whatever is rolled back or voided
\* meanwhile (HandleTransactionCreated marks it in the same commit).
THEOREM LedgerFollows == LedgerSpec => []LedgerFollowsStatus
<1>1. LedgerInit => PostingInv /\ FollowInv
  BY PostingInit DEF LedgerInit, FollowInv, Writing, Idle, LedgerFollowsStatus
<1>2. PostingInv /\ FollowInv /\ [LedgerNext]_ledgerVars => (PostingInv /\ FollowInv)'
  BY PostingStep, FollowStep
<1>3. FollowInv => LedgerFollowsStatus
  BY DEF FollowInv
<1> QED BY <1>1, <1>2, <1>3, PTL DEF LedgerSpec

-----------------------------------------------------------------------------
(* Entries are those of the journals.                                      *)

\* An entry has account and amount of the line it was made from.
FromLine(e) ==
  /\ e.tx \in DOMAIN txs /\ e.line \in DOMAIN txs[e.tx].lines
  /\ e.account = txs[e.tx].lines[e.line].account
  /\ e.amount = txs[e.tx].lines[e.line].amount

EntriesInv ==
  /\ IsFiniteSet(ledger)
  /\ \A e \in ledger : FromLine(e)
  /\ \A e, f \in ledger : e.at = f.at /\ e.line = f.line => e = f
  /\ \A w \in Workers :
       /\ IsFiniteSet(work[w].own)
       /\ \A e \in work[w].own : FromLine(e)
       /\ \A e, f \in work[w].own : e.line = f.line => e = f

LEMMA FromLineKept ==
  ASSUME PostingInv, [LedgerNext]_ledgerVars, NEW e, FromLine(e)
  PROVE  FromLine(e)'
<1>1. DOMAIN txs \subseteq DOMAIN txs' /\ \A t \in DOMAIN txs : txs'[t].lines = txs[t].lines
  BY JournalsAreFinal DEF PostingInv
<1>2. e.tx \in DOMAIN txs /\ txs'[e.tx].lines = txs[e.tx].lines
  BY <1>1 DEF FromLine
<1> QED
  BY <1>1, <1>2 DEF FromLine

\* The entry WriteEntry makes.
NewEntry(w, id) ==
  [tx |-> work[w].tx, line |-> work[w].line, account |-> CurrentLine(w).account,
   amount |-> CurrentLine(w).amount, at |-> work[w].stamp, id |-> id,
   running |-> LastBalance(CurrentLine(w).account, ledger \cup work[w].own)
                 + Signed(CurrentLine(w).account, CurrentLine(w).amount)]

LEMMA WritesOne ==
  ASSUME PostingInv, NEW w \in Workers, WriteEntry(w)
  PROVE  /\ work[w].at = "line" /\ work[w].tx \in DOMAIN txs
         /\ work[w].line \in DOMAIN txs[work[w].tx].lines
         /\ {e.line : e \in work[w].own} = 1..(work[w].line - 1)
         /\ \A e \in work[w].own : e.line # work[w].line
         /\ \E id \in FreeIds(w, CurrentLine(w).account) :
              /\ FromLine(NewEntry(w, id))
              /\ work' = [work EXCEPT ![w].at = "upsert", ![w].own = @ \cup {NewEntry(w, id)}]
              /\ work'[w].own = work[w].own \cup {NewEntry(w, id)}
              /\ work'[w].at = "upsert" /\ work'[w].tx = work[w].tx
              /\ work'[w].stamp = work[w].stamp /\ work'[w].line = work[w].line
              /\ \A v \in Workers \ {w} : work'[v] = work[v]
         /\ UNCHANGED <<txs, ledger, balances, voiding, clock>>
<1>1. /\ work[w].at = "line" /\ work[w].line \in DOMAIN txs[work[w].tx].lines
      /\ UNCHANGED <<txs, ledger, balances, voiding, clock>>
  BY DEF WriteEntry, Posting
<1>2. work[w].tx \in DOMAIN txs /\ {e.line : e \in work[w].own} = 1..(work[w].line - 1)
  BY <1>1 DEF PostingInv, OwnInv, OwnInvOf, Busy
<1>3. work[w] \in Work
  BY DEF PostingInv, TypesButTotals
<1>4. \A e \in work[w].own : e.line # work[w].line
  <2>1. work[w].line \in Nat
    BY <1>3 DEF Work
  <2>2. work[w].line \notin 1..(work[w].line - 1)
    BY <2>1
  <2> QED
    BY <1>2, <2>2
<1>5. PICK id \in FreeIds(w, CurrentLine(w).account) :
        work' = [work EXCEPT ![w].at = "upsert", ![w].own = @ \cup {NewEntry(w, id)}]
  BY DEF WriteEntry, NewEntry
<1>6. FromLine(NewEntry(w, id))
  BY <1>1, <1>2 DEF FromLine, NewEntry, CurrentLine, Posting
<1> PICK x : x = NewEntry(w, id)
  OBVIOUS
<1> PICK y : y = [work[w] EXCEPT !.at = "upsert", !.own = @ \cup {x}]
  OBVIOUS
<1>7. /\ y.own = work[w].own \cup {x} /\ y.at = "upsert" /\ y.tx = work[w].tx
      /\ y.stamp = work[w].stamp /\ y.line = work[w].line
  BY <1>3 DEF Work
<1>8. work' = [work EXCEPT ![w] = y] /\ work \in [Workers -> Work]
  BY <1>5 DEF PostingInv, TypesButTotals
<1>9. work'[w] = y /\ \A v \in Workers \ {w} : work'[v] = work[v]
  BY <1>8
<1> QED
  BY <1>1, <1>2, <1>4, <1>5, <1>6, <1>7, <1>9

LEMMA EntriesQuietStep ==
  ASSUME PostingInv, EntriesInv, [LedgerNext]_ledgerVars, UNCHANGED ledger,
         \A v \in Workers : work'[v].own \in {{}, work[v].own}
  PROVE  EntriesInv'
<1>1. \A e \in ledger' : FromLine(e)'
  BY FromLineKept DEF EntriesInv
<1>2. ASSUME NEW v \in Workers
      PROVE  /\ IsFiniteSet(work'[v].own)
             /\ \A e \in work'[v].own : FromLine(e)'
             /\ \A e, f \in work'[v].own : e.line = f.line => e = f
  BY FromLineKept, FS_EmptySet DEF EntriesInv
<1>3. IsFiniteSet(ledger') /\ \A e, f \in ledger' : e.at = f.at /\ e.line = f.line => e = f
  BY DEF EntriesInv
<1> QED
  BY <1>1, <1>2, <1>3 DEF EntriesInv

LEMMA EntriesStep == PostingInv /\ EntriesInv /\ [LedgerNext]_ledgerVars => EntriesInv'
<1> SUFFICES ASSUME PostingInv, EntriesInv, [LedgerNext]_ledgerVars PROVE EntriesInv'
  OBVIOUS
<1>0. work \in [Workers -> Work]
  BY DEF PostingInv, TypesButTotals
<1>1. CASE UNCHANGED <<ledger, work>>
  BY <1>1, EntriesQuietStep
<1>2. ASSUME NEW w \in Workers, Fetch(w) \/ Refuse(w) \/ Begin(w) \/ Upsert(w) \/ Rollback(w)
      PROVE  EntriesInv'
  <2>1. UNCHANGED ledger /\ \A v \in Workers \ {w} : work'[v] = work[v]
    BY <1>0, <1>2 DEF Fetch, Refuse, Begin, Upsert, Rollback
  <2>2. work'[w].own \in {{}, work[w].own}
    <3>1. CASE Fetch(w)
      BY <1>0, <3>1 DEF Fetch, Fetched
    <3>2. CASE Refuse(w) \/ Rollback(w)
      BY <1>0, <3>2 DEF Refuse, Rollback, Idle
    <3>3. CASE Begin(w)
      BY <1>0, <3>3 DEF Begin
    <3>4. CASE Upsert(w)
      BY <1>0, <3>4 DEF Upsert
    <3> QED
      BY <1>2, <3>1, <3>2, <3>3, <3>4
  <2> QED
    BY <2>1, <2>2, EntriesQuietStep
<1>3. ASSUME NEW w \in Workers, WriteEntry(w)
      PROVE  EntriesInv'
  <2>1. PICK id : /\ FromLine(NewEntry(w, id))
                  /\ work'[w].own = work[w].own \cup {NewEntry(w, id)}
                  /\ \A v \in Workers \ {w} : work'[v] = work[v]
                  /\ UNCHANGED <<txs, ledger>>
                  /\ \A e \in work[w].own : e.line # work[w].line
    BY <1>3, WritesOne
  <2> PICK x : x = NewEntry(w, id)
    OBVIOUS
  <2>2. FromLine(x)' /\ x.line = work[w].line
    BY <2>1 DEF FromLine, NewEntry
  <2>3. /\ IsFiniteSet(work'[w].own)
        /\ \A e \in work'[w].own : FromLine(e)'
        /\ \A e, f \in work'[w].own : e.line = f.line => e = f
    <3>1. IsFiniteSet(work[w].own \cup {x})
      BY FS_AddElement DEF EntriesInv
    <3>2. \A e \in work[w].own : FromLine(e)'
      BY FromLineKept DEF EntriesInv
    <3> QED
      BY <2>1, <2>2, <3>1, <3>2 DEF EntriesInv
  <2>4. \A v \in Workers \ {w} : /\ IsFiniteSet(work'[v].own)
                                 /\ \A e \in work'[v].own : FromLine(e)'
                                 /\ \A e, f \in work'[v].own : e.line = f.line => e = f
    BY <2>1, FromLineKept DEF EntriesInv
  <2>5. \A e \in ledger : FromLine(e)'
    BY FromLineKept DEF EntriesInv
  <2> QED
    BY <2>1, <2>3, <2>4, <2>5 DEF EntriesInv
<1>4. ASSUME NEW w \in Workers, Post(w)
      PROVE  EntriesInv'
  <2>1. /\ ledger' = ledger \cup work[w].own /\ work' = [work EXCEPT ![w] = Idle]
        /\ Writing(w)
    BY <1>4 DEF Post, Writing
  <2>2. \A e \in ledger' : FromLine(e)'
    BY <2>1, FromLineKept DEF EntriesInv
  <2>3. IsFiniteSet(ledger')
    BY <2>1, FS_Union DEF EntriesInv
  <2>4. ASSUME NEW e \in ledger', NEW f \in ledger', e.at = f.at, e.line = f.line
        PROVE  e = f
    <3>1. \A g \in ledger, h \in work[w].own : g.at # h.at
      BY <2>1 DEF PostingInv, StampInv, OwnInv, OwnInvOf
    <3> QED
      BY <2>1, <2>4, <3>1 DEF EntriesInv
  <2>5. ASSUME NEW v \in Workers
        PROVE  /\ IsFiniteSet(work'[v].own)
               /\ \A e \in work'[v].own : FromLine(e)'
               /\ \A e, f \in work'[v].own : e.line = f.line => e = f
    <3>1. work'[v].own \in {{}, work[v].own}
      BY <1>0, <2>1 DEF Idle
    <3> QED
      BY <3>1, FromLineKept, FS_EmptySet DEF EntriesInv
  <2> QED
    BY <2>2, <2>3, <2>4, <2>5 DEF EntriesInv
<1> QED
  BY <1>1, <1>2, <1>3, <1>4
  DEF LedgerNext, ClientStep, WorkerStep, CreateTransaction, StartVoid, CommitVoid, AbortVoid,
      ledgerVars

LEMMA EntriesInit == LedgerInit => EntriesInv
<1>1. IsFiniteSet({})
  BY FS_EmptySet
<1>2. LedgerInit => ledger = {} /\ \A w \in Workers : work[w].own = {}
  BY DEF LedgerInit, Idle
<1> QED
  BY <1>1, <1>2 DEF EntriesInv

-----------------------------------------------------------------------------
(* A void nets to zero.                                                    *)

\* What the module adds up is the sum of the weights.
LEMMA NetOfIs ==
  ASSUME NEW S, IsFiniteSet(S), NEW w, \A x \in S : x.amount \in Int /\ w[x] = x.amount
  PROVE  NetOf(S) = Total(S, w)
<1> DEFINE P(g) == g = [s \in SUBSET S |->
             IF s = {} THEN 0 ELSE One(s).amount + g[s \ {One(s)}]]
<1>1. ASSUME NEW s \in SUBSET S, s # {}
      PROVE  w[One(s)] = One(s).amount
  BY <1>1 DEF One
<1>2. ASSUME NEW g PROVE P(g) <=> Adds(S, w, g)
  BY <1>1 DEF Adds
<1>3. NetOf(S) = (CHOOSE g : P(g))[S]
  BY DEF NetOf, One, MapThenSumSet, MapThenFoldSet
<1> HIDE DEF P
<1>4. \E g : Adds(S, w, g)
  BY SumsExist
<1>5. P(CHOOSE g : P(g))
  BY <1>2, <1>4
<1>6. Adds(S, w, CHOOSE g : P(g))
  BY <1>2, <1>5
<1> QED
  BY <1>3, <1>6, AddsToTotal

OneClient == \A c, d \in Clients : c = d

\* With one worker and one client what is reversed is void, and void is
\* what has been reversed, once.
VoidInv ==
  /\ \A s \in DOMAIN txs : txs[s].reverses # 0 =>
       /\ txs[s].reverses \in DOMAIN txs /\ txs[s].reverses < s
       /\ txs[txs[s].reverses].status = "VOID"
       /\ txs[s].lines = SwappedLines(txs[txs[s].reverses].lines)
  /\ \A r, s \in DOMAIN txs : txs[r].reverses = txs[s].reverses /\ txs[r].reverses # 0 => r = s
  /\ \A t \in DOMAIN txs : txs[t].status = "VOID" => \E s \in DOMAIN txs : txs[s].reverses = t
  /\ \A c \in Clients : voiding[c] # 0 => txs[voiding[c]].status = "POSTED"

\* Steps that add no reversal and take no status from VOID or POSTED.
LEMMA VoidQuietStep ==
  ASSUME PostingInv, VoidInv,
         DOMAIN txs \subseteq DOMAIN txs',
         \A t \in DOMAIN txs :
           /\ txs'[t].lines = txs[t].lines /\ txs'[t].reverses = txs[t].reverses
           /\ txs'[t].status = "VOID" <=> txs[t].status = "VOID"
           /\ txs[t].status = "POSTED" => txs'[t].status = "POSTED",
         \A t \in DOMAIN txs' \ DOMAIN txs : txs'[t].reverses = 0 /\ txs'[t].status = "DRAFT",
         \A c \in Clients : \/ voiding'[c] \in {0, voiding[c]}
                            \/ /\ voiding'[c] \in DOMAIN txs
                               /\ txs[voiding'[c]].status = "POSTED"
  PROVE  VoidInv'
<1>1. \A c \in Clients : voiding[c] # 0 => voiding[c] \in DOMAIN txs
  BY DEF PostingInv, VoidingInv, TypesButTotals
<1>2. \A s \in DOMAIN txs' : txs'[s].reverses # 0 => s \in DOMAIN txs
  OBVIOUS
<1>3. ASSUME NEW s \in DOMAIN txs', txs'[s].reverses # 0
      PROVE  /\ txs'[s].reverses \in DOMAIN txs' /\ txs'[s].reverses < s
             /\ txs'[txs'[s].reverses].status = "VOID"
             /\ txs'[s].lines = SwappedLines(txs'[txs'[s].reverses].lines)
  <2>1. s \in DOMAIN txs /\ txs'[s].reverses = txs[s].reverses /\ txs[s].reverses # 0
    BY <1>2, <1>3
  <2>2. /\ txs[s].reverses \in DOMAIN txs /\ txs[s].reverses < s
        /\ txs[txs[s].reverses].status = "VOID"
        /\ txs[s].lines = SwappedLines(txs[txs[s].reverses].lines)
    BY <2>1 DEF VoidInv
  <2> QED
    BY <2>1, <2>2
<1>4. \A r, s \in DOMAIN txs' :
        txs'[r].reverses = txs'[s].reverses /\ txs'[r].reverses # 0 => r = s
  BY <1>2 DEF VoidInv
<1>5. ASSUME NEW t \in DOMAIN txs', txs'[t].status = "VOID"
      PROVE  \E s \in DOMAIN txs' : txs'[s].reverses = t
  BY <1>5 DEF VoidInv
<1>6. \A c \in Clients : voiding'[c] # 0 => txs'[voiding'[c]].status = "POSTED"
  BY <1>1 DEF VoidInv
<1> QED
  BY <1>3, <1>4, <1>5, <1>6 DEF VoidInv

LEMMA VoidCommitStep ==
  ASSUME OneClient, PostingInv, VoidInv, NEW c \in Clients, CommitVoid(c)
  PROVE  VoidInv'
<1> PICK n, v : n = Len(txs) + 1 /\ v = voiding[c]
  OBVIOUS
<1>1. /\ v \in DOMAIN txs /\ v # 0 /\ DOMAIN txs' = DOMAIN txs \cup {n} /\ n \notin DOMAIN txs
      /\ \A t \in DOMAIN txs :
           /\ txs'[t].lines = txs[t].lines /\ txs'[t].reverses = txs[t].reverses
           /\ txs'[t].status = IF t = v THEN "VOID" ELSE txs[t].status
      /\ txs'[n].status = "DRAFT" /\ txs'[n].reverses = v
      /\ txs'[n].lines = SwappedLines(txs[v].lines)
      /\ voiding' = [voiding EXCEPT ![c] = 0]
  <2>1. voiding[c] \in DOMAIN txs /\ voiding[c] # 0 /\ voiding' = [voiding EXCEPT ![c] = 0]
    BY TableReverses
  <2>2. DOMAIN txs' = DOMAIN txs \cup {Len(txs) + 1} /\ Len(txs) + 1 \notin DOMAIN txs
    BY TableReverses
  <2>3. \A t \in DOMAIN txs :
          /\ txs'[t].lines = txs[t].lines /\ txs'[t].reverses = txs[t].reverses
          /\ txs'[t].status = IF t = voiding[c] THEN "VOID" ELSE txs[t].status
    BY TableReverses
  <2>4. /\ txs'[Len(txs) + 1].status = "DRAFT" /\ txs'[Len(txs) + 1].reverses = voiding[c]
        /\ txs'[Len(txs) + 1].lines = SwappedLines(txs[voiding[c]].lines)
    BY TableReverses
  <2> QED
    BY <2>1, <2>2, <2>3, <2>4
<1>2. DOMAIN txs = 1..Len(txs) /\ Len(txs) \in Nat /\ voiding \in [Clients -> 0..MaxTransactions]
  BY DEF PostingInv, TypesButTotals
<1>3. v < n
  BY <1>1, <1>2
<1>4. txs[v].status = "POSTED" /\ \A s \in DOMAIN txs : txs[s].reverses # v
  BY <1>1 DEF VoidInv
<1>5. \A d \in Clients : voiding'[d] = 0
  BY <1>1, <1>2 DEF OneClient
<1>6. ASSUME NEW s \in DOMAIN txs', txs'[s].reverses # 0
      PROVE  /\ txs'[s].reverses \in DOMAIN txs' /\ txs'[s].reverses < s
             /\ txs'[txs'[s].reverses].status = "VOID"
             /\ txs'[s].lines = SwappedLines(txs'[txs'[s].reverses].lines)
  <2>1. CASE s = n
    BY <1>1, <1>3, <2>1
  <2>2. CASE s \in DOMAIN txs
    <3>1. txs'[s].reverses = txs[s].reverses /\ txs[s].reverses # 0
      BY <1>1, <1>6, <2>2
    <3>2. /\ txs[s].reverses \in DOMAIN txs /\ txs[s].reverses < s
          /\ txs[txs[s].reverses].status = "VOID"
          /\ txs[s].lines = SwappedLines(txs[txs[s].reverses].lines)
      BY <2>2, <3>1 DEF VoidInv
    <3> QED
      BY <1>1, <2>2, <3>1, <3>2
  <2> QED
    BY <1>1, <2>1, <2>2
<1>7. ASSUME NEW r \in DOMAIN txs', NEW s \in DOMAIN txs',
             txs'[r].reverses = txs'[s].reverses, txs'[r].reverses # 0
      PROVE  r = s
  <2>1. CASE r \in DOMAIN txs /\ s \in DOMAIN txs
    BY <1>1, <1>7, <2>1 DEF VoidInv
  <2>2. CASE r = n \/ s = n
    BY <1>1, <1>4, <1>7, <2>2
  <2> QED
    BY <1>1, <2>1, <2>2
<1>8. ASSUME NEW t \in DOMAIN txs', txs'[t].status = "VOID"
      PROVE  \E s \in DOMAIN txs' : txs'[s].reverses = t
  <2>1. CASE t = v
    BY <1>1, <2>1
  <2>2. CASE t # v
    <3>1. t \in DOMAIN txs /\ txs[t].status = "VOID"
      BY <1>1, <1>8, <2>2
    <3> QED
      BY <1>1, <3>1 DEF VoidInv
  <2> QED
    BY <2>1, <2>2
<1> QED
  BY <1>5, <1>6, <1>7, <1>8 DEF VoidInv

LEMMA VoidStep ==
  ASSUME OneClient, PostingInv, OnceInv, VoidInv, [LedgerNext]_ledgerVars
  PROVE  VoidInv'
<1>0. voiding \in [Clients -> 0..MaxTransactions]
  BY DEF PostingInv, TypesButTotals
<1>1. CASE CreateTransaction
  BY <1>1, TableGrows, VoidQuietStep
<1>2. ASSUME NEW c \in Clients, StartVoid(c) \/ AbortVoid(c)
      PROVE  VoidInv'
  <2>1. UNCHANGED txs
    BY <1>2 DEF StartVoid, AbortVoid
  <2>2. \A d \in Clients : \/ voiding'[d] \in {0, voiding[d]}
                           \/ /\ voiding'[d] \in DOMAIN txs
                              /\ txs[voiding'[d]].status = "POSTED"
    BY <1>0, <1>2 DEF StartVoid, AbortVoid
  <2> QED
    BY <2>1, <2>2, VoidQuietStep
<1>3. ASSUME NEW c \in Clients, CommitVoid(c)
      PROVE  VoidInv'
  BY <1>3, VoidCommitStep
<1>4. CASE UNCHANGED <<txs, voiding>>
  BY <1>4, VoidQuietStep
<1>5. ASSUME NEW w \in Workers, NEW v \in {"POSTED", "FAILED"}, Busy(w),
             txs' = Restate(txs, work[w].tx, v), UNCHANGED voiding
      PROVE  VoidInv'
  <2>1. /\ work[w].tx \in DOMAIN txs /\ DOMAIN txs' = DOMAIN txs
        /\ \A t \in DOMAIN txs :
             /\ txs'[t].lines = txs[t].lines /\ txs'[t].reverses = txs[t].reverses
             /\ txs'[t].status = IF t = work[w].tx THEN v ELSE txs[t].status
    BY <1>5, TableMarked
  <2>2. txs[work[w].tx].status = "DRAFT"
    BY <1>5 DEF OnceInv, Posting
  <2> QED
    BY <1>5, <2>1, <2>2, VoidQuietStep
<1>6. ASSUME NEW w \in Workers, Refuse(w) \/ Post(w)
      PROVE  VoidInv'
  BY <1>5, <1>6 DEF Refuse, Post, Busy, Restate
<1> QED
  BY <1>1, <1>2, <1>3, <1>4, <1>6
  DEF LedgerNext, ClientStep, WorkerStep, Fetch, Begin, WriteEntry, Upsert, Rollback, ledgerVars

\* The entries of a transaction: one for each line.
LEMMA EntriesOf ==
  ASSUME PostingInv, OnceInv, EntriesInv, NEW t \in DOMAIN txs, \E e \in ledger : e.tx = t
  PROVE  /\ \A i \in DOMAIN txs[t].lines : \E e \in ledger : e.tx = t /\ e.line = i
         /\ \A e, f \in ledger : e.tx = t /\ f.tx = t /\ e.line = f.line => e = f
<1>1. PICK e \in ledger : e.tx = t
  OBVIOUS
<1>2. {f.line : f \in {g \in ledger : g.at = e.at}} = DOMAIN txs[t].lines
  BY <1>1 DEF PostingInv, PostingsAreWhole
<1>3. \A f \in ledger : f.at = e.at => f.tx = t
  BY <1>1 DEF PostingInv, PostingsAreWhole
<1>4. ASSUME NEW i \in DOMAIN txs[t].lines
      PROVE  \E f \in ledger : f.tx = t /\ f.line = i
  BY <1>2, <1>3, <1>4
<1>5. \A f, g \in ledger : f.tx = t /\ g.tx = t /\ f.line = g.line => f = g
  BY DEF OnceInv, EntriesInv
<1> QED
  BY <1>4, <1>5

LEMMA Cancels ==
  ASSUME PostingInv, OnceInv, EntriesInv,
         NEW t \in DOMAIN txs, NEW s \in DOMAIN txs, s # t, NEW a,
         txs[s].lines = SwappedLines(txs[t].lines),
         \E e \in ledger : e.tx = t, \E e \in ledger : e.tx = s
  PROVE  NetOf({e \in On(a, ledger) : e.tx \in {t, s}}) = 0
<1> DEFINE R == {e \in On(a, ledger) : e.tx = t}
           S == {e \in On(a, ledger) : e.tx = s}
           amount == [e \in ledger |-> e.amount]
           counter == [e \in ledger |-> -e.amount]
           zero == [e \in ledger |-> 0]
           pair == [e \in R |-> CHOOSE f \in ledger : f.tx = s /\ f.line = e.line]
<1>1. \A e \in ledger : e.amount \in Int
  BY DEF PostingInv, TypesButTotals, Entry
<1>2. /\ R \subseteq ledger /\ S \subseteq ledger /\ R \cap S = {}
      /\ {e \in On(a, ledger) : e.tx \in {t, s}} = R \cup S
  BY DEF On
<1>3. IsFiniteSet(ledger) /\ IsFiniteSet(R) /\ IsFiniteSet(S) /\ IsFiniteSet(R \cup S)
  <2>1. IsFiniteSet(ledger)
    BY DEF EntriesInv
  <2>2. IsFiniteSet(R) /\ IsFiniteSet(S)
    BY <1>2, <2>1, FS_Subset
  <2> QED
    BY <2>1, <2>2, FS_Union
<1>4. /\ DOMAIN txs[s].lines = DOMAIN txs[t].lines
      /\ \A i \in DOMAIN txs[t].lines :
           /\ txs[s].lines[i].account = txs[t].lines[i].account
           /\ txs[s].lines[i].amount = -txs[t].lines[i].amount
  <2>1. DOMAIN txs[s].lines = DOMAIN txs[t].lines
    BY DEF SwappedLines
  <2>2. ASSUME NEW i \in DOMAIN txs[t].lines
        PROVE  /\ txs[s].lines[i].account = txs[t].lines[i].account
               /\ txs[s].lines[i].amount = -txs[t].lines[i].amount
    <3> PICK tx : tx = txs[t]
      OBVIOUS
    <3>a. tx \in Transaction
      BY DEF PostingInv, TypesButTotals
    <3>1. txs[t].lines \in Seq(Line)
      BY <3>a DEF Transaction
    <3>2. txs[t].lines[i] \in Line
      BY <3>1
    <3>3. txs[s].lines[i] = [txs[t].lines[i] EXCEPT !.amount = -@]
      BY DEF SwappedLines
    <3> QED
      BY <3>2, <3>3 DEF Line
  <2> QED
    BY <2>1, <2>2
<1>5. /\ \A e \in ledger : e.tx \in {t, s} =>
           /\ e.line \in DOMAIN txs[t].lines
           /\ e.account = txs[t].lines[e.line].account
           /\ e.tx = t => e.amount = txs[t].lines[e.line].amount
           /\ e.tx = s => e.amount = -txs[t].lines[e.line].amount
  BY <1>4 DEF EntriesInv, FromLine
<1>6. /\ \A i \in DOMAIN txs[t].lines :
           /\ \E e \in ledger : e.tx = t /\ e.line = i
           /\ \E e \in ledger : e.tx = s /\ e.line = i
      /\ \A e, f \in ledger : e.tx = f.tx /\ e.tx \in {t, s} /\ e.line = f.line => e = f
  BY <1>4, EntriesOf
<1>7. ASSUME NEW e \in R
      PROVE  pair[e] \in S /\ pair[e].line = e.line /\ amount[pair[e]] = counter[e]
  <2>1. e \in ledger /\ e.tx = t /\ e.account = a
    BY DEF On
  <2>2. \E f \in ledger : f.tx = s /\ f.line = e.line
    BY <1>5, <1>6, <2>1
  <2>3. pair[e] \in ledger /\ pair[e].tx = s /\ pair[e].line = e.line
    BY <2>2
  <2>4. /\ pair[e].account = a
        /\ pair[e].amount = -e.amount
    BY <1>5, <2>1, <2>3
  <2> QED
    BY <2>1, <2>3, <2>4 DEF On
<1>8. /\ pair \in [R -> S]
      /\ \A e, f \in R : pair[e] = pair[f] => e = f
      /\ \A f \in S : \E e \in R : pair[e] = f
  <2>1. pair \in [R -> S]
    BY <1>7
  <2>2. ASSUME NEW e \in R, NEW f \in R, pair[e] = pair[f] PROVE e = f
    <3>0. pair[e].line = e.line /\ pair[f].line = f.line
      BY <1>7
    <3> HIDE DEF pair
    <3>1. e.line = f.line
      BY <2>2, <3>0
    <3> QED
      BY <1>6, <3>1 DEF On
  <2>3. ASSUME NEW f \in S PROVE \E e \in R : pair[e] = f
    <3>1. f \in ledger /\ f.tx = s /\ f.account = a
      BY DEF On
    <3>2. PICK e \in ledger : e.tx = t /\ e.line = f.line
      BY <1>5, <1>6, <3>1
    <3>3. e \in R
      BY <1>5, <3>1, <3>2 DEF On
    <3>4. pair[e] \in S /\ pair[e].line = f.line
      BY <1>7, <3>2, <3>3
    <3>5. pair[e] = f
      BY <1>6, <3>1, <3>4 DEF On
    <3> QED
      BY <3>3, <3>5
  <2> QED
    BY <2>1, <2>2, <2>3
<1>9. /\ \A e \in ledger : /\ amount[e] = e.amount /\ amount[e] \in Int /\ counter[e] \in Int
                           /\ zero[e] = amount[e] + counter[e] /\ zero[e] = 0
  BY <1>1
<1>10. \A e \in R : counter[e] \in Int /\ amount[pair[e]] = counter[e]
  BY <1>2, <1>7, <1>9
<1>11. NetOf({e \in On(a, ledger) : e.tx \in {t, s}}) = NetOf(R \cup S)
  BY <1>2
<1>12. \A e \in R \cup S : e \in ledger
  BY <1>2
<1> HIDE DEF R, S, amount, counter, zero, pair
<1>13. NetOf(R \cup S) = Total(R \cup S, amount)
  BY <1>1, <1>3, <1>9, <1>12, NetOfIs
<1>14. Total(R \cup S, amount) = Total(R, amount) + Total(S, amount)
  BY <1>2, <1>3, <1>9, <1>12, TotalUnion
<1>15. Total(S, amount) = Total(R, counter)
  BY <1>3, <1>8, <1>10, TotalPaired
<1>16. Total(R, zero) = Total(R, amount) + Total(R, counter)
  BY <1>2, <1>3, <1>9, TotalPlus
<1>17. Total(R, zero) = 0
  BY <1>2, <1>3, <1>9, TotalZero
<1> QED
  BY <1>11, <1>13, <1>14, <1>15, <1>16, <1>17

LEMMA VoidCancels ==
  ASSUME PostingInv, OnceInv, FollowInv, EntriesInv, VoidInv
  PROVE  VoidNetsToZero
<1> SUFFICES ASSUME NEW t \in DOMAIN txs, txs[t].status = "VOID",
                    \A s \in Reversals(t) : LedgerPosted(s) # {}, NEW a \in Accounts
             PROVE  NetOf({e \in On(a, ledger) : e.tx \in {t} \cup Reversals(t)}) = 0
  BY DEF VoidNetsToZero
<1>1. DOMAIN txs = 1..Len(txs) /\ Len(txs) \in Nat
  BY DEF PostingInv, TypesButTotals
<1>2. PICK s \in DOMAIN txs : txs[s].reverses = t
  BY DEF VoidInv
<1>3. /\ t # 0 /\ s # t /\ txs[s].lines = SwappedLines(txs[t].lines)
      /\ \A r \in DOMAIN txs : txs[r].reverses = t => r = s
  BY <1>1, <1>2 DEF VoidInv
<1>4. Reversals(t) = {s}
  BY <1>2, <1>3 DEF Reversals
<1>5. {t} \cup Reversals(t) = {t, s}
  BY <1>4
<1>6. (\E e \in ledger : e.tx = t) /\ (\E e \in ledger : e.tx = s)
  BY <1>4 DEF FollowInv, LedgerFollowsStatus, LedgerPosted
<1>7. NetOf({e \in On(a, ledger) : e.tx \in {t, s}}) = 0
  BY <1>3, <1>6, Cancels
<1> QED
  BY <1>5, <1>7

\* With one worker and requests that void one at a time, a voided transaction
\* and its reversal cancel out on every account once both are posted,
\* whatever the journals, and whatever is rolled back or delivered again
\* (VoidTransaction and HandleTransactionCreated).
THEOREM VoidsNetToZero ==
  ASSUME OneWorker, OneClient
  PROVE  LedgerSpec => []VoidNetsToZero
<1> DEFINE Inv == PostingInv /\ OnceInv /\ FollowInv /\ EntriesInv /\ VoidInv
<1>1. LedgerInit => Inv
  <2>1. LedgerInit => FollowInv
    BY DEF LedgerInit, FollowInv, Writing, Idle, LedgerFollowsStatus
  <2>2. LedgerInit => VoidInv
    BY DEF LedgerInit, VoidInv
  <2> QED
    BY <2>1, <2>2, PostingInit, OnceInit, EntriesInit
<1>2. Inv /\ [LedgerNext]_ledgerVars => Inv'
  BY PostingStep, OnceStep, FollowStep, EntriesStep, VoidStep
<1>3. Inv => VoidNetsToZero
  BY VoidCancels
<1> QED BY <1>1, <1>2, <1>3, PTL DEF LedgerSpec

-----------------------------------------------------------------------------
(* Running balances.                                                       *)

LEMMA NetOfSteps ==
  ASSUME NEW S, IsFiniteSet(S), \A x \in S : x.amount \in Int
  PROVE  /\ NetOf(S) \in Int
         /\ S = {} => NetOf(S) = 0
         /\ \A x \in S : NetOf(S) = NetOf(S \ {x}) + x.amount
<1> DEFINE w == [x \in S |-> x.amount]
<1>1. \A x \in S : w[x] = x.amount /\ w[x] \in Int
  OBVIOUS
<1> HIDE DEF w
<1>2. NetOf(S) = Total(S, w)
  BY <1>1, NetOfIs
<1>3. NetOf(S) \in Int /\ (S = {} => NetOf(S) = 0)
  BY <1>1, <1>2, TotalStep
<1>4. ASSUME NEW x \in S PROVE NetOf(S) = NetOf(S \ {x}) + x.amount
  <2>1. IsFiniteSet(S \ {x})
    BY FS_RemoveElement
  <2>2. NetOf(S \ {x}) = Total(S \ {x}, w)
    BY <1>1, <2>1, NetOfIs
  <2>3. Total(S \ {x}, w) \in Int
    BY <1>1, <2>1, TotalStep
  <2>4. Total(S, w) = w[x] + Total(S \ {x}, w)
    BY <1>1, TotalWithout
  <2> QED
    BY <1>1, <1>2, <2>2, <2>3, <2>4
<1> QED
  BY <1>3, <1>4

\* Some entry is the latest.
LEMMA LatestExists ==
  ASSUME NEW S, IsFiniteSet(S), S # {}, \A e \in S : e.at \in Nat
  PROVE  \E e \in S : \A f \in S : f.at <= e.at
<1> DEFINE good == {s \in SUBSET S : s # {} => \E e \in s : \A f \in s : f.at <= e.at}
<1>1. {} \in good
  OBVIOUS
<1>2. ASSUME NEW s \in SUBSET S, NEW x \in S \ s, s \in good PROVE s \cup {x} \in good
  <2>1. CASE s = {}
    BY <2>1
  <2>2. CASE s # {}
    <3>1. PICK e \in s : \A f \in s : f.at <= e.at
      BY <1>2, <2>2
    <3>2. CASE x.at <= e.at
      BY <3>1, <3>2
    <3>3. CASE e.at <= x.at
      BY <3>1, <3>3
    <3> QED
      BY <3>2, <3>3
  <2> QED
    BY <2>1, <2>2
<1> HIDE DEF good
<1>3. S \in good
  BY <1>1, <1>2, OneByOne
<1> QED
  BY <1>3 DEF good

\* Some entry has the last line.
LEMMA LastLineExists ==
  ASSUME NEW S, IsFiniteSet(S), S # {}, \A e \in S : e.line \in Nat
  PROVE  \E e \in S : \A f \in S : f.line <= e.line
<1> DEFINE good == {s \in SUBSET S : s # {} => \E e \in s : \A f \in s : f.line <= e.line}
<1>1. {} \in good
  OBVIOUS
<1>2. ASSUME NEW s \in SUBSET S, NEW x \in S \ s, s \in good PROVE s \cup {x} \in good
  <2>1. CASE s = {}
    BY <2>1
  <2>2. CASE s # {}
    <3>1. PICK e \in s : \A f \in s : f.line <= e.line
      BY <1>2, <2>2
    <3>2. CASE x.line <= e.line
      BY <3>1, <3>2
    <3>3. CASE e.line <= x.line
      BY <3>1, <3>3
    <3> QED
      BY <3>2, <3>3
  <2> QED
    BY <2>1, <2>2
<1> HIDE DEF good
<1>3. S \in good
  BY <1>1, <1>2, OneByOne
<1> QED
  BY <1>3 DEF good

LEMMA LastOfNone ==
  ASSUME NEW a, NEW entries, On(a, entries) = {}
  PROVE  LastBalance(a, entries) = 0
  BY DEF LastBalance, Latest, RunningOf

\* The entry after all others is the one LastBalance reads.
LEMMA LastOfSome ==
  ASSUME NEW a, NEW entries \in SUBSET Entry, NEW e \in On(a, entries),
         \A f \in On(a, entries) : f = e \/ f.at < e.at
  PROVE  LastBalance(a, entries) = e.running
<1>0. \A f \in On(a, entries) : f.at \in Nat /\ f.id \in Nat
  BY DEF On, Entry
<1>1. \A f \in On(a, entries) : ~Before(e, f)
  BY <1>0 DEF Before
<1>2. \A f \in On(a, entries) : f # e => Before(f, e)
  BY DEF Before
<1>3. Latest(a, entries) = {e}
  BY <1>1, <1>2 DEF Latest
<1> QED
  BY <1>3 DEF LastBalance, RunningOf

LEMMA SignedSums ==
  ASSUME NEW a
  PROVE  /\ Signed(a, 0) = 0
         /\ \A x, y \in Int : Signed(a, x) \in Int /\ Signed(a, x + y) = Signed(a, x) + Signed(a, y)
<1>1. \A x, y \in Int : Signed(a, x) \in Int /\ Signed(a, x + y) = Signed(a, x) + Signed(a, y)
  BY DEF Signed
<1>2. \A z \in Int : z + z = z => z = 0
  OBVIOUS
<1>3. 0 + 0 = 0
  OBVIOUS
<1> DEFINE sign(z) == Signed(a, z)
<1>4. sign(0) \in Int /\ sign(0 + 0) = sign(0) + sign(0)
  BY <1>1
<1> HIDE DEF sign
<1>5. sign(0) = 0
  BY <1>2, <1>3, <1>4
<1> QED
  BY <1>1, <1>5 DEF sign

\* Where no posting has touched the account twice, the last balance is the
\* sum of its entries.
LEMMA LastIsSum ==
  ASSUME NEW S \in SUBSET Entry, IsFiniteSet(S), RunsIn(S), NEW a, OnePerPosting(On(a, S))
  PROVE  LastBalance(a, S) = Signed(a, NetOf(On(a, S)))
<1> PICK T : T = On(a, S)
  OBVIOUS
<1>1. T \subseteq S /\ \A e \in T : e.account = a
  BY DEF On
<1>2. IsFiniteSet(T) /\ \A e \in T : e.at \in Nat /\ e.line \in Nat /\ e.amount \in Int
  BY <1>1, FS_Subset DEF Entry
<1>3. CASE T = {}
  <2>1. NetOf(T) = 0
    BY <1>2, <1>3, NetOfSteps
  <2> QED
    BY <1>3, <2>1, SignedSums, LastOfNone
<1>4. CASE T # {}
  <2>1. PICK e \in T : \A f \in T : f.at <= e.at
    BY <1>2, <1>4, LatestExists
  <2>2. \A f \in T : f = e \/ f.at < e.at
    BY <1>2, <2>1 DEF OnePerPosting
  <2>3. LastBalance(a, S) = e.running
    BY <2>1, <2>2, LastOfSome
  <2>4. {f \in T : WrittenBefore(f, e)} = T \ {e}
    BY <1>2, <2>1, <2>2 DEF WrittenBefore
  <2>5. OnePerPosting(T \ {e})
    BY DEF OnePerPosting
  <2>6. e.running = Signed(a, NetOf(T \ {e}) + e.amount)
    <3>1. e \in S /\ e.account = a
      BY <1>1
    <3>2. OnePerPosting({f \in On(e.account, S) : WrittenBefore(f, e)})
            => e.running = Signed(e.account, NetOf({f \in On(e.account, S) : WrittenBefore(f, e)}) + e.amount)
      BY <3>1 DEF RunsIn
    <3>3. On(e.account, S) = T
      BY <3>1
    <3> QED
      BY <2>4, <2>5, <3>1, <3>2, <3>3
  <2>7. NetOf(T) = NetOf(T \ {e}) + e.amount
    BY <1>2, NetOfSteps
  <2> QED
    BY <2>3, <2>6, <2>7
<1> QED
  BY <1>3, <1>4

\* With one worker: what is in the ledger, with what the posting in progress
\* has written after it, has the right running balances.
RunInv ==
  /\ \A w \in Workers : Writing(w) => work[w].stamp = clock
  /\ RunsIn(ledger)
  /\ \A w \in Workers : RunsIn(ledger \cup work[w].own)
  /\ \A r \in Accounts \X Months : EndsWithLast(r)

\* The entries of a posting in progress come after all others.
LEMMA OwnComesLast ==
  ASSUME PostingInv, RunInv, NEW w \in Workers, Writing(w), NEW f \in ledger
  PROVE  f.at < work[w].stamp
<1>1. work[w].stamp = clock /\ f.at \in 1..clock /\ f.at # work[w].stamp /\ clock \in Nat
  BY DEF RunInv, PostingInv, StampInv, TypesButTotals
<1> QED
  BY <1>1

\* A step that commits no entry and writes none.
LEMMA RunQuietStep ==
  ASSUME PostingInv, RunInv, UNCHANGED <<ledger, balances>>,
         DOMAIN txs \subseteq DOMAIN txs',
         \A t \in DOMAIN txs : txs'[t].month = txs[t].month,
         \A w \in Workers : work'[w].own \in {{}, work[w].own},
         \A w \in Workers : Writing(w)' =>
           \/ work'[w].stamp = clock'
           \/ Writing(w) /\ work'[w].stamp = work[w].stamp /\ clock' = clock
  PROVE  RunInv'
<1>1. \A e \in ledger : e.tx \in DOMAIN txs
  BY DEF PostingInv, StampInv
<1>2. \A w \in Workers : Writing(w)' => work'[w].stamp = clock'
  BY DEF RunInv
<1>3. RunsIn(ledger)' /\ RunsIn(ledger)
  BY DEF RunInv, RunsIn
<1>4. ASSUME NEW w \in Workers PROVE RunsIn(ledger \cup work[w].own)'
  <2>1. CASE work'[w].own = {}
    <3>1. ledger' \cup work'[w].own = ledger
      BY <2>1
    <3> QED
      BY <1>3, <3>1 DEF RunsIn
  <2>2. CASE work'[w].own = work[w].own
    <3>1. RunsIn(ledger \cup work[w].own) /\ ledger' \cup work'[w].own = ledger \cup work[w].own
      BY <2>2 DEF RunInv
    <3> QED
      BY <3>1 DEF RunsIn
  <2> QED
    BY <2>1, <2>2
<1>5. ASSUME NEW r \in Accounts \X Months PROVE EndsWithLast(r)'
  <2>1. {e \in On(r[1], ledger') : txs'[e.tx].month = r[2]}
          = {e \in On(r[1], ledger) : txs[e.tx].month = r[2]}
    BY <1>1 DEF On
  <2>2. EndsWithLast(r)
    BY DEF RunInv
  <2> QED
    BY <2>1, <2>2 DEF EndsWithLast
<1> QED
  BY <1>2, <1>3, <1>4, <1>5 DEF RunInv

\* An entry written after all others, with a balance computed from the last.
LEMMA RunsOn ==
  ASSUME NEW S \in SUBSET Entry, IsFiniteSet(S), RunsIn(S), NEW x \in Entry,
         \A f \in S : WrittenBefore(f, x),
         x.running = LastBalance(x.account, S) + Signed(x.account, x.amount)
  PROVE  RunsIn(S \cup {x})
<1> PICK T : T = S \cup {x}
  OBVIOUS
<1>0. \A e \in T : e.at \in Nat /\ e.line \in Nat /\ e.amount \in Int
  BY DEF Entry
<1>1. \A e \in T : ~WrittenBefore(x, e)
  BY <1>0 DEF WrittenBefore
<1>2. ASSUME NEW e \in S, OnePerPosting({f \in On(e.account, T) : WrittenBefore(f, e)})
      PROVE  e.running = Signed(e.account, NetOf({f \in On(e.account, T) : WrittenBefore(f, e)}) + e.amount)
  <2>1. {f \in On(e.account, T) : WrittenBefore(f, e)} = {f \in On(e.account, S) : WrittenBefore(f, e)}
    BY <1>1 DEF On
  <2> QED
    BY <1>2, <2>1 DEF RunsIn
<1>3. ASSUME OnePerPosting({f \in On(x.account, T) : WrittenBefore(f, x)})
      PROVE  x.running = Signed(x.account, NetOf({f \in On(x.account, T) : WrittenBefore(f, x)}) + x.amount)
  <2>1. {f \in On(x.account, T) : WrittenBefore(f, x)} = On(x.account, S)
    BY <1>1 DEF On
  <2>2. LastBalance(x.account, S) = Signed(x.account, NetOf(On(x.account, S)))
    BY <1>3, <2>1, LastIsSum
  <2>3. NetOf(On(x.account, S)) \in Int
    <3>1. On(x.account, S) \subseteq S
      BY DEF On
    <3>2. IsFiniteSet(On(x.account, S)) /\ \A e \in On(x.account, S) : e.amount \in Int
      BY <1>0, <3>1, FS_Subset
    <3> QED
      BY <3>2, NetOfSteps
  <2>4. x.amount \in Int
    BY <1>0
  <2>5. x.running = Signed(x.account, NetOf(On(x.account, S))) + Signed(x.account, x.amount)
    BY <2>2
  <2>6. x.running = Signed(x.account, NetOf(On(x.account, S)) + x.amount)
    BY <2>3, <2>4, <2>5, SignedSums
  <2> QED
    BY <2>1, <2>6
<1> QED
  BY <1>2, <1>3 DEF RunsIn

LEMMA RunWriteStep ==
  ASSUME OneWorker, PostingInv, EntriesInv, RunInv, PostingInv', NEW w \in Workers, WriteEntry(w)
  PROVE  RunInv'
<1>1. PICK id \in FreeIds(w, CurrentLine(w).account) :
        /\ work'[w].own = work[w].own \cup {NewEntry(w, id)}
        /\ work'[w].at = "upsert" /\ work'[w].stamp = work[w].stamp
  BY WritesOne
<1>2. work[w].at = "line" /\ UNCHANGED <<txs, ledger, balances, clock>>
  BY WritesOne
<1> PICK x : x = NewEntry(w, id)
  OBVIOUS
<1> PICK S : S = ledger \cup work[w].own
  OBVIOUS
<1>3. /\ x.at = work[w].stamp /\ x.line = work[w].line
      /\ x.running = LastBalance(x.account, S) + Signed(x.account, x.amount)
  BY DEF NewEntry
<1>4. S \in SUBSET Entry /\ IsFiniteSet(S) /\ RunsIn(S)
  <2>1. work[w] \in Work
    BY DEF PostingInv, TypesButTotals
  <2>2. ledger \subseteq Entry /\ work[w].own \subseteq Entry
    BY <2>1 DEF PostingInv, TypesButTotals, Work
  <2>3. IsFiniteSet(ledger) /\ IsFiniteSet(work[w].own)
    BY DEF EntriesInv
  <2>4. IsFiniteSet(S)
    BY <2>3, FS_Union
  <2> QED
    BY <2>2, <2>4 DEF RunInv
<1>5. x \in Entry
  <2>1. work'[w] \in Work
    BY DEF PostingInv, TypesButTotals
  <2> QED
    BY <1>1, <2>1 DEF Work
<1>6. ASSUME NEW f \in S PROVE WrittenBefore(f, x)
  <2>1. CASE f \in ledger
    BY <1>2, <1>3, <2>1, OwnComesLast DEF WrittenBefore, Writing
  <2>2. CASE f \in work[w].own
    <3>1. f.at = work[w].stamp /\ f.line \in 1..(work[w].line - 1)
      BY <1>2, <2>2 DEF PostingInv, OwnInv, OwnInvOf
    <3>2. work[w].line \in Nat
      <4>1. work[w] \in Work
        BY DEF PostingInv, TypesButTotals
      <4> QED
        BY <4>1 DEF Work
    <3> QED
      BY <1>3, <3>1, <3>2 DEF WrittenBefore
  <2> QED
    BY <2>1, <2>2
<1>7. RunsIn(S \cup {x})
  BY <1>3, <1>4, <1>5, <1>6, RunsOn
<1>8. \A v \in Workers : RunsIn(ledger \cup work[v].own)'
  <2>1. \A v \in Workers : v = w
    BY DEF OneWorker
  <2>2. ledger' \cup work'[w].own = S \cup {x}
    BY <1>1, <1>2
  <2>3. RunsIn(ledger' \cup work'[w].own)
    BY <1>7, <2>2
  <2> QED
    BY <2>1, <2>3 DEF RunsIn
<1>9. \A v \in Workers : Writing(v)' => work'[v].stamp = clock'
  BY <1>1, <1>2 DEF RunInv, Writing, OneWorker
<1>10. RunsIn(ledger)'
  BY <1>2 DEF RunInv, RunsIn
<1>11. ASSUME NEW r \in Accounts \X Months PROVE EndsWithLast(r)'
  BY <1>2 DEF RunInv, EndsWithLast
<1> QED
  BY <1>8, <1>9, <1>10, <1>11 DEF RunInv

\* The commit: entries after all others, and the balances of their month.
LEMMA RunPostStep ==
  ASSUME OneWorker, PostingInv, EntriesInv, RunInv, NEW w \in Workers, Post(w)
  PROVE  RunInv'
<1> PICK own : own = work[w].own
  OBVIOUS
<1>1. /\ Busy(w) /\ Writing(w) /\ txs' = Restate(txs, work[w].tx, "POSTED")
      /\ ledger' = ledger \cup own /\ work' = [work EXCEPT ![w] = Idle]
      /\ balances' = [r \in Accounts \X Months |->
                        IF r[2] = Posting(w).month
                        THEN UpsertedBalance(balances[r], On(r[1], own)) ELSE balances[r]]
  BY DEF Post, Busy, Restate, Writing
<1>2. /\ work[w].tx \in DOMAIN txs /\ DOMAIN txs' = DOMAIN txs
      /\ \A t \in DOMAIN txs : txs'[t].month = txs[t].month
  BY <1>1, TableMarked
<1>3. /\ \A e \in own : e.tx = work[w].tx /\ e.at = work[w].stamp
      /\ \A e \in own, f \in ledger : f.at < e.at
  BY <1>1, OwnComesLast DEF PostingInv, OwnInv, OwnInvOf
<1>4. /\ ledger \subseteq Entry /\ own \subseteq Entry /\ IsFiniteSet(own)
      /\ \A e \in ledger : e.tx \in DOMAIN txs
  <2>1. work[w] \in Work
    BY DEF PostingInv, TypesButTotals
  <2> QED
    BY <2>1 DEF PostingInv, TypesButTotals, StampInv, EntriesInv, Work
<1>5. \A e \in ledger \cup own : e.at \in Nat /\ e.line \in Nat
  BY <1>4 DEF Entry
<1>6. RunsIn(ledger')
  BY <1>1 DEF RunInv
<1>7. ASSUME NEW r \in Accounts \X Months PROVE EndsWithLast(r)'
  <2> DEFINE before == {e \in On(r[1], ledger) : txs[e.tx].month = r[2]}
             after == {e \in On(r[1], ledger') : txs'[e.tx].month = r[2]}
             mine == On(r[1], own)
  <2>0. mine \subseteq own
    BY DEF On
  <2>1. CASE r[2] # Posting(w).month \/ mine = {}
    <3>1. balances'[r] = balances[r]
      BY <1>1, <2>1 DEF UpsertedBalance
    <3>2. after = before
      BY <1>1, <1>2, <1>3, <1>4, <2>1 DEF On, Posting
    <3>3. EndsWithLast(r)
      BY DEF RunInv
    <3>4. \/ after = {} /\ balances'[r].ending = 0
          \/ \E e \in after : (\A f \in after : ~WrittenBefore(e, f)) /\ balances'[r].ending = e.running
      BY <3>1, <3>2, <3>3 DEF EndsWithLast
    <3> QED
      BY <3>4 DEF EndsWithLast
  <2>2. CASE r[2] = Posting(w).month /\ mine # {}
    <3> DEFINE x == CHOOSE e \in mine : \A f \in mine : f.line <= e.line
    <3>1. IsFiniteSet(mine) /\ \A e \in mine : e.line \in Nat
      BY <1>4, <1>5, <2>0, FS_Subset
    <3>2. x \in mine /\ \A f \in mine : f.line <= x.line
      BY <2>2, <3>1, LastLineExists
    <3>3. balances'[r].ending = x.running
      BY <1>1, <2>2 DEF UpsertedBalance
    <3> HIDE DEF x
    <3>4. after = before \cup mine
      BY <1>1, <1>2, <1>3, <1>4, <2>2 DEF On, Posting
    <3>5. ASSUME NEW f \in after PROVE ~WrittenBefore(x, f)
      <4>1. x \in own /\ x.at = work[w].stamp /\ x.at \in Nat /\ x.line \in Nat
        BY <1>3, <1>5, <2>0, <3>2
      <4>2. CASE f \in before
        <5>1. f \in ledger
          BY <4>2 DEF On
        <5>2. f.at < x.at /\ f.at \in Nat
          BY <1>3, <1>5, <4>1, <5>1
        <5> QED
          BY <4>1, <5>2 DEF WrittenBefore
      <4>3. CASE f \in mine
        <5>1. f.at = work[w].stamp /\ f.line <= x.line /\ f.line \in Nat
          BY <1>3, <2>0, <3>1, <3>2, <4>3
        <5> QED
          BY <4>1, <5>1 DEF WrittenBefore
      <4> QED
        BY <3>4, <4>2, <4>3
    <3>6. \E e \in after : (\A f \in after : ~WrittenBefore(e, f)) /\ balances'[r].ending = e.running
      BY <3>2, <3>3, <3>4, <3>5
    <3> QED
      BY <3>6 DEF EndsWithLast
  <2> QED
    BY <2>1, <2>2
<1>8. \A v \in Workers : work'[v].own = {} /\ ~Writing(v)'
  BY <1>1 DEF OneWorker, PostingInv, TypesButTotals, Idle, Writing
<1>9. \A v \in Workers : ledger' \cup work'[v].own = ledger'
  BY <1>8
<1>10. RunsIn(ledger)' /\ \A v \in Workers : RunsIn(ledger \cup work[v].own)'
  BY <1>6, <1>9 DEF RunsIn
<1> QED
  BY <1>7, <1>8, <1>10 DEF RunInv

LEMMA RunStep ==
  ASSUME OneWorker, PostingInv, EntriesInv, RunInv, [LedgerNext]_ledgerVars
  PROVE  RunInv'
<1>0. work \in [Workers -> Work]
  BY DEF PostingInv, TypesButTotals
<1>1. CASE CreateTransaction
  BY <1>1, TableGrows, RunQuietStep DEF Writing
<1>2. ASSUME NEW c \in Clients, CommitVoid(c)
      PROVE  RunInv'
  <2>1. /\ DOMAIN txs' = DOMAIN txs \cup {Len(txs) + 1}
        /\ \A t \in DOMAIN txs : txs'[t].month = txs[t].month
        /\ UNCHANGED <<ledger, balances, work, clock>>
    BY <1>2, TableReverses
  <2> QED
    BY <2>1, RunQuietStep DEF Writing
<1>3. CASE UNCHANGED <<txs, ledger, balances, work, clock>>
  BY <1>3, RunQuietStep DEF Writing
<1>4. ASSUME NEW w \in Workers, Fetch(w) \/ Refuse(w) \/ Rollback(w)
      PROVE  RunInv'
  <2>1. /\ UNCHANGED <<ledger, balances, clock>>
        /\ \A v \in Workers \ {w} : work'[v] = work[v]
    BY <1>0, <1>4 DEF Fetch, Refuse, Rollback
  <2>2. work'[w] = work[w] \/ (work'[w].own = {} /\ ~Writing(w)')
    BY <1>0, <1>4 DEF Fetch, Refuse, Rollback, Idle, Fetched, Writing
  <2>3. UNCHANGED txs \/ (Busy(w) /\ txs' = Restate(txs, work[w].tx, "FAILED"))
    BY <1>4 DEF Fetch, Refuse, Rollback, Busy, Restate
  <2>4. /\ DOMAIN txs' = DOMAIN txs
        /\ \A t \in DOMAIN txs : txs'[t].month = txs[t].month
    BY <2>3, TableMarked
  <2> QED
    BY <2>1, <2>2, <2>4, RunQuietStep DEF Writing
<1>5. ASSUME NEW w \in Workers, Begin(w) \/ Upsert(w)
      PROVE  RunInv'
  <2>0. work[w] \in Work
    BY <1>0
  <2>1. /\ UNCHANGED <<txs, ledger, balances>>
        /\ \A v \in Workers : v = w
        /\ work'[w].own = work[w].own
    <3>1. CASE Begin(w)
      BY <1>0, <2>0, <3>1 DEF Begin, OneWorker, Work
    <3>2. CASE Upsert(w)
      BY <1>0, <2>0, <3>2 DEF Upsert, OneWorker, Work
    <3> QED
      BY <1>5, <3>1, <3>2
  <2>2. Writing(w)' => \/ work'[w].stamp = clock'
                       \/ (Writing(w) /\ work'[w].stamp = work[w].stamp /\ clock' = clock)
    <3>1. CASE Begin(w)
      BY <1>0, <2>0, <3>1 DEF Begin, Work
    <3>2. CASE Upsert(w)
      <4>1. Writing(w) /\ clock' = clock
        BY <3>2 DEF Upsert, Writing
      <4>2. work'[w].stamp = work[w].stamp
        BY <1>0, <2>0, <3>2 DEF Upsert, Work
      <4> QED
        BY <4>1, <4>2
    <3> QED
      BY <1>5, <3>1, <3>2
  <2> QED
    BY <2>1, <2>2, RunQuietStep
<1>6. ASSUME NEW w \in Workers, WriteEntry(w)
      PROVE  RunInv'
  BY <1>6, PostingStep, RunWriteStep
<1>7. ASSUME NEW w \in Workers, Post(w)
      PROVE  RunInv'
  BY <1>7, RunPostStep
<1> QED
  BY <1>1, <1>2, <1>3, <1>4, <1>5, <1>6, <1>7
  DEF LedgerNext, ClientStep, WorkerStep, StartVoid, AbortVoid, ledgerVars

LEMMA RunInit == LedgerInit => RunInv
<1> SUFFICES ASSUME LedgerInit PROVE RunInv
  OBVIOUS
<1>1. /\ ledger = {} /\ \A w \in Workers : ~Writing(w) /\ work[w].own = {}
      /\ \A r \in Accounts \X Months : balances[r].ending = 0
  BY DEF LedgerInit, Writing, Idle
<1>2. RunsIn(ledger) /\ \A w \in Workers : RunsIn(ledger \cup work[w].own)
  BY <1>1 DEF RunsIn
<1>3. ASSUME NEW r \in Accounts \X Months
      PROVE  EndsWithLast(r)
  BY <1>1 DEF EndsWithLast, On
<1> QED
  BY <1>1, <1>2, <1>3 DEF RunInv

\* With one worker, running and ending balances are the sums they stand for,
\* whatever the journals are: an entry's as long as no earlier posting has
\* touched its account twice (HandleTransactionCreated, GetLastLedgerBalance,
\* UpsertAccountBalance).
THEOREM BalancesRun ==
  ASSUME OneWorker
  PROVE  LedgerSpec => []RunningBalances
<1> DEFINE Inv == PostingInv /\ EntriesInv /\ RunInv
<1>1. LedgerInit => Inv
  BY PostingInit, EntriesInit, RunInit
<1>2. Inv /\ [LedgerNext]_ledgerVars => Inv'
  BY PostingStep, EntriesStep, RunStep
<1>3. Inv => RunningBalances
  BY DEF RunInv, RunningBalances
<1> QED BY <1>1, <1>2, <1>3, PTL DEF LedgerSpec

-----------------------------------------------------------------------------
(* Reports.                                                                *)

DebitOf(entries) == MapThenSumSet(LAMBDA e : Debit(e.amount), entries)

CreditOf(entries) == MapThenSumSet(LAMBDA e : Credit(e.amount), entries)

\* What the modules add up is the sum of the weights.
LEMMA DebitOfIs ==
  ASSUME NEW S, IsFiniteSet(S), NEW w, \A x \in S : w[x] \in Int /\ w[x] = Debit(x.amount)
  PROVE  DebitOf(S) = Total(S, w)
<1> DEFINE P(g) == g = [s \in SUBSET S |->
             IF s = {} THEN 0
             ELSE Debit(One(s).amount) + g[s \ {One(s)}]]
<1>1. ASSUME NEW s \in SUBSET S, s # {}
      PROVE  w[One(s)] = Debit(One(s).amount)
  BY <1>1 DEF One
<1>2. ASSUME NEW g PROVE P(g) <=> Adds(S, w, g)
  BY <1>1 DEF Adds
<1>3. DebitOf(S) = (CHOOSE g : P(g))[S]
  BY DEF DebitOf, One, MapThenSumSet, MapThenFoldSet
<1> HIDE DEF P
<1>4. \E g : Adds(S, w, g)
  BY SumsExist
<1>5. P(CHOOSE g : P(g))
  BY <1>2, <1>4
<1>6. Adds(S, w, CHOOSE g : P(g))
  BY <1>2, <1>5
<1> QED
  BY <1>3, <1>6, AddsToTotal

LEMMA CreditOfIs ==
  ASSUME NEW S, IsFiniteSet(S), NEW w, \A x \in S : w[x] \in Int /\ w[x] = Credit(x.amount)
  PROVE  CreditOf(S) = Total(S, w)
<1> DEFINE P(g) == g = [s \in SUBSET S |->
             IF s = {} THEN 0
             ELSE Credit(One(s).amount) + g[s \ {One(s)}]]
<1>1. ASSUME NEW s \in SUBSET S, s # {}
      PROVE  w[One(s)] = Credit(One(s).amount)
  BY <1>1 DEF One
<1>2. ASSUME NEW g PROVE P(g) <=> Adds(S, w, g)
  BY <1>1 DEF Adds
<1>3. CreditOf(S) = (CHOOSE g : P(g))[S]
  BY DEF CreditOf, One, MapThenSumSet, MapThenFoldSet
<1> HIDE DEF P
<1>4. \E g : Adds(S, w, g)
  BY SumsExist
<1>5. P(CHOOSE g : P(g))
  BY <1>2, <1>4
<1>6. Adds(S, w, CHOOSE g : P(g))
  BY <1>2, <1>5
<1> QED
  BY <1>3, <1>6, AddsToTotal

LEMMA NetOfLinesIs ==
  ASSUME NEW lines, IsFiniteSet(DOMAIN lines), NEW w,
         \A i \in DOMAIN lines : w[i] \in Int /\ w[i] = lines[i].amount
  PROVE  NetOfLines(lines) = Total(DOMAIN lines, w)
<1> DEFINE S == DOMAIN lines
           P(g) == g = [s \in SUBSET S |->
             IF s = {} THEN 0
             ELSE lines[One(s)].amount + g[s \ {One(s)}]]
<1>1. ASSUME NEW s \in SUBSET S, s # {}
      PROVE  w[One(s)] = lines[One(s)].amount
  BY <1>1 DEF One
<1>2. ASSUME NEW g PROVE P(g) <=> Adds(S, w, g)
  BY <1>1 DEF Adds
<1>3. NetOfLines(lines) = (CHOOSE g : P(g))[S]
  BY DEF NetOfLines, One, MapThenSumSet, MapThenFoldSet
<1> HIDE DEF P
<1>4. \E g : Adds(S, w, g)
  BY SumsExist
<1>5. P(CHOOSE g : P(g))
  BY <1>2, <1>4
<1>6. Adds(S, w, CHOOSE g : P(g))
  BY <1>2, <1>5
<1> QED
  BY <1>3, <1>6, AddsToTotal

LEMMA TotalDebitIs ==
  ASSUME NEW a, NEW S, IsFiniteSet(S), NEW w,
         \A m \in S : w[m] \in Int /\ w[m] = balances[<<a, m>>].debit
  PROVE  TotalDebit(a, S) = Total(S, w)
<1> DEFINE of(m) == balances[<<a, m>>].debit
           P(g) == g = [s \in SUBSET S |->
             IF s = {} THEN 0 ELSE of(One(s)) + g[s \ {One(s)}]]
<1>1. ASSUME NEW s \in SUBSET S, s # {}
      PROVE  w[One(s)] = of(One(s))
  BY <1>1 DEF One
<1> HIDE DEF of
<1>2. ASSUME NEW g PROVE P(g) <=> Adds(S, w, g)
  BY <1>1 DEF Adds
<1>3. TotalDebit(a, S) = (CHOOSE g : P(g))[S]
  BY DEF of, TotalDebit, One, MapThenSumSet, MapThenFoldSet
<1> HIDE DEF P
<1>4. \E g : Adds(S, w, g)
  BY SumsExist
<1>5. P(CHOOSE g : P(g))
  BY <1>2, <1>4
<1>6. Adds(S, w, CHOOSE g : P(g))
  BY <1>2, <1>5
<1> QED
  BY <1>3, <1>6, AddsToTotal

LEMMA TotalCreditIs ==
  ASSUME NEW a, NEW S, IsFiniteSet(S), NEW w,
         \A m \in S : w[m] \in Int /\ w[m] = balances[<<a, m>>].credit
  PROVE  TotalCredit(a, S) = Total(S, w)
<1> DEFINE of(m) == balances[<<a, m>>].credit
           P(g) == g = [s \in SUBSET S |->
             IF s = {} THEN 0 ELSE of(One(s)) + g[s \ {One(s)}]]
<1>1. ASSUME NEW s \in SUBSET S, s # {}
      PROVE  w[One(s)] = of(One(s))
  BY <1>1 DEF One
<1> HIDE DEF of
<1>2. ASSUME NEW g PROVE P(g) <=> Adds(S, w, g)
  BY <1>1 DEF Adds
<1>3. TotalCredit(a, S) = (CHOOSE g : P(g))[S]
  BY DEF of, TotalCredit, One, MapThenSumSet, MapThenFoldSet
<1> HIDE DEF P
<1>4. \E g : Adds(S, w, g)
  BY SumsExist
<1>5. P(CHOOSE g : P(g))
  BY <1>2, <1>4
<1>6. Adds(S, w, CHOOSE g : P(g))
  BY <1>2, <1>5
<1> QED
  BY <1>3, <1>6, AddsToTotal

\* What the rows of the trial balance moved by.
Moved(rows) == MapThenSumSet(LAMBDA r : r.debit - r.credit, rows)

LEMMA MovedIs ==
  ASSUME NEW S, IsFiniteSet(S), NEW w, \A r \in S : w[r] \in Int /\ w[r] = r.debit - r.credit
  PROVE  Moved(S) = Total(S, w)
<1> DEFINE P(g) == g = [s \in SUBSET S |->
             IF s = {} THEN 0
             ELSE (One(s).debit - One(s).credit)
                    + g[s \ {One(s)}]]
<1>1. ASSUME NEW s \in SUBSET S, s # {}
      PROVE  w[One(s)] = One(s).debit - One(s).credit
  BY <1>1 DEF One
<1>2. ASSUME NEW g PROVE P(g) <=> Adds(S, w, g)
  BY <1>1 DEF Adds
<1>3. Moved(S) = (CHOOSE g : P(g))[S]
  BY DEF Moved, One, MapThenSumSet, MapThenFoldSet
<1> HIDE DEF P
<1>4. \E g : Adds(S, w, g)
  BY SumsExist
<1>5. P(CHOOSE g : P(g))
  BY <1>2, <1>4
<1>6. Adds(S, w, CHOOSE g : P(g))
  BY <1>2, <1>5
<1> QED
  BY <1>3, <1>6, AddsToTotal

\* What a cash flow comes to.
FlowSum(flow) == MapThenSumSet(LAMBDA m : flow[m].net, DOMAIN flow)

LEMMA FlowSumIs ==
  ASSUME NEW flow, IsFiniteSet(DOMAIN flow), NEW w,
         \A m \in DOMAIN flow : w[m] \in Int /\ w[m] = flow[m].net
  PROVE  FlowSum(flow) = Total(DOMAIN flow, w)
<1> DEFINE S == DOMAIN flow
           P(g) == g = [s \in SUBSET S |->
             IF s = {} THEN 0
             ELSE flow[One(s)].net + g[s \ {One(s)}]]
<1>1. ASSUME NEW s \in SUBSET S, s # {}
      PROVE  w[One(s)] = flow[One(s)].net
  BY <1>1 DEF One
<1>2. ASSUME NEW g PROVE P(g) <=> Adds(S, w, g)
  BY <1>1 DEF Adds
<1>3. FlowSum(flow) = (CHOOSE g : P(g))[S]
  BY DEF FlowSum, One, MapThenSumSet, MapThenFoldSet
<1> HIDE DEF P
<1>4. \E g : Adds(S, w, g)
  BY SumsExist
<1>5. P(CHOOSE g : P(g))
  BY <1>2, <1>4
<1>6. Adds(S, w, CHOOSE g : P(g))
  BY <1>2, <1>5
<1> QED
  BY <1>3, <1>6, AddsToTotal

LEMMA Sides ==
  ASSUME NEW S \in SUBSET Entry, IsFiniteSet(S)
  PROVE  /\ DebitOf(S) \in Nat /\ CreditOf(S) \in Nat /\ NetOf(S) \in Int
         /\ DebitOf(S) = CreditOf(S) + NetOf(S)
         /\ S = {} => DebitOf(S) = 0 /\ CreditOf(S) = 0
<1> DEFINE debit == [e \in S |-> Debit(e.amount)]
           credit == [e \in S |-> Credit(e.amount)]
           net == [e \in S |-> e.amount]
<1>0. \A e \in S : e.amount \in Int
  BY DEF Entry
<1>1. \A e \in S : /\ debit[e] = Debit(e.amount) /\ debit[e] \in Nat /\ debit[e] \in Int
                   /\ credit[e] = Credit(e.amount) /\ credit[e] \in Nat /\ credit[e] \in Int
                   /\ net[e] = e.amount /\ net[e] \in Int
                   /\ debit[e] = credit[e] + net[e]
  BY <1>0 DEF Debit, Credit
<1> HIDE DEF debit, credit, net
<1>2. DebitOf(S) = Total(S, debit) /\ Total(S, debit) \in Nat
  BY <1>1, DebitOfIs, TotalNat
<1>3. CreditOf(S) = Total(S, credit) /\ Total(S, credit) \in Nat
  BY <1>1, CreditOfIs, TotalNat
<1>4. NetOf(S) = Total(S, net) /\ Total(S, net) \in Int
  BY <1>0, <1>1, NetOfIs, TotalStep
<1>5. Total(S, debit) = Total(S, credit) + Total(S, net)
  BY <1>1, TotalPlus
<1>6. S = {} => Total(S, debit) = 0 /\ Total(S, credit) = 0
  BY <1>1, TotalStep
<1> QED
  BY <1>2, <1>3, <1>4, <1>5, <1>6

LEMMA SidesUnion ==
  ASSUME NEW R \in SUBSET Entry, IsFiniteSet(R), NEW S \in SUBSET Entry, IsFiniteSet(S),
         R \cap S = {}
  PROVE  /\ DebitOf(R \cup S) = DebitOf(R) + DebitOf(S)
         /\ CreditOf(R \cup S) = CreditOf(R) + CreditOf(S)
<1> DEFINE debit == [e \in R \cup S |-> Debit(e.amount)]
           credit == [e \in R \cup S |-> Credit(e.amount)]
<1>0. \A e \in R \cup S : e.amount \in Int
  BY DEF Entry
<1>1. \A e \in R \cup S : /\ debit[e] = Debit(e.amount) /\ debit[e] \in Int
                          /\ credit[e] = Credit(e.amount) /\ credit[e] \in Int
  BY <1>0 DEF Debit, Credit
<1>2. IsFiniteSet(R \cup S)
  BY FS_Union
<1> HIDE DEF debit, credit
<1>3. /\ DebitOf(R) = Total(R, debit) /\ DebitOf(S) = Total(S, debit)
      /\ DebitOf(R \cup S) = Total(R \cup S, debit)
  BY <1>1, <1>2, DebitOfIs
<1>4. /\ CreditOf(R) = Total(R, credit) /\ CreditOf(S) = Total(S, credit)
      /\ CreditOf(R \cup S) = Total(R \cup S, credit)
  BY <1>1, <1>2, CreditOfIs
<1>5. Total(R \cup S, debit) = Total(R, debit) + Total(S, debit)
  BY <1>1, TotalUnion
<1>6. Total(R \cup S, credit) = Total(R, credit) + Total(S, credit)
  BY <1>1, TotalUnion
<1> QED
  BY <1>3, <1>4, <1>5, <1>6

\* What one posting makes of a row.
LEMMA Upserted ==
  ASSUME NEW b \in Balance, NEW S \in SUBSET Entry, IsFiniteSet(S)
  PROVE  /\ UpsertedBalance(b, S) \in Balance
         /\ UpsertedBalance(b, S).debit = b.debit + DebitOf(S)
         /\ UpsertedBalance(b, S).credit = b.credit + CreditOf(S)
<1>0. /\ b.debit \in Nat /\ b.credit \in Nat /\ b.count \in Nat
      /\ DebitOf(S) \in Nat /\ CreditOf(S) \in Nat /\ Cardinality(S) \in Nat
  BY Sides, FS_CardinalityType DEF Balance
<1>1. CASE S = {}
  <2>1. DebitOf(S) = 0 /\ CreditOf(S) = 0
    BY <1>1, Sides
  <2>2. UpsertedBalance(b, S) = b
    BY <1>1 DEF UpsertedBalance
  <2> QED
    BY <1>0, <2>1, <2>2
<1>2. CASE S # {}
  <2> DEFINE last == CHOOSE e \in S : \A f \in S : f.line <= e.line
  <2>1. \A e \in S : e.line \in Nat
    BY DEF Entry
  <2>2. last \in S
    BY <1>2, <2>1, LastLineExists
  <2>3. last.running \in Int
    BY <2>2 DEF Entry
  <2>4. UpsertedBalance(b, S) = [debit |-> b.debit + DebitOf(S), credit |-> b.credit + CreditOf(S),
                                 ending |-> last.running, count |-> b.count + Cardinality(S)]
    BY <1>2 DEF UpsertedBalance, DebitOf, CreditOf
  <2> HIDE DEF last
  <2> QED
    BY <1>0, <2>3, <2>4 DEF Balance
<1> QED
  BY <1>1, <1>2

\* The entries that a row of account_balances is about.
InRow(r) == {e \in ledger : e.account = r[1] /\ txs[e.tx].month = r[2]}

\* Each row adds up the entries it is about.
RowsInv ==
  /\ balances \in [Accounts \X Months -> Balance]
  /\ \A r \in Accounts \X Months :
       balances[r].debit = DebitOf(InRow(r)) /\ balances[r].credit = CreditOf(InRow(r))

LEMMA MonthsAreFinal ==
  ASSUME PostingInv, [LedgerNext]_ledgerVars
  PROVE  \A t \in DOMAIN txs : txs'[t].month = txs[t].month
<1>1. CASE CreateTransaction
  BY <1>1, TableGrows
<1>2. ASSUME NEW c \in Clients, CommitVoid(c)
      PROVE  \A t \in DOMAIN txs : txs'[t].month = txs[t].month
  BY <1>2, TableReverses
<1>3. ASSUME NEW w \in Workers, Refuse(w) \/ Post(w)
      PROVE  \A t \in DOMAIN txs : txs'[t].month = txs[t].month
  <2>1. Busy(w)
    BY <1>3 DEF Refuse, Post, Busy
  <2>2. \E v \in {"POSTED", "FAILED"} : txs' = Restate(txs, work[w].tx, v)
    BY <1>3 DEF Refuse, Post, Restate
  <2> QED
    BY <2>1, <2>2, TableMarked
<1>4. CASE UNCHANGED txs
  BY <1>4
<1> QED
  BY <1>1, <1>2, <1>3, <1>4
  DEF LedgerNext, ClientStep, WorkerStep, StartVoid, AbortVoid, Fetch, Begin, WriteEntry, Upsert,
      Rollback, ledgerVars

LEMMA RowsStep == PostingInv /\ EntriesInv /\ RowsInv /\ [LedgerNext]_ledgerVars => RowsInv'
<1> SUFFICES ASSUME PostingInv, EntriesInv, RowsInv, [LedgerNext]_ledgerVars PROVE RowsInv'
  OBVIOUS
<1>0. \A e \in ledger : e.tx \in DOMAIN txs /\ txs'[e.tx].month = txs[e.tx].month
  BY MonthsAreFinal DEF EntriesInv, FromLine
<1>1. CASE UNCHANGED <<ledger, balances>>
  <2>1. ASSUME NEW r PROVE InRow(r)' = InRow(r)
    BY <1>0, <1>1 DEF InRow
  <2> QED
    BY <1>1, <2>1 DEF RowsInv
<1>2. ASSUME NEW w \in Workers, Post(w)
      PROVE  RowsInv'
  <2> PICK own, month : own = work[w].own /\ month = txs[work[w].tx].month
    OBVIOUS
  <2>1. /\ ledger' = ledger \cup own
        /\ balances' = [r \in Accounts \X Months |->
                          IF r[2] = month THEN UpsertedBalance(balances[r], On(r[1], own))
                          ELSE balances[r]]
    BY <1>2 DEF Post, Posting
  <2>2. own \subseteq Entry /\ IsFiniteSet(own) /\ ledger \subseteq Entry /\ IsFiniteSet(ledger)
    <3>1. work[w] \in Work
      BY DEF PostingInv, TypesButTotals
    <3> QED
      BY <3>1 DEF PostingInv, TypesButTotals, EntriesInv, Work
  <2>3. \A e \in own : e.tx = work[w].tx /\ txs'[e.tx].month = month
    <3>1. work[w].tx \in DOMAIN txs /\ \A e \in own : e.tx = work[w].tx
      BY <1>2 DEF PostingInv, OwnInv, OwnInvOf, Busy, Post
    <3> QED
      BY <3>1, MonthsAreFinal
  <2>4. ledger \cap own = {}
    <3>1. Writing(w)
      BY <1>2 DEF Post, Writing
    <3> QED
      BY <3>1 DEF PostingInv, StampInv, OwnInv, OwnInvOf
  <2>5. ASSUME NEW r \in Accounts \X Months
        PROVE  /\ balances'[r] \in Balance
               /\ balances'[r].debit = DebitOf(InRow(r)')
               /\ balances'[r].credit = CreditOf(InRow(r)')
    <3>1. /\ balances[r] \in Balance
          /\ balances[r].debit = DebitOf(InRow(r)) /\ balances[r].credit = CreditOf(InRow(r))
      BY DEF RowsInv
    <3>2. CASE r[2] = month
      <4>1. InRow(r)' = InRow(r) \cup On(r[1], own)
        BY <1>0, <2>1, <2>3, <3>2 DEF InRow, On
      <4>2. /\ InRow(r) \subseteq ledger /\ On(r[1], own) \subseteq own
            /\ InRow(r) \cap On(r[1], own) = {}
        BY <2>4 DEF InRow, On
      <4>3. /\ InRow(r) \in SUBSET Entry /\ IsFiniteSet(InRow(r))
            /\ On(r[1], own) \in SUBSET Entry /\ IsFiniteSet(On(r[1], own))
        BY <2>2, <4>2, FS_Subset
      <4>4. /\ DebitOf(InRow(r)') = DebitOf(InRow(r)) + DebitOf(On(r[1], own))
            /\ CreditOf(InRow(r)') = CreditOf(InRow(r)) + CreditOf(On(r[1], own))
        BY <4>1, <4>2, <4>3, SidesUnion
      <4>5. balances'[r] = UpsertedBalance(balances[r], On(r[1], own))
        BY <2>1, <3>2
      <4> QED
        BY <3>1, <4>3, <4>4, <4>5, Upserted
    <3>3. CASE r[2] # month
      <4>1. InRow(r)' = InRow(r)
        BY <1>0, <2>1, <2>3, <3>3 DEF InRow
      <4>2. balances'[r] = balances[r]
        BY <2>1, <3>3
      <4> QED
        BY <3>1, <4>1, <4>2
    <3> QED
      BY <3>2, <3>3
  <2>6. balances' \in [Accounts \X Months -> Balance]
    BY <2>1, <2>5
  <2> QED
    BY <2>5, <2>6 DEF RowsInv
<1> QED
  BY <1>1, <1>2
  DEF LedgerNext, ClientStep, WorkerStep, CreateTransaction, StartVoid, CommitVoid, AbortVoid,
      Fetch, Refuse, Begin, WriteEntry, Upsert, Rollback, ledgerVars

LEMMA RowsInit == LedgerInit => RowsInv
<1> SUFFICES ASSUME LedgerInit PROVE RowsInv
  OBVIOUS
<1>1. /\ ledger = {}
      /\ balances = [r \in Accounts \X Months |->
                       [debit |-> 0, credit |-> 0, ending |-> 0, count |-> 0]]
  BY DEF LedgerInit
<1>2. [debit |-> 0, credit |-> 0, ending |-> 0, count |-> 0] \in Balance
  BY DEF Balance
<1>3. ASSUME NEW r PROVE DebitOf(InRow(r)) = 0 /\ CreditOf(InRow(r)) = 0
  <2>1. InRow(r) = {}
    BY <1>1 DEF InRow
  <2> QED
    BY <2>1, FS_EmptySet, Sides
<1> QED
  BY <1>1, <1>2, <1>3 DEF RowsInv

\* The tables and the postings in progress are of their types, the totals of
\* account_balances too.
THEOREM LedgerTypes == LedgerSpec => []LedgerTypeOK
<1>1. LedgerInit => PostingInv /\ EntriesInv /\ RowsInv
  BY PostingInit, EntriesInit, RowsInit
<1>2. PostingInv /\ EntriesInv /\ RowsInv /\ [LedgerNext]_ledgerVars
        => (PostingInv /\ EntriesInv /\ RowsInv)'
  BY PostingStep, EntriesStep, RowsStep
<1>3. PostingInv /\ EntriesInv /\ RowsInv => LedgerTypeOK
  BY DEF PostingInv, RowsInv, LedgerTypeOK
<1> QED BY <1>1, <1>2, <1>3, PTL DEF LedgerSpec

\* A sum over entries is that of the sums over their parts.
LEMMA NetOfParts ==
  ASSUME NEW S \in SUBSET Entry, IsFiniteSet(S), NEW K, IsFiniteSet(K), NEW key \in [S -> K],
         NEW v, \A k \in K : v[k] = NetOf({e \in S : key[e] = k})
  PROVE  NetOf(S) = Total(K, v)
<1> DEFINE net == [e \in S |-> e.amount]
           part(k) == {e \in S : key[e] = k}
           u == [k \in K |-> Total(part(k), net)]
<1>0. \A e \in S : e.amount \in Int
  BY DEF Entry
<1>1. \A e \in S : net[e] = e.amount /\ net[e] \in Int
  BY <1>0
<1> HIDE DEF net
<1>2. NetOf(S) = Total(S, net)
  BY <1>0, <1>1, NetOfIs
<1>3. Total(S, net) = Total(K, u)
  BY <1>1, TotalParts
<1>4. ASSUME NEW k \in K PROVE u[k] \in Int /\ v[k] = u[k]
  <2>1. part(k) \subseteq S /\ IsFiniteSet(part(k))
    BY FS_Subset
  <2>2. NetOf(part(k)) = Total(part(k), net) /\ Total(part(k), net) \in Int
    BY <1>0, <1>1, <2>1, NetOfIs, TotalStep
  <2> QED
    BY <2>2
<1> HIDE DEF u, part
<1>5. Total(K, v) = Total(K, u)
  BY <1>4, TotalSame
<1> QED
  BY <1>2, <1>3, <1>5

\* The entries on the accounts of C in some periods.
Moves(C, periods) == {e \in ledger : e.account \in C /\ txs[e.tx].month \in periods}

LEMMA MovesFinite ==
  ASSUME PostingInv, EntriesInv, NEW C, NEW periods
  PROVE  Moves(C, periods) \in SUBSET Entry /\ IsFiniteSet(Moves(C, periods))
<1>1. Moves(C, periods) \subseteq ledger /\ ledger \subseteq Entry
  BY DEF Moves, PostingInv, TypesButTotals
<1> QED
  BY <1>1, FS_Subset DEF EntriesInv

\* The periods a report asks for.
LEMMA PeriodsFinite ==
  ASSUME NEW from \in Nat, NEW to \in Nat
  PROVE  Periods(from, to) \subseteq Months /\ IsFiniteSet(Periods(from, to))
<1>1. Months \subseteq Nat
  BY LedgerAssumption DEF LedgerAssumption
<1>2. Periods(from, to) \subseteq from..to
  <2> SUFFICES ASSUME NEW m \in Periods(from, to) PROVE m \in from..to
    OBVIOUS
  <2>1. m \in Nat /\ from <= m /\ m <= to
    BY <1>1 DEF Periods
  <2> QED
    BY <2>1
<1>3. IsFiniteSet(from..to)
  BY <1>1, FS_Interval
<1>4. Periods(from, to) \subseteq Months
  BY DEF Periods
<1> QED
  BY <1>2, <1>3, <1>4, FS_Subset

\* What the rows of an account add up to is what its entries do.
LEMMA AccountMoves ==
  ASSUME PostingInv, EntriesInv, RowsInv, NEW a \in Accounts,
         NEW P \in SUBSET Months, IsFiniteSet(P)
  PROVE  /\ TotalDebit(a, P) \in Nat /\ TotalCredit(a, P) \in Nat
         /\ TotalDebit(a, P) = TotalCredit(a, P) + NetOf(Moves({a}, P))
<1> DEFINE debit == [m \in P |-> balances[<<a, m>>].debit]
           credit == [m \in P |-> balances[<<a, m>>].credit]
           net == [m \in P |-> NetOf(InRow(<<a, m>>))]
<1>1. ASSUME NEW m \in P
      PROVE  /\ debit[m] = balances[<<a, m>>].debit /\ debit[m] \in Nat /\ debit[m] \in Int
             /\ credit[m] = balances[<<a, m>>].credit /\ credit[m] \in Nat /\ credit[m] \in Int
             /\ net[m] = NetOf(InRow(<<a, m>>)) /\ net[m] \in Int
             /\ debit[m] = credit[m] + net[m]
  <2> PICK r : r = <<a, m>>
    OBVIOUS
  <2>1. r \in Accounts \X Months
    OBVIOUS
  <2>2. InRow(r) \subseteq ledger
    BY DEF InRow
  <2>3. InRow(r) \in SUBSET Entry /\ IsFiniteSet(InRow(r))
    BY <2>2, FS_Subset DEF PostingInv, TypesButTotals, EntriesInv
  <2>4. balances[r].debit = DebitOf(InRow(r)) /\ balances[r].credit = CreditOf(InRow(r))
    BY <2>1 DEF RowsInv
  <2>5. /\ DebitOf(InRow(r)) \in Nat /\ CreditOf(InRow(r)) \in Nat /\ NetOf(InRow(r)) \in Int
        /\ DebitOf(InRow(r)) = CreditOf(InRow(r)) + NetOf(InRow(r))
    BY <2>3, Sides
  <2>6. debit[m] = balances[r].debit /\ credit[m] = balances[r].credit /\ net[m] = NetOf(InRow(r))
    OBVIOUS
  <2> QED
    BY <2>4, <2>5, <2>6
<1> HIDE DEF debit, credit, net
<1>2. TotalDebit(a, P) = Total(P, debit) /\ Total(P, debit) \in Nat
  BY <1>1, TotalDebitIs, TotalNat
<1>3. TotalCredit(a, P) = Total(P, credit) /\ Total(P, credit) \in Nat
  BY <1>1, TotalCreditIs, TotalNat
<1>4. Total(P, debit) = Total(P, credit) + Total(P, net)
  <2>1. \A m \in P : credit[m] \in Int /\ net[m] \in Int /\ debit[m] = credit[m] + net[m]
    BY <1>1
  <2> QED
    BY <2>1, TotalPlus
<1>5. NetOf(Moves({a}, P)) = Total(P, net)
  <2> PICK S : S = Moves({a}, P)
    OBVIOUS
  <2> DEFINE key == [e \in S |-> txs[e.tx].month]
  <2>1. S \in SUBSET Entry /\ IsFiniteSet(S)
    BY MovesFinite
  <2>2. key \in [S -> P]
    BY DEF Moves
  <2>3. ASSUME NEW m \in P PROVE net[m] = NetOf({e \in S : key[e] = m})
    <3>1. {e \in S : key[e] = m} = InRow(<<a, m>>)
      BY DEF Moves, InRow
    <3> QED
      BY <1>1, <3>1
  <2> HIDE DEF key
  <2> QED
    BY <2>1, <2>2, <2>3, NetOfParts
<1> QED
  BY <1>2, <1>3, <1>4, <1>5

\* The rows of the trial balance for some accounts: accounts that are not on
\* it have not moved.
LEMMA TrialMoves ==
  ASSUME PostingInv, EntriesInv, RowsInv, IsFiniteSet(Accounts),
         NEW from \in Months, NEW to \in Months, active \subseteq Accounts, NEW C \in SUBSET active
  PROVE  Moved({r \in TrialBalance(from, to) : r.account \in C})
           = NetOf(Moves(C, Periods(from, to)))
<1> PICK P : P = Periods(from, to)
  OBVIOUS
<1>0. P \in SUBSET Months /\ IsFiniteSet(P) /\ IsFiniteSet(C) /\ C \subseteq Accounts
  <2>1. from \in Nat /\ to \in Nat
    BY LedgerAssumption DEF LedgerAssumption
  <2> QED
    BY <2>1, PeriodsFinite, FS_Subset
<1> DEFINE row(a) == [account |-> a, debit |-> TotalDebit(a, P), credit |-> TotalCredit(a, P),
                      balance |-> EndingSum(a, P)]
           B == {a \in C : TotalDebit(a, P) > 0 \/ TotalCredit(a, P) > 0}
           R == {r \in TrialBalance(from, to) : r.account \in C}
           f == [a \in B |-> row(a)]
           net == [a \in C |-> NetOf(Moves({a}, P))]
           moved == [r \in R |-> r.debit - r.credit]
<1>1. ASSUME NEW a \in C
      PROVE  /\ TotalDebit(a, P) \in Nat /\ TotalCredit(a, P) \in Nat /\ net[a] \in Int
             /\ TotalDebit(a, P) = TotalCredit(a, P) + net[a]
  <2>1. NetOf(Moves({a}, P)) \in Int
    BY MovesFinite, Sides
  <2> QED
    BY <1>0, <2>1, AccountMoves
<1>2. \A a : /\ row(a).account = a /\ row(a).debit = TotalDebit(a, P)
             /\ row(a).credit = TotalCredit(a, P)
  OBVIOUS
<1> HIDE DEF row
<1>3. R = {row(a) : a \in B}
  BY <1>2 DEF TrialBalance, row
<1>4. /\ f \in [B -> R]
      /\ \A a, b \in B : f[a] = f[b] => a = b
      /\ \A r \in R : \E a \in B : f[a] = r
  <2>1. \A a \in B : f[a] = row(a)
    OBVIOUS
  <2> QED
    BY <1>2, <1>3, <2>1
<1>5. IsFiniteSet(B) /\ B \subseteq C
  BY <1>0, FS_Subset
<1>6. IsFiniteSet(R)
  <2> HIDE DEF f, B, R
  <2> QED BY <1>4, <1>5, ImageFinite
<1>7. ASSUME NEW a \in B
      PROVE  net[a] \in Int /\ moved[f[a]] = net[a]
  <2>1. f[a] = row(a) /\ f[a] \in R
    BY <1>4
  <2>2. moved[f[a]] = TotalDebit(a, P) - TotalCredit(a, P)
    BY <1>2, <2>1
  <2> QED
    BY <1>1, <1>5, <2>2
<1>8. ASSUME NEW r \in R PROVE moved[r] \in Int /\ moved[r] = r.debit - r.credit
  <2>1. PICK a \in B : f[a] = r
    BY <1>4
  <2>2. moved[r] \in Int
    BY <1>7, <2>1
  <2> QED
    BY <2>2
<1> HIDE DEF B, R, f, net, moved
<1>9. Moved(R) = Total(R, moved)
  BY <1>6, <1>8, MovedIs
<1>10. Total(R, moved) = Total(B, net)
  BY <1>4, <1>5, <1>6, <1>7, TotalPaired
<1>11. Total(C \ B, net) = 0
  <2>1. \A a \in C \ B : net[a] = 0
    BY <1>1 DEF B
  <2>2. IsFiniteSet(C \ B)
    BY <1>0, FS_Subset
  <2> QED
    BY <2>1, <2>2, TotalZero
<1>12. Total(C, net) = Total(B, net) + Total(C \ B, net)
  <2>1. C = B \cup (C \ B) /\ B \cap (C \ B) = {} /\ IsFiniteSet(C \ B)
    BY <1>0, <1>5, FS_Subset
  <2>2. \A a \in B \cup (C \ B) : net[a] \in Int
    BY <1>1, <1>5
  <2> QED
    BY <1>5, <2>1, <2>2, TotalUnion
<1>13. Total(B, net) \in Int
  BY <1>1, <1>5, TotalStep
<1>14. NetOf(Moves(C, P)) = Total(C, net)
  <2> PICK S : S = Moves(C, P)
    OBVIOUS
  <2> DEFINE key == [e \in S |-> e.account]
  <2>1. S \in SUBSET Entry /\ IsFiniteSet(S)
    BY MovesFinite
  <2>2. key \in [S -> C]
    BY DEF Moves
  <2>3. ASSUME NEW a \in C PROVE net[a] = NetOf({e \in S : key[e] = a})
    <3>1. {e \in S : key[e] = a} = Moves({a}, P)
      BY DEF Moves
    <3> QED
      BY <3>1 DEF net
  <2> HIDE DEF key
  <2> QED
    BY <1>0, <2>1, <2>2, <2>3, NetOfParts
<1> QED
  BY <1>9, <1>10, <1>11, <1>12, <1>13, <1>14 DEF R

\* The cash flow comes to what moved on the cash accounts.
LEMMA CashMoves ==
  ASSUME PostingInv, EntriesInv, NEW from \in Months, NEW to \in Months
  PROVE  FlowSum(CashFlow(from, to)) = NetOf(Moves(CashAccounts, Periods(from, to)))
<1> PICK S : S = CashEntries(from, to)
  OBVIOUS
<1> DEFINE K == {txs[e.tx].month : e \in S}
           flow == CashFlow(from, to)
           net == [m \in K |-> flow[m].net]
           key == [e \in S |-> txs[e.tx].month]
<1>1. S = Moves(CashAccounts, Periods(from, to))
  BY DEF CashEntries, Moves
<1>2. S \in SUBSET Entry /\ IsFiniteSet(S)
  BY <1>1, MovesFinite
<1>3. IsFiniteSet(K)
  <2>1. key \in [S -> K]
    OBVIOUS
  <2>2. \A m \in K : \E e \in S : key[e] = m
    OBVIOUS
  <2>3. IsFiniteSet(S)
    BY <1>2
  <2> HIDE DEF key, K
  <2> QED BY <2>1, <2>2, <2>3, ImageFinite
<1>4. DOMAIN flow = K
  BY DEF CashFlow
<1>5. ASSUME NEW m \in K
      PROVE  net[m] = NetOf({e \in S : key[e] = m}) /\ net[m] \in Int
  <2>1. {e \in S : key[e] = m} = {e \in S : txs[e.tx].month = m}
    OBVIOUS
  <2>2. flow[m].net = NetOf({e \in S : txs[e.tx].month = m})
    BY DEF CashFlow
  <2>3. {e \in S : key[e] = m} \in SUBSET Entry /\ IsFiniteSet({e \in S : key[e] = m})
    BY <1>2, FS_Subset
  <2> QED
    BY <2>1, <2>2, <2>3, Sides
<1>6. key \in [S -> K] /\ \A m \in K : net[m] = flow[m].net
  OBVIOUS
<1> HIDE DEF flow, net, key, K
<1>7. FlowSum(flow) = Total(K, net)
  BY <1>3, <1>4, <1>5, <1>6, FlowSumIs
<1>8. NetOf(S) = Total(K, net)
  BY <1>2, <1>3, <1>5, <1>6, NetOfParts
<1> QED
  BY <1>1, <1>7, <1>8 DEF flow

\* A posting balances but for the tolerance: it is one of a journal that does.
LEMMA PostingNets ==
  ASSUME PostingInv, FollowInv, EntriesInv, NEW e \in ledger
  PROVE  NetOf({f \in ledger : f.at = e.at}) \in (-Tolerance)..Tolerance
<1> PICK S, lines : S = {f \in ledger : f.at = e.at} /\ lines = txs[e.tx].lines
  OBVIOUS
<1> DEFINE line == [f \in S |-> f.line]
           inLedger == [f \in S |-> f.amount]
           inJournal == [i \in DOMAIN lines |-> lines[i].amount]
<1>1. e.tx \in DOMAIN txs
  BY DEF EntriesInv, FromLine
<1>2. lines \in Seq(Line)
  <2> PICK t : t = txs[e.tx]
    OBVIOUS
  <2>1. t \in Transaction
    BY <1>1 DEF PostingInv, TypesButTotals
  <2> QED
    BY <2>1 DEF Transaction
<1>3. /\ \A f \in S : f.tx = e.tx
      /\ {f.line : f \in S} = DOMAIN lines
  BY DEF PostingInv, PostingsAreWhole
<1>4. \A f \in S : f.line \in DOMAIN lines /\ f.amount = lines[f.line].amount
  BY <1>3 DEF EntriesInv, FromLine
<1>5. \A f, g \in S : f.line = g.line => f = g
  BY DEF EntriesInv
<1>6. S \in SUBSET Entry /\ S \subseteq ledger /\ IsFiniteSet(S)
  BY FS_Subset DEF PostingInv, TypesButTotals, EntriesInv
<1>7. IsFiniteSet(DOMAIN lines)
  <2>1. DOMAIN lines = 1..Len(lines) /\ Len(lines) \in Int
    BY <1>2
  <2>2. IsFiniteSet(1..Len(lines))
    BY <2>1, FS_Interval
  <2> QED
    BY <2>1, <2>2
<1>8. ASSUME NEW i \in DOMAIN lines PROVE lines[i].amount \in Int
  <2>1. lines[i] \in Line
    BY <1>2
  <2> QED
    BY <2>1 DEF Line
<1>9. /\ line \in [S -> DOMAIN lines]
      /\ \A f, g \in S : line[f] = line[g] => f = g
      /\ \A i \in DOMAIN lines : \E f \in S : line[f] = i
  BY <1>3, <1>4, <1>5
<1>10. \A f \in S : inLedger[f] \in Int /\ inLedger[f] = f.amount /\ inJournal[line[f]] = inLedger[f]
  BY <1>4, <1>8
<1>11. \A i \in DOMAIN lines : inJournal[i] \in Int /\ inJournal[i] = lines[i].amount
  BY <1>8
<1> HIDE DEF line, inLedger, inJournal
<1>12. Total(DOMAIN lines, inJournal) = Total(S, inLedger)
  <2> PICK D : D = DOMAIN lines
    OBVIOUS
  <2>1. IsFiniteSet(S) /\ IsFiniteSet(D)
    BY <1>6, <1>7
  <2>2. \A f \in S : inLedger[f] \in Int /\ inJournal[line[f]] = inLedger[f]
    BY <1>10
  <2>3. line \in [S -> D]
    BY <1>9
  <2>4. \A f, g \in S : line[f] = line[g] => f = g
    BY <1>9
  <2>5. \A i \in D : \E f \in S : line[f] = i
    BY <1>9
  <2>6. Total(D, inJournal) = Total(S, inLedger)
    BY <2>1, <2>2, <2>3, <2>4, <2>5, TotalPaired
  <2> QED
    BY <2>6
<1>13. \A f \in S : f.amount \in Int
  BY <1>10
<1>14. NetOf(S) = Total(S, inLedger)
  BY <1>6, <1>10, <1>13, NetOfIs
<1>15. NetOfLines(lines) = Total(DOMAIN lines, inJournal)
  BY <1>7, <1>11, NetOfLinesIs
<1>16. NetOfLines(lines) \in (-Tolerance)..Tolerance
  <2>1. txs[e.tx].status \in {"POSTED", "VOID"}
    BY <1>1 DEF FollowInv, LedgerFollowsStatus
  <2> QED
    BY <1>1, <2>1 DEF FollowInv, Postable, Balanced
<1> QED
  BY <1>12, <1>14, <1>15, <1>16

\* What moved in some periods balances but for the tolerance of each posting.
LEMMA MovesBalance ==
  ASSUME PostingInv, FollowInv, EntriesInv, NEW P
  PROVE  LET drift == Tolerance * Cardinality({e.at : e \in ledger})
         IN  NetOf(Moves(Accounts, P)) \in (-drift)..drift
<1> PICK S : S = Moves(Accounts, P)
  OBVIOUS
<1> DEFINE K == {e.at : e \in ledger}
           at == [e \in ledger |-> e.at]
           key == [e \in S |-> e.at]
           net == [k \in K |-> NetOf({e \in S : key[e] = k})]
<1>1. S \in SUBSET Entry /\ IsFiniteSet(S) /\ S \subseteq ledger
  BY MovesFinite DEF Moves
<1>2. IsFiniteSet(K)
  <2>1. at \in [ledger -> K] /\ \A k \in K : \E e \in ledger : at[e] = k
    OBVIOUS
  <2>2. IsFiniteSet(ledger)
    BY DEF EntriesInv
  <2> HIDE DEF at, K
  <2> QED BY <2>1, <2>2, ImageFinite
<1>3. key \in [S -> K] /\ \A k \in K : net[k] = NetOf({e \in S : key[e] = k})
  BY <1>1
<1>4. ASSUME NEW k \in K PROVE net[k] \in (-Tolerance)..Tolerance
  <2>1. PICK e \in ledger : e.at = k
    OBVIOUS
  <2>2. \A f \in ledger : f.at = k => f.tx = e.tx
    BY <2>1 DEF PostingInv, PostingsAreWhole
  <2>3. CASE txs[e.tx].month \in P
    <3>1. \A f \in ledger : f.account \in Accounts
      BY DEF PostingInv, TypesButTotals, Entry
    <3>2. {f \in S : key[f] = k} = {f \in ledger : f.at = e.at}
      BY <2>1, <2>2, <2>3, <3>1 DEF Moves
    <3> QED
      BY <1>3, <3>2, PostingNets
  <2>4. CASE txs[e.tx].month \notin P
    <3>1. {f \in S : key[f] = k} = {}
      BY <2>2, <2>4 DEF Moves
    <3>2. NetOf({}) = 0
      BY FS_EmptySet, NetOfSteps
    <3>3. 0 \in (-Tolerance)..Tolerance
      BY LedgerAssumption DEF LedgerAssumption
    <3> QED
      BY <1>3, <3>1, <3>2, <3>3
  <2> QED
    BY <2>3, <2>4
<1>5. Tolerance \in Nat
  BY LedgerAssumption DEF LedgerAssumption
<1> HIDE DEF K, key, net
<1>6. NetOf(S) = Total(K, net)
  BY <1>1, <1>2, <1>3, NetOfParts
<1>7. Total(K, net) \in (-(Tolerance * Cardinality(K)))..(Tolerance * Cardinality(K))
  BY <1>2, <1>4, <1>5, TotalBound
<1> QED
  BY <1>6, <1>7 DEF K

LEMMA NetUnion ==
  ASSUME NEW R \in SUBSET Entry, IsFiniteSet(R), NEW S \in SUBSET Entry, IsFiniteSet(S),
         R \cap S = {}
  PROVE  NetOf(R \cup S) = NetOf(R) + NetOf(S)
<1> DEFINE net == [e \in R \cup S |-> e.amount]
<1>1. \A e \in R \cup S : e.amount \in Int
  BY DEF Entry
<1>2. \A e \in R \cup S : net[e] = e.amount /\ net[e] \in Int
  BY <1>1
<1>3. IsFiniteSet(R \cup S)
  BY FS_Union
<1> HIDE DEF net
<1>4. NetOf(R) = Total(R, net) /\ NetOf(S) = Total(S, net) /\ NetOf(R \cup S) = Total(R \cup S, net)
  BY <1>1, <1>2, <1>3, NetOfIs
<1> QED
  BY <1>2, <1>4, TotalUnion

-----------------------------------------------------------------------------
(* The ledger next to updates of the chart of accounts.                    *)

\* The template's accounts stay active.
ChartInv == SystemAccounts \subseteq active /\ active \subseteq Accounts

LEMMA ChartStep ==
  ASSUME ChartInv, [ReportsNext]_<<ledgerVars, active>>
  PROVE  ChartInv' /\ [LedgerNext]_ledgerVars
<1>1. CASE LedgerNext /\ UNCHANGED active
  BY <1>1 DEF ChartInv
<1>2. CASE UpdateAccount
  BY <1>2 DEF ChartInv, UpdateAccount
<1>3. CASE UNCHANGED <<ledgerVars, active>>
  BY <1>3 DEF ChartInv
<1> QED
  BY <1>1, <1>2, <1>3 DEF ReportsNext

LEMMA ChartInit == ReportsInit => LedgerInit /\ ChartInv
  BY ReportsAssumption DEF ReportsInit, ChartInv, ReportsAssumption

\* What is proved of the ledger holds next to updates of the chart.
LEMMA ChartLeavesLedger == ReportsSpec => LedgerSpec
<1>1. [ReportsNext]_<<ledgerVars, active>> => [LedgerNext]_ledgerVars
  BY DEF ReportsNext, UpdateAccount
<1>2. ReportsInit => LedgerInit
  BY DEF ReportsInit
<1> QED BY <1>1, <1>2, PTL DEF ReportsSpec, LedgerSpec

\* Reports over one range of periods agree, and the trial balance balances
\* but for what is on deactivated accounts, for any number of workers that
\* write the two tables side by side and whatever accounts a client adds and
\* deactivates (UpsertAccountBalance beside CreateLedgerEntry in
\* HandleTransactionCreated, UpdateAccount, GetTrialBalance and GetCashFlow).
THEOREM ReportsAlwaysAgree ==
  ASSUME IsFiniteSet(Accounts)
  PROVE  ReportsSpec => []ReportsAgree
<1> DEFINE Inv == ChartInv /\ PostingInv /\ FollowInv /\ EntriesInv /\ RowsInv
<1>1. ReportsInit => Inv
  <2>1. LedgerInit => FollowInv
    BY DEF LedgerInit, FollowInv, Writing, Idle, LedgerFollowsStatus
  <2> QED
    BY <2>1, ChartInit, PostingInit, EntriesInit, RowsInit
<1>2. Inv /\ [ReportsNext]_<<ledgerVars, active>> => Inv'
  BY ChartStep, PostingStep, FollowStep, EntriesStep, RowsStep
<1>3. Inv => ReportsAgree
  <2> SUFFICES ASSUME Inv, NEW from \in Months, NEW to \in Months
               PROVE  LET trial == TrialBalance(from, to)
                          missing == NetWithin(Accounts \ active, Periods(from, to))
                          drift == Tolerance * Cardinality({e.at : e \in ledger})
                          flow == CashFlow(from, to)
                          cash == {r \in trial : r.account \in CashAccounts}
                      IN  Moved(trial) + missing \in (-drift)..drift /\ FlowSum(flow) = Moved(cash)
    BY DEF ReportsAgree, Moved, FlowSum
  <2> DEFINE trial == TrialBalance(from, to)
             P == Periods(from, to)
  <2>1. {r \in trial : r.account \in active} = trial
    BY DEF TrialBalance
  <2>2. Moved(trial) = NetOf(Moves(active, P))
    BY <2>1, TrialMoves DEF ChartInv
  <2>3. Moved({r \in trial : r.account \in CashAccounts}) = NetOf(Moves(CashAccounts, P))
    BY ReportsAssumption, TrialMoves DEF ReportsAssumption, ChartInv
  <2>4. FlowSum(CashFlow(from, to)) = NetOf(Moves(CashAccounts, P))
    BY CashMoves
  <2>5. NetWithin(Accounts \ active, P) = NetOf(Moves(Accounts \ active, P))
    BY DEF NetWithin, Moves
  <2>6. NetOf(Moves(Accounts, P)) = NetOf(Moves(active, P)) + NetOf(Moves(Accounts \ active, P))
    <3>1. /\ Moves(Accounts, P) = Moves(active, P) \cup Moves(Accounts \ active, P)
          /\ Moves(active, P) \cap Moves(Accounts \ active, P) = {}
      BY DEF Moves, ChartInv
    <3> QED
      BY <3>1, MovesFinite, NetUnion
  <2> QED
    BY <2>2, <2>3, <2>4, <2>5, <2>6, MovesBalance
<1> QED BY <1>1, <1>2, <1>3, PTL DEF ReportsSpec

LEMMA EndingSumIs ==
  ASSUME NEW a, NEW S, IsFiniteSet(S), NEW w,
         \A m \in S : w[m] \in Int /\ w[m] = balances[<<a, m>>].ending
  PROVE  EndingSum(a, S) = Total(S, w)
<1> DEFINE of(m) == balances[<<a, m>>].ending
           P(g) == g = [s \in SUBSET S |->
             IF s = {} THEN 0 ELSE of(One(s)) + g[s \ {One(s)}]]
<1>1. ASSUME NEW s \in SUBSET S, s # {}
      PROVE  w[One(s)] = of(One(s))
  BY <1>1 DEF One
<1> HIDE DEF of
<1>2. ASSUME NEW g PROVE P(g) <=> Adds(S, w, g)
  BY <1>1 DEF Adds
<1>3. EndingSum(a, S) = (CHOOSE g : P(g))[S]
  BY DEF of, EndingSum, One, MapThenSumSet, MapThenFoldSet
<1> HIDE DEF P
<1>4. \E g : Adds(S, w, g)
  BY SumsExist
<1>5. P(CHOOSE g : P(g))
  BY <1>2, <1>4
<1>6. Adds(S, w, CHOOSE g : P(g))
  BY <1>2, <1>5
<1> QED
  BY <1>3, <1>6, AddsToTotal

LEMMA SectionTotalIs ==
  ASSUME NEW S, IsFiniteSet(S), NEW w, \A r \in S : w[r] \in Int /\ w[r] = r.balance
  PROVE  SectionTotal(S) = Total(S, w)
<1> DEFINE P(g) == g = [s \in SUBSET S |->
             IF s = {} THEN 0
             ELSE One(s).balance + g[s \ {One(s)}]]
<1>1. ASSUME NEW s \in SUBSET S, s # {}
      PROVE  w[One(s)] = One(s).balance
  BY <1>1 DEF One
<1>2. ASSUME NEW g PROVE P(g) <=> Adds(S, w, g)
  BY <1>1 DEF Adds
<1>3. SectionTotal(S) = (CHOOSE g : P(g))[S]
  BY DEF SectionTotal, One, MapThenSumSet, MapThenFoldSet
<1> HIDE DEF P
<1>4. \E g : Adds(S, w, g)
  BY SumsExist
<1>5. P(CHOOSE g : P(g))
  BY <1>2, <1>4
<1>6. Adds(S, w, CHOOSE g : P(g))
  BY <1>2, <1>5
<1> QED
  BY <1>3, <1>6, AddsToTotal

LEMMA ShownIs ==
  ASSUME NEW a, NEW S, IsFiniteSet(S), NEW w,
         \A n \in S : w[n] \in Int /\ w[n] = NetOf(WrittenUpTo(a, n))
  PROVE  Shown(a, S) = Total(S, w)
<1> DEFINE of(n) == NetOf(WrittenUpTo(a, n))
           P(g) == g = [s \in SUBSET S |->
             IF s = {} THEN 0 ELSE of(One(s)) + g[s \ {One(s)}]]
<1>1. ASSUME NEW s \in SUBSET S, s # {}
      PROVE  w[One(s)] = of(One(s))
  BY <1>1 DEF One
<1> HIDE DEF of
<1>2. ASSUME NEW g PROVE P(g) <=> Adds(S, w, g)
  BY <1>1 DEF Adds
<1>3. Shown(a, S) = (CHOOSE g : P(g))[S]
  BY DEF of, Shown, One, MapThenSumSet, MapThenFoldSet
<1> HIDE DEF P
<1>4. \E g : Adds(S, w, g)
  BY SumsExist
<1>5. P(CHOOSE g : P(g))
  BY <1>2, <1>4
<1>6. Adds(S, w, CHOOSE g : P(g))
  BY <1>2, <1>5
<1> QED
  BY <1>3, <1>6, AddsToTotal

LEMMA ShownOnIs ==
  ASSUME NEW P, NEW S, IsFiniteSet(S), NEW w,
         \A a \in S : w[a] \in Int /\ w[a] = Shown(a, P)
  PROVE  ShownOn(S, P) = Total(S, w)
<1> DEFINE of(a) == Shown(a, P)
           Q(g) == g = [s \in SUBSET S |->
             IF s = {} THEN 0 ELSE of(One(s)) + g[s \ {One(s)}]]
<1>1. ASSUME NEW s \in SUBSET S, s # {}
      PROVE  w[One(s)] = of(One(s))
  BY <1>1 DEF One
<1> HIDE DEF of
<1>2. ASSUME NEW g PROVE Q(g) <=> Adds(S, w, g)
  BY <1>1 DEF Adds
<1>3. ShownOn(S, P) = (CHOOSE g : Q(g))[S]
  BY DEF of, ShownOn, One, MapThenSumSet, MapThenFoldSet
<1> HIDE DEF Q
<1>4. \E g : Adds(S, w, g)
  BY SumsExist
<1>5. Q(CHOOSE g : Q(g))
  BY <1>2, <1>4
<1>6. Adds(S, w, CHOOSE g : Q(g))
  BY <1>2, <1>5
<1> QED
  BY <1>3, <1>6, AddsToTotal

\* The sign of an account hides no balance.
LEMMA SignedNonzero ==
  ASSUME NEW a, NEW x \in Int
  PROVE  Signed(a, x) \in Int /\ (Signed(a, x) = 0 <=> x = 0)
<1>1. a \in CreditNormal => Signed(a, x) = -x
  BY DEF Signed
<1>2. a \notin CreditNormal => Signed(a, x) = x
  BY DEF Signed
<1>3. -x \in Int /\ -x + x = 0
  OBVIOUS
<1>4. \A y \in Int : y + x = 0 => (y = 0 <=> x = 0)
  OBVIOUS
<1> QED
  BY <1>1, <1>2, <1>3, <1>4

\* A row's ending balance is what its account had after its last entry dated
\* in the month.
LEMMA EndingIsBalance ==
  ASSUME PostingInv, EntriesInv, RunInv, NEW a \in Accounts, OnePerPosting(On(a, ledger)),
         NEW n \in Months
  PROVE  /\ NetOf(WrittenUpTo(a, n)) \in Int
         /\ balances[<<a, n>>].ending = Signed(a, NetOf(WrittenUpTo(a, n)))
<1> PICK T, r : T = On(a, ledger) /\ r = <<a, n>>
  OBVIOUS
<1> PICK row : row = {e \in T : txs[e.tx].month = n}
  OBVIOUS
<1> PICK U : U = WrittenUpTo(a, n)
  OBVIOUS
<1>1. T \subseteq ledger /\ U \subseteq T /\ row \subseteq T /\ ledger \subseteq Entry
  BY DEF On, WrittenUpTo, PostingInv, TypesButTotals
<1>2. /\ IsFiniteSet(T) /\ IsFiniteSet(U)
      /\ \A e \in T : e.account = a /\ e.at \in Nat /\ e.line \in Nat /\ e.amount \in Int
  <2>1. IsFiniteSet(T) /\ IsFiniteSet(U)
    BY <1>1, FS_Subset DEF EntriesInv
  <2>2. \A e \in T : e.account = a
    BY DEF On
  <2> QED
    BY <1>1, <2>1, <2>2 DEF Entry
<1>3. NetOf(U) \in Int
  BY <1>1, <1>2, NetOfSteps
<1>4. \/ row = {} /\ balances[r].ending = 0
      \/ \E e \in row : (\A f \in row : ~WrittenBefore(e, f)) /\ balances[r].ending = e.running
  <2>1. r \in Accounts \X Months /\ r[1] = a /\ r[2] = n
    OBVIOUS
  <2>2. EndsWithLast(r)
    BY <2>1 DEF RunInv
  <2> QED
    BY <2>1, <2>2 DEF EndsWithLast
<1>5. CASE row = {} /\ balances[r].ending = 0
  <2>1. U = {}
    BY <1>5 DEF WrittenUpTo
  <2>2. NetOf(U) = 0
    BY <1>2, <2>1, NetOfSteps
  <2> QED
    BY <1>3, <1>5, <2>2, SignedSums
<1>6. ASSUME NEW e \in row, \A f \in row : ~WrittenBefore(e, f), balances[r].ending = e.running
      PROVE  balances[r].ending = Signed(a, NetOf(U))
  <2> PICK V : V = {f \in T : WrittenBefore(f, e)}
    OBVIOUS
  <2>1. U = V \cup {e} /\ e \in U /\ e \notin V
    <3>1. ASSUME NEW f \in T, NEW g \in row, ~WrittenBefore(g, f), f # e
          PROVE  WrittenBefore(f, e)
      <4>1. ~WrittenBefore(e, g)
        BY <1>6
      <4>2. f.at # e.at
        BY <1>1, <3>1 DEF OnePerPosting
      <4>3. /\ e.at \in Nat /\ f.at \in Nat /\ g.at \in Nat
            /\ e.line \in Nat /\ f.line \in Nat /\ g.line \in Nat
        BY <1>1, <1>2
      <4> QED
        BY <3>1, <4>1, <4>2, <4>3 DEF WrittenBefore
    <3>2. ASSUME NEW f \in V PROVE ~WrittenBefore(e, f)
      BY <1>1, <1>2 DEF WrittenBefore
    <3>3. ~WrittenBefore(e, e)
      BY <1>1, <1>2 DEF WrittenBefore
    <3>4. \A f \in U : f \in T /\ \E g \in row : ~WrittenBefore(g, f)
      BY DEF WrittenUpTo
    <3>5. \A f \in T : ~WrittenBefore(e, f) => f \in U
      BY DEF WrittenUpTo
    <3> QED
      BY <1>1, <3>1, <3>2, <3>3, <3>4, <3>5
  <2>2. e.running = Signed(a, NetOf(V) + e.amount)
    <3>1. e \in ledger /\ e.account = a /\ OnePerPosting(V)
      BY <1>1, <1>2 DEF OnePerPosting
    <3>2. OnePerPosting({f \in On(e.account, ledger) : WrittenBefore(f, e)})
            => e.running = Signed(e.account, NetOf({f \in On(e.account, ledger) : WrittenBefore(f, e)}) + e.amount)
      BY <3>1 DEF RunInv, RunsIn
    <3>3. {f \in On(e.account, ledger) : WrittenBefore(f, e)} = V
      BY <3>1
    <3> QED
      BY <3>1, <3>2, <3>3
  <2>3. NetOf(U) = NetOf(U \ {e}) + e.amount
    BY <1>1, <1>2, <2>1, NetOfSteps
  <2>4. U \ {e} = V
    BY <2>1
  <2> QED
    BY <1>6, <2>2, <2>3, <2>4
<1> QED
  BY <1>3, <1>4, <1>5, <1>6

\* A sum of ending balances is what Shown says.
LEMMA EndingIsShown ==
  ASSUME PostingInv, EntriesInv, RunInv, NEW a \in Accounts, OnePerPosting(On(a, ledger)),
         NEW P \in SUBSET Months, IsFiniteSet(P)
  PROVE  Shown(a, P) \in Int /\ EndingSum(a, P) = Signed(a, Shown(a, P))
<1> DEFINE ending == [n \in P |-> balances[<<a, n>>].ending]
           net == [n \in P |-> NetOf(WrittenUpTo(a, n))]
           none == [n \in P |-> 0]
<1>1. ASSUME NEW n \in P
      PROVE  /\ ending[n] = balances[<<a, n>>].ending /\ ending[n] \in Int
             /\ net[n] = NetOf(WrittenUpTo(a, n)) /\ net[n] \in Int
             /\ ending[n] = Signed(a, net[n]) /\ none[n] = 0 /\ none[n] \in Int
  BY EndingIsBalance, SignedNonzero
<1> HIDE DEF ending, net, none
<1>2. EndingSum(a, P) = Total(P, ending) /\ Total(P, ending) \in Int
  <2>1. \A n \in P : ending[n] \in Int /\ ending[n] = balances[<<a, n>>].ending
    BY <1>1
  <2>2. EndingSum(a, P) = Total(P, ending)
    BY <2>1, EndingSumIs
  <2> QED
    BY <2>1, <2>2, TotalStep
<1>3. Shown(a, P) = Total(P, net) /\ Total(P, net) \in Int
  <2>1. \A n \in P : net[n] \in Int /\ net[n] = NetOf(WrittenUpTo(a, n))
    BY <1>1
  <2>2. Shown(a, P) = Total(P, net)
    BY <2>1, ShownIs
  <2> QED
    BY <2>1, <2>2, TotalStep
<1>4. CASE a \notin CreditNormal
  <2>1. \A n \in P : ending[n] = net[n]
    BY <1>1, <1>4 DEF Signed
  <2>2. Total(P, ending) = Total(P, net)
    BY <1>1, <2>1, TotalSame
  <2> QED
    BY <1>2, <1>3, <1>4, <2>2 DEF Signed
<1>5. CASE a \in CreditNormal
  <2>1. ASSUME NEW n \in P PROVE none[n] = ending[n] + net[n]
    <3>1. ending[n] = -net[n] /\ net[n] \in Int /\ none[n] = 0
      BY <1>1, <1>5 DEF Signed
    <3> QED
      BY <3>1
  <2>2. \A n \in P : ending[n] \in Int /\ net[n] \in Int /\ none[n] = ending[n] + net[n]
    BY <1>1, <2>1
  <2>3. Total(P, none) = Total(P, ending) + Total(P, net)
    BY <2>2, TotalPlus
  <2>4. Total(P, none) = 0
    BY <1>1, TotalZero
  <2>5. Total(P, ending) = -Total(P, net)
    BY <1>2, <1>3, <2>3, <2>4
  <2> QED
    BY <1>2, <1>3, <1>5, <2>5 DEF Signed
<1> QED
  BY <1>4, <1>5

\* The rows of a section: accounts that are not on it have no balance.
LEMMA SectionSums ==
  ASSUME IsFiniteSet(active), NEW type, NEW P, NEW s,
         \A a \in active : s[a] \in Int /\ s[a] = EndingSum(a, P)
  PROVE  SectionTotal(Section(type, P)) = Total(OfType({type}), s)
<1> DEFINE C == OfType({type})
           row(a) == [account |-> a, balance |-> EndingSum(a, P)]
           B == {a \in C : EndingSum(a, P) # 0}
           R == Section(type, P)
           f == [a \in B |-> row(a)]
           balance == [r \in R |-> r.balance]
<1>1. \A a : row(a).account = a /\ row(a).balance = EndingSum(a, P)
  OBVIOUS
<1> HIDE DEF row
<1>2. R = {row(a) : a \in B}
  BY <1>1 DEF Section, row
<1>3. /\ f \in [B -> R]
      /\ \A a, b \in B : f[a] = f[b] => a = b
      /\ \A r \in R : \E a \in B : f[a] = r
  <2>1. f = [a \in B |-> row(a)] /\ \A a \in B : f[a] = row(a)
    OBVIOUS
  <2> HIDE DEF B, R, f
  <2> QED
    BY <1>1, <1>2, <2>1
<1>4. B \subseteq C /\ C \subseteq active /\ IsFiniteSet(B) /\ IsFiniteSet(C)
  BY FS_Subset DEF OfType
<1>5. IsFiniteSet(R)
  <2> HIDE DEF f, B, R
  <2> QED BY <1>3, <1>4, ImageFinite
<1>6. ASSUME NEW a \in B
      PROVE  s[a] \in Int /\ balance[f[a]] = s[a]
  <2>1. f[a] \in R
    BY <1>3
  <2>2. \A r \in R : balance[r] = r.balance
    OBVIOUS
  <2>3. f[a] = row(a) /\ row(a).balance = EndingSum(a, P)
    BY <1>1
  <2> HIDE DEF balance, f, B, R
  <2>4. balance[f[a]] = EndingSum(a, P)
    BY <2>1, <2>2, <2>3
  <2> QED
    BY <1>4, <2>4
<1>7. ASSUME NEW r \in R PROVE balance[r] \in Int /\ balance[r] = r.balance
  <2>1. PICK a \in B : f[a] = r
    BY <1>3
  <2>2. balance[r] \in Int
    BY <1>6, <2>1
  <2> QED
    BY <2>2
<1>8. \A a \in C \ B : s[a] = 0
  BY <1>4
<1> HIDE DEF B, C, R, f, balance
<1>9. SectionTotal(R) = Total(R, balance)
  BY <1>5, <1>7, SectionTotalIs
<1>10. Total(R, balance) = Total(B, s)
  BY <1>3, <1>4, <1>5, <1>6, TotalPaired
<1>11. IsFiniteSet(C \ B) /\ C = B \cup (C \ B) /\ B \cap (C \ B) = {}
  BY <1>4, FS_Subset
<1>12. Total(C \ B, s) = 0
  BY <1>8, <1>11, TotalZero
<1>13. Total(C, s) = Total(B, s) + Total(C \ B, s)
  <2>1. \A a \in B \cup (C \ B) : s[a] \in Int
    BY <1>4
  <2> QED
    BY <1>4, <1>11, <2>1, TotalUnion
<1>14. Total(B, s) \in Int
  BY <1>4, <1>6, TotalStep
<1> QED
  BY <1>9, <1>10, <1>12, <1>13, <1>14 DEF C, R

\* Assets against liabilities and equity, on whichever side their accounts
\* are: what is left is income, expenses and twice the contra accounts.
LEMMA SidesOfSheet ==
  ASSUME IsFiniteSet(active), active \subseteq Accounts, NEW bal, NEW s,
         \A a \in active : bal[a] \in Int /\ s[a] = Signed(a, bal[a])
  PROVE  Total(OfType({"asset"}), s) = Total(OfType({"liability"}), s) + Total(OfType({"equity"}), s)
           <=> Total(OfType({"revenue", "expense"}), bal) + 2 * Total(Contra, bal)
                 = Total(active, bal)
<1> DEFINE A == OfType({"asset"})
           L == OfType({"liability"})
           E == OfType({"equity"})
           M == L \cup E
           B == A \cup M
           I == OfType({"revenue", "expense"})
           c == [a \in active |-> IF a \in Contra THEN bal[a] ELSE 0]
           u == [a \in active |-> s[a] + c[a]]
           d == [a \in active |-> s[a] + bal[a]]
<1>1. /\ A \subseteq active /\ L \subseteq active /\ E \subseteq active /\ M \subseteq active
      /\ B \subseteq active /\ I \subseteq active /\ Contra \subseteq B /\ Contra \subseteq active
      /\ L \cap E = {} /\ A \cap M = {} /\ B \cap I = {} /\ active = B \cup I
  BY LedgerAssumption DEF LedgerAssumption, OfType, Contra
<1>2. /\ IsFiniteSet(A) /\ IsFiniteSet(L) /\ IsFiniteSet(E) /\ IsFiniteSet(M) /\ IsFiniteSet(B)
      /\ IsFiniteSet(I) /\ IsFiniteSet(Contra) /\ IsFiniteSet(B \ Contra)
  <2>1. B \ Contra \subseteq active
    BY <1>1
  <2> HIDE DEF A, L, E, M, B, I
  <2> QED BY <1>1, <2>1, FS_Subset
<1>3. ASSUME NEW a \in active
      PROVE  /\ bal[a] \in Int /\ s[a] \in Int /\ c[a] \in Int /\ u[a] \in Int /\ d[a] \in Int
             /\ u[a] = s[a] + c[a] /\ d[a] = s[a] + bal[a]
             /\ a \in Contra => c[a] = bal[a]
             /\ a \notin Contra => c[a] = 0
  BY SignedNonzero
<1>4. ASSUME NEW a \in A PROVE bal[a] = u[a] + c[a]
  <2>1. a \in active /\ AccountType[a] = "asset" /\ s[a] = Signed(a, bal[a])
    BY DEF OfType
  <2> HIDE DEF A, c, u
  <2>2. CASE a \in CreditNormal
    <3>1. a \in Contra
      BY <2>1, <2>2 DEF Contra
    <3>2. s[a] = -bal[a]
      BY <2>1, <2>2 DEF Signed
    <3> QED
      BY <1>3, <2>1, <3>1, <3>2
  <2>3. CASE a \notin CreditNormal
    <3>1. a \notin Contra
      BY <2>1, <2>3 DEF Contra
    <3>2. s[a] = bal[a]
      BY <2>1, <2>3 DEF Signed
    <3> QED
      BY <1>3, <2>1, <3>1, <3>2
  <2> QED
    BY <2>2, <2>3
<1>5. ASSUME NEW a \in M PROVE d[a] = c[a] + c[a]
  <2>1. a \in active /\ AccountType[a] \in {"liability", "equity"} /\ s[a] = Signed(a, bal[a])
    BY DEF OfType
  <2> HIDE DEF M, c, d
  <2>2. CASE a \in CreditNormal
    <3>1. a \notin Contra
      BY <2>1, <2>2 DEF Contra
    <3>2. s[a] = -bal[a]
      BY <2>1, <2>2 DEF Signed
    <3> QED
      BY <1>3, <2>1, <3>1, <3>2
  <2>3. CASE a \notin CreditNormal
    <3>1. a \in Contra
      BY <2>1, <2>3 DEF Contra
    <3>2. s[a] = bal[a]
      BY <2>1, <2>3 DEF Signed
    <3> QED
      BY <1>3, <2>1, <3>1, <3>2
  <2> QED
    BY <2>2, <2>3
<1> HIDE DEF A, L, E, I, c, u, d
<1>6. Total(A, bal) = Total(A, u) + Total(A, c) /\ Total(A, u) = Total(A, s) + Total(A, c)
  BY <1>1, <1>2, <1>3, <1>4, TotalPlus
<1>7. Total(M, d) = Total(M, c) + Total(M, c) /\ Total(M, d) = Total(M, s) + Total(M, bal)
  <2> HIDE DEF M
  <2> QED BY <1>1, <1>2, <1>3, <1>5, TotalPlus
<1>8. Total(M, s) = Total(L, s) + Total(E, s)
  BY <1>1, <1>2, <1>3, TotalUnion
<1>9. Total(B, c) = Total(A, c) + Total(M, c) /\ Total(B, bal) = Total(A, bal) + Total(M, bal)
  <2> HIDE DEF M
  <2> QED BY <1>1, <1>2, <1>3, TotalUnion
<1> HIDE DEF M, B
<1>10. Total(active, bal) = Total(B, bal) + Total(I, bal)
  BY <1>1, <1>2, <1>3, TotalUnion
<1>11. Total(B, c) = Total(Contra, bal)
  <2>1. B = Contra \cup (B \ Contra) /\ Contra \cap (B \ Contra) = {}
    BY <1>1
  <2>2. Total(B, c) = Total(Contra, c) + Total(B \ Contra, c)
    <3>1. \A a \in Contra \cup (B \ Contra) : c[a] \in Int
      BY <1>1, <1>3
    <3> QED
      BY <1>2, <2>1, <3>1, TotalUnion
  <2>3. Total(B \ Contra, c) = 0
    BY <1>1, <1>2, <1>3, TotalZero
  <2>4. Total(Contra, c) = Total(Contra, bal) /\ Total(Contra, c) \in Int
    <3>1. \A a \in Contra : bal[a] \in Int /\ c[a] \in Int /\ c[a] = bal[a]
      BY <1>1, <1>3
    <3> QED
      BY <1>2, <3>1, TotalSame, TotalStep
  <2> QED
    BY <2>2, <2>3, <2>4
<1>12. /\ Total(A, s) \in Int /\ Total(A, c) \in Int /\ Total(A, u) \in Int /\ Total(A, bal) \in Int
       /\ Total(L, s) \in Int /\ Total(E, s) \in Int
       /\ Total(M, c) \in Int /\ Total(M, d) \in Int /\ Total(M, bal) \in Int /\ Total(M, s) \in Int
       /\ Total(I, bal) \in Int /\ Total(Contra, bal) \in Int
  BY <1>1, <1>2, <1>3, TotalStep
<1>13. /\ Total(A, bal) = Total(A, s) + Total(A, c) + Total(A, c)
       /\ Total(L, s) + Total(E, s) + Total(M, bal) = Total(M, c) + Total(M, c)
       /\ Total(Contra, bal) = Total(A, c) + Total(M, c)
       /\ Total(active, bal) = Total(A, bal) + Total(M, bal) + Total(I, bal)
  BY <1>6, <1>7, <1>8, <1>9, <1>10, <1>11, <1>12
<1>14. Total(A, s) = Total(L, s) + Total(E, s)
         <=> Total(I, bal) + 2 * Total(Contra, bal) = Total(active, bal)
  BY <1>12, <1>13
<1> QED
  BY <1>14 DEF A, L, E, I

\* The parts of ReportsFollowLedger.
RowsOn(report) == {r \in report.lines : r.account \in Plain}

Income == OfType({"revenue", "expense"})

OnSheet(to) == RowsOn(BalanceSheet(to)) = RowsShown(Plain \ Income, Periods(0, to))

OnStatement(from, to) ==
  RowsOn(IncomeStatement(from, to)) = RowsShown(Plain \cap Income, Periods(from, to))

BalancesAsSaid(to) ==
  BalanceSheet(to).balanced <=>
    ShownOn(Income, Periods(0, to)) + 2 * ShownOn(Contra, Periods(0, to))
      = ShownOn(active, Periods(0, to))

\* The plain accounts among the rows of some sections.
LEMMA SectionRows ==
  ASSUME ChartInv, PostingInv, EntriesInv, RunInv, NEW P \in SUBSET Months, IsFiniteSet(P),
         NEW types
  PROVE  {r \in UNION {Section(type, P) : type \in types} : r.account \in Plain}
           = RowsShown(Plain \cap OfType(types), P)
<1> DEFINE row(a) == [account |-> a, balance |-> EndingSum(a, P)]
           shown(a) == [account |-> a, balance |-> Signed(a, Shown(a, P))]
<1>1. \A a \in Plain : row(a) = shown(a)
  BY EndingIsShown DEF Plain, ChartInv
<1>2. \A a : row(a).account = a
  OBVIOUS
<1>3. UNION {Section(type, P) : type \in types}
        = {r \in {row(a) : a \in OfType(types)} : r.balance # 0}
  BY DEF Section, OfType
<1>4. RowsShown(Plain \cap OfType(types), P)
        = {r \in {shown(a) : a \in Plain \cap OfType(types)} : r.balance # 0}
  BY DEF RowsShown
<1> HIDE DEF row, shown
<1>5. {r \in {row(a) : a \in OfType(types)} : r.balance # 0 /\ r.account \in Plain}
        = {r \in {row(a) : a \in Plain \cap OfType(types)} : r.balance # 0}
  BY <1>2
<1>6. {row(a) : a \in Plain \cap OfType(types)} = {shown(a) : a \in Plain \cap OfType(types)}
  BY <1>1
<1> QED
  BY <1>3, <1>4, <1>5, <1>6

LEMMA RowsFollow ==
  ASSUME ChartInv, PostingInv, EntriesInv, RunInv, NEW to \in Months
  PROVE  OnSheet(to) /\ \A from \in Months : OnStatement(from, to)
<1>0. to \in Nat /\ \A from \in Months : from \in Nat
  BY LedgerAssumption DEF LedgerAssumption
<1>1. OnSheet(to)
  <2> PICK P : P = Periods(0, to)
    OBVIOUS
  <2> DEFINE types == {"asset", "liability", "equity"}
  <2>1. P \in SUBSET Months /\ IsFiniteSet(P)
    BY <1>0, PeriodsFinite
  <2>2. BalanceSheet(to).lines = UNION {Section(type, P) : type \in types}
    BY DEF BalanceSheet
  <2>3. Plain \cap OfType(types) = Plain \ Income
    BY LedgerAssumption DEF LedgerAssumption, Plain, OfType, Income, ChartInv
  <2> QED
    BY <2>1, <2>2, <2>3, SectionRows DEF OnSheet, RowsOn
<1>2. ASSUME NEW from \in Months PROVE OnStatement(from, to)
  <2> PICK P : P = Periods(from, to)
    OBVIOUS
  <2> DEFINE types == {"revenue", "expense"}
  <2>1. P \in SUBSET Months /\ IsFiniteSet(P)
    BY <1>0, PeriodsFinite
  <2>2. IncomeStatement(from, to).lines = UNION {Section(type, P) : type \in types}
    BY DEF IncomeStatement
  <2> QED
    BY <2>1, <2>2, SectionRows DEF OnStatement, RowsOn, Income
<1> QED
  BY <1>1, <1>2

LEMMA SheetFollows ==
  ASSUME IsFiniteSet(Accounts), ChartInv, PostingInv, EntriesInv, RunInv, NEW to \in Months,
         Plain = active
  PROVE  BalancesAsSaid(to)
<1> PICK P : P = Periods(0, to)
  OBVIOUS
<1> DEFINE bal == [a \in active |-> Shown(a, P)]
           s == [a \in active |-> EndingSum(a, P)]
           typed(type) == Total(OfType({type}), s)
<1>1. P \in SUBSET Months /\ IsFiniteSet(P)
  <2>1. to \in Nat
    BY LedgerAssumption DEF LedgerAssumption
  <2> QED
    BY <2>1, PeriodsFinite
<1>2. ASSUME NEW a \in active
      PROVE  /\ bal[a] = Shown(a, P) /\ bal[a] \in Int
             /\ s[a] = EndingSum(a, P) /\ s[a] = Signed(a, bal[a]) /\ s[a] \in Int
  <2>1. a \in Accounts /\ OnePerPosting(On(a, ledger))
    BY DEF Plain, ChartInv
  <2>2. Shown(a, P) \in Int /\ EndingSum(a, P) = Signed(a, Shown(a, P))
    BY <1>1, <2>1, EndingIsShown
  <2> QED
    BY <2>2, SignedNonzero
<1>3. IsFiniteSet(active) /\ active \subseteq Accounts
  BY FS_Subset DEF ChartInv
<1> HIDE DEF bal, s
<1>4. /\ ShownOn(Income, P) = Total(Income, bal) /\ ShownOn(Contra, P) = Total(Contra, bal)
      /\ ShownOn(active, P) = Total(active, bal)
  <2>1. /\ IsFiniteSet(Income) /\ Income \subseteq active
        /\ IsFiniteSet(Contra) /\ Contra \subseteq active
    <3>1. Income \subseteq active /\ Contra \subseteq active
      BY DEF Income, OfType, Contra
    <3> QED
      BY <1>3, <3>1, FS_Subset
  <2> QED
    BY <1>2, <1>3, <2>1, ShownOnIs
<1>5. \A type : SectionTotal(Section(type, P)) = typed(type)
  BY <1>2, <1>3, SectionSums
<1>6. BalanceSheet(to).balanced <=> typed("asset") = typed("liability") + typed("equity")
  BY <1>5 DEF BalanceSheet
<1>7. typed("asset") = typed("liability") + typed("equity")
        <=> Total(Income, bal) + 2 * Total(Contra, bal) = Total(active, bal)
  BY <1>2, <1>3, SidesOfSheet DEF Income
<1> QED
  BY <1>4, <1>6, <1>7 DEF BalancesAsSaid

\* With one worker, the rows of sheet and statement are what the ledger has
\* for them, over any number of periods, for every active account that no
\* posting has touched twice; and without other accounts the sheet balances
\* exactly when income, expenses and twice the contra accounts come to the sum
\* of all (GetBalanceSheet, GetIncomeStatement).
THEOREM ReportsFollow ==
  ASSUME OneWorker, IsFiniteSet(Accounts)
  PROVE  ReportsSpec => []ReportsFollowLedger
<1> DEFINE Inv == ChartInv /\ PostingInv /\ EntriesInv /\ RunInv
<1>1. ReportsInit => Inv
  BY ChartInit, PostingInit, EntriesInit, RunInit
<1>2. Inv /\ [ReportsNext]_<<ledgerVars, active>> => Inv'
  BY ChartStep, PostingStep, EntriesStep, RunStep
<1>3. Inv => ReportsFollowLedger
  <2> SUFFICES ASSUME Inv, NEW to \in Months
               PROVE  /\ OnSheet(to)
                      /\ \A from \in Months : OnStatement(from, to)
                      /\ Plain = active => BalancesAsSaid(to)
    BY DEF ReportsFollowLedger, OnSheet, OnStatement, BalancesAsSaid, RowsOn, Income
  <2>1. OnSheet(to) /\ \A from \in Months : OnStatement(from, to)
    BY RowsFollow
  <2>2. Plain = active => BalancesAsSaid(to)
    BY SheetFollows
  <2> QED
    BY <2>1, <2>2
<1> QED BY <1>1, <1>2, <1>3, PTL DEF ReportsSpec
=============================================================================
