------------------------------ MODULE Journals ------------------------------
(***************************************************************************)
(* From a request to the lines of its journal and to its PPN:              *)
(* internal/accounting (rules.go, constants.go, categorizer.go, service.go *)
(* CreateTransaction) and internal/tax/calculator.go.                      *)
(*                                                                         *)
(* One transaction of a workspace whose chart is seeded.  Amounts are      *)
(* cents, rates percent.  Journals users write themselves are Ledger's;    *)
(* OCR goes the way of SIMPLE with a category; PPh 23 never gets into a    *)
(* journal and is left out.                                                *)
(***************************************************************************)
EXTENDS Integers, Sequences, FiniteSetsExt, TLC

CONSTANTS
  Amounts,      \* amounts of a request
  AskedRates,   \* rates a profile may be given, per mille
  MaxRates      \* bound on changes of the profile

ASSUME JournalsAssumption ==
  Amounts \subseteq Nat \ {0} /\ AskedRates \subseteq Nat /\ MaxRates \in Nat

VARIABLES
  ppnRate,    \* tax_profiles.default_ppn_rate, 0 without a profile
  liable,     \* tax_profiles.is_ppn_liable
  rates,      \* how often the profile was changed
  tie,        \* which way the float of a base, of a tax, falls on half a cent
  request,    \* the request, with its category resolved
  stage,      \* "none", "taxed", "booked", "calculated", or why it was refused
  since,      \* rates when the request came
  taxAmount,  \* transactions.tax_amount
  lines,      \* the journal: pairs of a debit and a credit of one amount
  ppn         \* the PPN row of tax_calculations: its account and amount

journalVars ==
  <<ppnRate, liable, rates, tie, request, stage, since, taxAmount, lines, ppn>>

-----------------------------------------------------------------------------
(* The tables.  A rule is its primary entry and the additional ones, each  *)
(* the code to debit and the code to credit.                               *)

CashInRules == [
  pendapatan_usaha |-> <<"1-1001", "4-1001">>, pendapatan_jasa |-> <<"1-1001", "4-1002">>,
  pendapatan_bunga |-> <<"1-1002", "4-2001">>, piutang_dibayar |-> <<"1-1001", "1-1003">>,
  hutang_diterima |-> <<"1-1001", "2-1001">>, modal_disetor |-> <<"1-1001", "3-1001">>,
  uang_muka_diterima |-> <<"1-1001", "2-1006">>, pendapatan_lain |-> <<"1-1001", "4-2002">>]

CashOutRules == [
  beban_gaji |-> <<"5-1001", "1-1001">>, beban_sewa |-> <<"5-1002", "1-1001">>,
  beban_listrik |-> <<"5-1003", "1-1001">>, beban_telepon |-> <<"5-1004", "1-1001">>,
  beban_transport |-> <<"5-1005", "1-1001">>, beban_makan |-> <<"5-1006", "1-1001">>,
  beban_perlengkapan |-> <<"5-1007", "1-1001">>, beban_asuransi |-> <<"5-1009", "1-1001">>,
  beban_admin |-> <<"5-1010", "1-1001">>, beban_bank |-> <<"5-1011", "1-1002">>,
  beban_pemasaran |-> <<"5-1012", "1-1001">>, beban_bunga |-> <<"5-2001", "1-1001">>,
  beban_pajak |-> <<"5-2002", "1-1001">>, pembelian_barang |-> <<"1-1004", "1-1001">>,
  bayar_hutang |-> <<"2-1001", "1-1001">>, bayar_pajak |-> <<"2-1003", "1-1001">>,
  uang_muka_beli |-> <<"1-1007", "1-1001">>, prive |-> <<"3-1002", "1-1001">>,
  beban_lain |-> <<"5-9001", "1-1001">>]

HPP == <<"5-3001", "1-1004">>

SalesRules == [
  penjualan_barang_tunai |-> << <<"1-1001", "4-1001">>, HPP >>,
  penjualan_barang_kredit |-> << <<"1-1003", "4-1001">>, HPP >>,
  penjualan_jasa_tunai |-> << <<"1-1001", "4-1002">> >>,
  penjualan_jasa_kredit |-> << <<"1-1003", "4-1002">> >>,
  penjualan_dengan_ppn |-> << <<"1-1001", "4-1001">>, <<"1-1001", "2-1005">> >>]

PurchaseRules == [
  pembelian_barang_tunai |-> << <<"1-1004", "1-1001">> >>,
  pembelian_barang_kredit |-> << <<"1-1004", "2-1001">> >>,
  pembelian_jasa_tunai |-> << <<"5-9001", "1-1001">> >>,
  pembelian_jasa_kredit |-> << <<"5-9001", "2-1001">> >>,
  pembelian_dengan_ppn |-> << <<"1-1004", "1-1001">>, <<"1-1008", "1-1001">> >>]

SpecialRules == [
  diskon_penjualan |-> << <<"4-1003", "1-1003">> >>,
  retur_penjualan |-> << <<"4-1004", "1-1003">>, <<"1-1004", "5-3001">> >>,
  retur_pembelian |-> << <<"2-1001", "5-3002">> >>]

\* The rules of one entry apply to cash; others may book more.
RulesOf == [
  CASH_IN |-> [c \in DOMAIN CashInRules |-> <<CashInRules[c]>>],
  CASH_OUT |-> [c \in DOMAIN CashOutRules |-> <<CashOutRules[c]>>],
  SALES |-> SalesRules,
  PURCHASE |-> PurchaseRules]

ValidCategories == [
  CASH_IN |-> {"pendapatan_usaha", "pendapatan_jasa", "pendapatan_bunga", "piutang_dibayar",
               "hutang_diterima", "modal_disetor", "uang_muka_diterima", "pendapatan_lain"},
  CASH_OUT |-> {"beban_gaji", "beban_sewa", "beban_listrik", "beban_telepon", "beban_transport",
                "beban_makan", "beban_perlengkapan", "beban_asuransi", "beban_admin",
                "beban_bank", "beban_pemasaran", "beban_bunga", "beban_pajak",
                "pembelian_barang", "bayar_hutang", "bayar_pajak", "uang_muka_beli", "prive",
                "beban_lain"},
  SALES |-> {"penjualan_barang_tunai", "penjualan_barang_kredit", "penjualan_jasa_tunai",
             "penjualan_jasa_kredit", "penjualan_dengan_ppn"},
  PURCHASE |-> {"pembelian_barang_tunai", "pembelian_barang_kredit", "pembelian_jasa_tunai",
                "pembelian_jasa_kredit", "pembelian_dengan_ppn"}]

ValidSpecialCategories == {"diskon_penjualan", "retur_penjualan", "retur_pembelian"}

\* AllValidCategories.
Categories == UNION {ValidCategories[t] : t \in DOMAIN ValidCategories} \cup ValidSpecialCategories

TransactionTypes == {"CASH_IN", "CASH_OUT", "SALES", "PURCHASE", "JOURNAL", "REVERSAL"}

\* The codes of DefaultCOATemplate.
DefaultCOATemplate == {
  "1-0000", "1-1000", "1-1001", "1-1002", "1-1003", "1-1004", "1-1005", "1-1006", "1-1007",
  "1-1008", "1-1009", "1-2000", "1-2001", "1-2002", "1-2003", "1-2004", "1-2099",
  "2-0000", "2-1000", "2-1001", "2-1002", "2-1003", "2-1004", "2-1005", "2-1006", "2-1007",
  "2-2000", "2-2001",
  "3-0000", "3-1001", "3-1002", "3-1003", "3-1004",
  "4-0000", "4-1001", "4-1002", "4-1003", "4-1004", "4-2001", "4-2002",
  "5-0000", "5-1000", "5-1001", "5-1002", "5-1003", "5-1004", "5-1005", "5-1006", "5-1007",
  "5-1008", "5-1009", "5-1010", "5-1011", "5-1012", "5-2000", "5-2001", "5-2002", "5-2003",
  "5-2004", "5-3000", "5-3001", "5-3002", "5-9001"}

-----------------------------------------------------------------------------
(* Operators.                                                              *)

IsValidCategoryForType(c, type) == type \in DOMAIN ValidCategories /\ c \in ValidCategories[type]

GetFallbackCategory(type) ==
  CASE type = "CASH_IN" -> "pendapatan_lain"
    [] type = "SALES" -> "penjualan_barang_tunai"
    [] type = "PURCHASE" -> "pembelian_barang_tunai"
    [] OTHER -> "beban_lain"

\* What Categorize may return, whatever the AI service answers.
Categorized(type) ==
  {c \in Categories : IsValidCategoryForType(c, type)} \cup {GetFallbackCategory(type)}

\* The rules found for a type and a category: one or none.
GetJournalRule(type, c) ==
  IF type \in DOMAIN RulesOf /\ c \in DOMAIN RulesOf[type] THEN {RulesOf[type][c]}
  ELSE IF c \in DOMAIN SpecialRules THEN {SpecialRules[c]} ELSE {}

\* n/d to the nearest whole; half a unit falls to the side that up says.
Nearest(n, d, up) == (2 * n + d - (IF up THEN 0 ELSE 1)) \div (2 * d)

\* A rate that is not positive is 11 %.
Effective(rate) == IF rate <= 0 THEN 11 ELSE rate

\* DPP and PPN of an amount that includes the tax, as stored.
Base(amount, rate) == Nearest(amount * 100, 100 + rate, tie.base)
Tax(amount, rate) == Nearest(amount * rate, 100 + rate, tie.tax)

IsPPNCategory(c) == c \in {"penjualan_dengan_ppn", "pembelian_dengan_ppn"}

\* Faulty variant: the additional entry is not recognised as PPN.
NoPPNJournalEntry(entry) == FALSE

IsPPNJournalEntry(entry) == entry \in {<<"1-1008", "1-1001">>, <<"1-1001", "2-1005">>}

NeedsTaxSplit(r) == r.includesTax \/ IsPPNCategory(r.category)

Entry(codes, amount) == [debit |-> codes[1], credit |-> codes[2], amount |-> amount]

\* What createAutoJournalEntries books by a rule; HPP at the base amount.
AutoJournalEntries(rule, r, rate) ==
  LET base == IF NeedsTaxSplit(r) THEN Base(r.amount, rate) ELSE r.amount
  IN [i \in DOMAIN rule |->
        Entry(rule[i], IF i > 1 /\ NeedsTaxSplit(r) /\ IsPPNJournalEntry(rule[i])
                       THEN Tax(r.amount, rate) ELSE base)]

\* computePPN: PPN Keluaran or PPN Masukan, or none.  An amount it splits
\* always includes the tax.
ComputePPN(r, rate, isLiable) ==
  LET sales == r.category = "penjualan_dengan_ppn" \/ (r.includesTax /\ r.type \in {"SALES", "CASH_IN"})
      purchase == r.category = "pembelian_dengan_ppn" \/ (r.includesTax /\ r.type = "PURCHASE")
  IN IF NeedsTaxSplit(r) /\ (isLiable \/ r.includesTax) /\ (sales \/ purchase)
     THEN {[account |-> IF sales THEN "2-1005" ELSE "1-1008", amount |-> Tax(r.amount, rate)]}
     ELSE {}

-----------------------------------------------------------------------------
(* Steps.                                                                  *)

NoRequest ==
  [type |-> "JOURNAL", category |-> "", amount |-> 1, includesTax |-> FALSE, mode |-> "SIMPLE"]

JournalsInit ==
  /\ ppnRate = 0 /\ liable = FALSE /\ rates = 0
  /\ tie \in [base : BOOLEAN, tax : BOOLEAN]
  /\ request = NoRequest
  /\ stage = "none"
  /\ since = 0
  /\ taxAmount = 0
  /\ lines = <<>>
  /\ ppn = {}

\* UpdateProfile; the rate is stored with two decimals.
SetRates ==
  /\ rates < MaxRates
  /\ rates' = rates + 1
  /\ \E asked \in AskedRates, up \in BOOLEAN :
       ppnRate' = IF asked = 0 THEN 11 ELSE Nearest(asked, 10, up)
  /\ liable' \in BOOLEAN
  /\ UNCHANGED <<tie, request, stage, since, taxAmount, lines, ppn>>

Refuse(why) ==
  /\ stage' = why
  /\ UNCHANGED <<request, since, taxAmount>>

\* CreateTransaction up to the row of the transaction; its tax_amount is split
\* at the rate of now.  An empty category is the AI's to find in SIMPLE mode.
AskTransaction(type, asked, amount, includesTax, mode) ==
  /\ \E c \in IF asked = "" /\ mode = "SIMPLE" /\ type # "JOURNAL" THEN Categorized(type) ELSE {asked} :
       LET r == [type |-> type, category |-> c, amount |-> amount,
                 includesTax |-> includesTax, mode |-> mode]
       IN IF mode = "SIMPLE" /\ type # "JOURNAL" /\ ~IsValidCategoryForType(c, type)
          THEN Refuse("category")
          ELSE /\ request' = r
               /\ stage' = "taxed"
               /\ since' = rates
               /\ taxAmount' = IF NeedsTaxSplit(r) THEN Tax(amount, Effective(ppnRate)) ELSE 0
  /\ UNCHANGED <<ppnRate, liable, rates, tie, lines, ppn>>

\* createAutoJournalEntries, which reads the rate once more, and the commit;
\* a JOURNAL gets no lines here.
BookTransaction ==
  /\ stage = "taxed"
  /\ IF request.type = "JOURNAL"
     THEN stage' = "booked" /\ UNCHANGED lines
     ELSE \/ /\ GetJournalRule(request.type, request.category) = {}
             /\ stage' = "rule" /\ UNCHANGED lines
          \/ \E rule \in GetJournalRule(request.type, request.category) :
               IF \A i \in DOMAIN rule : {rule[i][1], rule[i][2]} \subseteq DefaultCOATemplate
               THEN /\ stage' = "booked"
                    /\ lines' = AutoJournalEntries(rule, request, Effective(ppnRate))
               ELSE stage' = "account" /\ UNCHANGED lines
  /\ UNCHANGED <<ppnRate, liable, rates, tie, request, since, taxAmount, ppn>>

\* calculateForTransaction, once the ledger has posted.
CalculatePPN ==
  /\ stage = "booked"
  /\ stage' = "calculated"
  /\ ppn' = IF request.type \in {"REVERSAL", "JOURNAL"} THEN {}
            ELSE ComputePPN(request, Effective(ppnRate), liable)
  /\ UNCHANGED <<ppnRate, liable, rates, tie, request, since, taxAmount, lines>>

JournalsNext ==
  \/ SetRates \/ BookTransaction \/ CalculatePPN
  \/ /\ stage = "none"
     /\ \E type \in TransactionTypes, c \in Categories \cup {""}, amount \in Amounts,
           includesTax \in BOOLEAN, mode \in {"SIMPLE", "ADVANCED"} :
          AskTransaction(type, c, amount, includesTax, mode)

-----------------------------------------------------------------------------
(* Properties.                                                             *)

\* What the journal moves on the accounts of S, debits positive.
Moved(S) ==
  MapThenSumSet(LAMBDA i : (IF lines[i].debit \in S THEN lines[i].amount ELSE 0)
                             - (IF lines[i].credit \in S THEN lines[i].amount ELSE 0),
                DOMAIN lines)

\* The tables agree: a category CreateTransaction accepts for a type, or finds
\* itself, has a rule, and the rule's accounts are in the chart that seeding
\* makes.  Only ADVANCED requests without lines, which skip the check, may fail
\* for want of a rule.
AcceptedIsBooked == stage # "account" /\ (stage = "rule" => request.mode = "ADVANCED")

\* Two packages split an amount into base and tax on their own, at three
\* moments: for the row, for the journal, for the tax report.  Under one
\* profile what a PPN category books on the PPN account is the tax_amount of
\* the row, and the PPN calculated, if any, is the same.
TaxAgrees ==
  /\ /\ stage \in {"booked", "calculated"} /\ rates = since
     /\ IsPPNCategory(request.category) /\ request.type # "JOURNAL"
     => Moved({"1-1008"}) - Moved({"2-1005"}) = taxAmount
  /\ stage = "calculated" /\ rates = since =>
       \A p \in ppn : p.amount = taxAmount

\* The cash or credit side of a sale, a purchase or a movement of cash is the
\* amount of the request, to the cent that two roundings may cost; except that
\* of an amount that includes tax the tax is booked nowhere when the category
\* is none of PPN's.
AmountIsBooked ==
  stage \in {"booked", "calculated"} /\ IsValidCategoryForType(request.category, request.type) =>
    LET cash == {"1-1001", "1-1002"}
        money == CASE request.type = "CASH_IN" -> Moved(cash)
                   [] request.type = "CASH_OUT" -> -Moved(cash)
                   [] request.type = "SALES" -> Moved(cash \cup {"1-1003"})
                   [] request.type = "PURCHASE" -> -Moved(cash \cup {"2-1001"})
    IN IF request.includesTax /\ ~IsPPNCategory(request.category)
       THEN rates = since => money + taxAmount - request.amount \in -1..1
       ELSE money - request.amount \in -1..1

\* What USER_FLOW.md says of a sale on credit that includes tax: the journal
\* debits the receivable and credits PPN Keluaran with the tax.
IncludedTaxIsBooked ==
  stage = "booked" /\ rates = since /\ request.type = "SALES" /\ request.includesTax =>
    Moved({"2-1005"}) = -taxAmount

JournalsSpec == JournalsInit /\ [][JournalsNext]_journalVars

\* What a request asks for is what is booked, and what is taxed.
BookedAsAsked == AcceptedIsBooked /\ AmountIsBooked /\ TaxAgrees
=============================================================================
